------------------------------- MODULE Ledger -------------------------------
(***************************************************************************)
(* What the payment processing of the pool promises, with neither threads, *)
(* daemons nor transactions in sight: every block a pool wins is credited  *)
(* to the accounts once, and an account is only ever struck off in full.   *)
(* Payments is shown to implement this module.                             *)
(***************************************************************************)
EXTENDS Integers

CONSTANTS Pools,      \* pool ids
          Addrs,      \* payout addresses
          Heights,    \* heights at which pools win blocks
          Credit      \* Credit[p][h][a]: what block h of pool p is worth to a

VARIABLES balance,    \* balance[p][a]: owed by pool p to address a
          debits,     \* debits[p][a]: struck off the balance so far
          credited    \* credited[p]: the blocks whose reward was distributed

vars == <<balance, debits, credited>>

Init == /\ balance = [p \in Pools |-> [a \in Addrs |-> 0]]
        /\ debits = [p \in Pools |-> [a \in Addrs |-> 0]]
        /\ credited = [p \in Pools |-> {}]

\* The reward of block h is added to every account it belongs to, once.
CreditBlock(p, h) ==
    /\ h \notin credited[p]
    /\ credited' = [credited EXCEPT ![p] = @ \cup {h}]
    /\ balance' = [balance EXCEPT ![p] = [a \in Addrs |-> @[a] + Credit[p][h][a]]]
    /\ UNCHANGED debits

\* A payment strikes off the whole balance.
PayAccount(p, a) ==
    /\ balance[p][a] > 0
    /\ debits' = [debits EXCEPT ![p][a] = @ + balance[p][a]]
    /\ balance' = [balance EXCEPT ![p][a] = 0]
    /\ UNCHANGED credited

Next == \E p \in Pools : \/ \E h \in Heights : CreditBlock(p, h)
                         \/ \E a \in Addrs : PayAccount(p, a)

Spec == Init /\ [][Next]_vars
=============================================================================
