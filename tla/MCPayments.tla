----------------------------- MODULE MCPayments -----------------------------
(* Small instances of Payments. *)
EXTENDS Payments

CONSTANTS p1, p2, alice, bob, fee

OnePool == <<p1>>
TwoPools == <<p1, p2>>

\* All chains start at the same height.
SameBase == [p \in Pools |-> 0]

\* Blocks differ in who earned them; the fee address has a part in each.
MCCredit == [p \in Pools |-> [h \in Heights |-> [a \in Addrs |->
    CASE a = alice -> h % 3 [] a = bob -> 2 [] OTHER -> 1]]]
=============================================================================
