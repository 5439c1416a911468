------------------------------- MODULE MCSession -------------------------------
(* Small instances of Session.                                                 *)
EXTENDS Session, TLC

CONSTANTS c1, c2, r1, r2, r3, r4

RequestSymmetry == Permutations(Requests)
=============================================================================
