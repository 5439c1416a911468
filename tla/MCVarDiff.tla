------------------------------ MODULE MCVarDiff ------------------------------
(* Small instances of VarDiff.                                              *)
EXTENDS VarDiff
=============================================================================
