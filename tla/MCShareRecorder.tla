--------------------------- MODULE MCShareRecorder ---------------------------
(* Small instances of ShareRecorder; shares are interchangeable.             *)
EXTENDS ShareRecorder, TLC

ShareSymmetry == Permutations(Shares)
=============================================================================
