----------------------------- MODULE MCAionJobs -----------------------------
(* Small instances of AionJobs.                                              *)
EXTENDS AionJobs, TLC

CONSTANTS w1, r1, r2, r3, n1, n2, bad, weak, fair, strong

\* "weak" meets difficulty 1, "fair" 2, "strong" 4, which makes a block.
SolutionQuality == [s \in Solutions |->
    CASE s = bad -> 0 [] s = weak -> 1 [] s = fair -> 2 [] s = strong -> 4]

RequestSymmetry == Permutations(Requests)
=============================================================================
