-------------------------- MODULE MCBaselineConfig --------------------------
(* Two processes over every list of up to three buckets with bounds 0..2:   *)
(* LastDay is past the largest bound, so a missing unbounded bucket shows.  *)
(* Names and processes are interchangeable.                                 *)
EXTENDS BaselineConfig, TLC

CONSTANTS p1, p2, n1, n2, n3

MCProcesses == {p1, p2}
MCNames == {n1, n2, n3}
MCBounds == 0..2

Symmetric == Permutations(MCNames) \cup Permutations(MCProcesses)
=============================================================================
