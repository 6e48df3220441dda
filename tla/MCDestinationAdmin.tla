-------------------------- MODULE MCDestinationAdmin --------------------------
(* Symmetry for TLC. *)
EXTENDS DestinationAdmin, TLC

CONSTANTS disk, share, q1, q2, q3, r1, r2

AdminSymmetry ==
    Permutations({disk, share}) \cup Permutations(Requests) \cup Permutations(Runs)
=============================================================================
