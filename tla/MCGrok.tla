------------------------------- MODULE MCGrok -------------------------------
(* GrokRequests for TLC. *)
EXTENDS GrokRequests, TLC
CONSTANTS r1, r2
Two == {r1, r2}
Symmetry == Permutations(Two)
=============================================================================
