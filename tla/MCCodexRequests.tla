-------------------------- MODULE MCCodexRequests --------------------------
(* The symmetry of CodexRequests for TLC.                                   *)
EXTENDS CodexRequests

\* Callers are alike.
CallerSymmetry == Permutations(Callers)
=============================================================================
