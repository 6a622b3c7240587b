----------------------------- MODULE MCRequests -----------------------------
(* Values for the constants of ClaudeRequests.                              *)
EXTENDS ClaudeRequests, TLC

MCBackoffBase == [rate_limit |-> 2, auth |-> 2, forbidden |-> 2, server |-> 1, network |-> 1]
MCBackoffMax == [rate_limit |-> 2, auth |-> 2, forbidden |-> 2, server |-> 1, network |-> 1]

\* Requests are interchangeable.
Symmetry == Permutations(Callers)
=============================================================================
