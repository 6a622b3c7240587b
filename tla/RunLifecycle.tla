---------------------------- MODULE RunLifecycle ----------------------------
(***************************************************************************)
(* What Agent Runs promises its clients (src/agents): at most              *)
(* max-concurrency runs hold a slot, a run that ends gives its slot back   *)
(* and has a result that never changes, and no more than keep-runs ended   *)
(* runs are kept.  AgentRuns implements it.                                *)
(***************************************************************************)
EXTENDS Naturals, FiniteSets

CONSTANTS
    Runs,            \* the runs clients ask for
    MaxConcurrency,  \* agents.max-concurrency
    KeepRuns         \* agents.keep-runs

Results == {"completed", "failed", "canceled", "timed_out"}

VARIABLES
    active,   \* the runs that hold a slot
    kept,     \* the ended runs a client can still ask for
    result    \* the result of each run that ended, "none" before

lifecycle == <<active, kept, result>>

LifecycleInit == active = {} /\ kept = {} /\ result = [r \in Runs |-> "none"]

Fresh(r) == r \notin active /\ result[r] = "none"

Accept(r) ==
    /\ Fresh(r) /\ Cardinality(active) < MaxConcurrency
    /\ active' = active \cup {r} /\ UNCHANGED <<kept, result>>

\* The run could not be prepared: the client gets an error instead of a run.
Abandon(r) == r \in active /\ active' = active \ {r} /\ UNCHANGED <<kept, result>>

\* An ended run is forgotten only when there is no room for it.
End(r) ==
    /\ r \in active /\ active' = active \ {r}
    /\ \E outcome \in Results : result' = [result EXCEPT ![r] = outcome]
    /\ \/ kept' = kept \cup {r} /\ Cardinality(kept) < KeepRuns
       \/ /\ Cardinality(kept) = KeepRuns
          /\ \E old \in kept \cup {r} : kept' = (kept \cup {r}) \ {old}

LifecycleNext == \E r \in Runs : Accept(r) \/ Abandon(r) \/ End(r)

LifecycleSpec == LifecycleInit /\ [][LifecycleNext]_lifecycle
=============================================================================
