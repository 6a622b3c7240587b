---------------------------- MODULE MCAgentRuns ----------------------------
(* Values for the constants of AgentRuns: the kinds of runners.             *)
EXTENDS AgentRuns, TLC

Obedient == [child |-> "alive", helper |-> "none"]
WithHelper == [child |-> "alive", helper |-> "alive"]
Stubborn == [child |-> "stubborn", helper |-> "alive"]
StubbornHelper == [child |-> "alive", helper |-> "stubborn"]

MCTame == {Obedient, Stubborn}
MCAny == {Obedient, Stubborn, StubbornHelper}
MCSimple == {Obedient}
MCHelpers == {WithHelper, StubbornHelper}

\* Runs are interchangeable.
Symmetry == Permutations(Runs)
=============================================================================
