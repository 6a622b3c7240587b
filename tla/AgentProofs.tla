----------------------------- MODULE AgentProofs -----------------------------
(* Proofs about AgentRuns, for every set of runs, every limit and every kind *)
(* of runner: it counts its slots, what is kept and what is left of the runs *)
(* that have ended, and that it implements RunLifecycle.                     *)
EXTENDS AgentRuns, FiniteSetTheorems, WellFoundedInduction, TLAPS

-----------------------------------------------------------------------------
(* The slots *)

\* The inductive invariant: SlotsAreCounted, and that a process lives only
\* while executeRun awaits it.
SlotInv ==
    /\ step \in [Runs -> Steps] /\ proc \in [Runs -> Process]
    /\ runningCount = Cardinality(Holding) /\ runningCount <= MaxConcurrency
    /\ \A r \in Runs : Alive(r) => step[r] = "process"

\* The runs that hold a slot are finitely many.
LEMMA HoldingFinite ==
  IsFiniteSet(Holding) /\ Cardinality(Holding) \in Nat
<1>1. Holding \subseteq Runs BY DEF Holding
<1>2. IsFiniteSet(Holding) BY <1>1, RunsAssumption, FS_Subset
<1> QED BY <1>2, FS_CardinalityType

\* Accept adds a slot.
LEMMA SlotTaken ==
  ASSUME SlotInv, NEW r \in Runs, step[r] = "new", step' = [step EXCEPT ![r] = "preparing"]
  PROVE  Cardinality(Holding') = Cardinality(Holding) + 1
<1>1. Holding' = Holding \cup {r} BY DEF SlotInv, Holding
<1>2. r \notin Holding BY DEF Holding
<1> QED BY <1>1, <1>2, HoldingFinite, FS_AddElement

\* A step from one place that holds the slot to another keeps the slots.
LEMMA SlotKept ==
  ASSUME SlotInv, NEW r \in Holding, NEW s \in Steps \ {"new", "refused", "done"},
         step' = [step EXCEPT ![r] = s]
  PROVE  Holding' = Holding
BY DEF SlotInv, Holding

\* A step out of them gives one slot back.
LEMMA SlotGiven ==
  ASSUME SlotInv, NEW r \in Holding, NEW s \in {"refused", "done"},
         step' = [step EXCEPT ![r] = s]
  PROVE  Cardinality(Holding') = Cardinality(Holding) - 1
<1>1. Holding' = Holding \ {r} BY DEF SlotInv, Holding
<1> QED BY <1>1, HoldingFinite, FS_RemoveElement

\* Signals and exits keep processes well-formed and bring none to life.
LEMMA ProcessType ==
  ASSUME NEW p \in Process
  PROVE  /\ Terminated(p) \in Process
         /\ [Terminated(p) EXCEPT !.timedOut = TRUE] \in Process
         /\ (Terminated(p).child \in Living => p.child \in Living)
         /\ (Terminated(p).helper \in Living => p.helper \in Living)
BY DEF Terminated, Process, Living

\* What Catch and Finish do to the slots: the run keeps its slot, or ends and
\* gives it back.
LEMMA EndOfRun ==
  ASSUME SlotInv, NEW r \in Holding, NEW rec, Catch(r, rec) \/ Finish(r, rec)
  PROVE  /\ step' \in [Runs -> Steps]
         /\ runningCount' = Cardinality(Holding') /\ runningCount' <= MaxConcurrency
         /\ \A q \in Runs : q # r => step'[q] = step[q]
<1>1. CASE step' = [step EXCEPT ![r] = "salvaging"] /\ UNCHANGED runningCount
  <2>1. Holding' = Holding BY <1>1, SlotKept DEF Steps
  <2> QED BY <1>1, <2>1 DEF SlotInv, Steps
<1>2. CASE step' = [step EXCEPT ![r] = "done"] /\ runningCount' = runningCount - 1
  <2>1. Cardinality(Holding') = Cardinality(Holding) - 1 BY <1>2, SlotGiven
  <2>2. runningCount' = Cardinality(Holding') BY <1>2, <2>1 DEF SlotInv
  <2>3. runningCount - 1 <= MaxConcurrency
    BY HoldingFinite, RunsAssumption DEF SlotInv
  <2>4. step' \in [Runs -> Steps] /\ \A q \in Runs : q # r => step'[q] = step[q]
    BY <1>2 DEF SlotInv, Steps
  <2> QED BY <1>2, <2>2, <2>3, <2>4
<1>3. Finish(r, rec) => step' = [step EXCEPT ![r] = "done"] /\ runningCount' = runningCount - 1
  BY DEF Finish, Goto
<1>4. Catch(r, rec) => \/ step' = [step EXCEPT ![r] = "salvaging"] /\ UNCHANGED runningCount
                       \/ step' = [step EXCEPT ![r] = "done"] /\ runningCount' = runningCount - 1
  BY DEF Catch, Finish, Goto
<1> QED BY <1>1, <1>2, <1>3, <1>4

\* Every step of a run, of a timer or of a process keeps the invariant.
LEMMA NextSlots ==
  ASSUME SlotInv, Next
  PROVE  SlotInv'
<1>1. PICK r \in Runs :
        \/ Refuse(r) \/ Accept(r) \/ RunStep(r)
        \/ Timeout(r) \/ ForceKill(r) \/ Cancel(r) \/ WaitExpires(r)
        \/ ChildExits(r) \/ HelperExits(r)
  BY DEF Next
<1>2. ASSUME UNCHANGED <<step, runningCount>>,
             proc' \in [Runs -> Process],
             \A q \in Runs : Alive(q)' => Alive(q)
      PROVE  SlotInv'
  BY <1>2 DEF SlotInv, Holding
<1>3. ASSUME NEW p \in Process, proc' = [proc EXCEPT ![r] = p],
             p.child \in Living \/ p.helper \in Living => Alive(r),
             UNCHANGED <<step, runningCount>>
      PROVE  SlotInv'
  BY <1>2, <1>3 DEF SlotInv, Alive
<1>4. ASSUME step' \in [Runs -> Steps], UNCHANGED proc, ~Alive(r),
             runningCount' = Cardinality(Holding'), runningCount' <= MaxConcurrency,
             \A q \in Runs : q # r => step'[q] = step[q]
      PROVE  SlotInv'
  BY <1>4 DEF SlotInv, Alive
<1>5. CASE Refuse(r)
  <2>1. step' = [step EXCEPT ![r] = "refused"] /\ UNCHANGED <<runningCount, proc>>
        /\ step[r] = "new"
    BY <1>5 DEF Refuse, Goto, At
  <2>2. Holding' = Holding BY <2>1 DEF SlotInv, Holding
  <2> QED BY <2>1, <2>2 DEF SlotInv, Alive, Steps
<1>6. CASE Accept(r)
  <2>1. step' = [step EXCEPT ![r] = "preparing"] /\ step[r] = "new" /\ UNCHANGED proc
        /\ runningCount < MaxConcurrency /\ runningCount' = runningCount + 1
    BY <1>6 DEF Accept, Goto, At
  <2>2. Cardinality(Holding') = Cardinality(Holding) + 1 BY <2>1, SlotTaken
  <2>3. ~Alive(r) BY <2>1 DEF SlotInv
  <2> QED BY <1>4, <2>1, <2>2, <2>3, HoldingFinite, RunsAssumption DEF SlotInv, Steps
<1>7. CASE PrepareFails(r)
  <2>1. step' = [step EXCEPT ![r] = "refused"] /\ step[r] = "preparing" /\ UNCHANGED proc
        /\ runningCount' = runningCount - 1
    BY <1>7 DEF PrepareFails, Goto, At
  <2>2. Cardinality(Holding') = Cardinality(Holding) - 1
    BY <2>1, SlotGiven DEF Holding
  <2>3. ~Alive(r) BY <2>1 DEF SlotInv
  <2> QED BY <1>4, <2>1, <2>2, <2>3, HoldingFinite, RunsAssumption DEF SlotInv, Steps
<1>8. CASE Prepared(r)
  <2>1. r \in Holding BY <1>8 DEF Prepared, At, Holding
  <2>2. PICK s \in {"process", "salvaging"} :
          /\ step' = [step EXCEPT ![r] = s] /\ UNCHANGED runningCount
          /\ \/ UNCHANGED proc
             \/ /\ s = "process"
                /\ \E p \in Process : proc' = [proc EXCEPT ![r] = p]
    BY <1>8, GroupsAssumption DEF Prepared, Goto, AllGroups, Process, Living
  <2>3. Holding' = Holding BY <2>1, <2>2, SlotKept DEF Steps
  <2>4. step[r] = "preparing" BY <1>8 DEF Prepared, At
  <2> QED BY <2>2, <2>3, <2>4 DEF SlotInv, Alive, Steps
<1>9. CASE Close(r)
  <2>1. r \in Holding BY <1>9 DEF Close, At, Holding
  <2>2. PICK rec : \/ step' = [step EXCEPT ![r] = "collecting"] /\ UNCHANGED runningCount
                   \/ Catch(r, rec)
    BY <1>9, Zenon DEF Close, Goto
  <2>3. /\ step' \in [Runs -> Steps]
        /\ runningCount' = Cardinality(Holding') /\ runningCount' <= MaxConcurrency
        /\ \A q \in Runs : q # r => step'[q] = step[q]
    <3>1. CASE step' = [step EXCEPT ![r] = "collecting"] /\ UNCHANGED runningCount
      <4>1. Holding' = Holding BY <2>1, <3>1, SlotKept DEF Steps
      <4> QED BY <3>1, <4>1 DEF SlotInv, Steps
    <3>2. CASE Catch(r, rec) BY <2>1, <3>2, EndOfRun
    <3> QED BY <2>2, <3>1, <3>2
  <2>4. proc' = [proc EXCEPT ![r] = NoProcess] BY <1>9 DEF Close
  <2> QED BY <2>3, <2>4 DEF SlotInv, Alive, NoProcess, Process, Living
<1>10. CASE Collect(r)
  <2>1. r \in Holding /\ ~Alive(r) /\ UNCHANGED proc
    BY <1>10 DEF Collect, At, Holding, SlotInv
  <2>2. CASE step' = [step EXCEPT ![r] = "archiving"] /\ UNCHANGED runningCount
    <3>1. Holding' = Holding BY <2>1, <2>2, SlotKept DEF Steps
    <3> QED BY <1>4, <2>1, <2>2, <3>1 DEF SlotInv, Steps
  <2>3. CASE Catch(r, record[r]) BY <1>4, <2>1, <2>3, EndOfRun
  <2> QED BY <1>10, <2>2, <2>3 DEF Collect, Goto
<1>11. CASE Archive(r)
  <2>1. r \in Holding /\ ~Alive(r) /\ UNCHANGED proc
    BY <1>11 DEF Archive, At, Holding, SlotInv
  <2>2. PICK rec : Finish(r, rec) \/ Catch(r, rec) BY <1>11 DEF Archive
  <2> QED BY <1>4, <2>1, <2>2, EndOfRun
<1>12. CASE Salvage(r)
  <2>1. r \in Holding /\ ~Alive(r) /\ UNCHANGED proc
    BY <1>12 DEF Salvage, At, Holding, SlotInv
  <2>2. PICK rec : Finish(r, rec) BY <1>12 DEF Salvage
  <2> QED BY <1>4, <2>1, <2>2, EndOfRun
<1>13. CASE Timeout(r)
  <2> DEFINE p == [Terminated(proc[r]) EXCEPT !.timedOut = TRUE]
  <2>1. proc[r] \in Process BY DEF SlotInv
  <2>2. proc' = [proc EXCEPT ![r] = p] /\ UNCHANGED <<step, runningCount>>
    BY <1>13 DEF Timeout, server
  <2>3. p \in Process BY <2>1, ProcessType
  <2>4. p.child = Terminated(proc[r]).child /\ p.helper = Terminated(proc[r]).helper
    BY <2>1, ProcessType DEF Process
  <2> HIDE DEF p
  <2> QED BY <1>3, <2>1, <2>2, <2>3, <2>4, ProcessType DEF Alive
<1>14. CASE ForceKill(r)
  <2>1. proc[r] \in Process BY DEF SlotInv
  <2>2. [proc[r] EXCEPT !.child = "dead"] \in Process BY <2>1 DEF Process
  <2>3. proc' = [proc EXCEPT ![r] = [proc[r] EXCEPT !.child = "dead"]]
        /\ UNCHANGED <<step, runningCount>>
    BY <1>14 DEF ForceKill, server
  <2> QED BY <1>3, <2>1, <2>2, <2>3 DEF Alive, Process, Living
<1>15. CASE Cancel(r)
  <2>1. proc[r] \in Process BY DEF SlotInv
  <2>2. UNCHANGED <<step, runningCount>>
        /\ (proc' = [proc EXCEPT ![r] = Terminated(proc[r])] \/ UNCHANGED proc)
    BY <1>15 DEF Cancel
  <2>3. CASE UNCHANGED proc BY <1>2, <2>2, <2>3 DEF SlotInv, Alive
  <2>4. CASE proc' = [proc EXCEPT ![r] = Terminated(proc[r])]
    BY <1>3, <2>1, <2>2, <2>4, ProcessType DEF Alive
  <2> QED BY <2>2, <2>3, <2>4
<1>16. CASE WaitExpires(r)
  BY <1>2, <1>16 DEF WaitExpires, SlotInv, Alive
<1>17. CASE ChildExits(r)
  <2>1. proc[r] \in Process BY DEF SlotInv
  <2>2. PICK ok \in BOOLEAN : proc' = [proc EXCEPT ![r].child = "dead", ![r].ok = ok]
    BY <1>17 DEF ChildExits
  <2>3. [proc[r] EXCEPT !.child = "dead", !.ok = ok] \in Process BY <2>1 DEF Process
  <2>4. proc' = [proc EXCEPT ![r] = [proc[r] EXCEPT !.child = "dead", !.ok = ok]]
    BY <2>2 DEF SlotInv
  <2>5. UNCHANGED <<step, runningCount>> BY <1>17 DEF ChildExits, server
  <2> QED BY <1>3, <2>1, <2>3, <2>4, <2>5 DEF Alive, Process, Living
<1>18. CASE HelperExits(r)
  <2>1. proc[r] \in Process BY DEF SlotInv
  <2>2. [proc[r] EXCEPT !.helper = "dead"] \in Process BY <2>1 DEF Process
  <2>3. proc' = [proc EXCEPT ![r] = [proc[r] EXCEPT !.helper = "dead"]]
        /\ UNCHANGED <<step, runningCount>>
    BY <1>18 DEF HelperExits, server
  <2> QED BY <1>3, <2>1, <2>2, <2>3 DEF Alive, Process, Living
<1> QED BY <1>1, <1>5, <1>6, <1>7, <1>8, <1>9, <1>10, <1>11, <1>12, <1>13, <1>14,
           <1>15, <1>16, <1>17, <1>18 DEF RunStep

\* On every path through createRun and executeRun, whatever fails and however
\* runs, timers and cancellations interleave: runningCount is the number of runs
\* that hold a slot, never above max-concurrency, and no runner lives without one.
THEOREM SlotsCounted == Spec => []SlotsAreCounted
<1>1. Init => SlotInv
  <2> SUFFICES ASSUME Init PROVE SlotInv OBVIOUS
  <2>1. Holding = {} BY DEF Init, Holding
  <2>2. Cardinality(Holding) = 0 BY <2>1, FS_EmptySet
  <2> QED BY <2>2, RunsAssumption
          DEF Init, SlotInv, Steps, Process, NoProcess, Living, Alive
<1>2. SlotInv /\ [Next]_vars => SlotInv'
  <2>1. SlotInv /\ UNCHANGED vars => SlotInv'
    BY DEF vars, server, SlotInv, Holding, Alive
  <2> QED BY <2>1, NextSlots
<1>3. SlotInv => SlotsAreCounted
  BY DEF SlotInv, SlotsAreCounted, Holding
<1> QED BY <1>1, <1>2, <1>3, PTL DEF Spec

-----------------------------------------------------------------------------
(* The runs that retention drops *)

\* No two registered runs have one place in the runs map.
Placed == /\ Registered \subseteq Runs /\ runs \in [Registered -> Nat]
          /\ \A q, r \in Registered : runs[q] = runs[r] => q = r

\* Sets of runs are finite.
LEMMA RunsFinite ==
  ASSUME NEW S \in SUBSET Runs
  PROVE  IsFiniteSet(S) /\ Cardinality(S) \in Nat
BY RunsAssumption, FS_Subset, FS_CardinalityType

\* A non-empty set of numbers has a least one.
LEMMA HasLeast ==
  ASSUME NEW S, S \subseteq Nat, S # {}
  PROVE  \E n \in S : \A m \in S : n <= m
<1>1. PICK n \in S : \A m \in S : ~(<<m, n>> \in OpToRel(<, Nat))
  BY NatLessThanWellFounded, WFMin, Zenon
<1>2. ASSUME NEW m \in S PROVE n <= m
  <2>1. ~(m < n) BY <1>1 DEF OpToRel
  <2> QED BY <2>1
<1> QED BY <1>2

\* The order of cleanupOldRuns is total, so that one of any runs ended first.
LEMMA EndedFirst ==
  ASSUME Placed, NEW recs \in [Runs -> Record], Finished(recs) # {}
  PROVE  \E old \in Finished(recs) :
            \A r \in Finished(recs) \ {old} :
                EndedBefore(recs, old, r) /\ ~EndedBefore(recs, r, old)
<1> DEFINE Times == {recs[r].finishedAt : r \in Finished(recs)}
<1>1. Finished(recs) \subseteq Registered /\ Finished(recs) \subseteq Runs
  BY DEF Finished, Placed
<1>2. Times \subseteq Nat BY <1>1 DEF Record
<1>3. PICK t \in Times : \A u \in Times : t <= u
  <2>1. Times # {} OBVIOUS
  <2> HIDE DEF Times
  <2> QED BY <1>2, <2>1, HasLeast
<1> DEFINE First == {r \in Finished(recs) : recs[r].finishedAt = t}
           Places == {runs[r] : r \in First}
<1>4. First # {} BY <1>3
<1>5. Places \subseteq Nat BY <1>1 DEF Placed
<1>6. PICK p \in Places : \A u \in Places : p <= u
  <2>1. Places # {} BY <1>4
  <2> HIDE DEF Places
  <2> QED BY <1>5, <2>1, HasLeast
<1>7. PICK old \in First : runs[old] = p BY <1>6
<1>8. ASSUME NEW r \in Finished(recs) \ {old}
      PROVE  EndedBefore(recs, old, r) /\ ~EndedBefore(recs, r, old)
  <2>1. recs[old].finishedAt = t /\ recs[r].finishedAt \in Nat /\ t <= recs[r].finishedAt /\ t \in Nat
    BY <1>1, <1>2, <1>3, <1>7 DEF Record
  <2>2. CASE recs[r].finishedAt = t
    <3>1. r \in First BY <2>2
    <3>2. p <= runs[r] /\ runs[r] # p BY <1>1, <1>6, <1>7, <3>1 DEF Placed
    <3>3. runs[r] \in Nat /\ p \in Nat BY <1>1, <1>5, <1>6 DEF Placed
    <3> QED BY <1>7, <2>1, <2>2, <3>2, <3>3 DEF EndedBefore
  <2>3. CASE recs[r].finishedAt # t BY <2>1, <2>3 DEF EndedBefore
  <2> QED BY <2>2, <2>3
<1>9. old \in Finished(recs) BY <1>7
<1> QED BY <1>8, <1>9

\* With no more than keep-runs ended runs, none is dropped; with one more, the
\* one that ended first is.
LEMMA OneTooMany ==
  ASSUME Placed, NEW recs \in [Runs -> Record],
         Cardinality(Finished(recs)) <= KeepRuns + 1
  PROVE  \/ Cardinality(Finished(recs)) <= KeepRuns /\ Stale(recs) = {}
         \/ /\ Cardinality(Finished(recs)) = KeepRuns + 1
            /\ \E old \in Finished(recs) :
                 /\ Stale(recs) = {old}
                 /\ \A r \in Finished(recs) \ {old} : EndedBefore(recs, old, r)
<1> DEFINE F == Finished(recs)
           After(r) == {q \in F : EndedBefore(recs, r, q)}
<1>1. F \subseteq Registered /\ F \in SUBSET Runs BY DEF Finished, Placed
<1>2. IsFiniteSet(F) /\ Cardinality(F) \in Nat /\ KeepRuns \in Nat
  BY <1>1, RunsFinite, RunsAssumption
<1>3. ASSUME NEW r \in F PROVE ~EndedBefore(recs, r, r)
  <2>1. recs[r].finishedAt \in Nat /\ runs[r] \in Nat BY <1>1 DEF Placed, Record
  <2> QED BY <2>1 DEF EndedBefore
<1>4. Stale(recs) = {r \in F : Cardinality(After(r)) >= KeepRuns} BY DEF Stale
<1>5. CASE Cardinality(F) <= KeepRuns
  <2>1. ASSUME NEW r \in F PROVE ~(Cardinality(After(r)) >= KeepRuns)
    <3>1. IsFiniteSet(F \ {r}) /\ Cardinality(F \ {r}) = Cardinality(F) - 1
      BY <1>2, FS_RemoveElement
    <3>2. After(r) \in SUBSET (F \ {r}) BY <1>3
    <3>3. Cardinality(After(r)) <= Cardinality(F) - 1 BY <3>1, <3>2, FS_Subset
    <3>4. Cardinality(After(r)) \in Nat BY <1>1, RunsFinite
    <3> QED BY <1>2, <1>5, <3>3, <3>4
  <2> QED BY <1>4, <1>5, <2>1
<1>6. CASE Cardinality(F) = KeepRuns + 1
  <2>1. F # {} BY <1>2, <1>6, FS_EmptySet
  <2>2. PICK old \in F : \A r \in F \ {old} : EndedBefore(recs, old, r) /\ ~EndedBefore(recs, r, old)
    BY <2>1, EndedFirst
  <2>3. IsFiniteSet(F \ {old}) /\ Cardinality(F \ {old}) = KeepRuns
    BY <1>2, <1>6, FS_RemoveElement
  <2>4. After(old) = F \ {old} BY <1>3, <2>2
  <2>5. old \in Stale(recs) BY <1>2, <1>4, <2>3, <2>4
  <2>6. ASSUME NEW r \in F \ {old} PROVE r \notin Stale(recs)
    <3>1. /\ IsFiniteSet((F \ {old}) \ {r})
          /\ Cardinality((F \ {old}) \ {r}) = KeepRuns - 1
      BY <2>3, FS_RemoveElement
    <3>2. After(r) \in SUBSET ((F \ {old}) \ {r}) BY <1>3, <2>2
    <3>3. Cardinality(After(r)) <= KeepRuns - 1 BY <3>1, <3>2, FS_Subset
    <3>4. Cardinality(After(r)) \in Nat BY <1>1, RunsFinite
    <3> QED BY <1>2, <1>4, <3>3, <3>4
  <2>7. Stale(recs) = {old} BY <1>4, <2>5, <2>6
  <2> QED BY <1>6, <2>2, <2>7
<1> QED BY <1>2, <1>5, <1>6

-----------------------------------------------------------------------------
(* The kinds of steps *)

Executing == {"process", "collecting", "archiving", "salvaging"}
Kept == {r \in Registered : record[r].finishedAt # 0}

\* The inductive invariant.  A run is registered from the end of createRun until
\* retention drops it, and never before its end; its place is its own; it has ended
\* when finished_at is set, and its status is final from the close event on.
RunInv ==
    /\ SlotInv /\ Placed
    /\ record \in [Runs -> Record]
    /\ Registered \subseteq Begun
    /\ \A r \in Registered : runs[r] < Cardinality(Begun)
    /\ \A r \in Begun : step[r] # "done" => r \in Registered
    /\ \A r \in Runs : record[r].finishedAt # 0 => step[r] = "done"
    /\ \A r \in Begun : step[r] # "process" => Terminal(record[r].status)
    /\ Cardinality(Kept) <= KeepRuns

\* A run goes on or is canceled, without an end.
Moves(r) == \E s \in Executing, rec \in Record :
    /\ step[r] \in Executing /\ step' = [step EXCEPT ![r] = s]
    /\ record' = [record EXCEPT ![r] = rec] /\ rec.finishedAt = 0
    /\ s # "process" => Terminal(rec.status)
    /\ UNCHANGED <<runs, dirs>>

\* It ends.
Ends(r) == \E rec \in Record :
    step[r] \in Executing /\ Terminal(rec.status) /\ Finish(r, rec)

\* Nothing of what is said here changes.
Quiet == UNCHANGED <<runs, record, step, dirs>>

\* Catch moves a run on or ends it, with a final status.
LEMMA CatchKind ==
  ASSUME RunInv, NEW r \in Runs, step[r] \in Executing, NEW rec \in Record,
         Terminal(rec.status), rec.finishedAt = 0, Catch(r, rec)
  PROVE  Moves(r) \/ Ends(r)
<1> DEFINE failed == [rec EXCEPT !.status = IF @ = "canceled" THEN @ ELSE "failed"]
<1>1. failed \in Record /\ Terminal(failed.status) /\ failed.finishedAt = 0
  BY DEF Record, Statuses, Terminal
<1>2. \/ /\ step' = [step EXCEPT ![r] = "salvaging"] /\ record' = [record EXCEPT ![r] = failed]
         /\ UNCHANGED <<runs, dirs>>
      \/ Finish(r, failed)
  BY DEF Catch, Goto, Put
<1> HIDE DEF failed
<1> QED BY <1>1, <1>2 DEF Moves, Ends, Executing

\* A run that executes has not ended.
LEMMA Unended ==
  ASSUME RunInv, NEW r \in Runs, step[r] # "done"
  PROVE  record[r] \in Record /\ record[r].finishedAt = 0
BY DEF RunInv

\* Each step is one of these.
LEMMA Kinds ==
  ASSUME RunInv, [Next]_vars
  PROVE  \/ Quiet
         \/ \E r \in Runs : Refuse(r) \/ Accept(r) \/ PrepareFails(r) \/ Prepared(r)
                             \/ Moves(r) \/ Ends(r)
<1>1. CASE UNCHANGED vars BY <1>1 DEF vars, server, Quiet
<1>2. ASSUME NEW r \in Runs,
             Timeout(r) \/ ForceKill(r) \/ WaitExpires(r) \/ ChildExits(r) \/ HelperExits(r)
      PROVE  Quiet
  BY <1>2 DEF Timeout, ForceKill, WaitExpires, ChildExits, HelperExits, server, Quiet
<1>3. ASSUME NEW r \in Runs, Cancel(r) PROVE Quiet \/ Moves(r)
  <2>1. CASE r \in running /\ ~Terminal(record[r].status)
    <3>1. step[r] = "process" /\ step' = [step EXCEPT ![r] = "process"]
      BY <1>3, <2>1 DEF Cancel, RunInv, SlotInv
    <3>2. record[r] \in Record /\ record[r].finishedAt = 0 BY <3>1, Unended
    <3>3. [record[r] EXCEPT !.status = "canceled"] \in Record
          /\ [record[r] EXCEPT !.status = "canceled"].finishedAt = 0
      BY <3>2 DEF Record, Statuses
    <3>4. record' = [record EXCEPT ![r] = [record[r] EXCEPT !.status = "canceled"]]
          /\ UNCHANGED <<runs, dirs>>
      BY <1>3, <2>1 DEF Cancel, Put
    <3> QED BY <3>1, <3>3, <3>4 DEF Moves, Executing
  <2>2. CASE ~(r \in running /\ ~Terminal(record[r].status))
    BY <1>3, <2>2 DEF Cancel, Quiet
  <2> QED BY <2>1, <2>2
<1>4. ASSUME NEW r \in Runs, Close(r) PROVE Moves(r) \/ Ends(r)
  <2>1. step[r] = "process" BY <1>4 DEF Close, At
  <2>2. record[r] \in Record /\ record[r].finishedAt = 0 BY <2>1, Unended
  <2>3. PICK status \in Statuses \ {"running"} :
          LET rec == [record[r] EXCEPT !.status = status]
          IN  \/ /\ step' = [step EXCEPT ![r] = "collecting"]
                 /\ record' = [record EXCEPT ![r] = rec] /\ UNCHANGED <<runs, dirs>>
              \/ Catch(r, rec)
    <3> DEFINE st == CASE record[r].status = "canceled" -> "canceled"
                       [] record[r].status # "canceled" /\ proc[r].timedOut -> "timed_out"
                       [] OTHER -> IF proc[r].ok THEN "completed" ELSE "failed"
    <3>1. st \in Statuses \ {"running"} BY DEF Statuses
    <3>2. LET rec == [record[r] EXCEPT !.status = st]
          IN  \/ /\ step' = [step EXCEPT ![r] = "collecting"]
                 /\ record' = [record EXCEPT ![r] = rec] /\ UNCHANGED <<runs, dirs>>
              \/ Catch(r, rec)
      BY <1>4, Zenon DEF Close, Goto, Put
    <3> HIDE DEF st
    <3> QED BY <3>1, <3>2
  <2> DEFINE rec == [record[r] EXCEPT !.status = status]
  <2>4. rec \in Record /\ Terminal(rec.status) /\ rec.finishedAt = 0
    BY <2>2, <2>3 DEF Record, Statuses, Terminal
  <2>5. \/ /\ step' = [step EXCEPT ![r] = "collecting"]
           /\ record' = [record EXCEPT ![r] = rec] /\ UNCHANGED <<runs, dirs>>
        \/ Catch(r, rec)
    BY <2>3
  <2> HIDE DEF rec
  <2> QED BY <2>1, <2>4, <2>5, CatchKind DEF Moves, Executing
<1>5. ASSUME NEW r \in Runs, Collect(r) PROVE Moves(r) \/ Ends(r)
  <2>1. step[r] = "collecting" BY <1>5 DEF Collect, At
  <2>2. record[r] \in Record /\ record[r].finishedAt = 0 /\ Terminal(record[r].status)
    BY <2>1, Unended DEF RunInv, Begun
  <2>3. \/ step' = [step EXCEPT ![r] = "archiving"] /\ UNCHANGED <<runs, dirs, record>>
        \/ Catch(r, record[r])
    BY <1>5 DEF Collect, Goto
  <2>4. record = [record EXCEPT ![r] = record[r]] BY DEF RunInv
  <2> QED BY <2>1, <2>2, <2>3, <2>4, CatchKind DEF Moves, Executing
<1>6. ASSUME NEW r \in Runs, Archive(r) \/ Salvage(r) PROVE Moves(r) \/ Ends(r)
  <2>1. step[r] \in {"archiving", "salvaging"} BY <1>6 DEF Archive, Salvage, At
  <2>2. record[r] \in Record /\ record[r].finishedAt = 0 /\ Terminal(record[r].status)
    BY <2>1, Unended DEF RunInv, Begun
  <2>3. PICK b \in BOOLEAN : Finish(r, [record[r] EXCEPT !.artifacts = b]) \/ Catch(r, record[r])
    BY <1>6 DEF Archive, Salvage
  <2>4. [record[r] EXCEPT !.artifacts = b] \in Record
        /\ Terminal([record[r] EXCEPT !.artifacts = b].status)
    BY <2>2 DEF Record
  <2> QED BY <2>1, <2>2, <2>3, <2>4, CatchKind DEF Ends, Executing
<1> QED BY <1>1, <1>2, <1>3, <1>4, <1>5, <1>6 DEF Next, RunStep

-----------------------------------------------------------------------------
(* The invariant *)

\* The end of a run: it is among the ended ones; if they are too many now, the
\* one that ended first goes.
EndedWith(r, recs, out) ==
    /\ out = Stale(recs) /\ record' = recs
    /\ recs[r].finishedAt # 0 /\ Terminal(recs[r].status)
    /\ \A q \in Runs \ {r} : recs[q] = record[q]
    /\ runs' = [q \in Registered \ out |-> runs[q]]
    /\ step' = [step EXCEPT ![r] = "done"]
    /\ dirs' = dirs \ out \/ (RemovalFails /\ UNCHANGED dirs)
    /\ r \in Registered /\ r \notin Kept /\ out \subseteq Kept \cup {r}
    /\ \/ Cardinality(Kept) < KeepRuns /\ out = {}
       \/ /\ Cardinality(Kept) = KeepRuns
          /\ \E old \in Kept \cup {r} :
               out = {old} /\ \A q \in (Kept \cup {r}) \ {old} : EndedBefore(recs, old, q)

\* Finish() of a registered run is such an end.
LEMMA EndKeeps ==
  ASSUME RunInv, NEW r \in Runs, Ends(r)
  PROVE  \E recs \in [Runs -> Record], out \in SUBSET Runs : EndedWith(r, recs, out)
<1>1. PICK rec \in Record : step[r] \in Executing /\ Terminal(rec.status) /\ Finish(r, rec)
  BY DEF Ends
<1>2. PICK now \in Now :
        LET recs == [record EXCEPT ![r] = [rec EXCEPT !.finishedAt = now]]
        IN  /\ record' = recs
            /\ runs' = Restrict(runs, Registered \ Stale(recs))
            /\ \/ dirs' = dirs \ Stale(recs)
               \/ RemovalFails /\ UNCHANGED dirs
  BY <1>1, Zenon DEF Finish
<1> DEFINE recs == [record EXCEPT ![r] = [rec EXCEPT !.finishedAt = now]]
<1>3. record' = recs /\ runs' = [q \in Registered \ Stale(recs) |-> runs[q]]
  BY <1>2 DEF Restrict
<1>4. dirs' = dirs \ Stale(recs) \/ (RemovalFails /\ UNCHANGED dirs) BY <1>2, Zenon
<1>5. /\ recs \in [Runs -> Record] /\ recs[r].finishedAt # 0 /\ Terminal(recs[r].status)
      /\ \A q \in Runs \ {r} : recs[q] = record[q]
  <2>1. now \in Nat /\ now # 0 BY DEF Now
  <2>2. record \in [Runs -> Record] BY DEF RunInv
  <2>3. [rec EXCEPT !.finishedAt = now] \in Record
        /\ [rec EXCEPT !.finishedAt = now].finishedAt = now
        /\ [rec EXCEPT !.finishedAt = now].status = rec.status
    BY <2>1 DEF Record
  <2> QED BY <1>1, <2>1, <2>2, <2>3
<1>6. r \in Begun /\ r \in Registered /\ record[r].finishedAt = 0 /\ r \notin Kept
  BY <1>1 DEF RunInv, Begun, Executing, Kept
<1> HIDE DEF recs
<1>7. Finished(recs) = Kept \cup {r}
  <2>1. ASSUME NEW q \in Registered \ {r} PROVE q \in Finished(recs) <=> q \in Kept
    <3>1. q \in Runs /\ recs[q] = record[q] BY <1>5 DEF RunInv, Placed
    <3>2. record[q].finishedAt # 0 => Terminal(record[q].status)
      BY <3>1 DEF RunInv, SlotInv, Begun, Steps
    <3> QED BY <3>1, <3>2 DEF Finished, Kept
  <2>2. r \in Finished(recs) BY <1>5, <1>6 DEF Finished
  <2> QED BY <2>1, <2>2 DEF Finished, Kept
<1>8. Cardinality(Finished(recs)) = Cardinality(Kept) + 1
      /\ Cardinality(Kept) \in Nat /\ KeepRuns \in Nat
  <2>1. Kept \in SUBSET Runs BY DEF Kept, RunInv, Placed
  <2> QED BY <1>6, <1>7, <2>1, RunsFinite, RunsAssumption, FS_AddElement
<1>9. \/ Cardinality(Finished(recs)) <= KeepRuns /\ Stale(recs) = {}
      \/ /\ Cardinality(Finished(recs)) = KeepRuns + 1
         /\ \E old \in Finished(recs) :
              /\ Stale(recs) = {old}
              /\ \A q \in Finished(recs) \ {old} : EndedBefore(recs, old, q)
  BY <1>5, <1>8, OneTooMany DEF RunInv
<1>10. \/ Cardinality(Kept) < KeepRuns /\ Stale(recs) = {}
       \/ /\ Cardinality(Kept) = KeepRuns
          /\ \E old \in Kept \cup {r} :
               Stale(recs) = {old} /\ \A q \in (Kept \cup {r}) \ {old} : EndedBefore(recs, old, q)
  BY <1>7, <1>8, <1>9
<1>11. step' = [step EXCEPT ![r] = "done"] BY <1>1 DEF Finish, Goto
<1>12. Stale(recs) \in SUBSET Runs /\ Stale(recs) \subseteq Kept \cup {r}
  BY <1>7 DEF Stale, Finished, RunInv, Placed
<1>13. EndedWith(r, recs, Stale(recs))
  BY <1>3, <1>4, <1>5, <1>6, <1>10, <1>11, <1>12 DEF EndedWith
<1> QED BY <1>5, <1>12, <1>13

\* The runs kept after an end.
LEMMA EndKept ==
  ASSUME RunInv, NEW r \in Runs, Ends(r)
  PROVE  /\ Kept' = (Kept \cup {r}) \ (Registered \ Registered')
         /\ Registered' \subseteq Registered
         /\ Cardinality(Kept') <= KeepRuns
         /\ \/ Cardinality(Kept) < KeepRuns /\ Kept' = Kept \cup {r}
            \/ /\ Cardinality(Kept) = KeepRuns
               /\ \E old \in Kept \cup {r} : Kept' = (Kept \cup {r}) \ {old}
<1>1. PICK recs \in [Runs -> Record], out \in SUBSET Runs : EndedWith(r, recs, out)
  BY EndKeeps
<1>2. Registered' = Registered \ out /\ out \subseteq Registered /\ Registered \subseteq Runs
  BY <1>1 DEF Registered, Kept, RunInv, Placed, EndedWith
<1>3. Kept' = (Kept \cup {r}) \ out
  <2>1. \A q \in Registered : record'[q].finishedAt # 0 <=> q \in Kept \cup {r}
    BY <1>1, <1>2 DEF Kept, EndedWith
  <2>2. Kept' = {q \in Registered' : record'[q].finishedAt # 0} BY DEF Kept
  <2> QED BY <1>1, <1>2, <2>1, <2>2 DEF Kept, EndedWith
<1>4. IsFiniteSet(Kept) /\ Cardinality(Kept) \in Nat /\ KeepRuns \in Nat
  <2>1. Kept \in SUBSET Runs BY DEF Kept, RunInv, Placed
  <2> QED BY <2>1, RunsFinite, RunsAssumption
<1>5. IsFiniteSet(Kept \cup {r}) /\ Cardinality(Kept \cup {r}) = Cardinality(Kept) + 1
  BY <1>1, <1>4, FS_AddElement DEF EndedWith
<1>6. CASE Cardinality(Kept) < KeepRuns /\ out = {}
  BY <1>2, <1>3, <1>4, <1>5, <1>6
<1>7. ASSUME Cardinality(Kept) = KeepRuns, NEW old \in Kept \cup {r}, out = {old}
      PROVE  Cardinality(Kept') <= KeepRuns
  <2>1. Cardinality((Kept \cup {r}) \ {old}) = Cardinality(Kept \cup {r}) - 1
    BY <1>5, FS_RemoveElement
  <2> QED BY <1>3, <1>4, <1>5, <1>7, <2>1
<1> QED BY <1>1, <1>2, <1>3, <1>6, <1>7 DEF EndedWith

\* Every kind of step keeps the invariant.
LEMMA NextRuns ==
  ASSUME RunInv, [Next]_vars
  PROVE  RunInv'
<1>1. SlotInv'
  <2>1. UNCHANGED vars => SlotInv' BY DEF RunInv, vars, server, SlotInv, Holding, Alive
  <2> QED BY <2>1, NextSlots DEF RunInv
<1>2. /\ step \in [Runs -> Steps] /\ record \in [Runs -> Record] /\ Placed
      /\ Registered \subseteq Begun /\ Begun \subseteq Runs
  BY DEF RunInv, SlotInv, Begun
<1>3. ASSUME UNCHANGED runs, Begun' = Begun, record' \in [Runs -> Record],
             \A r \in Runs : record'[r].finishedAt = record[r].finishedAt,
             \A r \in Runs : record'[r].finishedAt # 0 => step'[r] = "done",
             \A r \in Begun : step'[r] # "done" => r \in Registered,
             \A r \in Begun : step'[r] # "process" => Terminal(record'[r].status)
      PROVE  RunInv'
  <2>1. Registered' = Registered /\ Placed' BY <1>2, <1>3 DEF Registered, Placed
  <2>2. Kept' = Kept BY <1>2, <1>3, <2>1 DEF Kept
  <2> QED BY <1>1, <1>3, <2>1, <2>2 DEF RunInv
<1>4. CASE Quiet
  <2>1. Begun' = Begun BY <1>4 DEF Quiet, Begun
  <2> QED BY <1>2, <1>3, <1>4, <2>1 DEF Quiet, RunInv
<1>5. ASSUME NEW r \in Runs, Refuse(r) \/ Accept(r) \/ PrepareFails(r) PROVE RunInv'
  <2>1. PICK s \in {"preparing", "refused"} :
          /\ step' = [step EXCEPT ![r] = s] /\ step[r] \in {"new", "preparing"}
          /\ UNCHANGED <<runs, record>>
    BY <1>5 DEF Refuse, Accept, PrepareFails, Goto, At
  <2>2. Begun' = Begun BY <1>2, <2>1 DEF Begun
  <2>3. \A q \in Begun : step'[q] = step[q] BY <1>2, <2>1 DEF Begun
  <2>4. \A q \in Runs : record[q].finishedAt # 0 => step'[q] = "done"
    BY <1>2, <2>1 DEF RunInv
  <2> QED BY <1>2, <1>3, <2>1, <2>2, <2>3, <2>4 DEF RunInv
<1>6. ASSUME NEW r \in Runs, Prepared(r) PROVE RunInv'
  <2>1. PICK s \in {"process", "salvaging"}, rec \in Record :
          /\ step[r] = "preparing" /\ step' = [step EXCEPT ![r] = s]
          /\ record' = [record EXCEPT ![r] = rec] /\ rec.finishedAt = 0
          /\ s # "process" => Terminal(rec.status)
          /\ runs' = [q \in Registered \cup {r} |-> IF q = r THEN Cardinality(Begun) ELSE runs[q]]
    <3>1. step[r] = "preparing" BY <1>6 DEF Prepared, At
    <3>2. record[r] \in Record /\ record[r].finishedAt = 0 BY <3>1, Unended
    <3>3. [NewRecord EXCEPT !.status = "failed"] \in Record
          /\ Terminal([NewRecord EXCEPT !.status = "failed"].status)
          /\ [NewRecord EXCEPT !.status = "failed"].finishedAt = 0
      BY DEF NewRecord, Record, Statuses, Terminal
    <3>4. record = [record EXCEPT ![r] = record[r]] BY <1>2
    <3> QED BY <1>6, <3>1, <3>2, <3>3, <3>4 DEF Prepared, Goto, Put
  <2>2. Begun' = Begun \cup {r} /\ r \notin Begun BY <1>2, <2>1 DEF Begun
  <2>3. Cardinality(Begun') = Cardinality(Begun) + 1 /\ Cardinality(Begun) \in Nat
    BY <1>2, <2>2, RunsFinite, FS_AddElement
  <2>4. Registered' = Registered \cup {r} /\ r \notin Registered
    BY <1>2, <2>1, <2>2 DEF Registered
  <2>5. \A q \in Registered' : runs'[q] \in Nat /\ runs'[q] < Cardinality(Begun')
                             /\ (q # r => runs'[q] = runs[q] /\ runs[q] < Cardinality(Begun))
    BY <1>2, <2>1, <2>3, <2>4 DEF RunInv, Placed
  <2>6. Placed'
    <3>1. runs'[r] = Cardinality(Begun) BY <2>1
    <3>2. ASSUME NEW p \in Registered', NEW q \in Registered', runs'[p] = runs'[q] PROVE p = q
      <4>1. CASE p # r /\ q # r BY <1>2, <2>4, <2>5, <3>2, <4>1 DEF Placed
      <4>2. CASE p = r \/ q = r
        <5>1. \A x \in Registered : runs[x] \in Nat BY <1>2 DEF Placed
        <5> QED BY <2>3, <2>4, <2>5, <3>1, <3>2, <4>2, <5>1
      <4> QED BY <4>1, <4>2
    <3>3. runs' \in [Registered' -> Nat] BY <2>1, <2>4, <2>5
    <3> QED BY <1>2, <2>4, <3>2, <3>3 DEF Placed
  <2>7. /\ record' \in [Runs -> Record] /\ record'[r].finishedAt = 0
        /\ \A q \in Runs : record'[q].finishedAt # 0 => step'[q] = "done"
    BY <1>2, <2>1 DEF RunInv
  <2>8. Kept' = Kept
    <3>1. \A q \in Registered : record'[q].finishedAt = record[q].finishedAt
      BY <1>2, <2>1, <2>4 DEF Placed
    <3>2. Kept' = {q \in Registered' : record'[q].finishedAt # 0} BY DEF Kept
    <3> QED BY <2>4, <2>7, <3>1, <3>2 DEF Kept
  <2>9. /\ \A q \in Begun' : step'[q] # "done" => q \in Registered'
        /\ \A q \in Begun' : step'[q] # "process" => Terminal(record'[q].status)
    BY <1>2, <2>1, <2>2, <2>4 DEF RunInv
  <2>10. Registered' \subseteq Begun' BY <1>2, <2>2, <2>4
  <2> QED BY <1>1, <2>5, <2>6, <2>7, <2>8, <2>9, <2>10 DEF RunInv
<1>7. ASSUME NEW r \in Runs, Moves(r) PROVE RunInv'
  <2>1. PICK s \in Executing, rec \in Record :
          /\ step[r] \in Executing /\ step' = [step EXCEPT ![r] = s]
          /\ record' = [record EXCEPT ![r] = rec] /\ rec.finishedAt = 0
          /\ s # "process" => Terminal(rec.status)
          /\ UNCHANGED <<runs, dirs>>
    BY <1>7 DEF Moves
  <2>2. Begun' = Begun /\ r \in Begun BY <1>2, <2>1 DEF Begun, Executing
  <2>3. record[r].finishedAt = 0 /\ r \in Registered BY <2>1, <2>2 DEF RunInv, Executing
  <2> QED BY <1>2, <1>3, <2>1, <2>2, <2>3 DEF RunInv, Executing
<1>8. ASSUME NEW r \in Runs, Ends(r) PROVE RunInv'
  <2>1. PICK recs \in [Runs -> Record], out \in SUBSET Runs : EndedWith(r, recs, out)
    BY <1>8, EndKeeps
  <2>2. step[r] \in Executing BY <1>8 DEF Ends
  <2>3. Begun' = Begun /\ r \in Begun BY <1>2, <2>1, <2>2 DEF Begun, Executing, EndedWith
  <2>4. Registered' = Registered \ out BY <2>1 DEF Registered, EndedWith
  <2>5. Placed' BY <1>2, <2>1, <2>4 DEF Placed, EndedWith
  <2>6. /\ \A q \in Begun' : step'[q] # "done" => q \in Registered'
        /\ \A q \in Begun' : step'[q] # "process" => Terminal(record'[q].status)
    <3>1. ASSUME NEW q \in Begun, q # r, step[q] # "done" PROVE q \in Registered'
      <4>1. q \in Registered /\ q \notin Kept BY <1>2, <3>1 DEF RunInv, Kept
      <4> QED BY <2>1, <2>4, <3>1, <4>1 DEF EndedWith
    <3> QED BY <1>2, <2>1, <2>3, <3>1 DEF RunInv, EndedWith
  <2>7. \A q \in Runs : record'[q].finishedAt # 0 => step'[q] = "done"
    BY <1>2, <2>1 DEF RunInv, EndedWith
  <2>8. Registered' \subseteq Begun' /\ \A q \in Registered' : runs'[q] < Cardinality(Begun')
    BY <1>2, <2>1, <2>3, <2>4 DEF RunInv, EndedWith
  <2>9. Cardinality(Kept') <= KeepRuns BY <1>8, EndKept
  <2> QED BY <1>1, <2>1, <2>5, <2>6, <2>7, <2>8, <2>9 DEF RunInv, EndedWith
<1> QED BY <1>4, <1>5, <1>6, <1>7, <1>8, Kinds

\* It holds at the start ...
LEMMA InitRuns ==
  ASSUME Init
  PROVE  RunInv
<1>1. SlotInv
  <2>1. Holding = {} BY DEF Init, Holding
  <2>2. Cardinality(Holding) = 0 BY <2>1, FS_EmptySet
  <2> QED BY <2>2, RunsAssumption
          DEF Init, SlotInv, Steps, Process, NoProcess, Living, Alive
<1>2. Registered = {} /\ Kept = {} /\ Begun = {} BY DEF Init, Registered, Kept, Begun
<1>3. Placed BY <1>2 DEF Init, Placed, Registered
<1>4. record \in [Runs -> Record] /\ \A r \in Runs : record[r].finishedAt = 0
  BY DEF Init, NewRecord, Record, Statuses
<1>5. Cardinality(Kept) <= KeepRuns BY <1>2, FS_EmptySet, RunsAssumption
<1> QED BY <1>1, <1>2, <1>3, <1>4, <1>5 DEF RunInv

\* ... and in every run.
LEMMA AlwaysRunInv == Spec => []RunInv
<1>1. RunInv /\ [Next]_vars => RunInv' BY NextRuns
<1> QED BY <1>1, InitRuns, PTL DEF Spec

-----------------------------------------------------------------------------
(* Types *)

\* What RunInv leaves of TypeOK.
OtherTypes ==
    /\ running \subseteq Runs /\ timer \in [Runs -> {"off", "armed", "killing"}]
    /\ reply \in [Runs -> Replies] /\ dirs \subseteq Runs /\ up \in BOOLEAN

\* What the finally and catch blocks leave well-formed.
LEMMA FinishTypes ==
  ASSUME OtherTypes, NEW r \in Runs, NEW rec, Finish(r, rec) \/ Catch(r, rec)
  PROVE  /\ running' \subseteq Runs /\ reply' \in [Runs -> Replies]
         /\ dirs' \subseteq Runs /\ up' \in BOOLEAN
<1>1. ASSUME NEW x, Finish(r, x)
      PROVE  /\ running' \subseteq Runs /\ reply' \in [Runs -> Replies]
             /\ dirs' \subseteq Runs /\ up' \in BOOLEAN
  <2>1. /\ running' = running \ {r}
        /\ \/ dirs' \subseteq dirs /\ Completed(r)
           \/ UNCHANGED dirs /\ Rejected(r)
    BY <1>1 DEF Finish
  <2> QED BY <2>1 DEF OtherTypes, Completed, Rejected, Replies
<1>2. ASSUME UNCHANGED <<running, reply, dirs, up>>
      PROVE  /\ running' \subseteq Runs /\ reply' \in [Runs -> Replies]
             /\ dirs' \subseteq Runs /\ up' \in BOOLEAN
  BY <1>2 DEF OtherTypes
<1> QED BY <1>1, <1>2 DEF Catch

\* No step spoils the other types.
LEMMA NextTypes ==
  ASSUME OtherTypes, [Next]_vars
  PROVE  OtherTypes'
<1>1. CASE UNCHANGED vars BY <1>1 DEF vars, server, OtherTypes
<1>2. ASSUME NEW r \in Runs, Refuse(r) \/ Accept(r) \/ PrepareFails(r) PROVE OtherTypes'
  BY <1>2 DEF Refuse, Accept, PrepareFails, Reply, OtherTypes, Replies
<1>3. ASSUME NEW r \in Runs, Prepared(r) PROVE OtherTypes'
  <2>1. /\ reply' \in {[reply EXCEPT ![r] = a] : a \in {"waiting", "accepted"}}
        /\ timer' \in {timer, [timer EXCEPT ![r] = "armed"]}
        /\ running' \in {running, running \cup {r}} /\ UNCHANGED <<dirs, up>>
    BY <1>3 DEF Prepared
  <2> QED BY <2>1 DEF OtherTypes, Replies
<1>4. ASSUME NEW r \in Runs, Timeout(r) \/ ForceKill(r) \/ Cancel(r) \/ ChildExits(r) \/ HelperExits(r)
      PROVE  OtherTypes'
  BY <1>4 DEF Timeout, ForceKill, Cancel, ChildExits, HelperExits, server, OtherTypes
<1>5. ASSUME NEW r \in Runs, WaitExpires(r) PROVE OtherTypes'
  BY <1>5 DEF WaitExpires, Reply, OtherTypes, Replies
<1>6. ASSUME NEW r \in Runs, Close(r) \/ Collect(r) \/ Archive(r) \/ Salvage(r)
      PROVE  OtherTypes'
  <2>1. timer' \in [Runs -> {"off", "armed", "killing"}]
    BY <1>6 DEF Close, Collect, Archive, Salvage, OtherTypes
  <2>2. \/ UNCHANGED <<running, reply, dirs, up>>
        \/ \E rec : Finish(r, rec) \/ Catch(r, rec)
    BY <1>6, Zenon DEF Close, Collect, Archive, Salvage
  <2> QED BY <2>1, <2>2, FinishTypes DEF OtherTypes
<1> QED BY <1>1, <1>2, <1>3, <1>4, <1>5, <1>6 DEF Next, RunStep

\* The maps, records, processes, timers and answers of all runs stay well-formed,
\* for every set of runs and every kind of runner.
THEOREM RunsTypeCorrect == Spec => []TypeOK
<1>1. Init => OtherTypes BY DEF Init, OtherTypes, Replies
<1>2. OtherTypes /\ [Next]_vars => OtherTypes' BY NextTypes
<1>3. RunInv /\ OtherTypes => TypeOK
  <2>1. Holding \in SUBSET Runs BY DEF Holding
  <2>2. Cardinality(Holding) \in Nat BY <2>1, RunsFinite
  <2> QED BY <2>2 DEF RunInv, SlotInv, Placed, OtherTypes, TypeOK
<1> QED BY <1>1, <1>2, <1>3, AlwaysRunInv, PTL DEF Spec

-----------------------------------------------------------------------------
(* Directories and the order of retention *)

\* Directories come and go with the runs they belong to.
LEMMA NextDirectories ==
  ASSUME RunInv, NoDirectoryLeaks, [Next]_vars
  PROVE  NoDirectoryLeaks'
<1> DEFINE Preparing == {r \in Runs : At(r, "preparing")}
<1> SUFFICES ASSUME ~RemovalFails PROVE dirs' = Registered' \cup Preparing'
  BY DEF NoDirectoryLeaks
<1>1. dirs = Registered \cup Preparing BY DEF NoDirectoryLeaks
<1>2. step \in [Runs -> Steps] /\ Registered \subseteq Runs /\ Registered \cap Preparing = {}
  BY DEF RunInv, SlotInv, Placed, Begun, At
<1>3. CASE Quiet BY <1>1, <1>3 DEF Quiet, Registered, At
<1>4. ASSUME NEW r \in Runs, Refuse(r) PROVE dirs' = Registered' \cup Preparing'
  <2>1. Preparing' = Preparing BY <1>2, <1>4 DEF Refuse, Goto, At
  <2> QED BY <1>1, <1>4, <2>1 DEF Refuse, Registered
<1>5. ASSUME NEW r \in Runs, Accept(r) PROVE dirs' = Registered' \cup Preparing'
  <2>1. Preparing' = Preparing \cup {r} BY <1>2, <1>5 DEF Accept, Goto, At
  <2> QED BY <1>1, <1>5, <2>1 DEF Accept, Registered
<1>6. ASSUME NEW r \in Runs, PrepareFails(r) PROVE dirs' = Registered' \cup Preparing'
  <2>1. Preparing' = Preparing \ {r} /\ r \in Preparing
    BY <1>2, <1>6 DEF PrepareFails, Goto, At
  <2>2. dirs' = dirs \ {r} /\ Registered' = Registered BY <1>6 DEF PrepareFails, Registered
  <2> QED BY <1>1, <1>2, <2>1, <2>2
<1>7. ASSUME NEW r \in Runs, Prepared(r) PROVE dirs' = Registered' \cup Preparing'
  <2>1. PICK s \in {"process", "salvaging"} : step' = [step EXCEPT ![r] = s]
    BY <1>7 DEF Prepared, Goto
  <2>2. Preparing' = Preparing \ {r} /\ r \in Preparing
    BY <1>2, <1>7, <2>1 DEF Prepared, At
  <2>3. Registered' = Registered \cup {r} /\ dirs' = dirs
    BY <1>7 DEF Prepared, Registered
  <2> QED BY <1>1, <2>2, <2>3
<1>8. ASSUME NEW r \in Runs, Moves(r) PROVE dirs' = Registered' \cup Preparing'
  <2>1. Preparing' = Preparing BY <1>2, <1>8 DEF Moves, Executing, At
  <2> QED BY <1>1, <1>8, <2>1 DEF Moves, Registered
<1>9. ASSUME NEW r \in Runs, Ends(r) PROVE dirs' = Registered' \cup Preparing'
  <2>1. PICK recs \in [Runs -> Record], out \in SUBSET Runs : EndedWith(r, recs, out)
    BY <1>9, EndKeeps
  <2>2. Preparing' = Preparing
    BY <1>2, <1>9, <2>1 DEF EndedWith, Ends, Executing, At
  <2>3. Registered' = Registered \ out /\ dirs' = dirs \ out
    BY <2>1 DEF EndedWith, Registered
  <2>4. out \subseteq Registered BY <2>1 DEF EndedWith, Kept
  <2> QED BY <1>1, <1>2, <2>2, <2>3, <2>4
<1> QED BY <1>3, <1>4, <1>5, <1>6, <1>7, <1>8, <1>9, Kinds

\* As long as removals succeed, the directories on disk are those of the runs being
\* prepared or registered, however runs fail, end and are dropped (createRun's catch
\* block, cleanupOldRuns).
THEOREM NothingIsLeftBehind == Spec => []NoDirectoryLeaks
<1>1. Init => NoDirectoryLeaks BY DEF Init, NoDirectoryLeaks, Registered, At
<1>2. RunInv /\ NoDirectoryLeaks /\ [Next]_vars => NoDirectoryLeaks' BY NextDirectories
<1> QED BY <1>1, <1>2, AlwaysRunInv, PTL DEF Spec

\* A run is dropped by another's end only.
LEMMA ForgottenAtEnd ==
  ASSUME RunInv, [Next]_vars, Forgotten # {}
  PROVE  \E r \in Runs : Ends(r)
<1>1. ASSUME UNCHANGED runs PROVE Forgotten = {} BY <1>1 DEF Forgotten, Registered
<1>2. ASSUME NEW r \in Runs, Prepared(r) PROVE Forgotten = {}
  BY <1>2 DEF Prepared, Forgotten, Registered
<1> QED BY <1>1, <1>2, Kinds DEF Quiet, Refuse, Accept, PrepareFails, Moves

\* What retention drops ended no later than anything it keeps, with any number of
\* runs ending at one time (cleanupOldRuns).
THEOREM OldestGoFirst == Spec => ForgetsOldest
<1> DEFINE Fair == \A q \in Forgotten : \A r \in Registered' :
                       record'[r].finishedAt # 0 => record'[q].finishedAt <= record'[r].finishedAt
<1>1. RunInv /\ [Next]_vars => [Fair]_vars
  <2> SUFFICES ASSUME RunInv, [Next]_vars,
                      NEW q \in Forgotten, NEW p \in Registered', record'[p].finishedAt # 0
               PROVE  record'[q].finishedAt <= record'[p].finishedAt
    OBVIOUS
  <2>1. PICK r \in Runs : Ends(r) BY ForgottenAtEnd
  <2>2. PICK recs \in [Runs -> Record], out \in SUBSET Runs : EndedWith(r, recs, out)
    BY <2>1, EndKeeps
  <2>3. Registered' = Registered \ out /\ Registered \subseteq Runs /\ record' = recs
    BY <2>2 DEF EndedWith, Registered, RunInv, Placed
  <2>4. q \in out /\ p \notin out /\ p \in Registered BY <2>3 DEF Forgotten
  <2>5. p \in Kept \cup {r} BY <2>2, <2>3, <2>4 DEF EndedWith, Kept
  <2>6. q \in Runs /\ p \in Runs /\ EndedBefore(recs, q, p)
    BY <2>2, <2>3, <2>4, <2>5 DEF EndedWith
  <2>7. recs[q].finishedAt \in Nat /\ recs[p].finishedAt \in Nat BY <2>6 DEF Record
  <2> QED BY <2>3, <2>6, <2>7 DEF EndedBefore
<1> QED BY <1>1, AlwaysRunInv, PTL DEF Spec, ForgetsOldest

-----------------------------------------------------------------------------
(* Agent Runs implement RunLifecycle *)

\* The result of each run, as Lifecycle has it.
Result == [r \in Runs |-> IF record[r].finishedAt = 0 THEN "none" ELSE record[r].status]

\* Both modules count alike.
LEMMA SameCount == \A S : Lifecycle!Cardinality(S) = Cardinality(S)
BY DEF Lifecycle!Cardinality, Lifecycle!IsFiniteSet, Cardinality, IsFiniteSet

\* As far as slots, kept runs and results go, each step is one of RunLifecycle or none.
LEMMA StepMaps ==
  ASSUME RunInv, [Next]_vars
  PROVE  [Lifecycle!LifecycleNext]_(Lifecycle!lifecycle)
<1> USE DEF Kept, Result
<1>1. ASSUME UNCHANGED <<Holding, Kept, Result>>
      PROVE  UNCHANGED Lifecycle!lifecycle
  BY <1>1 DEF Lifecycle!lifecycle
<1>2. step \in [Runs -> Steps] /\ record \in [Runs -> Record] /\ Registered \subseteq Runs
  BY DEF RunInv, SlotInv, Placed
<1>3. CASE Quiet BY <1>1, <1>3 DEF Quiet, Holding, Registered
<1>4. ASSUME NEW r \in Runs, Refuse(r) PROVE UNCHANGED Lifecycle!lifecycle
  <2>1. UNCHANGED <<runs, record>> /\ Holding' = Holding
    BY <1>2, <1>4 DEF Refuse, Goto, At, Holding
  <2> QED BY <1>1, <2>1 DEF Registered
<1>5. ASSUME NEW r \in Runs, Accept(r) PROVE Lifecycle!Accept(r)
  <2>1. UNCHANGED <<Kept, Result>> BY <1>5 DEF Accept, Registered
  <2>2. Holding' = Holding \cup {r} /\ r \notin Holding
    BY <1>2, <1>5 DEF Accept, Goto, At, Holding
  <2>3. Result[r] = "none" BY <1>5, Unended DEF Accept, At
  <2>4. Cardinality(Holding) < MaxConcurrency BY <1>5 DEF Accept, RunInv, SlotInv
  <2> QED BY <2>1, <2>2, <2>3, <2>4, SameCount DEF Lifecycle!Accept, Lifecycle!Fresh
<1>6. ASSUME NEW r \in Runs, PrepareFails(r) PROVE Lifecycle!Abandon(r)
  <2>1. UNCHANGED <<Kept, Result>> BY <1>6 DEF PrepareFails, Registered
  <2>2. Holding' = Holding \ {r} /\ r \in Holding
    BY <1>2, <1>6 DEF PrepareFails, Goto, At, Holding
  <2> QED BY <2>1, <2>2 DEF Lifecycle!Abandon
<1>7. ASSUME NEW r \in Runs, Prepared(r) PROVE UNCHANGED Lifecycle!lifecycle
  <2>1. step[r] = "preparing" /\ Registered' = Registered \cup {r} /\ r \notin Registered
    BY <1>7 DEF Prepared, At, Registered, RunInv, Begun
  <2>2. record[r].finishedAt = 0 BY <2>1, Unended
  <2>3. /\ record'[r].finishedAt = 0
        /\ \A q \in Runs \ {r} : record'[q] = record[q]
    BY <1>2, <1>7, <2>2 DEF Prepared, Put, NewRecord
  <2>4. Kept' = Kept BY <1>2, <2>1, <2>3
  <2>5. Result' = Result BY <2>2, <2>3
  <2>6. Holding' = Holding BY <1>2, <1>7, <2>1 DEF Prepared, Goto, Holding
  <2> QED BY <1>1, <2>4, <2>5, <2>6
<1>8. ASSUME NEW r \in Runs, Moves(r) PROVE UNCHANGED Lifecycle!lifecycle
  <2>1. PICK s \in Executing, rec \in Record :
          /\ step[r] \in Executing /\ step' = [step EXCEPT ![r] = s]
          /\ record' = [record EXCEPT ![r] = rec] /\ rec.finishedAt = 0
          /\ UNCHANGED runs
    BY <1>8 DEF Moves
  <2>2. record[r].finishedAt = 0 BY <2>1, Unended DEF Executing
  <2>3. record'[r].finishedAt = 0 /\ \A q \in Runs \ {r} : record'[q] = record[q]
    BY <1>2, <2>1
  <2>4. Holding' = Holding BY <1>2, <2>1 DEF Holding, Executing
  <2>5. Kept' = Kept /\ Result' = Result BY <1>2, <2>1, <2>2, <2>3 DEF Registered
  <2> QED BY <1>1, <2>4, <2>5
<1>9. ASSUME NEW r \in Runs, Ends(r) PROVE Lifecycle!End(r)
  <2>1. PICK recs \in [Runs -> Record], out \in SUBSET Runs : EndedWith(r, recs, out)
    BY <1>9, EndKeeps
  <2>2. Holding' = Holding \ {r} /\ r \in Holding
    BY <1>2, <1>9, <2>1 DEF EndedWith, Ends, Executing, Holding
  <2>3. recs[r].status \in Lifecycle!Results
    BY <2>1 DEF EndedWith, Record, Statuses, Terminal, Lifecycle!Results
  <2>4. Result' = [Result EXCEPT ![r] = recs[r].status]
    BY <2>1 DEF EndedWith
  <2>5. \/ Kept' = Kept \cup {r} /\ Cardinality(Kept) < KeepRuns
        \/ /\ Cardinality(Kept) = KeepRuns
           /\ \E old \in Kept \cup {r} : Kept' = (Kept \cup {r}) \ {old}
    BY <1>9, EndKept
  <2> QED BY <2>2, <2>3, <2>4, <2>5, SameCount DEF Lifecycle!End
<1> QED BY <1>3, <1>4, <1>5, <1>6, <1>7, <1>8, <1>9, <1>1, Kinds DEF Lifecycle!LifecycleNext, Quiet

\* The clients' view: never more than max-concurrency runs hold a slot, each that
\* ends gives its own back, its result never changes once finished_at is set, and
\* no more than keep-runs of them are kept, the last one to end making room by one.
THEOREM AgentsImplementLifecycle == Spec => ImplementsLifecycle
<1>1. Init => Lifecycle!LifecycleInit
  BY DEF Init, Lifecycle!LifecycleInit, Holding, Registered, NewRecord
<1>2. RunInv /\ [Next]_vars => [Lifecycle!LifecycleNext]_(Lifecycle!lifecycle)
  BY StepMaps
<1> QED BY <1>1, <1>2, AlwaysRunInv, PTL
        DEF Spec, ImplementsLifecycle, Lifecycle!LifecycleSpec
=============================================================================
