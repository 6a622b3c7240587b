----------------------------- MODULE AgentRuns -----------------------------
(***************************************************************************)
(* AgentRunManager (src/agents/manager.ts) and the create, cancel and      *)
(* artifact routes in front of it (src/agents/routes.ts).  A run is one    *)
(* POST /v1/agent-runs: createRun prepares a workspace, executeRun spawns  *)
(* the runner and, when its process closes, collects the diff, writes the  *)
(* artifacts and gives the slot back.  Between any two awaits of one run   *)
(* the other runs, cancellations, timers and processes move.               *)
(*                                                                         *)
(* A runner is a process group: the child CCPA spawned and a helper the    *)
(* child may have started, which keeps the output pipes open as long as it *)
(* lives.  Node's close event waits for both.                              *)
(***************************************************************************)
EXTENDS Naturals, FiniteSets, Functions

CONSTANTS
    Runs,             \* the runs clients ask for
    MaxConcurrency,   \* agents.max-concurrency
    KeepRuns,         \* Math.max(1, agents.keep-runs)
    Groups,           \* the runner processes that may be started, out of AllGroups
    RemovalFails      \* may rmSync of a run directory throw?

\* A stubborn process ignores SIGTERM; "none": there is no helper.
AllGroups == [child : {"alive", "stubborn"}, helper : {"none", "alive", "stubborn"}]

ASSUME RunsAssumption == /\ IsFiniteSet(Runs) /\ MaxConcurrency \in Nat
                         /\ KeepRuns \in Nat \ {0}
ASSUME GroupsAssumption == Groups \subseteq AllGroups /\ RemovalFails \in BOOLEAN

VARIABLES
    runs,          \* the runs map: run -> its place in the order of insertion
    record,        \* run -> its AgentRunRecord
    running,       \* the keys of the running map
    runningCount,
    step,          \* run -> where createRun or executeRun stands
    proc,          \* run -> its process group
    timer,         \* run -> "armed" timeoutMs, "killing" 2 s to SIGKILL, or "off"
    reply,         \* run -> the answer to its POST
    dirs,          \* the runs whose directory exists
    up             \* is the server process alive?

server == <<runs, record, running, runningCount, step, reply, dirs, up>>
vars == <<server, proc, timer>>

Statuses == {"running", "completed", "failed", "canceled", "timed_out"}
Terminal(status) == status # "running"

\* artifacts: is artifacts_path set?
Record == [status : Statuses, artifacts : BOOLEAN, finishedAt : Nat]
NewRecord == [status |-> "running", artifacts |-> FALSE, finishedAt |-> 0]

Living == {"alive", "stubborn", "ending"}
Process == [child : {"none", "dead"} \cup Living, helper : {"none", "dead"} \cup Living,
            ok : BOOLEAN, timedOut : BOOLEAN]
NoProcess == [child |-> "none", helper |-> "none", ok |-> FALSE, timedOut |-> FALSE]

Steps == {"new", "refused", "preparing", "process", "collecting", "archiving",
          "salvaging", "done"}
\* "accepted" is the 202 of wait: false, "202" the one of an expired wait.
Replies == {"none", "waiting", "accepted", "200", "202", "refused", "500"}

Registered == DOMAIN runs

TypeOK ==
    /\ Registered \subseteq Runs /\ runs \in [Registered -> Nat] /\ record \in [Runs -> Record]
    /\ running \subseteq Runs /\ runningCount \in Nat
    /\ step \in [Runs -> Steps] /\ proc \in [Runs -> Process]
    /\ timer \in [Runs -> {"off", "armed", "killing"}]
    /\ reply \in [Runs -> Replies] /\ dirs \subseteq Runs /\ up \in BOOLEAN

Init ==
    /\ runs = [r \in {} |-> 0] /\ record = [r \in Runs |-> NewRecord]
    /\ running = {} /\ runningCount = 0
    /\ step = [r \in Runs |-> "new"] /\ proc = [r \in Runs |-> NoProcess]
    /\ timer = [r \in Runs |-> "off"] /\ reply = [r \in Runs |-> "none"]
    /\ dirs = {} /\ up = TRUE

At(r, s) == step[r] = s
Goto(r, s) == step' = [step EXCEPT ![r] = s]
Reply(r, a) == reply' = [reply EXCEPT ![r] = a]
Put(r, rec) == record' = [record EXCEPT ![r] = rec]

-----------------------------------------------------------------------------
(* The end of a run *)

Finished(recs) == {r \in Registered : Terminal(recs[r].status) /\ recs[r].finishedAt # 0}

\* Fault: the sort is descending.
EndedAfter(recs, q, r) ==
    \/ recs[q].finishedAt > recs[r].finishedAt
    \/ recs[q].finishedAt = recs[r].finishedAt /\ runs[q] < runs[r]

\* The stable sort by finished_at.
EndedBefore(recs, q, r) ==
    \/ recs[q].finishedAt < recs[r].finishedAt
    \/ recs[q].finishedAt = recs[r].finishedAt /\ runs[q] < runs[r]

\* Fault: one run too many is kept (>= keep where > keep is meant).
StaleOffByOne(recs) ==
    {r \in Finished(recs) :
        Cardinality({q \in Finished(recs) : EndedBefore(recs, r, q)}) > KeepRuns}

\* cleanupOldRuns: those with keep-runs others after them.
Stale(recs) ==
    {r \in Finished(recs) :
        Cardinality({q \in Finished(recs) : EndedBefore(recs, r, q)}) >= KeepRuns}

\* What the clock may say: the time of the last end, or the next.
Now == {t \in 1..Cardinality(Runs) :
            /\ \A r \in Runs : record[r].finishedAt <= t
            /\ t = 1 \/ \E r \in Runs : record[r].finishedAt >= t - 1}

\* Who awaits the completion promise is told; a rejection nobody awaits is an
\* unhandled one, which ends the process.
Completed(r) == /\ reply' = IF reply[r] = "waiting" THEN [reply EXCEPT ![r] = "200"] ELSE reply
                /\ UNCHANGED up
Rejected(r) == /\ reply' = IF reply[r] = "waiting" THEN [reply EXCEPT ![r] = "500"] ELSE reply
               /\ up' = (reply[r] # "accepted")

\* The finally block of executeRun.  The clock may stand still between two
\* ends, and removing a stale directory may throw out of it.
Finish(r, rec) ==
    /\ Goto(r, "done")
    /\ running' = running \ {r} /\ runningCount' = runningCount - 1
    /\ \E now \in Now :
         LET recs == [record EXCEPT ![r] = [rec EXCEPT !.finishedAt = now]]
         IN  /\ record' = recs
             /\ runs' = Restrict(runs, Registered \ Stale(recs))
             /\ \/ dirs' = dirs \ Stale(recs) /\ Completed(r)
                \/ /\ RemovalFails /\ Stale(recs) # {}
                   /\ UNCHANGED dirs /\ Rejected(r)

\* Fault: the catch block gives the slot back, and finally does again.
CatchReleases(r, rec) ==
    LET failed == [rec EXCEPT !.status = IF @ = "canceled" THEN @ ELSE "failed"]
    IN  \/ /\ Goto(r, "salvaging") /\ Put(r, failed)
           /\ runningCount' = runningCount - 1
           /\ UNCHANGED <<runs, running, reply, dirs, up>>
        \/ Finish(r, failed)

\* The catch block: a canceled run stays canceled; the artifacts are written
\* after all, unless that fails too.
Catch(r, rec) ==
    LET failed == [rec EXCEPT !.status = IF @ = "canceled" THEN @ ELSE "failed"]
    IN  \/ /\ Goto(r, "salvaging") /\ Put(r, failed)
           /\ UNCHANGED <<runs, running, runningCount, reply, dirs, up>>
        \/ Finish(r, failed)

-----------------------------------------------------------------------------
(* createRun *)

\* At the limit, 429; a bad request, 4xx; a workspace that cannot be written,
\* an error and nothing left behind.
Refuse(r) ==
    /\ At(r, "new")
    /\ Goto(r, "refused") /\ Reply(r, "refused")
    /\ UNCHANGED <<runs, record, running, runningCount, dirs, up, proc, timer>>

\* The slot is taken before the first await.
Accept(r) ==
    /\ At(r, "new") /\ runningCount < MaxConcurrency
    /\ Goto(r, "preparing")
    /\ runningCount' = runningCount + 1
    /\ dirs' = dirs \cup {r}
    /\ UNCHANGED <<runs, record, running, reply, up, proc, timer>>

\* Fault: the run directory is not removed.
PrepareFailsLitter(r) ==
    /\ At(r, "preparing")
    /\ Goto(r, "refused") /\ Reply(r, "500")
    /\ runningCount' = runningCount - 1
    /\ UNCHANGED <<runs, record, running, dirs, up, proc, timer>>

\* createBaseline throws: git is missing or hangs.
PrepareFails(r) ==
    /\ At(r, "preparing")
    /\ Goto(r, "refused") /\ Reply(r, "500")
    /\ runningCount' = runningCount - 1
    /\ \/ dirs' = dirs \ {r}
       \/ RemovalFails /\ UNCHANGED dirs
    /\ UNCHANGED <<runs, record, running, up, proc, timer>>

\* The runs that were ever registered.
Begun == {r \in Runs : step[r] \notin {"new", "refused", "preparing"}}

\* The record is registered and executeRun runs up to its first await: the
\* runner is spawned, or is disabled or cannot be spawned (onStarted has been
\* called all the same when it is the exec that fails).
Prepared(r) ==
    /\ At(r, "preparing")
    /\ runs' = [q \in Registered \cup {r} |-> IF q = r THEN Cardinality(Begun) ELSE runs[q]]
    /\ reply' \in {[reply EXCEPT ![r] = a] : a \in {"waiting", "accepted"}}
    /\ \/ /\ Goto(r, "process") /\ running' = running \cup {r}
          /\ timer' = [timer EXCEPT ![r] = "armed"]
          /\ \E g \in Groups :
               proc' = [proc EXCEPT ![r] =
                          [child |-> g.child, helper |-> g.helper,
                           ok |-> FALSE, timedOut |-> FALSE]]
          /\ UNCHANGED record
       \/ /\ Goto(r, "salvaging") /\ Put(r, [NewRecord EXCEPT !.status = "failed"])
          /\ running' \in {running, running \cup {r}}
          /\ UNCHANGED <<proc, timer>>
    /\ UNCHANGED <<runningCount, dirs, up>>

-----------------------------------------------------------------------------
(* The process and its timers *)

\* SIGTERM to the group: who obeys it starts to end.
Terminated(p) ==
    [p EXCEPT !.child = IF @ = "alive" THEN "ending" ELSE @,
              !.helper = IF @ = "alive" THEN "ending" ELSE @]

ChildExits(r) ==
    /\ proc[r].child \in Living
    /\ \E ok \in BOOLEAN : proc' = [proc EXCEPT ![r].child = "dead", ![r].ok = ok]
    /\ UNCHANGED <<server, timer>>

HelperExits(r) ==
    /\ proc[r].helper \in Living
    /\ proc' = [proc EXCEPT ![r].helper = "dead"]
    /\ UNCHANGED <<server, timer>>

Timeout(r) ==
    /\ At(r, "process") /\ timer[r] = "armed"
    /\ timer' = [timer EXCEPT ![r] = "killing"]
    /\ proc' = [proc EXCEPT ![r] = [Terminated(@) EXCEPT !.timedOut = TRUE]]
    /\ UNCHANGED server

\* child.kill("SIGKILL") reaches the child alone.
ForceKill(r) ==
    /\ At(r, "process") /\ timer[r] = "killing"
    /\ timer' = [timer EXCEPT ![r] = "off"]
    /\ proc' = [proc EXCEPT ![r].child = "dead"]
    /\ UNCHANGED server

\* Fault: a cancellation clears the timeout.
CancelForGood(r) ==
    /\ r \in Registered
    /\ IF r \in running /\ ~Terminal(record[r].status)
       THEN /\ Put(r, [record[r] EXCEPT !.status = "canceled"])
            /\ proc' = [proc EXCEPT ![r] = Terminated(@)]
            /\ timer' = [timer EXCEPT ![r] = "off"]
       ELSE UNCHANGED <<record, proc, timer>>
    /\ UNCHANGED <<runs, running, runningCount, step, reply, dirs, up>>

\* cancelRun: SIGTERM once; the timeout is what follows it up.
Cancel(r) ==
    /\ r \in Registered
    /\ IF r \in running /\ ~Terminal(record[r].status)
       THEN /\ Put(r, [record[r] EXCEPT !.status = "canceled"])
            /\ proc' = [proc EXCEPT ![r] = Terminated(@)]
       ELSE UNCHANGED <<record, proc>>
    /\ UNCHANGED <<runs, running, runningCount, step, timer, reply, dirs, up>>

-----------------------------------------------------------------------------
(* executeRun from the close event on *)

\* The status is decided, then collectDiff starts; it throws at once when the
\* agent has tampered with .git.
Close(r) ==
    /\ At(r, "process") /\ proc[r].child = "dead" /\ proc[r].helper \in {"none", "dead"}
    /\ timer' = [timer EXCEPT ![r] = "off"]
    /\ LET status == CASE record[r].status = "canceled" -> "canceled"
                       [] record[r].status # "canceled" /\ proc[r].timedOut -> "timed_out"
                       [] OTHER -> IF proc[r].ok THEN "completed" ELSE "failed"
           rec == [record[r] EXCEPT !.status = status]
       IN  \/ /\ Goto(r, "collecting") /\ Put(r, rec)
              /\ UNCHANGED <<runs, running, runningCount, reply, dirs, up>>
           \/ Catch(r, rec)
    /\ proc' = [proc EXCEPT ![r] = NoProcess]

\* git diff has answered and result.json is written, or one of them throws.
Collect(r) ==
    /\ At(r, "collecting")
    /\ \/ /\ Goto(r, "archiving")
          /\ UNCHANGED <<runs, record, running, runningCount, reply, dirs, up>>
       \/ Catch(r, record[r])
    /\ UNCHANGED <<proc, timer>>

\* tar has ended, or artifacts.json stands in for it, or neither can be written.
Archive(r) ==
    /\ At(r, "archiving")
    /\ \/ Finish(r, [record[r] EXCEPT !.artifacts = TRUE])
       \/ Catch(r, record[r])
    /\ UNCHANGED <<proc, timer>>

\* The same from the catch block, where an error is swallowed.
Salvage(r) ==
    /\ At(r, "salvaging")
    /\ \E written \in BOOLEAN : Finish(r, [record[r] EXCEPT !.artifacts = written])
    /\ UNCHANGED <<proc, timer>>

\* sync-wait-ms is over: 202 while the status is running, 200 otherwise.
WaitExpires(r) ==
    /\ reply[r] = "waiting"
    /\ Reply(r, IF Terminal(record[r].status) THEN "200" ELSE "202")
    /\ UNCHANGED <<runs, record, running, runningCount, step, dirs, up, proc, timer>>

-----------------------------------------------------------------------------
RunStep(r) == \/ Prepared(r) \/ PrepareFails(r) \/ Close(r)
              \/ Collect(r) \/ Archive(r) \/ Salvage(r)

Next == \E r \in Runs :
    \/ up /\ \/ Refuse(r) \/ Accept(r) \/ RunStep(r)
             \/ Timeout(r) \/ ForceKill(r) \/ Cancel(r) \/ WaitExpires(r)
    \/ ChildExits(r) \/ HelperExits(r)

Spec == Init /\ [][Next]_vars

\* Every git and tar command has its own timeout, timers fire, and a process
\* that obeys SIGTERM ends after it.  Nothing makes a runner end by itself.
Fairness ==
    \A r \in Runs :
        /\ WF_vars(up /\ RunStep(r))
        /\ WF_vars(up /\ Timeout(r)) /\ WF_vars(up /\ ForceKill(r))
        /\ WF_vars(proc[r].child = "ending" /\ ChildExits(r))
        /\ WF_vars(proc[r].helper = "ending" /\ HelperExits(r))

FairSpec == Spec /\ Fairness

-----------------------------------------------------------------------------
(* Properties *)

Holding == {r \in Runs : step[r] \notin {"new", "refused", "done"}}
Alive(r) == proc[r].child \in Living \/ proc[r].helper \in Living

\* runningCount is the number of runs between Accept and their end, on every
\* path out of createRun and executeRun, also when writing the artifacts or
\* removing an old run throws; and a runner is alive only under a slot, so that
\* never more than max-concurrency of them are.
SlotsAreCounted ==
    /\ runningCount = Cardinality(Holding) /\ runningCount <= MaxConcurrency
    /\ \A r \in Runs : Alive(r) => r \in Holding

\* As long as removals succeed, the directories on disk are those of the runs
\* being prepared or registered: retention and failed starts leave none behind,
\* and retention takes none from a run that is still executing.
NoDirectoryLeaks ==
    ~RemovalFails => dirs = Registered \cup {r \in Runs : At(r, "preparing")}

\* cleanupOldRuns forgets the oldest: what it drops ended no later than
\* anything it keeps.
Forgotten == Registered \ Registered'
ForgetsOldest ==
    [][\A q \in Forgotten : \A r \in Registered' :
          record'[r].finishedAt # 0 => record'[q].finishedAt <= record'[r].finishedAt]_vars

\* The clients' view: slots, results that are final once finished_at is set,
\* and retention (RunLifecycle).
Lifecycle == INSTANCE RunLifecycle WITH
    active <- Holding,
    kept <- {r \in Registered : record[r].finishedAt # 0},
    result <- [r \in Runs |-> IF record[r].finishedAt = 0 THEN "none"
                              ELSE record[r].status]
ImplementsLifecycle == Lifecycle!LifecycleSpec

\* A run that got a slot gives it back, whether it ends by itself, is canceled,
\* ignores SIGTERM, cannot be spawned or cannot be archived (timeout, SIGKILL,
\* finally).
SlotsAreReleased == \A r \in Runs : (up /\ r \in Holding) ~> (~up \/ r \notin Holding)

\* The process tree is killed on timeout (docs/plans/2026-07-08-agent-runs-
\* design.md, Security Model).
TreeDiesOnTimeout == \A r \in Runs : (up /\ proc[r].timedOut) ~> (~up \/ ~Alive(r))
=============================================================================
