---------------------------- MODULE UsageTracker ----------------------------
(***************************************************************************)
(* UsageTracker of src/monitoring/usage.ts: counters in total and by       *)
(* endpoint, which stands for all the keys it counts by, and the latest    *)
(* records.  Days, hours and everything but the sum of tokens are left out.*)
(***************************************************************************)
EXTENDS FiniteSetsExt, SequencesExt

CONSTANTS
    Endpoints,
    MaxRecent      \* maxRecentRecords

ASSUME RecentAssumption == MaxRecent \in Nat \ {0}

VARIABLE usage     \* [totals, endpoints, recent, nextId]

Counter == [total : Nat, success : Nat, failure : Nat, tokens : Nat]

UsageType(usage_) ==
    /\ usage_.totals \in Counter
    /\ DOMAIN usage_.endpoints \subseteq Endpoints
    /\ \A e \in DOMAIN usage_.endpoints : usage_.endpoints[e] \in Counter
    /\ usage_.recent \in Seq([id : Nat, endpoint : Endpoints, success : BOOLEAN, tokens : Nat])
    /\ usage_.nextId \in Nat \ {0}

\* createCounter
NoUse == [total |-> 0, success |-> 0, failure |-> 0, tokens |-> 0]

UsageInit == usage = [totals |-> NoUse, endpoints |-> [e \in {} |-> NoUse],
                      recent |-> <<>>, nextId |-> 1]

\* updateCounter
Counted(counter, success, tokens) ==
    [total |-> counter.total + 1,
     success |-> counter.success + (IF success THEN 1 ELSE 0),
     failure |-> counter.failure + (IF success THEN 0 ELSE 1),
     tokens |-> counter.tokens + tokens]

\* getOrCreate
CounterOf(e) == IF e \in DOMAIN usage.endpoints THEN usage.endpoints[e] ELSE NoUse

\* Fault: room is made for the next record.
LatestButOne(records) ==
    IF Len(records) >= MaxRecent THEN Tail(records) ELSE records

Latest(records) == IF Len(records) > MaxRecent THEN Tail(records) ELSE records

Record(e, success, tokens) ==
    usage' = [totals |-> Counted(usage.totals, success, tokens),
              endpoints |-> [f \in DOMAIN usage.endpoints \cup {e} |->
                                IF f = e THEN Counted(CounterOf(e), success, tokens)
                                ELSE usage.endpoints[f]],
              recent |-> Latest(Append(usage.recent,
                            [id |-> usage.nextId, endpoint |-> e,
                             success |-> success, tokens |-> tokens])),
              nextId |-> usage.nextId + 1]

-----------------------------------------------------------------------------
SumOver(part(_)) == MapThenSumSet(part, DOMAIN usage.endpoints)

\* The totals are those of the endpoints together, every record is counted as a
\* success or a failure, and the recent records are the latest, without a gap,
\* as many as are kept (the dashboard shows these numbers side by side).
UsageAddsUp ==
    /\ LET total(e) == usage.endpoints[e].total
           success(e) == usage.endpoints[e].success
           tokens(e) == usage.endpoints[e].tokens
       IN  /\ usage.totals.total = SumOver(total)
           /\ usage.totals.success = SumOver(success)
           /\ usage.totals.tokens = SumOver(tokens)
    /\ usage.totals.success + usage.totals.failure = usage.totals.total
    /\ usage.nextId = usage.totals.total + 1
    /\ Len(usage.recent) = Min({MaxRecent, usage.totals.total})
    /\ \A i \in DOMAIN usage.recent :
           usage.recent[i].id = usage.nextId - 1 - Len(usage.recent) + i
=============================================================================
