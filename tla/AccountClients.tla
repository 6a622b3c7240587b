--------------------------- MODULE AccountClients ---------------------------
(***************************************************************************)
(* What the AccountManager may be asked, and in which order, by the code   *)
(* that uses it: the four Claude request loops of src/proxy.  A caller     *)
(* picks an account and counts an attempt on it; the attempt ends with one *)
(* success, one failure, nothing at all, or a refresh whose outcome decides*)
(* between nothing and an auth failure.  The module promises what holds    *)
(* whatever the request loops do beyond that; ClaudeRequests implements it.*)
(***************************************************************************)
EXTENDS AccountManager

CONSTANT MaxAttempts   \* bound: attempts counted on one account

VARIABLE calls         \* caller -> the attempt it has open

vars == <<managerVars, calls>>

NoCall == [phase |-> "idle"]
OpenCall == [phase : {"sent", "refreshing"}, email : Names, tok : Tokens]

TypeOK ==
    /\ ManagerTypeOK
    /\ calls \in [Callers -> {NoCall} \cup OpenCall]

Init == ManagerInit /\ calls = [c \in Callers |-> NoCall]

Idle(c) == calls[c].phase = "idle"
Sent(c) == calls[c].phase = "sent"
Close(c) == calls' = [calls EXCEPT ![c] = NoCall]

\* What a caller's record call leaves alone.
RecordOnly == UNCHANGED <<refresh, sweep, tokenFiles, live, login, netFaults,
                          logins, restarts>>

\* getNextAccount and, in the same turn, recordAttempt.
Begin(c) ==
    /\ Idle(c)
    /\ UsableSlots(accounts) # {}
    /\ LET s == First(UsableSlots(accounts))
           e == accounts[s].email
       IN  /\ \A h \in Holders(accounts, e) :
                accounts[h].run.totalRequests < MaxAttempts
           /\ calls' = [calls EXCEPT ![c] =
                          [phase |-> "sent", email |-> e, tok |-> accounts[s].tok.id]]
           /\ RecordAttempt(e)
    /\ RecordOnly /\ UNCHANGED answer

Succeed(c) == /\ Sent(c) /\ Close(c)
              /\ RecordSuccess(calls[c].email)
              /\ RecordOnly /\ UNCHANGED answer

Fail(c) == /\ Sent(c) /\ Close(c)
           /\ \E kind \in FailureKinds : RecordFailure(calls[c].email, kind)
           /\ RecordOnly /\ UNCHANGED answer

\* A network error that will be retried, a client error, a client that left.
Drop(c) == Sent(c) /\ Close(c) /\ UNCHANGED managerVars

\* await manager.refreshAccount(account.email) after a 401
AskRefresh(c) ==
    /\ Sent(c)
    /\ calls' = [calls EXCEPT ![c].phase = "refreshing"]
    /\ RefreshAccount(c, calls[c].email)
    /\ UNCHANGED <<accounts, files, sweep, live, login, netFaults, logins, restarts>>

Answered(c, result) == calls[c].phase = "refreshing" /\ answer[c] = result
TakeAnswer(c) == answer' = [answer EXCEPT ![c] = "none"]

Refreshed(c) ==
    /\ Answered(c, "true") /\ TakeAnswer(c) /\ Close(c)
    /\ UNCHANGED <<accounts, files>> /\ RecordOnly

NotRefreshed(c) ==
    /\ Answered(c, "false") /\ TakeAnswer(c) /\ Close(c)
    /\ RecordFailure(calls[c].email, "auth")
    /\ RecordOnly

CallerStep(c) == \/ Begin(c) \/ Succeed(c) \/ Fail(c) \/ Drop(c)
                 \/ AskRefresh(c) \/ Refreshed(c) \/ NotRefreshed(c)

HeldTokens == {calls[c].tok : c \in {d \in Callers : ~Idle(d)}}
UnusedTokens == Tokens \ (TokensInUse \cup HeldTokens)

\* A restart cuts every request off.
Crash == Restart /\ calls' = [c \in Callers |-> NoCall]

Next == \/ \E c \in Callers : CallerStep(c)
        \/ ManagerStep(UnusedTokens) /\ UNCHANGED calls
        \/ Crash

Spec == Init /\ [][Next]_vars

\* Timers run, the sweep's timer fires, and every token request gets an
\* answer of some kind: undici gives up on a silent endpoint (fetch's default
\* headers and body timeouts).  Nothing is assumed of the requests.
Fairness ==
    /\ WF_vars(Tick /\ UNCHANGED calls)
    /\ WF_vars(SweepStart /\ UNCHANGED calls)
    /\ WF_vars(SweepResume /\ UNCHANGED calls)
    /\ \A s \in Names : WF_vars(GrantAnswered(s, UnusedTokens) /\ UNCHANGED calls)

FairSpec == Spec /\ Fairness

-----------------------------------------------------------------------------
(* Properties *)

\* The attempts callers have open on an account, by email.
OpenOn(e) == {c \in Callers : ~Idle(c) /\ calls[c].email = e}

\* Every attempt is counted once and ends in at most one outcome, whichever
\* requests interleave and whatever is restarted in between: successes,
\* failures and open attempts never exceed the attempts counted on the account
\* (recordAttempt, recordSuccess, recordFailure; the counters of state.json).
OutcomesWithinAttempts ==
    ~GrantOmitsEmail => \A s \in DOMAIN accounts :
        LET run == accounts[s].run
        IN  run.totalSuccesses + run.totalFailures
              + Cardinality(OpenOn(accounts[s].email)) <= run.totalRequests

\* Whoever awaits a refresh is registered with the promise in flight or has its
\* answer already, so that no request hangs on a refresh that is over
\* (refreshAccount's join, performRefresh's finally).
NobodyWaitsForNothing ==
    \A w \in Waiters :
        LET waiting == IF w = Sweep THEN sweep # 0
                       ELSE calls[w].phase = "refreshing"
        IN  waiting <=> \/ answer[w] # "none"
                        \/ \E s \in DOMAIN refresh : w \in refresh[s].waiters
=============================================================================
