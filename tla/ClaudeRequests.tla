--------------------------- MODULE ClaudeRequests ---------------------------
(***************************************************************************)
(* The request loop the four Claude handlers share (createChatCompletions- *)
(* Handler, createMessagesHandler, createCountTokensHandler, createRespon- *)
(* sesHandler), several requests at a time, composed with AccountManager.  *)
(* A request starts where its body has passed validation.                  *)
(*                                                                         *)
(* The handlers differ only in how a successful reply ends, so a request   *)
(* has a mode: "json" for a reply that is not streamed, and one streaming  *)
(* mode per handler that streams.                                          *)
(***************************************************************************)
EXTENDS AccountManager

CONSTANTS
    MaxRetries,    \* MAX_RETRIES
    RequestModes   \* the modes requests come in, out of Modes

Modes == {"json", "chat", "messages", "responses"}

ASSUME RequestsAssumption == /\ MaxRetries \in Nat \ {0} /\ RequestModes \subseteq Modes
                             /\ IsFiniteSet(Callers)

VARIABLE req          \* request -> its place in the loop and its locals

vars == <<managerVars, req>>

\* One status for each way the loop treats a reply that is not ok.
Statuses == {"400", "401", "403", "408", "429", "503", "529"}
Retryable == {"429", "503"}   \* RETRYABLE_STATUSES has 500, 502 and 504 besides

\* classifyAccountFailure
FailureKind(status) ==
    CASE status = "429" -> "rate_limit"
      [] status = "401" -> "auth"
      [] status = "403" -> "forbidden"
      [] status \in {"408", "503", "529"} -> "server"
      [] OTHER -> "none"

\* What the client is told: "ok", an upstream status, or an error of CCPA's.
Answers == {"none", "ok", "cut off", "network", "invalid", "internal",
            "cooldown", "unavailable"} \cup Statuses

Locals == [pc : {"pick", "sent", "streaming", "refreshing", "delay", "done"},
           mode : Modes, attempt : 0..(MaxRetries - 1), email : Names \cup {0},
           tok : Tokens \cup {0}, refreshed : SUBSET Names, sends : Nat,
           answer : Answers]

TypeOK == ManagerTypeOK /\ req \in [Callers -> Locals]

Init ==
    /\ ManagerInit
    /\ req \in [Callers -> [pc : {"pick"}, mode : RequestModes, attempt : {0},
                            email : {0}, tok : {0}, refreshed : {{}},
                            sends : {0}, answer : {"none"}]]

At(r, pc) == req[r].pc = pc
Goto(r, pc) == req' = [req EXCEPT ![r].pc = pc]

\* The handler returns: its locals are gone.
Answered(r, a) == [req[r] EXCEPT !.pc = "done", !.answer = a,
                                 !.attempt = 0, !.email = 0, !.tok = 0]
Answer(r, a) == req' = [req EXCEPT ![r] = Answered(r, a)]

\* Fault: one retry too many (attempt < MAX_RETRIES where MAX_RETRIES - 1 is meant).
RetryTooMany(r, a) ==
    IF req[r].attempt < MaxRetries
    THEN req' = [req EXCEPT ![r].pc = "delay", ![r].attempt = @ + 1]
    ELSE Answer(r, a)

\* for (...; attempt++), after the delay of a retry; past the last attempt the
\* loop answers with what it got last.
RetryOr(r, a) ==
    IF req[r].attempt < MaxRetries - 1
    THEN req' = [req EXCEPT ![r].pc = "delay", ![r].attempt = @ + 1]
    ELSE Answer(r, a)

RecordOnly == UNCHANGED <<refresh, sweep, tokenFiles, live, login, netFaults,
                          logins, restarts>>
Recorded == RecordOnly /\ UNCHANGED answer
NothingRecorded == UNCHANGED managerVars

-----------------------------------------------------------------------------
(* The head of the loop *)

\* getNextAccount found an account: recordAttempt, then the fetch.
Send(r) ==
    /\ At(r, "pick") /\ UsableSlots(accounts) # {}
    /\ LET a == accounts[First(UsableSlots(accounts))]
       IN  /\ req' = [req EXCEPT ![r].pc = "sent", ![r].email = a.email,
                                 ![r].tok = a.tok.id, ![r].sends = @ + 1]
           /\ RecordAttempt(a.email)
    /\ Recorded

\* Fault: the request waits for an account instead of answering.
UnavailableWaits(r) ==
    /\ At(r, "pick") /\ UsableSlots(accounts) = {}
    /\ Goto(r, "delay")
    /\ NothingRecorded

\* sendUnavailableClaudeAccount: 429 account_rate_limited for any cooldown,
\* 503 for an expired token or no account.
Unavailable(r) ==
    /\ At(r, "pick") /\ UsableSlots(accounts) = {}
    /\ Answer(r, IF Availability(accounts).state = "cooldown"
                 THEN "cooldown" ELSE "unavailable")
    /\ NothingRecorded

\* setTimeout(r, (attempt + 1) * 1000) has run out.
Wake(r) == At(r, "delay") /\ Goto(r, "pick") /\ NothingRecorded

-----------------------------------------------------------------------------
(* The replies *)

\* fetch throws: refused, reset, or the configured timeout.  Only the last
\* attempt counts against the account.
NetworkError(r) ==
    /\ At(r, "sent")
    /\ RetryOr(r, "network")
    /\ IF req[r].attempt < MaxRetries - 1
       THEN NothingRecorded
       ELSE RecordFailure(req[r].email, "network") /\ Recorded

JsonReply(r) ==
    /\ At(r, "sent") /\ req[r].mode = "json"
    /\ \/ Answer(r, "ok") /\ RecordSuccess(req[r].email) /\ Recorded
       \* readClaudeJsonResponse
       \/ Answer(r, "invalid") /\ RecordFailure(req[r].email, "server") /\ Recorded
       \* the translation throws: in createResponsesHandler after the success
       \* is recorded, in createChatCompletionsHandler before it
       \/ /\ Answer(r, "internal")
          /\ NothingRecorded \/ (RecordSuccess(req[r].email) /\ Recorded)

\* Fault: success is recorded when the stream starts, and again at its end.
StreamStartsCounted(r) ==
    /\ At(r, "sent") /\ req[r].mode # "json"
    /\ req' = [req EXCEPT ![r].pc = "streaming", ![r].answer = "ok"]
    /\ RecordSuccess(req[r].email) /\ Recorded

\* The headers of an event stream go out: the answer can no longer change.
StreamStarts(r) ==
    /\ At(r, "sent") /\ req[r].mode # "json"
    /\ req' = [req EXCEPT ![r].pc = "streaming", ![r].answer = "ok"]
    /\ NothingRecorded

\* The reply has no body: createResponsesHandler ends without a record.
NoBody(r) ==
    /\ At(r, "sent") /\ req[r].mode # "json"
    /\ Answer(r, "cut off")
    /\ IF req[r].mode = "responses"
       THEN NothingRecorded
       ELSE RecordFailure(req[r].email, "network") /\ Recorded

\* message_stop was seen and the stream ends.  Only the chat handler also
\* counts it when the client has left; only the messages handler misses it
\* when the read fails after it.
StreamCompletes(r) ==
    /\ At(r, "streaming") /\ Answer(r, "ok")
    /\ \E clientLeft, readFails \in BOOLEAN :
         LET counts == \/ req[r].mode = "chat"
                       \/ req[r].mode = "responses" /\ ~clientLeft
                       \/ req[r].mode = "messages" /\ ~clientLeft /\ ~readFails
         IN  IF counts
             THEN RecordSuccess(req[r].email) /\ Recorded
             ELSE NothingRecorded

\* The stream ends or fails before message_stop, or the client leaves first.
StreamBreaks(r) ==
    /\ At(r, "streaming") /\ Answer(r, "cut off")
    /\ \/ RecordFailure(req[r].email, "network") /\ Recorded
       \/ NothingRecorded   \* clientDisconnected

\* A reply that is neither ok nor 401.
HttpError(r) ==
    /\ At(r, "sent")
    /\ \E status \in Statuses \ {"401"} :
         /\ IF FailureKind(status) = "none"
            THEN NothingRecorded
            ELSE RecordFailure(req[r].email, FailureKind(status)) /\ Recorded
         /\ IF status \in Retryable THEN RetryOr(r, status) ELSE Answer(r, status)

\* 401, once per account: await refreshAccount.
Unauthorized(r) ==
    /\ At(r, "sent") /\ req[r].email \notin req[r].refreshed
    /\ Goto(r, "refreshing")
    /\ RefreshAccount(r, req[r].email)
    /\ UNCHANGED <<accounts, files, sweep, live, login, netFaults, logins, restarts>>

UnauthorizedAgain(r) ==
    /\ At(r, "sent") /\ req[r].email \in req[r].refreshed
    /\ Answer(r, "401")
    /\ RecordFailure(req[r].email, "auth") /\ Recorded

Awaited(r, result) == At(r, "refreshing") /\ answer[r] = result
TakeAnswer(r) == answer' = [answer EXCEPT ![r] = "none"]

\* Fault: the account is not added to refreshedAccounts.
RefreshedUnnoted(r) ==
    /\ Awaited(r, "true") /\ TakeAnswer(r)
    /\ Goto(r, "pick")
    /\ UNCHANGED <<accounts, files>> /\ RecordOnly

\* refreshed: the attempt does not count (attempt--; continue).
Refreshed(r) ==
    /\ Awaited(r, "true") /\ TakeAnswer(r)
    /\ req' = [req EXCEPT ![r].pc = "pick", ![r].refreshed = @ \cup {req[r].email}]
    /\ UNCHANGED <<accounts, files>> /\ RecordOnly

NotRefreshed(r) ==
    /\ Awaited(r, "false") /\ TakeAnswer(r)
    /\ Answer(r, "401")
    /\ RecordFailure(req[r].email, "auth") /\ RecordOnly

-----------------------------------------------------------------------------
RequestStep(r) ==
    \/ Send(r) \/ Unavailable(r) \/ Wake(r)
    \/ NetworkError(r) \/ JsonReply(r) \/ HttpError(r)
    \/ StreamStarts(r) \/ NoBody(r) \/ StreamCompletes(r) \/ StreamBreaks(r)
    \/ Unauthorized(r) \/ UnauthorizedAgain(r) \/ Refreshed(r) \/ NotRefreshed(r)

HeldTokens == {req[r].tok : r \in {q \in Callers :
                                     req[q].pc \in {"sent", "streaming", "refreshing"}}}
UnusedTokens == Tokens \ (TokensInUse \cup HeldTokens)

\* A restart resets the connection of every request that has no answer yet.
Crash == /\ Restart
         /\ req' = [r \in Callers |->
                      IF At(r, "done") THEN req[r] ELSE Answered(r, "cut off")]

Next == \/ \E r \in Callers : RequestStep(r)
        \/ ManagerStep(UnusedTokens) /\ UNCHANGED req
        \/ Crash

Spec == Init /\ [][Next]_vars

\* Upstream calls are bounded by the configured timeouts and token requests by
\* undici's own, so every request and every refresh moves on; timers fire.
Fairness ==
    /\ \A r \in Callers : WF_vars(RequestStep(r))
    /\ \A s \in Names : WF_vars(GrantAnswered(s, UnusedTokens) /\ UNCHANGED req)
FairSpec == Spec /\ Fairness

-----------------------------------------------------------------------------
(* Properties *)

\* The calls a request has open, as AccountClients sees them.
CallsView == [r \in Callers |->
    CASE req[r].pc \in {"sent", "streaming"} ->
            [phase |-> "sent", email |-> req[r].email, tok |-> req[r].tok]
      [] req[r].pc = "refreshing" ->
            [phase |-> "refreshing", email |-> req[r].email, tok |-> req[r].tok]
      [] OTHER -> [phase |-> "idle"]]

Clients == INSTANCE AccountClients WITH
    calls <- CallsView,
    MaxAttempts <- Cardinality(Callers) * (MaxRetries + NNames)

\* The loops use the manager as AccountClients allows: per attempt one outcome
\* at most, a refresh only for an open attempt, and never more attempts on one
\* account than every request's retries and refreshes add up to.
ImplementsClients == Clients!Spec

\* However replies, refreshes and other requests interleave, a request sends
\* upstream at most MAX_RETRIES times and once more for each account it got
\* refreshed (attempt-- is paid for by refreshedAccounts).
SendsWithinBudget ==
    \A r \in Callers : req[r].sends <= MaxRetries + Cardinality(req[r].refreshed)

\* Every request ends, whether it is served, refused or cut off.
EveryRequestEnds == \A r \in Callers : <>At(r, "done")
=============================================================================
