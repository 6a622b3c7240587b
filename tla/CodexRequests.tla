--------------------------- MODULE CodexRequests ---------------------------
(***************************************************************************)
(* A request to the Codex provider on its way through the server: the rate *)
(* limiter, the tracked handler, the login, upstream with its retries, the *)
(* reading of the answer, and the record of it (src/server.ts,             *)
(* src/monitoring/http-usage.ts, the handlers of src/providers/codex-chat, *)
(* codex-responses and codex-images, codex-upstream.ts).  How a stream is  *)
(* read is in CodexStreams; here is what comes of it.  Validation, which   *)
(* changes no state, has passed.                                           *)
(***************************************************************************)
EXTENDS RateLimiter, UsageTracker, CodexAuth

CONSTANTS
    Callers,        \* client connections, each with one request at a time
    Modes,          \* what is asked for, of AllModes
    MaxArrivals,    \* bound: requests that arrive
    MaxImages       \* the most pictures of a request (4 in the code)

AllModes == {"chat stream", "chat", "responses stream", "responses", "images"}
ASSUME ModesAssumption == Modes \subseteq AllModes
ASSUME EndpointsAssumption == {"chat", "responses", "images"} \subseteq Endpoints
ASSUME ImagesAssumption == MaxImages \in Nat \ {0}
ASSUME ArrivalsAssumption == MaxArrivals \in Nat

CODEX_RESPONSES_MAX_ATTEMPTS == 2

VARIABLES
    req,        \* by caller, the locals of its handler
    arrivals,   \* requests that have arrived
    passed      \* the age of those the limiter has let through, by key

vars == <<buckets, usage, authVars, req, arrivals, passed>>

Statuses == {200, 401, 429, 500, 502, 503, 504}

\* attempt and reloaded are of the present call upstream; failed is whether the
\* response has a failure context, whole whether the client got all it asked for.
Idle == [pc |-> "idle", mode |-> "chat", snapshot |-> Unavailable, attempt |-> 1,
         reloaded |-> FALSE, left |-> 1, sends |-> 0, status |-> 200,
         failed |-> FALSE, whole |-> FALSE, tokens |-> 0, gone |-> FALSE]

Request == [pc : {"idle", "body", "sent", "delay", "reading", "finishing"},
            mode : AllModes, snapshot : Snapshots,
            attempt : 1..CODEX_RESPONSES_MAX_ATTEMPTS, reloaded : BOOLEAN,
            left : 1..MaxImages, sends : Nat, status : Statuses, failed : BOOLEAN,
            whole : BOOLEAN, tokens : 0..1, gone : BOOLEAN]

TypeOK ==
    /\ BucketsType(buckets) /\ UsageType(usage) /\ AuthType
    /\ req \in [Callers -> Request]
    /\ arrivals \in 0..MaxArrivals
    /\ passed \in [Keys -> Seq(0..Window)]

Init ==
    /\ LimiterInit /\ UsageInit /\ AuthInit
    /\ req = [r \in Callers |-> Idle]
    /\ arrivals = 0 /\ passed = [k \in Keys |-> <<>>]

At(r, pc) == req[r].pc = pc
Streaming(r) == req[r].mode \in {"chat stream", "responses stream"}

\* The endpoint a request is recorded under.
EndpointOf(mode) == CASE mode \in {"chat stream", "chat"} -> "chat"
                      [] mode \in {"responses stream", "responses"} -> "responses"
                      [] OTHER -> "images"

Become(r, record) == req' = [req EXCEPT ![r] = record]

\* res.status(status).json(...), the failure context set before it or not.
Answered(r, status, failed) ==
    [req[r] EXCEPT !.pc = "finishing", !.status = status, !.failed = failed,
                   !.whole = (status = 200)]

\* fetch in callCodexResponses
Sending(record, snapshot) ==
    [record EXCEPT !.pc = "sent", !.snapshot = snapshot, !.sends = @ + 1]

-----------------------------------------------------------------------------
\* The middleware runs as the request arrives, before its body is read; one it
\* refuses is answered 429 and is not tracked.
Arrive(r, k, mode) ==
    /\ At(r, "idle") /\ arrivals < MaxArrivals
    /\ arrivals' = arrivals + 1
    /\ \/ /\ Admit(k)
          /\ passed' = [passed EXCEPT ![k] = Append(@, 0)]
          /\ \E n \in IF mode = "images" THEN 1..MaxImages ELSE {1} :
                 Become(r, [Idle EXCEPT !.pc = "body", !.mode = mode, !.left = n])
       \/ Refuse(k) /\ UNCHANGED <<passed, req>>
    /\ UNCHANGED <<usage, authVars>>

\* The chat handler sets no failure context here.
Begin(r) ==
    /\ At(r, "body")
    /\ cache' = Cached(cache)
    /\ IF Loaded(cache) = Unavailable
       THEN Become(r, Answered(r, 503, EndpointOf(req[r].mode) # "chat"))
       ELSE Become(r, Sending(req[r], Loaded(cache)))
    /\ UNCHANGED <<buckets, usage, files, taken, written, events, arrivals, passed>>

Unshared == UNCHANGED <<buckets, usage, authVars, arrivals, passed>>

\* Fault: the second attempt is not the last.
AttemptsLeftAlways(r) == TRUE

AttemptsLeft(r) == req[r].attempt < CODEX_RESPONSES_MAX_ATTEMPTS

\* A transient error is tried again, once.
FetchFails(r, transient) ==
    /\ At(r, "sent")
    /\ IF transient /\ AttemptsLeft(r)
       THEN Become(r, [req[r] EXCEPT !.pc = "delay", !.attempt = @ + 1])
       ELSE Become(r, Answered(r, 502, TRUE))
    /\ Unshared

FetchTimesOut(r) == At(r, "sent") /\ Become(r, Answered(r, 504, TRUE)) /\ Unshared

Resend(r) ==
    /\ At(r, "delay") /\ Become(r, Sending(req[r], req[r].snapshot)) /\ Unshared

\* 401: the files are read again, once for each call, and a login that is new to
\* this request is tried.
Unauthorized(r) ==
    /\ At(r, "sent") /\ req[r].snapshot.id \notin taken
    /\ \/ /\ ~req[r].reloaded
          /\ cache' = Cached(Unavailable)
          /\ IF NewsAfter(req[r].snapshot) = Unavailable
             THEN Become(r, Answered(r, 401, TRUE))
             ELSE Become(r, Sending([req[r] EXCEPT !.reloaded = TRUE, !.attempt = 1],
                                    NewsAfter(req[r].snapshot)))
       \/ req[r].reloaded /\ UNCHANGED cache /\ Become(r, Answered(r, 401, TRUE))
    /\ UNCHANGED <<buckets, usage, files, taken, written, events, arrivals, passed>>

UpstreamRefuses(r, status) ==
    /\ At(r, "sent") /\ Become(r, Answered(r, status, TRUE)) /\ Unshared

BodyStarts(r) ==
    /\ At(r, "sent") /\ req[r].snapshot.id \in taken
    /\ Become(r, [req[r] EXCEPT !.pc = "reading"])
    /\ Unshared

\* Fault: the headers said 200, so the answer is fine.
StreamEndsUnmarked(r, completed, tokens) ==
    /\ At(r, "reading") /\ Streaming(r) /\ ~req[r].gone
    /\ Become(r, [Answered(r, 200, FALSE) EXCEPT !.whole = completed, !.tokens = tokens])
    /\ Unshared

\* The headers are out with status 200, however the stream ends.
StreamEnds(r, completed, tokens) ==
    /\ At(r, "reading") /\ Streaming(r) /\ ~req[r].gone
    /\ Become(r, [Answered(r, 200, ~completed) EXCEPT !.whole = completed, !.tokens = tokens])
    /\ Unshared

\* The reader sees that its client has left: it neither ends nor marks a response.
StreamAbandoned(r) ==
    /\ At(r, "reading") /\ Streaming(r) /\ req[r].gone
    /\ Become(r, Idle) /\ Unshared

\* collectCodexResponseFromSse returns; of pictures, the next is asked for, with
\* the login the last one was got with.
Collected(r, tokens) ==
    /\ At(r, "reading") /\ ~Streaming(r)
    /\ IF req[r].left > 1
       THEN Become(r, Sending([req[r] EXCEPT !.left = @ - 1, !.attempt = 1,
                                             !.reloaded = FALSE], req[r].snapshot))
       ELSE Become(r, [Answered(r, 200, FALSE) EXCEPT
                           !.tokens = IF req[r].mode = "images" THEN 0 ELSE tokens])
    /\ Unshared

\* It throws: an error of the stream, its early end, no picture in it.
CollectFails(r) ==
    /\ At(r, "reading") /\ ~Streaming(r)
    /\ Become(r, Answered(r, 502, TRUE)) /\ Unshared

\* It throws what the reader threw: the connection broke, or its time was up.
CollectBreaks(r) ==
    /\ At(r, "reading") /\ ~Streaming(r)
    /\ Become(r, Answered(r, 500, req[r].mode # "chat")) /\ Unshared

Leave(r) ==
    /\ req[r].pc \notin {"idle", "body"} /\ ~req[r].gone
    /\ Become(r, [req[r] EXCEPT !.gone = TRUE]) /\ Unshared

\* "finish": the record is made.  It may not come for a client that has left.
Finish(r) ==
    /\ At(r, "finishing")
    /\ \/ Record(EndpointOf(req[r].mode), req[r].status < 400 /\ ~req[r].failed, req[r].tokens)
       \/ req[r].gone /\ UNCHANGED usage
    /\ Become(r, Idle)
    /\ UNCHANGED <<buckets, authVars, arrivals, passed>>

RequestStep(r) ==
    \/ Begin(r)
    \/ \E transient \in BOOLEAN : FetchFails(r, transient)
    \/ FetchTimesOut(r) \/ Resend(r) \/ Unauthorized(r)
    \/ \E status \in {429, 500} : UpstreamRefuses(r, status)
    \/ BodyStarts(r)
    \/ \E completed \in BOOLEAN, tokens \in 0..1 : StreamEnds(r, completed, tokens)
    \/ StreamAbandoned(r)
    \/ \E tokens \in 0..1 : Collected(r, tokens)
    \/ CollectFails(r) \/ CollectBreaks(r) \/ Finish(r)

\* A unit of time later: the oldest, who come first, drop out of the Window.
Dropped(ages) == Cardinality({i \in DOMAIN ages : ages[i] = Window})
Aged(ages) == [i \in 1..(Len(ages) - Dropped(ages)) |-> ages[i + Dropped(ages)] + 1]

\* Only while requests are to come does the time matter.
Tick == /\ arrivals < MaxArrivals /\ DOMAIN buckets # {}
        /\ BucketsTick
        /\ passed' = [k \in Keys |-> Aged(passed[k])]
        /\ UNCHANGED <<usage, authVars, req, arrivals>>

Sweep == /\ \E k \in DOMAIN buckets : Fresh(k)
         /\ Cleanup
         /\ UNCHANGED <<usage, authVars, req, arrivals, passed>>

Next == \/ \E r \in Callers, k \in Keys, mode \in Modes : Arrive(r, k, mode)
        \/ \E r \in Callers : RequestStep(r) \/ Leave(r)
        \/ AuthStep /\ UNCHANGED <<buckets, usage, req, arrivals, passed>>
        \/ Tick \/ Sweep

Spec == Init /\ [][Next]_vars

-----------------------------------------------------------------------------
(* Properties *)

\* A request sends at most twice for each login it tries, and tries at most two
\* logins for each picture, whatever the network, upstream and the CLI do.
SendsWithinBudget ==
    \A r \in Callers : req[r].sends <= 2 * CODEX_RESPONSES_MAX_ATTEMPTS
                           * (IF req[r].mode = "images" THEN MaxImages ELSE 1)

\* A client is told 401 only when a second login was refused too, or the files
\* then held no login but the refused one, whoever else read them meanwhile
\* (reloadAfterAuthFailure compares with the request's own snapshot).
Refused(r) == ~At(r, "finishing") /\ req'[r].pc = "finishing" /\ req'[r].status = 401
RefusedOnlyAfterReload ==
    [][\A r \in Callers : Refused(r) =>
          req[r].reloaded \/ OnDisk \in {Unavailable, req[r].snapshot}]_vars

\* What the monitor counts as a success is what the client got whole, also when
\* the stream broke after its status 200 (setFailureContext, wrapTrackedHandler).
SuccessIsWhole ==
    \A r \in Callers : At(r, "finishing") =>
        (req[r].whole <=> req[r].status < 400 /\ ~req[r].failed)

\* A key is refused only when MaxRequests of its own were let through in the last
\* Window; and within a Window fewer than twice as many are ever let through: the
\* end of one bucket and the beginning of the next, but not the request that
\* opened the first (createRateLimitMiddleware, `now > entry.resetAt`).
Turned(k) == k \in DOMAIN buckets /\ buckets'[k].count > MaxRequests
             /\ buckets'[k].count > buckets[k].count
QuotaIsKept ==
    [][\A k \in Keys :
          /\ arrivals' # arrivals /\ Turned(k) => Len(passed[k]) >= MaxRequests
          /\ Len(passed'[k]) < 2 * MaxRequests]_vars
=============================================================================
