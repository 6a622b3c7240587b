---------------------------- MODULE GrokRequests ----------------------------
(***************************************************************************)
(* The forwarding handler of GrokProvider (src/providers/grok.ts), several *)
(* requests at a time, with the status probe, over GrokAuth.  A request    *)
(* starts where the provider is enabled and its body has been accepted.    *)
(***************************************************************************)
EXTENDS GrokAuth

VARIABLE req    \* request -> the await it stands at and its locals

vars == <<authVars, req>>

\* What the client is told: "ok", CCPA's own 503s, the upstream's refusal of
\* the credentials, any other failure, or nothing more.
Answers == {"none", "ok", "unavailable", "expired", "rejected", "failed", "cut off"}

Locals == [pc : {"start", "renewing", "sent", "retrying", "resent", "streaming", "done"},
           auth : Snapshot \cup {Null}, answer : Answers]

TypeOK == AuthTypeOK /\ req \in [Requests -> Locals]

Init ==
    /\ AuthInit
    /\ req = [r \in Requests |-> [pc |-> "start", auth |-> Null, answer |-> "none"]]

At(r, pc) == req[r].pc = pc
Use(r, pc, auth) == req' = [req EXCEPT ![r].pc = pc, ![r].auth = auth]
Answered(a) == [pc |-> "done", auth |-> Null, answer |-> a]
Answer(r, a) == req' = [req EXCEPT ![r] = Answered(a)]

OutsideStore == UNCHANGED <<file, endpointVars, cli, refreshable, happened>>

\* The request goes out, unless the token was expired when it was read.
SendWith(r, auth) == IF auth.expired THEN Answer(r, "expired") ELSE Use(r, "sent", auth)

-----------------------------------------------------------------------------
\* load() throws: no usable file.
NoAuth(r) ==
    /\ At(r, "start") /\ file = Null
    /\ Answer(r, "unavailable")
    /\ UNCHANGED authVars

\* load(), and a refresh ahead of the expiry.
Begin(r) ==
    /\ At(r, "start") /\ file # Null
    /\ \/ /\ ~NeedsRefresh(Loaded)
          /\ SendWith(r, Loaded)
          /\ cache' = Loaded /\ UNCHANGED <<inFlight, reply>>
       \/ /\ NeedsRefresh(Loaded)
          /\ Use(r, "renewing", Loaded)
          /\ Refresh(r, Loaded, Loaded)
    /\ OutsideStore

TakeReply(r) == reply' = [reply EXCEPT ![r] = NoReply]

\* After await refresh(auth): go on with the new token, or with the old one.
GoOn(r) ==
    /\ At(r, "renewing") /\ reply[r] # NoReply
    /\ SendWith(r, IF reply[r] = Null THEN req[r].auth ELSE reply[r])
    /\ TakeReply(r)
    /\ UNCHANGED <<cache, inFlight>> /\ OutsideStore

\* Upstream does not take the access token: 401, or the 403 of isCredential403.
Refused(r) == req[r].auth.id \in revoked \/ req[r].auth.life = 0

Usable(s) == s # Null /\ ~s.expired

\* Fault: reloadAfterAuthFailure is not asked, the file is not looked at.
RejectedUnread(r) ==
    /\ At(r, "sent") /\ Refused(r)
    /\ Answer(r, "rejected")
    /\ UNCHANGED authVars

\* A refusal of the first send: take what the CLI has written, or refresh.
Rejected(r) ==
    /\ At(r, "sent") /\ Refused(r)
    /\ LET now == ReloadedAfter(req[r].auth)
       IN  \/ /\ Usable(now)
              /\ Use(r, "resent", now)
              /\ cache' = Reread /\ UNCHANGED <<inFlight, reply>>
           \/ /\ ~Usable(now)
              /\ Use(r, "retrying", req[r].auth)
              /\ Refresh(r, req[r].auth, Reread)
    /\ OutsideStore

\* After the refresh: send again with a new token, or forward the refusal.
Retry(r) ==
    /\ At(r, "retrying") /\ reply[r] # NoReply
    /\ IF Usable(reply[r]) /\ reply[r].id # req[r].auth.id
       THEN Use(r, "resent", reply[r])
       ELSE Answer(r, "rejected")
    /\ TakeReply(r)
    /\ UNCHANGED <<cache, inFlight>> /\ OutsideStore

\* Upstream takes no access token it has seen before this one.
RejectedAgain(r) ==
    /\ At(r, "resent") /\ Refused(r)
    /\ Answer(r, "rejected")
    /\ UNCHANGED authVars

Awaiting(r) == At(r, "sent") \/ At(r, "resent")

\* fetch throws (503), an error status, a body that cannot be mapped (502), or
\* a good one that is not a stream.
Reply(r) ==
    /\ Awaiting(r)
    /\ Answer(r, "failed") \/ (~Refused(r) /\ Answer(r, "ok"))
    /\ UNCHANGED authVars

StreamStarts(r) ==
    /\ Awaiting(r) /\ ~Refused(r)
    /\ Use(r, "streaming", Null)
    /\ UNCHANGED authVars

StreamEnds(r) == At(r, "streaming") /\ Answer(r, "ok") /\ UNCHANGED authVars

\* reader.read() throws after the headers have gone out: the finally ends the
\* response, and the catch of the handler then throws ERR_HTTP_HEADERS_SENT.
\* Nothing catches that, the process ends on the unhandled rejection, and every
\* open request with it.
StreamFails(r) ==
    /\ At(r, "streaming")
    /\ req' = [q \in Requests |-> IF At(q, "done") \/ At(q, "start") THEN req[q]
                                  ELSE Answered("cut off")]
    /\ StoreLost

\* GET /admin/accounts: getStatus loads too.
GetStatus == cache' = Loaded /\ file # Null /\ UNCHANGED <<inFlight, reply, req>> /\ OutsideStore

-----------------------------------------------------------------------------
RequestStep(r) ==
    \/ NoAuth(r) \/ Begin(r) \/ GoOn(r)
    \/ Rejected(r) \/ Retry(r) \/ RejectedAgain(r) \/ Reply(r)
    \/ StreamStarts(r) \/ StreamEnds(r) \/ StreamFails(r)

\* Pairs the system still refers to; a grant or a login brings another.
Referred == {file.id, cache.id, inFlight.snap.id, cli.id}
            \cup {reply[r].id : r \in Requests} \cup {req[r].auth.id : r \in Requests}
Unused == Tokens \ Referred

Cli == \/ /\ Unused # {}
          /\ LET t == CHOOSE u \in Unused : TRUE IN CliLogin(t) \/ CliRefresh(t)
       \/ CliWrite \/ CliLogout

Tick == AgeStore /\ req' = [r \in Requests |-> [req[r] EXCEPT !.auth = Less(@)]]

Next == \/ \E r \in Requests : RequestStep(r)
        \/ GrantAnswered(Unused) /\ UNCHANGED req
        \/ Cli /\ UNCHANGED req
        \/ \E t \in Referred \cap Tokens : Revoke(t) /\ UNCHANGED req
        \/ GetStatus \/ Tick

Spec == Init /\ [][Next]_vars

-----------------------------------------------------------------------------
(* Properties *)

\* Nothing but the server and `grok login` has touched the file or the login.
Undisturbed == \A e \in {"net", "disk", "cli", "crash"} : happened[e] = 0

\* A rotating refresh token is good once: whoever asks for the refresh, and
\* whenever a login comes in between, what doRefresh presents and what the file
\* holds has not been spent (refreshInFlight, the re-read of doRefresh, and
\* persistRefreshedToken before the promise settles).
GrokLoginStaysRedeemable ==
    Undisturbed => /\ inFlight # NoFlight => inFlight.snap.id \in live
                   /\ file # Null => file.id \in live

\* With a login that can be renewed, a client is refused for its credentials
\* only after two different tokens were sent, also when another request, a
\* login or the expiry gets in between (callUpstream, createForwardHandler).
RefusedIn(r) == ~At(r, "done") /\ req'[r].answer \in {"expired", "rejected"}
RefusedOnlyAfterRetry ==
    [][\A r \in Requests :
          refreshable /\ Undisturbed /\ RefusedIn(r) => At(r, "resent")]_vars

\* A request that awaits a refresh is registered with the one in flight or has
\* been told its outcome, and nobody else is: a failed refresh, a login or the end
\* of the process leaves no request hanging (refreshInFlight and its finally).
NobodyAwaitsInVain ==
    \A r \in Requests :
        (At(r, "renewing") \/ At(r, "retrying"))
            <=> (r \in inFlight.waiters \/ reply[r] # NoReply)
=============================================================================
