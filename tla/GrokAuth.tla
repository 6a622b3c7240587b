------------------------------ MODULE GrokAuth ------------------------------
(***************************************************************************)
(* GrokAuthStore (src/providers/grok-auth.ts): the auth file CCPA shares   *)
(* with the grok CLI, the snapshot cached of it, and the one refresh in    *)
(* flight; with the token endpoint, and the CLI as another process that    *)
(* rewrites the file.                                                      *)
(*                                                                         *)
(* The module has no Next: Load, Reload and Refresh are steps of a request *)
(* (GrokRequests).  Every write of the file brings a new token, so that    *)
(* equal mtimes and equal tokens are the same thing.                       *)
(***************************************************************************)
EXTENDS Integers, FiniteSets, Functions

CONSTANTS
    Requests,        \* the requests to come
    Lead,            \* REFRESH_SKEW_MS, in time units
    Lifetime,        \* expires_in
    NTokens,         \* bound: token pairs that can be told apart at one time
    MaxEvents        \* bound: how many events of the kinds below happen

Tokens == 1..NTokens

\* A request to the token endpoint that fails or whose reply is lost, a failed
\* write of the file, a `grok login`, another use of the CLI, an access token
\* upstream stops accepting early, and an end of the server process.
Events == {"net", "disk", "login", "cli", "revoke", "crash"}

ASSUME GrokTimesAssumption == Lead \in Nat /\ Lifetime \in Nat \ {0}
ASSUME GrokBoundsAssumption ==
    NTokens \in Nat \ {0} /\ MaxEvents \in Nat

VARIABLES
    file,       \* the auth file
    cache,      \* cachedSnapshot
    inFlight,   \* refreshInFlight: the snapshot being renewed, who awaits it
    reply,      \* what a settled refresh told each request: a snapshot or Null
    live,       \* pairs whose refresh token the endpoint honours
    revoked,    \* pairs whose access token upstream refuses before it runs out
    cli,        \* a pair the CLI has been granted and not yet written
    refreshable, \* do the CLI's entries have refresh_token and oidc_client_id?
    happened    \* how often each event has happened

storeVars == <<file, cache, inFlight, reply>>
endpointVars == <<live, revoked>>
authVars == <<file, cache, inFlight, reply, live, revoked, cli, refreshable,
              happened>>

\* The time a token has left, as the file tells it: an entry without expires_at
\* never runs out and is never due.
Undated == Lead + Lifetime + 1
Lives == 0..Lifetime \cup {Undated}

\* An entry of the file: of one path, where the code looks at a second one too.
Entry == [id : Tokens, life : Lives]
\* A snapshot keeps, besides the time, what expired was when it was taken.
Snapshot == [id : Tokens, life : Lives, expired : BOOLEAN]

Null == [id |-> 0]         \* null, a missing or unreadable file, no snapshot
NoReply == [id |-> -1]
NoFlight == [snap |-> Null, waiters |-> {}]

SnapshotOf(e) == [id |-> e.id, life |-> e.life, expired |-> e.life = 0]
EntryOf(t) == [id |-> t, life |-> Lifetime]
\* What the CLI may write of a pair it has been granted.
CliEntries(t) == {EntryOf(t), [EntryOf(t) EXCEPT !.life = Undated]}

AuthTypeOK ==
    /\ file \in Entry \cup {Null}
    /\ cache \in Snapshot \cup {Null}
    /\ \/ inFlight = NoFlight
       \/ inFlight \in [snap : Snapshot, waiters : (SUBSET Requests) \ {{}}]
    /\ reply \in [Requests -> Snapshot \cup {Null, NoReply}]
    /\ live \subseteq Tokens /\ revoked \subseteq Tokens
    /\ cli \in Entry \cup {Null}
    /\ refreshable \in BOOLEAN
    /\ happened \in [Events -> Nat]

AuthInit ==
    /\ revoked = {} /\ refreshable \in BOOLEAN
    /\ \/ file = Null /\ live = {}
       \/ /\ \E age \in Lives : file = [EntryOf(1) EXCEPT !.life = age]
          /\ live = {1}
    /\ cache = Null /\ inFlight = NoFlight /\ cli = Null
    /\ reply = [r \in Requests |-> NoReply]
    /\ happened = [e \in Events |-> 0]

Happens(event) ==
    /\ FoldFunction(+, 0, happened) < MaxEvents
    /\ happened' = [happened EXCEPT ![event] = @ + 1]

-----------------------------------------------------------------------------
(* The store *)

\* load(): the cached snapshot while the file is the one it was taken of.
Loaded == CASE file = Null -> Null
            [] file # Null /\ cache.id = file.id -> cache
            [] file # Null /\ cache.id # file.id -> SnapshotOf(file)

\* load() after invalidate().
Reread == IF file = Null THEN Null ELSE SnapshotOf(file)

NeedsRefresh(s) == refreshable /\ (s.expired \/ s.life <= Lead)

\* reloadAfterAuthFailure: what the file holds now, unless that is what failed.
ReloadedAfter(previous) == IF Reread.id = previous.id THEN Null ELSE Reread

Tell(waiters, s) == [r \in Requests |-> IF r \in waiters THEN s ELSE reply[r]]

\* Somebody else has renewed the login since, or CCPA could.
Renewed(previous) ==
    Reread # Null /\ Reread.id # previous.id /\ ~NeedsRefresh(Reread)
Renewable == Reread # Null /\ refreshable

\* refresh(previous) for request r, whose turn so far left snapshot in the
\* cache: join the refresh in flight, or run doRefresh to its first await.
Refresh(r, previous, snapshot) ==
    \/ /\ inFlight # NoFlight
       /\ inFlight' = [inFlight EXCEPT !.waiters = @ \cup {r}]
       /\ cache' = snapshot /\ UNCHANGED reply
    \/ /\ inFlight = NoFlight
       /\ cache' = Reread
       /\ \/ /\ Renewed(previous)
             /\ reply' = Tell({r}, Reread) /\ UNCHANGED inFlight
          \/ /\ ~Renewed(previous) /\ ~Renewable
             /\ reply' = Tell({r}, Null) /\ UNCHANGED inFlight
          \/ /\ ~Renewed(previous) /\ Renewable
             /\ inFlight' = [snap |-> Reread, waiters |-> {r}] /\ UNCHANGED reply

\* Fault: without the finally, refreshInFlight keeps the settled promise.
SettleKept(s) ==
    /\ reply' = Tell(inFlight.waiters, s)
    /\ inFlight' = [inFlight EXCEPT !.waiters = {}]

\* The promise settles for all who await it, and the finally clears it.
Settle(s) == reply' = Tell(inFlight.waiters, s) /\ inFlight' = NoFlight

\* Fault: the new pair is not written to the file.
GrantUnwritten(t) ==
    /\ inFlight.snap.id \in live
    /\ live' = (live \ {inFlight.snap.id}) \cup {t}
    /\ revoked' = revoked \ {t}
    /\ cache' = Reread /\ Settle(Reread)
    /\ UNCHANGED <<file, cli, refreshable, happened>>

\* The endpoint rotates the pair; persistRefreshedToken writes it into the file
\* as it is by now, which fails when the file is gone or the write does.
GrantGranted(t) ==
    /\ inFlight.snap.id \in live
    /\ live' = (live \ {inFlight.snap.id}) \cup {t}
    /\ revoked' = revoked \ {t}
    /\ \/ /\ file # Null
          /\ file' = EntryOf(t)
          /\ cache' = SnapshotOf(file') /\ Settle(SnapshotOf(file'))
          /\ UNCHANGED happened
       \/ /\ IF file = Null THEN UNCHANGED happened ELSE Happens("disk")
          /\ Settle(Null) /\ UNCHANGED <<file, cache>>
    /\ UNCHANGED <<cli, refreshable>>

\* Fault: a token request that fails is dropped and its promise never settles.
GrantLostSilently ==
    /\ Happens("net")
    /\ live' \in {live, live \ {inFlight.snap.id}}
    /\ inFlight' = NoFlight
    /\ UNCHANGED <<file, cache, reply, revoked, cli, refreshable>>

\* No answer within 15 s, an answer that is not ok, or an unreadable one, which
\* the endpoint may have rotated the pair for.
GrantLost ==
    /\ Happens("net")
    /\ live' \in {live, live \ {inFlight.snap.id}}
    /\ Settle(Null)
    /\ UNCHANGED <<file, cache, revoked, cli, refreshable>>

GrantRejected ==
    /\ inFlight.snap.id \notin live
    /\ Settle(Null)
    /\ UNCHANGED <<file, cache, endpointVars, cli, refreshable, happened>>

GrantAnswered(unused) ==
    /\ inFlight # NoFlight
    /\ \/ GrantLost \/ GrantRejected
       \/ unused # {} /\ GrantGranted(CHOOSE t \in unused : TRUE)

-----------------------------------------------------------------------------
(* The CLI, upstream and the clock *)

CliOnly == UNCHANGED <<cache, inFlight, reply, refreshable>>

CliLogin(t) ==
    /\ Happens("login")
    /\ file' \in CliEntries(t)
    /\ live' = live \cup {t} /\ revoked' = revoked \ {t}
    /\ UNCHANGED cli /\ CliOnly

\* The CLI renews the login itself: it spends the refresh token ...
CliRefresh(t) ==
    /\ cli = Null /\ file # Null /\ file.id \in live
    /\ Happens("cli")
    /\ live' = (live \ {file.id}) \cup {t} /\ revoked' = revoked \ {t}
    /\ cli' \in CliEntries(t)
    /\ UNCHANGED file /\ CliOnly

\* ... and then writes the new pair.
CliWrite ==
    /\ cli # Null /\ cli' = Null /\ file' = cli
    /\ UNCHANGED <<endpointVars, happened>> /\ CliOnly

CliLogout ==
    /\ file # Null /\ file' = Null
    /\ Happens("cli")
    /\ UNCHANGED <<endpointVars, cli>> /\ CliOnly

\* Upstream stops taking the access token of pair t.
Revoke(t) ==
    /\ Happens("revoke")
    /\ revoked' = revoked \cup {t}
    /\ UNCHANGED <<storeVars, live, cli, refreshable>>

\* One unit of time passes for whatever holds an expiry time.
Less(s) ==
    IF s \in {Null, NoReply} \/ s.life \in {0, Undated} THEN s
    ELSE [s EXCEPT !.life = @ - 1]
AgeStore ==
    /\ file' = Less(file) /\ cache' = Less(cache) /\ cli' = Less(cli)
    /\ inFlight' = [inFlight EXCEPT !.snap = Less(@)]
    /\ reply' = [r \in Requests |-> Less(reply[r])]
    /\ UNCHANGED <<endpointVars, refreshable, happened>>

\* The process ends and a new one starts with nothing in memory.  The endpoint
\* may still get the refresh that was in flight.
StoreLost ==
    /\ Happens("crash")
    /\ cache' = Null /\ inFlight' = NoFlight
    /\ reply' = [r \in Requests |-> NoReply]
    /\ live' \in {live, live \ {inFlight.snap.id}}
    /\ UNCHANGED <<file, revoked, cli, refreshable>>
=============================================================================
