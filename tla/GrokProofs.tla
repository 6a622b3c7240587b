----------------------------- MODULE GrokProofs -----------------------------
(* Proofs about GrokRequests, for every value of the constants: nobody       *)
(* awaits in vain, no login is burnt, and nobody is refused without a retry. *)
EXTENDS GrokRequests, TLAPS

-----------------------------------------------------------------------------
(* Types *)

\* null, no snapshot and no reply are none of the pairs.
LEMMA NullIsNoSnapshot ==
  /\ Null.id = 0 /\ NoReply.id = -1 /\ Null # NoReply
  /\ \A s \in Snapshot : s # Null /\ s # NoReply /\ s.id \in Tokens /\ s.id > 0
  /\ \A e \in Entry : e # Null /\ e # NoReply /\ e.id \in Tokens /\ e.id > 0
BY GrokBoundsAssumption DEF Null, NoReply, Snapshot, Entry, Tokens

\* What is taken of the file is a snapshot of it.
LEMMA SnapshotType ==
  /\ \A e \in Entry : SnapshotOf(e) \in Snapshot /\ SnapshotOf(e).id = e.id
  /\ \A t \in Tokens : /\ EntryOf(t) \in Entry
                       /\ \A e \in CliEntries(t) : e \in Entry /\ e.id = t
                       /\ SnapshotOf(EntryOf(t)) \in Snapshot
                       /\ SnapshotOf(EntryOf(t)).id = t
                       /\ ~SnapshotOf(EntryOf(t)).expired
<1>1. \A e \in Entry : SnapshotOf(e) \in Snapshot /\ SnapshotOf(e).id = e.id
  BY DEF Entry, Snapshot, SnapshotOf
<1>2. \A t \in Tokens : EntryOf(t) \in Entry /\ EntryOf(t).id = t /\ EntryOf(t).life # 0
  BY GrokTimesAssumption DEF EntryOf, Entry, Lives
<1>3. \A e \in Entry : e.life # 0 => ~SnapshotOf(e).expired BY DEF SnapshotOf
<1>4. \A t \in Tokens : \A e \in CliEntries(t) : e \in Entry /\ e.id = t
  BY <1>2 DEF CliEntries, EntryOf, Entry, Lives
<1> QED BY <1>1, <1>2, <1>3, <1>4

\* load() yields a snapshot of the file, or null without one.
LEMMA LoadType ==
  ASSUME AuthTypeOK
  PROVE  /\ Reread \in Snapshot \cup {Null} /\ Loaded \in Snapshot \cup {Null}
         /\ file = Null => Reread = Null /\ Loaded = Null
         /\ file # Null => /\ Reread \in Snapshot /\ Reread.id = file.id
                           /\ Loaded \in Snapshot /\ Loaded.id = file.id
<1>1. CASE file = Null BY <1>1 DEF Reread, Loaded
<1>2. CASE file # Null
  <2>1. file \in Entry BY <1>2 DEF AuthTypeOK
  <2>2. Reread = SnapshotOf(file) BY <1>2 DEF Reread
  <2>3. CASE cache.id = file.id
    <3>1. cache # Null BY <2>1, <2>3, NullIsNoSnapshot
    <3>2. cache \in Snapshot BY <3>1 DEF AuthTypeOK
    <3>3. Loaded = cache BY <1>2, <2>3 DEF Loaded
    <3> QED BY <1>2, <2>1, <2>2, <2>3, <3>2, <3>3, SnapshotType
  <2>4. CASE cache.id # file.id
    <3>1. Loaded = SnapshotOf(file) BY <1>2, <2>4 DEF Loaded
    <3> QED BY <1>2, <2>1, <2>2, <3>1, SnapshotType
  <2> QED BY <2>3, <2>4
<1> QED BY <1>1, <1>2

\* A unit of time changes nothing but the time left.
LEMMA LessType ==
  /\ Less(Null) = Null /\ Less(NoReply) = NoReply
  /\ \A s \in Snapshot : /\ Less(s) \in Snapshot /\ Less(s).id = s.id
                         /\ Less(s).expired = s.expired
  /\ \A e \in Entry : Less(e) \in Entry /\ Less(e).id = e.id
<1>1. \A s \in Snapshot : /\ Less(s) \in Snapshot /\ Less(s).id = s.id
                          /\ Less(s).expired = s.expired
  BY GrokTimesAssumption DEF Less, Snapshot, Lives, Undated
<1>2. \A e \in Entry : Less(e) \in Entry /\ Less(e).id = e.id
  BY GrokTimesAssumption DEF Less, Entry, Lives, Undated
<1>3. Less(Null) = Null /\ Less(NoReply) = NoReply BY DEF Less
<1> QED BY <1>1, <1>2, <1>3

\* An event is counted.
LEMMA HappensType ==
  ASSUME AuthTypeOK, NEW e \in Events, Happens(e)
  PROVE  happened' \in [Events -> Nat] /\ happened'[e] # 0
<1>1. happened \in [Events -> Nat] /\ happened' = [happened EXCEPT ![e] = @ + 1]
  BY DEF AuthTypeOK, Happens
<1>2. happened[e] + 1 \in Nat /\ happened[e] + 1 # 0 BY <1>1
<1> QED BY <1>1, <1>2

\* What is told to some is a reply to each.
LEMMA TellType ==
  ASSUME AuthTypeOK, NEW W, NEW s \in Snapshot \cup {Null}
  PROVE  Tell(W, s) \in [Requests -> Snapshot \cup {Null, NoReply}]
BY DEF Tell, AuthTypeOK

\* The store's own variables.
StoreOK == /\ cache \in Snapshot \cup {Null}
           /\ \/ inFlight = NoFlight
              \/ inFlight \in [snap : Snapshot, waiters : (SUBSET Requests) \ {{}}]
           /\ reply \in [Requests -> Snapshot \cup {Null, NoReply}]

\* refresh() keeps them.
LEMMA RefreshType ==
  ASSUME AuthTypeOK, NEW r \in Requests, NEW previous, NEW s \in Snapshot \cup {Null},
         Refresh(r, previous, s)
  PROVE  StoreOK'
<1>1. Reread \in Snapshot \cup {Null} BY LoadType
<1>2. CASE inFlight # NoFlight
  <2>1. inFlight \in [snap : Snapshot, waiters : (SUBSET Requests) \ {{}}]
    BY <1>2 DEF AuthTypeOK
  <2>2. inFlight' = [inFlight EXCEPT !.waiters = @ \cup {r}] /\ cache' = s /\ reply' = reply
    BY <1>2 DEF Refresh
  <2>3. inFlight' \in [snap : Snapshot, waiters : (SUBSET Requests) \ {{}}] BY <2>1, <2>2
  <2> QED BY <2>2, <2>3 DEF StoreOK, AuthTypeOK
<1>3. CASE inFlight = NoFlight
  <2>1. cache' = Reread BY <1>3 DEF Refresh
  <2>2. CASE UNCHANGED inFlight /\ (reply' = Tell({r}, Reread) \/ reply' = Tell({r}, Null))
    BY <1>1, <1>3, <2>1, <2>2, TellType DEF StoreOK
  <2>3. CASE /\ Renewable /\ reply' = reply
             /\ inFlight' = [snap |-> Reread, waiters |-> {r}]
    <3>1. Reread \in Snapshot BY <1>1, <2>3 DEF Renewable
    <3> QED BY <1>1, <2>1, <2>3, <3>1 DEF StoreOK, AuthTypeOK
  <2> QED BY <1>3, <2>2, <2>3 DEF Refresh
<1> QED BY <1>2, <1>3

\* The store is part of the types, and the rest.
LEMMA StoreType ==
  ASSUME AuthTypeOK, StoreOK', OutsideStore
  PROVE  AuthTypeOK'
BY DEF StoreOK, OutsideStore, endpointVars, AuthTypeOK

\* What a settled refresh leaves.
LEMMA SettleType ==
  ASSUME AuthTypeOK, NEW s \in Snapshot \cup {Null}, Settle(s)
  PROVE  reply' \in [Requests -> Snapshot \cup {Null, NoReply}] /\ inFlight' = NoFlight
BY TellType DEF Settle

\* The token endpoint's answers keep the types.
LEMMA AnsweredType ==
  ASSUME AuthTypeOK, GrantAnswered(Unused)
  PROVE  AuthTypeOK'
<1>1. CASE GrantLost
  BY <1>1, SettleType, HappensType DEF GrantLost, Events, AuthTypeOK
<1>2. CASE GrantRejected
  BY <1>2, SettleType DEF GrantRejected, endpointVars, AuthTypeOK
<1>3. ASSUME NEW t \in Tokens, GrantGranted(t) PROVE AuthTypeOK'
  <2>1. /\ live' \subseteq Tokens /\ revoked' \subseteq Tokens /\ UNCHANGED <<cli, refreshable>>
    BY <1>3 DEF GrantGranted, AuthTypeOK
  <2>2. CASE file' = EntryOf(t) /\ cache' = SnapshotOf(file') /\ Settle(SnapshotOf(file'))
             /\ UNCHANGED happened
    BY <2>1, <2>2, SnapshotType, SettleType DEF AuthTypeOK
  <2>3. CASE (UNCHANGED happened \/ Happens("disk")) /\ Settle(Null) /\ UNCHANGED <<file, cache>>
    BY <2>1, <2>3, SettleType, HappensType DEF AuthTypeOK, Events
  <2> QED BY <1>3, <2>2, <2>3 DEF GrantGranted
<1>4. Unused # {} => (CHOOSE t \in Unused : TRUE) \in Tokens BY DEF Unused
<1> QED BY <1>1, <1>2, <1>3, <1>4 DEF GrantAnswered

\* The CLI, upstream and the clock keep them.
LEMMA OutsideType ==
  ASSUME TypeOK
  PROVE  /\ Cli /\ UNCHANGED req => TypeOK'
         /\ \A t \in Tokens : Revoke(t) /\ UNCHANGED req => TypeOK'
         /\ Tick => TypeOK'
         /\ GetStatus => TypeOK'
<1> USE DEF TypeOK
<1>1. ASSUME Cli, UNCHANGED req PROVE TypeOK'
  <2>1. Unused # {} => (CHOOSE t \in Unused : TRUE) \in Tokens BY DEF Unused
  <2>2. ASSUME NEW t \in Tokens, CliLogin(t) \/ CliRefresh(t) PROVE AuthTypeOK'
    BY <2>2, SnapshotType, HappensType DEF CliLogin, CliRefresh, CliOnly, AuthTypeOK, Events
  <2>3. CliWrite => AuthTypeOK'
    BY DEF CliWrite, CliOnly, endpointVars, AuthTypeOK
  <2>4. CliLogout => AuthTypeOK'
    BY HappensType DEF CliLogout, CliOnly, endpointVars, AuthTypeOK, Events
  <2> QED BY <1>1, <2>1, <2>2, <2>3, <2>4 DEF Cli
<1>2. ASSUME NEW t \in Tokens, Revoke(t), UNCHANGED req PROVE TypeOK'
  BY <1>2, HappensType DEF Revoke, storeVars, AuthTypeOK, Events
<1>3. ASSUME Tick PROVE TypeOK'
  <2>1. file' \in Entry \cup {Null} /\ cli' \in Entry \cup {Null}
        /\ cache' \in Snapshot \cup {Null}
    BY <1>3, LessType DEF Tick, AgeStore, AuthTypeOK
  <2>2. reply' \in [Requests -> Snapshot \cup {Null, NoReply}]
    BY <1>3, LessType DEF Tick, AgeStore, AuthTypeOK
  <2>3. \/ inFlight' = NoFlight
        \/ inFlight' \in [snap : Snapshot, waiters : (SUBSET Requests) \ {{}}]
    <3>1. inFlight' = [inFlight EXCEPT !.snap = Less(@)] BY <1>3 DEF Tick, AgeStore
    <3>2. CASE inFlight = NoFlight BY <3>1, <3>2, LessType DEF NoFlight
    <3>3. CASE inFlight \in [snap : Snapshot, waiters : (SUBSET Requests) \ {{}}]
      <4>1. Less(inFlight.snap) \in Snapshot BY <3>3, LessType
      <4> QED BY <3>1, <3>3, <4>1
    <3> QED BY <3>2, <3>3 DEF AuthTypeOK
  <2>4. req' \in [Requests -> Locals]
    <3>1. ASSUME NEW r \in Requests PROVE [req[r] EXCEPT !.auth = Less(@)] \in Locals
      <4>1. Less(req[r].auth) \in Snapshot \cup {Null} BY LessType DEF Locals
      <4> QED BY <4>1 DEF Locals
    <3> QED BY <1>3, <3>1 DEF Tick
  <2> QED BY <1>3, <2>1, <2>2, <2>3, <2>4 DEF Tick, AgeStore, endpointVars, AuthTypeOK
<1>4. ASSUME GetStatus PROVE TypeOK'
  <2>1. StoreOK' BY <1>4, LoadType DEF GetStatus, StoreOK, AuthTypeOK
  <2> QED BY <1>4, <2>1, StoreType DEF GetStatus
<1> QED BY <1>1, <1>2, <1>3, <1>4

\* The ways a request goes on.
LEMMA GoesOnType ==
  ASSUME TypeOK, NEW r \in Requests
  PROVE  /\ \A pc \in {"renewing", "sent", "retrying", "resent", "streaming"},
               auth \in Snapshot \cup {Null} : Use(r, pc, auth) => req' \in [Requests -> Locals]
         /\ \A a \in Answers : Answer(r, a) => req' \in [Requests -> Locals]
         /\ \A auth \in Snapshot : SendWith(r, auth) => req' \in [Requests -> Locals]
         /\ TakeReply(r) => reply' \in [Requests -> Snapshot \cup {Null, NoReply}]
<1>1. ASSUME NEW pc \in {"renewing", "sent", "retrying", "resent", "streaming"},
             NEW auth \in Snapshot \cup {Null}, Use(r, pc, auth)
      PROVE  req' \in [Requests -> Locals]
  BY <1>1 DEF Use, TypeOK, Locals
<1>2. ASSUME NEW a \in Answers, Answer(r, a) PROVE req' \in [Requests -> Locals]
  BY <1>2 DEF Answer, Answered, TypeOK, Locals
<1>3. "expired" \in Answers BY DEF Answers
<1>4. TakeReply(r) => reply' \in [Requests -> Snapshot \cup {Null, NoReply}]
  BY DEF TakeReply, TypeOK, AuthTypeOK
<1> QED BY <1>1, <1>2, <1>3, <1>4 DEF SendWith

\* A request's step keeps the types.
LEMMA RequestType ==
  ASSUME TypeOK, NEW r \in Requests, RequestStep(r)
  PROVE  TypeOK'
<1> USE DEF TypeOK
<1>1. /\ Loaded \in Snapshot \cup {Null} /\ Reread \in Snapshot \cup {Null}
      /\ file # Null => Loaded \in Snapshot
  BY LoadType
<1>2. ASSUME UNCHANGED authVars, req' \in [Requests -> Locals] PROVE TypeOK'
  BY <1>2 DEF authVars, AuthTypeOK
<1>3. CASE NoAuth(r) \/ RejectedAgain(r) \/ Reply(r) \/ StreamStarts(r) \/ StreamEnds(r)
  BY <1>2, <1>3, GoesOnType
     DEF NoAuth, RejectedAgain, Reply, StreamStarts, StreamEnds, Answers
<1>4. CASE Begin(r)
  <2>1. CASE SendWith(r, Loaded) /\ cache' = Loaded /\ UNCHANGED <<inFlight, reply>>
    <3>1. StoreOK' BY <1>1, <2>1 DEF StoreOK, AuthTypeOK
    <3>2. req' \in [Requests -> Locals] BY <1>1, <1>4, <2>1, GoesOnType DEF Begin
    <3> QED BY <1>4, <3>1, <3>2, StoreType DEF Begin
  <2>2. CASE Use(r, "renewing", Loaded) /\ Refresh(r, Loaded, Loaded)
    <3>1. StoreOK' BY <1>1, <2>2, RefreshType
    <3>2. req' \in [Requests -> Locals] BY <1>1, <2>2, GoesOnType
    <3> QED BY <1>4, <3>1, <3>2, StoreType DEF Begin
  <2> QED BY <1>4, <2>1, <2>2 DEF Begin
<1>5. CASE GoOn(r) \/ Retry(r)
  <2>1. StoreOK' BY <1>5, GoesOnType DEF GoOn, Retry, StoreOK, AuthTypeOK
  <2>2. req' \in [Requests -> Locals]
    <3>1. CASE GoOn(r)
      <4> DEFINE auth == IF reply[r] = Null THEN req[r].auth ELSE reply[r]
      <4>1. auth \in Snapshot \cup {Null}
        BY <3>1 DEF GoOn, AuthTypeOK, Locals
      <4>2. SendWith(r, auth) BY <3>1 DEF GoOn
      <4>3. Use(r, "sent", auth) \/ Answer(r, "expired") BY <4>2 DEF SendWith
      <4> HIDE DEF auth
      <4> QED BY <4>1, <4>3, GoesOnType DEF Answers
    <3>2. CASE Retry(r)
      <4>1. reply[r] \in Snapshot \cup {Null} BY <3>2 DEF Retry, AuthTypeOK
      <4> QED BY <3>2, <4>1, GoesOnType DEF Retry, Answers
    <3> QED BY <1>5, <3>1, <3>2
  <2> QED BY <1>5, <2>1, <2>2, StoreType DEF GoOn, Retry
<1>6. CASE Rejected(r)
  <2>1. CASE /\ Usable(ReloadedAfter(req[r].auth))
             /\ Use(r, "resent", ReloadedAfter(req[r].auth))
             /\ cache' = Reread /\ UNCHANGED <<inFlight, reply>>
    <3>1. StoreOK' BY <1>1, <2>1 DEF StoreOK, AuthTypeOK
    <3>2. ReloadedAfter(req[r].auth) \in Snapshot \cup {Null} BY <1>1 DEF ReloadedAfter
    <3>3. req' \in [Requests -> Locals] BY <2>1, <3>2, GoesOnType
    <3> QED BY <1>6, <3>1, <3>3, StoreType DEF Rejected
  <2>2. CASE Use(r, "retrying", req[r].auth) /\ Refresh(r, req[r].auth, Reread)
    <3>1. StoreOK' BY <1>1, <2>2, RefreshType
    <3>2. req[r].auth \in Snapshot \cup {Null} BY DEF Locals
    <3>3. req' \in [Requests -> Locals] BY <2>2, <3>2, GoesOnType
    <3> QED BY <1>6, <3>1, <3>3, StoreType DEF Rejected
  <2> QED BY <1>6, <2>1, <2>2 DEF Rejected
<1>7. CASE StreamFails(r)
  <2>1. req' \in [Requests -> Locals]
    BY <1>7 DEF StreamFails, Answered, Answers, Locals
  <2> QED BY <1>7, <2>1, HappensType DEF StreamFails, StoreLost, AuthTypeOK, Events
<1> QED BY <1>3, <1>4, <1>5, <1>6, <1>7 DEF RequestStep

\* The start is well-typed.
LEMMA InitType ==
  ASSUME Init
  PROVE  TypeOK
<1>1. /\ \/ file = Null
         \/ \E age \in Lives : file = [EntryOf(1) EXCEPT !.life = age]
      /\ live \subseteq {1} /\ revoked = {} /\ refreshable \in BOOLEAN
      /\ cache = Null /\ inFlight = NoFlight /\ cli = Null
      /\ reply = [r \in Requests |-> NoReply] /\ happened = [e \in Events |-> 0]
  BY DEF Init, AuthInit
<1>2. 1 \in Tokens BY GrokBoundsAssumption DEF Tokens
<1>3. file \in Entry \cup {Null} BY <1>1, <1>2 DEF EntryOf, Entry
<1>4. req \in [Requests -> Locals] BY DEF Init, Locals, Answers
<1> QED BY <1>1, <1>2, <1>3, <1>4 DEF TypeOK, AuthTypeOK

\* The type invariant is inductive.
LEMMA NextType ==
  ASSUME TypeOK, [Next]_vars
  PROVE  TypeOK'
<1>1. CASE GrantAnswered(Unused) /\ UNCHANGED req BY <1>1, AnsweredType DEF TypeOK
<1>2. CASE UNCHANGED vars BY <1>2 DEF vars, authVars, TypeOK, AuthTypeOK
<1> QED BY <1>1, <1>2, RequestType, OutsideType DEF Next

\* The file, its snapshots, the refresh in flight and every request stay
\* well-formed in every run, whatever the grok CLI writes in between.
THEOREM GrokTypeCorrect == Spec => []TypeOK
<1> QED BY InitType, NextType, PTL DEF Spec

-----------------------------------------------------------------------------
(* Nobody awaits in vain *)

\* The inductive invariant: who stands at the await is registered or has been
\* told, and never both, or a second refresh would answer who has gone on.
Awaits(r) == At(r, "renewing") \/ At(r, "retrying")
Registered(r) == r \in inFlight.waiters
Told(r) == reply[r] # NoReply
AwaitsRightly(r) == /\ Awaits(r) <=> Registered(r) \/ Told(r)
                    /\ ~(Registered(r) /\ Told(r))
AllAwaitRightly == \A r \in Requests : AwaitsRightly(r)

\* refresh() registers its caller or tells it at once, and touches nobody else.
LEMMA RefreshRegisters ==
  ASSUME TypeOK, NEW r \in Requests, ~Registered(r), ~Told(r), NEW p, NEW s, Refresh(r, p, s)
  PROVE  /\ Registered(r)' \/ Told(r)'
         /\ ~(Registered(r)' /\ Told(r)')
         /\ \A q \in Requests \ {r} : Registered(q)' = Registered(q) /\ reply'[q] = reply[q]
<1>1. reply \in [Requests -> Snapshot \cup {Null, NoReply}] BY DEF TypeOK, AuthTypeOK
<1>2. Null # NoReply /\ Reread # NoReply
  BY LoadType, NullIsNoSnapshot DEF TypeOK
<1>3. CASE inFlight # NoFlight
  <2>1. inFlight \in [snap : Snapshot, waiters : (SUBSET Requests) \ {{}}]
    BY <1>3 DEF TypeOK, AuthTypeOK
  <2>2. inFlight' = [inFlight EXCEPT !.waiters = @ \cup {r}] /\ reply' = reply
    BY <1>3 DEF Refresh
  <2> QED BY <2>1, <2>2 DEF Registered, Told
<1>4. CASE inFlight = NoFlight
  <2>1. CASE UNCHANGED inFlight /\ (reply' = Tell({r}, Reread) \/ reply' = Tell({r}, Null))
    BY <1>1, <1>2, <2>1 DEF Tell, Registered, Told
  <2>2. CASE reply' = reply /\ inFlight' = [snap |-> Reread, waiters |-> {r}]
    BY <1>4, <2>2 DEF Registered, Told, NoFlight
  <2> QED BY <1>4, <2>1, <2>2 DEF Refresh
<1> QED BY <1>3, <1>4

\* The promise tells all who are registered, and them only.
LEMMA SettleTells ==
  ASSUME TypeOK, AllAwaitRightly, NEW s \in Snapshot \cup {Null}, Settle(s), UNCHANGED req
  PROVE  AllAwaitRightly'
<1> SUFFICES ASSUME NEW r \in Requests PROVE AwaitsRightly(r)' BY DEF AllAwaitRightly
<1>1. s # NoReply BY NullIsNoSnapshot
<1>2. reply'[r] = IF r \in inFlight.waiters THEN s ELSE reply[r] BY DEF Settle, Tell
<1>3. ~Registered(r)' BY DEF Settle, Registered, NoFlight
<1>4. Awaits(r)' = Awaits(r) BY DEF Awaits, At
<1> QED BY <1>1, <1>2, <1>3, <1>4 DEF AllAwaitRightly, AwaitsRightly, Registered, Told

\* A step that leaves awaits, registrations and replies as they are.
LEMMA SameAwaits ==
  ASSUME AllAwaitRightly,
         \A r \in Requests : /\ Awaits(r)' = Awaits(r) /\ Registered(r)' = Registered(r)
                             /\ Told(r)' = Told(r)
  PROVE  AllAwaitRightly'
BY DEF AllAwaitRightly, AwaitsRightly

\* One request begins to await a refresh.
LEMMA BeginsToAwait ==
  ASSUME TypeOK, AllAwaitRightly, NEW r \in Requests, ~Awaits(r), NEW p, NEW s,
         Refresh(r, p, s), NEW auth, Use(r, "renewing", auth) \/ Use(r, "retrying", auth)
  PROVE  AllAwaitRightly'
<1>1. ~Registered(r) /\ ~Told(r) BY DEF AllAwaitRightly, AwaitsRightly
<1>2. Awaits(r)' BY DEF Awaits, At, Use, TypeOK, Locals
<1>3. ASSUME NEW q \in Requests \ {r} PROVE AwaitsRightly(q)'
  <2>1. Awaits(q)' = Awaits(q) BY DEF Awaits, At, Use, TypeOK
  <2>2. Registered(q)' = Registered(q) /\ Told(q)' = Told(q)
    BY <1>1, RefreshRegisters DEF Told
  <2> QED BY <2>1, <2>2 DEF AllAwaitRightly, AwaitsRightly
<1>4. AwaitsRightly(r)' BY <1>1, <1>2, RefreshRegisters DEF AwaitsRightly
<1> QED BY <1>3, <1>4 DEF AllAwaitRightly

\* A request's step.
LEMMA RequestAwaits ==
  ASSUME TypeOK, AllAwaitRightly, NEW r \in Requests, RequestStep(r)
  PROVE  AllAwaitRightly'
<1>1. ASSUME ~Awaits(r), \/ \E a : Answer(r, a)
                         \/ \E auth : Use(r, "sent", auth) \/ Use(r, "resent", auth)
                                      \/ Use(r, "streaming", auth),
             UNCHANGED <<inFlight, reply>>
      PROVE  AllAwaitRightly'
  <2>1. \A q \in Requests : Awaits(q)' = Awaits(q)
    BY <1>1 DEF Awaits, At, Answer, Answered, Use, TypeOK, Locals
  <2> QED BY <1>1, <2>1, SameAwaits DEF Registered, Told
<1>2. CASE NoAuth(r) \/ RejectedAgain(r) \/ Reply(r) \/ StreamStarts(r) \/ StreamEnds(r)
  <2>1. ~Awaits(r) /\ UNCHANGED <<inFlight, reply>>
    BY <1>2 DEF NoAuth, RejectedAgain, Reply, StreamStarts, StreamEnds, Awaiting, At, Awaits,
                authVars
  <2>2. (\E a : Answer(r, a)) \/ \E auth : Use(r, "streaming", auth)
    BY <1>2 DEF NoAuth, RejectedAgain, Reply, StreamStarts, StreamEnds
  <2> QED BY <1>1, <2>1, <2>2
<1>3. CASE Begin(r)
  <2>1. ~Awaits(r) BY <1>3 DEF Begin, Awaits, At
  <2>2. CASE SendWith(r, Loaded) /\ UNCHANGED <<inFlight, reply>>
    <3>1. (\E a : Answer(r, a)) \/ \E auth : Use(r, "sent", auth) BY <2>2 DEF SendWith
    <3> QED BY <1>1, <2>1, <2>2, <3>1
  <2>3. CASE Use(r, "renewing", Loaded) /\ Refresh(r, Loaded, Loaded)
    BY <2>1, <2>3, BeginsToAwait
  <2> QED BY <1>3, <2>2, <2>3 DEF Begin
<1>4. CASE Rejected(r)
  <2>1. ~Awaits(r) BY <1>4 DEF Rejected, Awaits, At
  <2>2. CASE (\E auth : Use(r, "resent", auth)) /\ UNCHANGED <<inFlight, reply>>
    BY <1>1, <2>1, <2>2
  <2>3. CASE Use(r, "retrying", req[r].auth) /\ Refresh(r, req[r].auth, Reread)
    BY <2>1, <2>3, BeginsToAwait
  <2> QED BY <1>4, <2>2, <2>3 DEF Rejected
<1>5. CASE GoOn(r) \/ Retry(r)
  <2>1. /\ reply' = [reply EXCEPT ![r] = NoReply] /\ inFlight' = inFlight /\ Told(r)
    BY <1>5 DEF GoOn, Retry, TakeReply, Told
  <2>2. (\E a : Answer(r, a)) \/ \E auth : Use(r, "sent", auth) \/ Use(r, "resent", auth)
    BY <1>5 DEF GoOn, Retry, SendWith
  <2>3. ~Awaits(r)' /\ \A q \in Requests \ {r} : Awaits(q)' = Awaits(q)
    BY <2>2 DEF Awaits, At, Answer, Answered, Use, TypeOK, Locals
  <2>4. ~Told(r)' /\ \A q \in Requests \ {r} : Told(q)' = Told(q)
    BY <2>1 DEF Told, TypeOK, AuthTypeOK
  <2>5. \A q \in Requests : Registered(q)' = Registered(q) BY <2>1 DEF Registered
  <2> QED BY <2>1, <2>3, <2>4, <2>5 DEF AllAwaitRightly, AwaitsRightly
<1>6. CASE StreamFails(r)
  <2>1. \A q \in Requests : ~Told(q)' /\ ~Registered(q)'
    BY <1>6 DEF StreamFails, StoreLost, Told, Registered, NoFlight
  <2>2. \A q \in Requests : ~Awaits(q)'
    BY <1>6 DEF StreamFails, Awaits, At, Answered
  <2> QED BY <2>1, <2>2 DEF AllAwaitRightly, AwaitsRightly
<1> QED BY <1>2, <1>3, <1>4, <1>5, <1>6 DEF RequestStep

\* Every step keeps it.
LEMMA NextAwaits ==
  ASSUME TypeOK, AllAwaitRightly, [Next]_vars
  PROVE  AllAwaitRightly'
<1>1. ASSUME UNCHANGED <<inFlight, reply, req>> PROVE AllAwaitRightly'
  BY <1>1, SameAwaits DEF Awaits, At, Registered, Told
<1>2. CASE GrantAnswered(Unused) /\ UNCHANGED req
  <2>1. \E s \in Snapshot \cup {Null} : Settle(s)
    <3>1. ASSUME NEW t \in Tokens, GrantGranted(t) PROVE \E s \in Snapshot \cup {Null} : Settle(s)
      BY <3>1, SnapshotType DEF GrantGranted
    <3>2. Unused # {} => (CHOOSE t \in Unused : TRUE) \in Tokens BY DEF Unused
    <3> QED BY <1>2, <3>1, <3>2 DEF GrantAnswered, GrantLost, GrantRejected
  <2> QED BY <1>2, <2>1, SettleTells
<1>3. CASE Cli /\ UNCHANGED req
  BY <1>1, <1>3 DEF Cli, CliLogin, CliRefresh, CliWrite, CliLogout, CliOnly
<1>4. CASE \E t \in Referred \cap Tokens : Revoke(t) /\ UNCHANGED req
  BY <1>1, <1>4 DEF Revoke, storeVars
<1>5. CASE GetStatus BY <1>1, <1>5 DEF GetStatus
<1>6. CASE Tick
  <2>1. \A q \in Requests : Awaits(q)' = Awaits(q)
    BY <1>6 DEF Tick, Awaits, At, TypeOK, Locals
  <2>2. \A q \in Requests : Registered(q)' = Registered(q)
    BY <1>6 DEF Tick, AgeStore, Registered, TypeOK, AuthTypeOK, NoFlight
  <2>3. \A q \in Requests : Told(q)' = Told(q)
    BY <1>6, LessType, NullIsNoSnapshot DEF Tick, AgeStore, Told, TypeOK, AuthTypeOK
  <2> QED BY <2>1, <2>2, <2>3, SameAwaits
<1>7. CASE UNCHANGED vars BY <1>1, <1>7 DEF vars, authVars
<1> QED BY <1>2, <1>3, <1>4, <1>5, <1>6, <1>7, RequestAwaits DEF Next

\* A request that awaits a refresh is registered with the one in flight or has
\* been told its outcome, and nobody else is: a failed refresh, a login of the CLI
\* or the end of the process leaves no request hanging (refreshInFlight and its
\* finally).
THEOREM NobodyHangs == Spec => []NobodyAwaitsInVain
<1> DEFINE Inv == TypeOK /\ AllAwaitRightly
<1>1. Init => Inv
  BY InitType DEF Init, AuthInit, AllAwaitRightly, AwaitsRightly, Awaits, At, Registered,
                  Told, NoFlight
<1>2. Inv /\ [Next]_vars => Inv'
  BY NextType, NextAwaits
<1>3. Inv => NobodyAwaitsInVain
  BY DEF AllAwaitRightly, AwaitsRightly, Awaits, Registered, Told, NobodyAwaitsInVain
<1> QED BY <1>1, <1>2, <1>3, PTL DEF Spec

-----------------------------------------------------------------------------
(* The login stays redeemable *)

\* The inductive invariant, while nothing but the server and `grok login` has
\* touched the login: no other pair of the CLI is on its way into the file, and
\* the pair of the file and the one in flight are honoured.  The two may differ.
Redeemable ==
    /\ cli = Null
    /\ file # Null => file.id \in live
    /\ inFlight # NoFlight => inFlight.snap.id \in live

\* Event counts only grow.
LEMMA EventsStay ==
  ASSUME TypeOK, [Next]_vars, Undisturbed'
  PROVE  Undisturbed
<1>1. happened' = happened \/ \E e \in Events : Happens(e)
  BY DEF Next, RequestStep, NoAuth, Begin, GoOn, Rejected, Retry, RejectedAgain, Reply,
         StreamStarts, StreamEnds, StreamFails, StoreLost, OutsideStore, GrantAnswered,
         GrantLost, GrantRejected, GrantGranted, Cli, CliLogin, CliRefresh, CliWrite,
         CliLogout, Revoke, GetStatus, Tick, AgeStore, vars, authVars, Events
<1>2. ASSUME NEW e \in Events, Happens(e) PROVE \A f \in Events : happened'[f] >= happened[f]
  <2>1. happened \in [Events -> Nat] /\ happened' = [happened EXCEPT ![e] = @ + 1]
    BY <1>2 DEF Happens, TypeOK, AuthTypeOK
  <2> QED BY <2>1
<1>3. ASSUME NEW f \in Events, happened'[f] = 0 PROVE happened[f] = 0
  <2>1. happened[f] \in Nat /\ (happened' = happened \/ happened'[f] >= happened[f])
    BY <1>1, <1>2 DEF TypeOK, AuthTypeOK
  <2> QED BY <1>3, <2>1
<1> QED BY <1>3 DEF Undisturbed, Events

\* What is excluded does not happen.
LEMMA Excluded ==
  ASSUME TypeOK, Undisturbed'
  PROVE  ~Happens("net") /\ ~Happens("disk") /\ ~Happens("cli") /\ ~Happens("crash")
BY HappensType DEF Undisturbed, Events, TypeOK

\* A refresh is begun on what the file holds.
LEMMA RefreshPresents ==
  ASSUME TypeOK, Redeemable, NEW r, NEW p, NEW s, Refresh(r, p, s)
  PROVE  inFlight' # NoFlight => inFlight'.snap.id \in live
<1>1. CASE inFlight # NoFlight
  BY <1>1 DEF Refresh, Redeemable, TypeOK, AuthTypeOK
<1>2. CASE inFlight = NoFlight
  <2>1. Renewable => Reread.id \in live
    BY LoadType DEF Renewable, Redeemable, TypeOK
  <2> QED BY <1>2, <2>1 DEF Refresh
<1> QED BY <1>1, <1>2

\* The invariant is kept while it is undisturbed.
LEMMA StaysRedeemable ==
  ASSUME TypeOK, Undisturbed => Redeemable, [Next]_vars
  PROVE  Undisturbed' => Redeemable'
<1> SUFFICES ASSUME Undisturbed', Redeemable PROVE Redeemable'
  BY EventsStay
<1>1. ASSUME UNCHANGED <<file, live, cli>>, inFlight' \in {inFlight, NoFlight} PROVE Redeemable'
  BY <1>1 DEF Redeemable
<1>2. ASSUME NEW r \in Requests, RequestStep(r) PROVE Redeemable'
  <2>1. ASSUME UNCHANGED <<file, live, cli>>, NEW p, NEW s, Refresh(r, p, s) PROVE Redeemable'
    BY <2>1, RefreshPresents DEF Redeemable
  <2>2. CASE Begin(r) \/ Rejected(r)
    <3>1. UNCHANGED <<file, live, cli>>
      BY <2>2 DEF Begin, Rejected, OutsideStore, endpointVars
    <3>2. UNCHANGED inFlight \/ \E p, s : Refresh(r, p, s) BY <2>2 DEF Begin, Rejected
    <3> QED BY <1>1, <2>1, <3>1, <3>2
  <2>3. CASE StreamFails(r)
    BY <2>3, Excluded DEF StreamFails, StoreLost
  <2>4. CASE ~Begin(r) /\ ~Rejected(r) /\ ~StreamFails(r)
    BY <1>1, <1>2, <2>4
       DEF RequestStep, NoAuth, GoOn, Retry, RejectedAgain, Reply, StreamStarts, StreamEnds,
           OutsideStore, endpointVars, authVars
  <2> QED BY <2>2, <2>3, <2>4
<1>3. CASE GrantAnswered(Unused)
  <2>1. ~GrantLost BY Excluded DEF GrantLost
  <2>2. ~GrantRejected BY <1>3 DEF GrantRejected, GrantAnswered, Redeemable
  <2>3. ASSUME NEW t, GrantGranted(t) PROVE Redeemable'
    <3>1. /\ live' = (live \ {inFlight.snap.id}) \cup {t} /\ inFlight' = NoFlight
          /\ cli' = cli
          /\ file' = EntryOf(t) \/ (file = Null /\ file' = file)
      BY <2>3, Excluded DEF GrantGranted, Settle
    <3> QED BY <3>1 DEF Redeemable, EntryOf
  <2> QED BY <1>3, <2>1, <2>2, <2>3 DEF GrantAnswered
<1>4. CASE Cli
  <2>1. ASSUME NEW t, CliLogin(t) PROVE Redeemable'
    BY <2>1 DEF CliLogin, CliOnly, CliEntries, EntryOf, Redeemable
  <2>2. \A t : ~CliRefresh(t) BY Excluded DEF CliRefresh
  <2>3. ~CliWrite /\ ~CliLogout BY Excluded DEF CliWrite, CliLogout, Redeemable
  <2> QED BY <1>4, <2>1, <2>2, <2>3 DEF Cli
<1>5. CASE Tick
  <2>1. cli' = Null /\ file'.id = file.id /\ (file' # Null => file # Null)
    BY <1>5, LessType DEF Tick, AgeStore, TypeOK, AuthTypeOK, Redeemable
  <2>2. inFlight' # NoFlight => inFlight # NoFlight /\ inFlight'.snap.id = inFlight.snap.id
    <3>1. inFlight' = [inFlight EXCEPT !.snap = Less(@)] BY <1>5 DEF Tick, AgeStore
    <3>2. ASSUME inFlight = NoFlight PROVE inFlight' = NoFlight
      BY <3>1, <3>2, LessType DEF NoFlight
    <3>3. inFlight # NoFlight => inFlight'.snap = Less(inFlight.snap) /\ inFlight.snap \in Snapshot
      BY <3>1 DEF TypeOK, AuthTypeOK
    <3> QED BY <3>2, <3>3, LessType
  <2>3. live' = live BY <1>5 DEF Tick, AgeStore, endpointVars
  <2> QED BY <2>1, <2>2, <2>3 DEF Redeemable
<1>6. CASE GetStatus \/ UNCHANGED vars \/ \E t : Revoke(t)
  BY <1>1, <1>6 DEF GetStatus, OutsideStore, endpointVars, vars, authVars, Revoke, storeVars
<1> QED BY <1>2, <1>3, <1>4, <1>5, <1>6 DEF Next

\* A rotating refresh token is good once: whoever asks for the refresh, and
\* whenever a login comes in between, what doRefresh presents and what the file
\* holds has not been spent (refreshInFlight, the re-read of doRefresh, and
\* persistRefreshedToken before the promise settles).
THEOREM GrokLoginIsNeverBurnt == Spec => []GrokLoginStaysRedeemable
<1> DEFINE Inv == TypeOK /\ (Undisturbed => Redeemable)
<1>1. Init => Inv
  BY InitType DEF Init, AuthInit, Redeemable, EntryOf
<1>2. Inv /\ [Next]_vars => Inv'
  BY NextType, StaysRedeemable
<1>3. Inv => GrokLoginStaysRedeemable
  BY DEF Redeemable, GrokLoginStaysRedeemable
<1> QED BY <1>1, <1>2, <1>3, PTL DEF Spec

-----------------------------------------------------------------------------
(* Nobody is refused without a retry *)

\* The inductive invariant, beside the ones above.  An open request has no answer.
\* While the login is undisturbed and can be renewed, whoever has been told the
\* outcome of a refresh was told a token that is good, and another one than upstream
\* has refused; only a request that has not looked yet can find no file.
Unanswered == \A r \in Requests : ~At(r, "done") => req[r].answer = "none"
Served ==
    /\ file = Null => \A r \in Requests : At(r, "start") \/ At(r, "done")
    /\ \A r \in Requests : Told(r) =>
          /\ reply[r] \in Snapshot /\ ~reply[r].expired
          /\ At(r, "retrying") => reply[r].id # req[r].auth.id
AsksWell == /\ AllAwaitRightly /\ Unanswered
            /\ Undisturbed => Redeemable
            /\ Undisturbed /\ refreshable => Served

\* An answer comes with the end of a request.
LEMMA StaysUnanswered ==
  ASSUME TypeOK, Unanswered, [Next]_vars
  PROVE  Unanswered'
<1>1. ASSUME NEW r \in Requests, RequestStep(r) PROVE Unanswered'
  <2>1. CASE StreamFails(r)
    BY <2>1 DEF StreamFails, At, Answered, Unanswered
  <2>2. CASE ~StreamFails(r)
    <3>1. (\E a : Answer(r, a)) \/ \E pc, auth : Use(r, pc, auth) /\ ~At(r, "done")
      BY <1>1, <2>2
         DEF RequestStep, NoAuth, Begin, GoOn, Rejected, Retry, RejectedAgain, Reply,
             StreamStarts, StreamEnds, SendWith, Awaiting, At
    <3>2. CASE \E a : Answer(r, a) BY <3>2 DEF Answer, Answered, At, TypeOK, Unanswered
    <3>3. ASSUME NEW pc, NEW auth, Use(r, pc, auth), ~At(r, "done") PROVE Unanswered'
      <4>1. req'[r].answer = req[r].answer /\ \A q \in Requests \ {r} : req'[q] = req[q]
        BY <3>3 DEF Use, TypeOK, Locals
      <4> QED BY <3>3, <4>1 DEF Unanswered, At
    <3> QED BY <3>1, <3>2, <3>3
  <2> QED BY <2>1, <2>2
<1>2. CASE UNCHANGED req BY <1>2 DEF Unanswered, At
<1>3. CASE Tick BY <1>3 DEF Tick, Unanswered, At, TypeOK, Locals
<1> QED BY <1>1, <1>2, <1>3 DEF Next, GetStatus, vars

\* What refresh() tells its caller at once, with a file and a renewable login, is
\* what somebody else has renewed.
LEMMA RefreshServes ==
  ASSUME TypeOK, refreshable, file # Null, NEW r \in Requests, ~Told(r),
         NEW p, NEW s, Refresh(r, p, s)
  PROVE  /\ Told(r)' => /\ reply'[r] \in Snapshot /\ ~reply'[r].expired
                        /\ reply'[r].id # p.id
         /\ \A q \in Requests \ {r} : reply'[q] = reply[q]
<1>1. Reread \in Snapshot BY LoadType DEF TypeOK
<1>2. Reread # Null BY <1>1, NullIsNoSnapshot
<1>3. reply' = reply \/ (reply' = Tell({r}, Reread) /\ Renewed(p))
  BY <1>2 DEF Refresh, Renewable
<1>4. Renewed(p) => ~Reread.expired /\ Reread.id # p.id
  BY DEF Renewed, NeedsRefresh
<1> QED BY <1>1, <1>3, <1>4 DEF Told, Tell

\* A file that is there stays.
LEMMA FileStays ==
  ASSUME TypeOK, Redeemable, [Next]_vars, Undisturbed', file # Null
  PROVE  file' # Null
<1>1. CASE file' = file BY <1>1
<1>2. CASE \E t \in Tokens : file' = EntryOf(t) \/ file' \in CliEntries(t)
  BY <1>2, SnapshotType, NullIsNoSnapshot
<1>3. CASE file' = Less(file)
  <2>1. file \in Entry BY DEF TypeOK, AuthTypeOK
  <2> QED BY <1>3, <2>1, LessType, NullIsNoSnapshot
<1>4. ~CliLogout /\ ~CliWrite BY Excluded DEF CliLogout, CliWrite, Redeemable
<1>5. Unused # {} => (CHOOSE t \in Unused : TRUE) \in Tokens BY DEF Unused
<1>6. ASSUME NEW t \in Tokens, GrantGranted(t) \/ CliLogin(t) \/ CliRefresh(t)
      PROVE  file' = file \/ file' = EntryOf(t) \/ file' \in CliEntries(t)
  BY <1>6 DEF GrantGranted, CliLogin, CliRefresh
<1>7. (\E r \in Requests : RequestStep(r)) => file' = file
  BY DEF RequestStep, NoAuth, Begin, GoOn, Rejected, Retry, RejectedAgain, Reply,
         StreamStarts, StreamEnds, StreamFails, StoreLost, OutsideStore, authVars
<1>8. GrantLost \/ GrantRejected \/ GetStatus \/ (\E t : Revoke(t)) \/ UNCHANGED vars
        => file' = file
  BY DEF GrantLost, GrantRejected, GetStatus, OutsideStore, Revoke, storeVars, vars, authVars
<1>9. Tick => file' = Less(file) BY DEF Tick, AgeStore
<1> QED BY <1>1, <1>2, <1>3, <1>4, <1>5, <1>6, <1>7, <1>8, <1>9
        DEF Next, GrantAnswered, Cli

\* A request's step.
LEMMA RequestServes ==
  ASSUME TypeOK, AsksWell, Served, refreshable, NEW r \in Requests, RequestStep(r), Undisturbed'
  PROVE  Served'
<1>1. ~StreamFails(r) BY Excluded DEF StreamFails, StoreLost
<1>2. file' = file
  BY <1>1 DEF RequestStep, NoAuth, Begin, GoOn, Rejected, Retry, RejectedAgain, Reply,
              StreamStarts, StreamEnds, OutsideStore, authVars
<1>3. \A q \in Requests \ {r} : req'[q] = req[q]
  BY <1>1
     DEF RequestStep, NoAuth, Begin, GoOn, Rejected, Retry, RejectedAgain, Reply,
         StreamStarts, StreamEnds, SendWith, Answer, Use, TypeOK
<1>4. file = Null => At(r, "done")'
  BY <1>1
     DEF RequestStep, NoAuth, Begin, GoOn, Rejected, Retry, RejectedAgain, Reply, Awaiting,
         StreamStarts, StreamEnds, Answer, Answered, At, TypeOK, Served
<1>5. ~Awaits(r) => ~Told(r) BY DEF AsksWell, AllAwaitRightly, AwaitsRightly
<1>6. ASSUME \A q \in Requests \ {r} : reply'[q] = reply[q],
             Told(r)' => /\ reply'[r] \in Snapshot /\ ~reply'[r].expired
                         /\ At(r, "retrying")' => reply'[r].id # req'[r].auth.id
      PROVE  Served'
  BY <1>2, <1>3, <1>4, <1>6 DEF Served, Told, At
<1>7. ASSUME reply' = reply, ~Awaits(r) PROVE Served'
  BY <1>5, <1>6, <1>7 DEF Told
<1>8. CASE NoAuth(r) \/ RejectedAgain(r) \/ Reply(r) \/ StreamStarts(r) \/ StreamEnds(r)
  BY <1>7, <1>8 DEF NoAuth, RejectedAgain, Reply, StreamStarts, StreamEnds, Awaiting, At,
                    Awaits, authVars
<1>9. CASE Begin(r)
  <2>1. ~Awaits(r) /\ file # Null BY <1>9 DEF Begin, Awaits, At
  <2>2. CASE reply' = reply BY <1>7, <2>1, <2>2
  <2>3. CASE Use(r, "renewing", Loaded) /\ Refresh(r, Loaded, Loaded)
    <3>1. ~At(r, "retrying")' BY <2>3 DEF Use, At, TypeOK, Locals
    <3> QED BY <1>5, <1>6, <2>1, <2>3, <3>1, RefreshServes
  <2> QED BY <1>9, <2>2, <2>3 DEF Begin
<1>10. CASE Rejected(r)
  <2>1. ~Awaits(r) /\ file # Null BY <1>10 DEF Rejected, Awaits, At, Served
  <2>2. CASE reply' = reply BY <1>7, <2>1, <2>2
  <2>3. CASE Use(r, "retrying", req[r].auth) /\ Refresh(r, req[r].auth, Reread)
    <3>1. req'[r].auth = req[r].auth BY <2>3 DEF Use, TypeOK, Locals
    <3> QED BY <1>5, <1>6, <2>1, <2>3, <3>1, RefreshServes
  <2> QED BY <1>10, <2>2, <2>3 DEF Rejected
<1>11. CASE GoOn(r) \/ Retry(r)
  <2>1. ~Told(r)' /\ \A q \in Requests \ {r} : reply'[q] = reply[q]
    BY <1>11 DEF GoOn, Retry, TakeReply, Told, TypeOK, AuthTypeOK
  <2> QED BY <1>6, <2>1
<1> QED BY <1>1, <1>8, <1>9, <1>10, <1>11 DEF RequestStep

\* Everybody else's.
LEMMA OthersServe ==
  ASSUME TypeOK, AsksWell, Served, Redeemable, refreshable, [Next]_vars, Undisturbed',
         \A r \in Requests : ~RequestStep(r)
  PROVE  Served'
<1>1. file # Null => file' # Null BY FileStays
<1>2. ASSUME UNCHANGED <<req, reply>> PROVE Served'
  BY <1>1, <1>2 DEF Served, Told, At
<1>3. CASE GrantAnswered(Unused) /\ UNCHANGED req
  <2>1. ~GrantLost BY Excluded DEF GrantLost
  <2>2. ~GrantRejected BY <1>3 DEF GrantRejected, GrantAnswered, Redeemable
  <2>3. PICK t \in Unused : GrantGranted(t) BY <1>3, <2>1, <2>2 DEF GrantAnswered
  <2>4. t \in Tokens /\ \A r \in Requests : t # req[r].auth.id BY DEF Unused, Referred
  <2>5. file # Null
    <3>1. inFlight \in [snap : Snapshot, waiters : (SUBSET Requests) \ {{}}]
      BY <1>3 DEF GrantAnswered, TypeOK, AuthTypeOK
    <3>2. PICK r \in Requests : Registered(r) BY <3>1 DEF Registered
    <3>3. Awaits(r) BY <3>2 DEF AsksWell, AllAwaitRightly, AwaitsRightly
    <3> QED BY <3>3 DEF Served, Awaits, At
  <2>6. Settle(SnapshotOf(EntryOf(t))) BY <2>3, <2>5, Excluded DEF GrantGranted
  <2>7. \A r \in Requests : \/ reply'[r] = reply[r]
                            \/ reply'[r] = SnapshotOf(EntryOf(t))
    BY <2>6 DEF Settle, Tell
  <2> QED BY <1>1, <1>3, <2>4, <2>7, SnapshotType DEF Served, Told, At
<1>4. CASE Tick
  <2>1. \A r \in Requests : /\ req'[r].pc = req[r].pc
                            /\ req'[r].auth = Less(req[r].auth)
                            /\ req[r].auth \in Snapshot \cup {Null}
    BY <1>4 DEF Tick, TypeOK, Locals
  <2>2. \A r \in Requests : req'[r].auth.id = req[r].auth.id BY <2>1, LessType
  <2>3. \A r \in Requests : reply'[r] = Less(reply[r])
                            /\ reply[r] \in Snapshot \cup {Null, NoReply}
    BY <1>4 DEF Tick, AgeStore, TypeOK, AuthTypeOK
  <2>4. \A r \in Requests : Told(r)' => Told(r) BY <2>3, LessType DEF Told
  <2> QED BY <1>1, <2>1, <2>2, <2>3, <2>4, LessType DEF Served, At
<1>5. CASE (Cli \/ \E t : Revoke(t)) /\ UNCHANGED req
  BY <1>2, <1>5 DEF Cli, CliLogin, CliRefresh, CliWrite, CliLogout, CliOnly, Revoke, storeVars
<1>6. CASE GetStatus \/ UNCHANGED vars
  BY <1>2, <1>6 DEF GetStatus, vars, authVars
<1> QED BY <1>3, <1>4, <1>5, <1>6 DEF Next

\* The invariant is inductive.
LEMMA NextAsksWell ==
  ASSUME TypeOK, AsksWell, AllAwaitRightly', [Next]_vars
  PROVE  AsksWell'
<1>1. Unanswered' BY StaysUnanswered DEF AsksWell
<1>2. Undisturbed' => Redeemable' BY StaysRedeemable DEF AsksWell
<1>3. refreshable' = refreshable
  BY DEF Next, RequestStep, NoAuth, Begin, GoOn, Rejected, Retry, RejectedAgain, Reply,
         StreamStarts, StreamEnds, StreamFails, StoreLost, OutsideStore, GrantAnswered,
         GrantLost, GrantRejected, GrantGranted, Cli, CliLogin, CliRefresh, CliWrite,
         CliLogout, CliOnly, Revoke, GetStatus, Tick, AgeStore, vars, authVars
<1>4. ASSUME Undisturbed', refreshable PROVE Served'
  <2>1. Undisturbed BY <1>4, EventsStay
  <2> QED BY <1>4, <2>1, RequestServes, OthersServe DEF AsksWell
<1> QED BY <1>1, <1>2, <1>3, <1>4 DEF AsksWell

\* A step that refuses a client for its credentials is the refusal of a second token.
LEMMA RefusesAfterRetry ==
  ASSUME TypeOK, AsksWell, [Next]_vars, NEW r \in Requests, refreshable, Undisturbed, RefusedIn(r)
  PROVE  At(r, "resent")
<1>1. req[r].answer = "none" /\ Served BY DEF AsksWell, Unanswered, RefusedIn
<1>2. ASSUME req'[r].answer = req[r].answer PROVE FALSE BY <1>1, <1>2 DEF RefusedIn
<1>3. RequestStep(r)
  <2>1. ASSUME NEW q \in Requests \ {r}, RequestStep(q) PROVE FALSE
    <3>1. CASE StreamFails(q)
      BY <1>2, <3>1 DEF StreamFails, Answered, RefusedIn
    <3>2. CASE ~StreamFails(q)
      BY <1>2, <2>1, <3>2
         DEF RequestStep, NoAuth, Begin, GoOn, Rejected, Retry, RejectedAgain, Reply,
             StreamStarts, StreamEnds, SendWith, Answer, Use, TypeOK
    <3> QED BY <3>1, <3>2
  <2>2. ~Tick BY <1>2 DEF Tick, TypeOK, Locals
  <2>3. req' # req BY <1>2
  <2> QED BY <2>1, <2>2, <2>3 DEF Next, GetStatus, vars
<1>4. \A pc, auth : Use(r, pc, auth) => req'[r].answer = req[r].answer
  BY DEF Use, TypeOK, Locals
<1>5. \A a : Answer(r, a) => req'[r].answer = a BY DEF Answer, Answered, TypeOK
<1>6. ~NoAuth(r) /\ ~Reply(r) /\ ~StreamEnds(r) /\ ~StreamStarts(r)
  BY <1>2, <1>4, <1>5 DEF NoAuth, Reply, StreamEnds, StreamStarts, RefusedIn
<1>7. ASSUME StreamFails(r) PROVE FALSE
  BY <1>2, <1>7 DEF StreamFails, Answered, RefusedIn
<1>8. ~Begin(r)
  <2>1. ASSUME Begin(r) PROVE FALSE
    <3>1. Loaded.expired /\ ~NeedsRefresh(Loaded)
      BY <1>2, <1>4, <2>1 DEF Begin, SendWith
    <3> QED BY <3>1 DEF NeedsRefresh
  <2> QED BY <2>1
<1>9. ~Rejected(r) BY <1>2, <1>4 DEF Rejected
<1>10. ASSUME GoOn(r) \/ Retry(r) PROVE FALSE
  <2>1. reply[r] \in Snapshot /\ ~reply[r].expired
        /\ (At(r, "retrying") => reply[r].id # req[r].auth.id)
    BY <1>1, <1>10 DEF GoOn, Retry, Served, Told
  <2>2. reply[r] # Null BY <2>1, NullIsNoSnapshot
  <2>3. ~GoOn(r) BY <1>2, <1>4, <2>1, <2>2 DEF GoOn, SendWith
  <2>4. ~Retry(r) BY <1>2, <1>4, <2>1, <2>2 DEF Retry, Usable
  <2> QED BY <1>10, <2>3, <2>4
<1>11. RejectedAgain(r)
  BY <1>3, <1>6, <1>7, <1>8, <1>9, <1>10 DEF RequestStep
<1> QED BY <1>11 DEF RejectedAgain

\* With a login that can be renewed, a client is refused for its credentials only
\* after two different tokens were sent, also when another request, a login or the
\* expiry gets in between (callUpstream, createForwardHandler).
THEOREM TwoTokensBeforeRefusal == Spec => RefusedOnlyAfterRetry
<1> DEFINE Inv == TypeOK /\ AllAwaitRightly /\ AsksWell
<1>1. Init => Inv
  <2> SUFFICES ASSUME Init PROVE Inv OBVIOUS
  <2>1. TypeOK BY InitType
  <2>2. /\ req = [r \in Requests |-> [pc |-> "start", auth |-> Null, answer |-> "none"]]
        /\ reply = [r \in Requests |-> NoReply] /\ inFlight = NoFlight /\ cli = Null
        /\ file # Null => file.id \in live
    BY DEF Init, AuthInit, EntryOf
  <2>3. AllAwaitRightly /\ Unanswered /\ Served /\ Redeemable
    BY <2>2 DEF AllAwaitRightly, AwaitsRightly, Awaits, At, Registered, Told, NoFlight,
                Unanswered, Served, Redeemable
  <2> QED BY <2>1, <2>3 DEF AsksWell
<1>2. Inv /\ [Next]_vars => Inv'
  BY NextType, NextAwaits, NextAsksWell
<1>3. Inv /\ [Next]_vars =>
        [\A r \in Requests :
            refreshable /\ Undisturbed /\ RefusedIn(r) => At(r, "resent")]_vars
  BY RefusesAfterRetry
<1> QED BY <1>1, <1>2, <1>3, PTL DEF Spec, RefusedOnlyAfterRetry
=============================================================================
