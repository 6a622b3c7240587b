------------------------- MODULE CodexRequestProofs -------------------------
(***************************************************************************)
(* Proofs about CodexRequests, for any number of callers, keys, logins and *)
(* pictures: what a request sends, when it is refused, how it is counted,  *)
(* and that the totals of the usage monitor add up.                        *)
(***************************************************************************)
EXTENDS CodexRequests, FiniteSetTheorems, SequenceTheorems,
        WellFoundedInduction, TLAPS

-----------------------------------------------------------------------------
(* One request *)

Pictures(l) == IF l.mode = "images" THEN MaxImages ELSE 1

\* What the calls that are over, and the first login of the present one, may have sent.
Spent(l) == 4 * (Pictures(l) - l.left) + (IF l.reloaded THEN 2 ELSE 0)

\* Where a request stands, and what it has sent by then.
Thrifty(l) ==
    /\ l.mode # "images" => l.left = 1
    /\ l.pc \in {"idle", "body"} => l.sends = 0
    /\ l.pc = "delay" => l.sends + 1 <= Spent(l) + l.attempt
    /\ l.sends <= Spent(l) + l.attempt

\* What the record of a request will say of it is what its client got.
Truthful(l) == l.pc = "finishing" => (l.whole <=> l.status < 400 /\ ~l.failed)

Fits(l) == l \in Request /\ Thrifty(l) /\ Truthful(l)

AllFit == req \in [Callers -> Request] /\ \A r \in Callers : Fits(req[r])

LEMMA PicturesAreMore ==
    ASSUME NEW l \in Request, l.mode # "images" => l.left = 1
    PROVE  /\ Pictures(l) \in Nat /\ l.left \in 1..Pictures(l)
           /\ Spent(l) \in Nat /\ Spent(l) <= 4 * Pictures(l) - 2
  <1>1. l.left \in 1..MaxImages /\ MaxImages \in Nat
    BY ImagesAssumption DEF Request
  <1>2. Pictures(l) \in Nat /\ l.left \in 1..Pictures(l)
    BY <1>1 DEF Pictures
  <1> QED BY <1>2 DEF Spent

LEMMA IdleFits == Fits(Idle)
  <1>1. 1 \in 1..MaxImages
    BY ImagesAssumption
  <1>2. Unavailable \in Snapshots /\ "chat" \in AllModes /\ 200 \in Statuses
    BY DEF Snapshots, AllModes, Statuses
  <1>3. Idle \in Request
    BY <1>1, <1>2 DEF Idle, Request, CODEX_RESPONSES_MAX_ATTEMPTS
  <1>4. Spent(Idle) \in Nat
    BY <1>3, PicturesAreMore DEF Idle
  <1>5. Thrifty(Idle)
    BY <1>3, <1>4 DEF Idle, Thrifty
  <1>6. Truthful(Idle)
    BY DEF Idle, Truthful
  <1> QED BY <1>3, <1>5, <1>6 DEF Fits

\* Handlers write their locals.
LEMMA BecomeFits ==
    ASSUME AllFit, NEW r \in Callers, NEW l, Fits(l), Become(r, l)
    PROVE  /\ AllFit' /\ req'[r] = l
           /\ \A q \in Callers \ {r} : req'[q] = req[q]
  <1>1. l \in Request
    BY DEF Fits
  <1>2. req' = [req EXCEPT ![r] = l]
    BY DEF Become
  <1>3. req' \in [Callers -> Request] /\ req'[r] = l
    BY <1>1, <1>2 DEF AllFit
  <1>4. \A q \in Callers \ {r} : req'[q] = req[q]
    BY <1>2 DEF AllFit
  <1>5. \A q \in Callers : Fits(req'[q])
    BY <1>3, <1>4 DEF AllFit
  <1> QED BY <1>3, <1>4, <1>5 DEF AllFit, Fits, Thrifty, Truthful, Spent, Pictures

LEMMA AnsweredType ==
    ASSUME AllFit, NEW r \in Callers, NEW status \in Statuses, NEW failed \in BOOLEAN
    PROVE  LET m == Answered(r, status, failed)
           IN  /\ m \in Request /\ m.pc = "finishing" /\ m.status = status
               /\ m.failed = failed /\ m.whole = (status = 200) /\ m.mode = req[r].mode
               /\ m.left = req[r].left /\ m.sends = req[r].sends
               /\ m.reloaded = req[r].reloaded /\ m.attempt = req[r].attempt
  <1> DEFINE whole == status = 200
             m == Answered(r, status, failed)
  <1>1. req[r] \in Request /\ whole \in BOOLEAN
    BY DEF AllFit
  <1>2. m = [req[r] EXCEPT !.pc = "finishing", !.status = status, !.failed = failed,
                           !.whole = whole]
    BY DEF Answered
  <1> HIDE DEF whole, m
  <1>3. /\ m \in Request /\ m.pc = "finishing" /\ m.status = status /\ m.failed = failed
        /\ m.whole = whole /\ m.mode = req[r].mode /\ m.left = req[r].left
        /\ m.sends = req[r].sends /\ m.reloaded = req[r].reloaded
        /\ m.attempt = req[r].attempt
    BY <1>1, <1>2 DEF Request
  <1> QED BY <1>3 DEF m, whole

\* An answer ends the handling of a request; it is no success unless it is whole.
LEMMA AnsweredFits ==
    ASSUME AllFit, NEW r \in Callers, NEW status \in Statuses, NEW failed \in BOOLEAN,
           status = 200 => ~failed
    PROVE  /\ Fits(Answered(r, status, failed))
           /\ Answered(r, status, failed).pc = "finishing"
           /\ Answered(r, status, failed).status = status
  <1> DEFINE m == Answered(r, status, failed)
  <1>1. /\ m \in Request /\ m.pc = "finishing" /\ m.status = status /\ m.failed = failed
        /\ m.whole = (status = 200) /\ m.mode = req[r].mode /\ m.left = req[r].left
        /\ m.sends = req[r].sends /\ m.reloaded = req[r].reloaded
        /\ m.attempt = req[r].attempt
    BY AnsweredType
  <1> HIDE DEF m
  <1>2. Truthful(m)
    <2>1. status = 200 <=> status < 400 /\ ~failed
      BY DEF Statuses
    <2>2. m.whole <=> status = 200
      BY <1>1
    <2>3. m.status = status /\ m.failed = failed
      BY <1>1
    <2> QED BY <2>1, <2>2, <2>3, Zenon DEF Truthful
  <1>3. req[r] \in Request /\ Thrifty(req[r])
    BY DEF AllFit, Fits
  <1>4. Thrifty(m)
    BY <1>1, <1>3 DEF Thrifty, Spent, Pictures
  <1> QED BY <1>1, <1>2, <1>4 DEF Fits, m

\* fetch: one more has been sent.
LEMMA SendingFits ==
    ASSUME NEW l \in Request, NEW snapshot \in Snapshots,
           l.mode # "images" => l.left = 1, l.sends + 1 <= Spent(l) + l.attempt
    PROVE  Fits(Sending(l, snapshot)) /\ Sending(l, snapshot).pc = "sent"
  <1> DEFINE m == Sending(l, snapshot)
             n == l.sends + 1
  <1>1. m = [l EXCEPT !.pc = "sent", !.snapshot = snapshot, !.sends = n]
    BY DEF Sending, Request
  <1>2. n \in Nat
    BY DEF Request
  <1> HIDE DEF m, n
  <1>3. /\ m \in Request /\ m.pc = "sent" /\ m.sends = n /\ m.mode = l.mode
        /\ m.left = l.left /\ m.reloaded = l.reloaded /\ m.attempt = l.attempt
    BY <1>1, <1>2 DEF Request
  <1>4. Thrifty(m)
    BY <1>3 DEF Thrifty, Spent, Pictures, n
  <1> QED BY <1>3, <1>4 DEF Fits, Truthful, m

-----------------------------------------------------------------------------
(* The login on disk *)

LEMMA FirstPathIsPath == Present # {} => FirstPath \in Present /\ FirstPath \in Paths
  <1>1. Present # {} => \E p \in Present : \A q \in Present : p <= q
    BY DEF Present, Paths
  <1> QED BY <1>1 DEF FirstPath, Present

LEMMA OnDiskIsSnapshot == AuthType => OnDisk \in Snapshots
  <1> SUFFICES ASSUME AuthType, Present # {}, files[FirstPath] # Torn
               PROVE  [path |-> FirstPath, id |-> files[FirstPath]] \in Snapshots
    BY DEF OnDisk, Snapshots
  <1>1. files[FirstPath] \in Tokens
    BY FirstPathIsPath DEF AuthType, Present
  <1> QED BY <1>1, FirstPathIsPath DEF Snapshots

LEMMA LoadedIsSnapshot ==
    ASSUME AuthType, NEW cached \in Snapshots
    PROVE  Loaded(cached) \in Snapshots /\ Cached(cached) \in Snapshots
  BY OnDiskIsSnapshot DEF Loaded, Cached

LEMMA UnavailableIsSnapshot == Unavailable \in Snapshots
  BY DEF Snapshots

\* What the CLI and upstream do to the logins.
LEMMA AuthStepType == AuthType /\ AuthStep => AuthType'
  <1> SUFFICES ASSUME AuthType, AuthStep PROVE AuthType'
    OBVIOUS
  <1>1. events + 1 \in 0..MaxEvents \/ ~(events < MaxEvents)
    BY TokensAssumption DEF AuthType
  <1>2. ASSUME NEW p \in Paths, CliWrite(p) PROVE AuthType'
    <2>1. written + 1 \in Tokens
      BY <1>2, TokensAssumption DEF CliWrite, AuthType, Tokens
    <2> QED BY <1>1, <1>2, <2>1 DEF CliWrite, Event, AuthType
  <1>3. ASSUME NEW p \in Paths, CliRemove(p) \/ CliTears(p) PROVE AuthType'
    BY <1>1, <1>3 DEF CliRemove, CliTears, Event, AuthType
  <1>4. ASSUME NEW id \in Tokens, Expire(id) PROVE AuthType'
    BY <1>1, <1>4 DEF Expire, Event, AuthType
  <1> QED BY <1>2, <1>3, <1>4 DEF AuthStep

-----------------------------------------------------------------------------
(* The steps of a request *)

\* A 401 of r in this step would be no news to the files.
Warranted(r) == req[r].reloaded \/ OnDisk \in {Unavailable, req[r].snapshot}

\* A step of r's handler: it writes fitting locals, and a 401 only if warranted.
Handled(r) ==
    \E l : /\ Become(r, l) /\ Fits(l)
           /\ req[r].pc # "finishing" /\ l.pc = "finishing" /\ l.status = 401 => Warranted(r)

\* An error other than 401 needs no warrant.
LEMMA ErrorHandled ==
    ASSUME AllFit, NEW r \in Callers, NEW status \in {429, 500, 502, 503, 504},
           NEW failed \in BOOLEAN, Become(r, Answered(r, status, failed))
    PROVE  Handled(r)
  <1>1. status \in Statuses /\ status # 200 /\ status # 401
    BY DEF Statuses
  <1> QED BY <1>1, AnsweredFits DEF Handled

\* One with the failure context set.
Fails(r, status) == Become(r, Answered(r, status, TRUE))

LEMMA FailureHandled ==
    ASSUME AllFit, NEW r \in Callers, NEW status \in {429, 500, 502, 503, 504},
           Fails(r, status)
    PROVE  Handled(r)
  <1>1. \E failed \in BOOLEAN : Become(r, Answered(r, status, failed))
    <2> WITNESS TRUE \in BOOLEAN
    <2> QED BY DEF Fails
  <1> QED BY <1>1, ErrorHandled

LEMMA RefusalHandled ==
    ASSUME AllFit, NEW r \in Callers, Warranted(r), Become(r, Answered(r, 401, TRUE))
    PROVE  Handled(r)
  <1>1. 401 \in Statuses /\ 401 # 200
    BY DEF Statuses
  <1>2. \E failed \in BOOLEAN : Become(r, Answered(r, 401, failed))
    <2> WITNESS TRUE \in BOOLEAN
    <2> QED OBVIOUS
  <1> QED BY <1>1, <1>2, AnsweredFits DEF Handled

LEMMA SendingHandled ==
    ASSUME NEW r \in Callers, NEW l \in Request, NEW snapshot \in Snapshots,
           l.mode # "images" => l.left = 1, l.sends + 1 <= Spent(l) + l.attempt,
           Become(r, Sending(l, snapshot))
    PROVE  Handled(r)
  BY SendingFits DEF Handled

LEMMA BeginHandled ==
    ASSUME AllFit, AuthType, NEW r \in Callers, Begin(r)
    PROVE  Handled(r) /\ AuthType'
  <1>1. /\ req[r] \in Request /\ req[r].sends = 0
        /\ req[r].mode # "images" => req[r].left = 1
    BY DEF Begin, At, AllFit, Fits, Thrifty
  <1>2. Loaded(cache) \in Snapshots /\ Cached(cache) \in Snapshots
    BY LoadedIsSnapshot DEF AuthType
  <1>3. req[r].sends + 1 <= Spent(req[r]) + req[r].attempt
    <2>1. Spent(req[r]) \in Nat
      BY <1>1, PicturesAreMore
    <2>2. req[r].attempt \in 1..2
      BY <1>1 DEF Request, CODEX_RESPONSES_MAX_ATTEMPTS
    <2> QED BY <1>1, <2>1, <2>2
  <1>4. CASE Loaded(cache) = Unavailable
    <2>1. PICK failed \in BOOLEAN : Become(r, Answered(r, 503, failed))
      BY <1>4, Zenon DEF Begin
    <2> QED BY <1>2, <2>1, ErrorHandled DEF Begin, AuthType
  <1>5. CASE Loaded(cache) # Unavailable
    BY <1>1, <1>2, <1>3, <1>5, SendingHandled DEF Begin, AuthType
  <1> QED BY <1>4, <1>5

LEMMA FetchHandled ==
    ASSUME AllFit, NEW r \in Callers,
           \/ \E transient \in BOOLEAN : FetchFails(r, transient)
           \/ FetchTimesOut(r)
           \/ \E status \in {429, 500} : UpstreamRefuses(r, status)
    PROVE  Handled(r)
  <1>2. CASE FetchTimesOut(r)
    <2>1. Fails(r, 504)
      BY <1>2 DEF FetchTimesOut, Fails
    <2> QED BY <2>1, FailureHandled
  <1>3. CASE \E status \in {429, 500} : UpstreamRefuses(r, status)
    <2>1. PICK status \in {429, 500} : Fails(r, status)
      BY <1>3 DEF UpstreamRefuses, Fails
    <2>2. status \in {429, 500, 502, 503, 504}
      OBVIOUS
    <2> QED BY <2>1, <2>2, FailureHandled
  <1>4. ASSUME NEW transient \in BOOLEAN, FetchFails(r, transient)
        PROVE  Handled(r)
    <2>1. CASE ~(transient /\ AttemptsLeft(r))
      <3>1. Fails(r, 502)
        BY <1>4, <2>1 DEF FetchFails, Fails
      <3> QED BY <3>1, FailureHandled
    <2>2. CASE transient /\ AttemptsLeft(r)
      <3> DEFINE n == req[r].attempt + 1
                 m == [req[r] EXCEPT !.pc = "delay", !.attempt = n]
      <3>1. Become(r, [req[r] EXCEPT !.pc = "delay", !.attempt = @ + 1])
        BY <1>4, <2>2 DEF FetchFails
      <3>2. req[r] \in Request /\ Thrifty(req[r])
        BY DEF AllFit, Fits
      <3>3. Become(r, m)
        BY <3>1, <3>2 DEF Request
      <3>4. n \in 1..CODEX_RESPONSES_MAX_ATTEMPTS
        BY <2>2, <3>2 DEF AttemptsLeft, Request, CODEX_RESPONSES_MAX_ATTEMPTS
      <3>5. req[r].attempt \in Nat
        BY <3>2 DEF Request, CODEX_RESPONSES_MAX_ATTEMPTS
      <3>6. n = req[r].attempt + 1
        OBVIOUS
      <3> HIDE DEF n
      <3>7. /\ m \in Request /\ m.pc = "delay" /\ m.attempt = n /\ m.mode = req[r].mode
            /\ m.left = req[r].left /\ m.sends = req[r].sends
            /\ m.reloaded = req[r].reloaded
        BY <3>2, <3>4 DEF Request
      <3> HIDE DEF m
      <3>8. m.sends <= Spent(m) + req[r].attempt /\ (m.mode # "images" => m.left = 1)
        BY <3>2, <3>7 DEF Thrifty, Spent, Pictures
      <3>9. Spent(m) \in Nat /\ m.sends \in Nat
        BY <3>7, <3>8, PicturesAreMore DEF Request
      <3>10. Thrifty(m)
        BY <3>5, <3>6, <3>7, <3>8, <3>9 DEF Thrifty
      <3> QED BY <3>3, <3>7, <3>10 DEF Handled, Fits, Truthful
    <2> QED BY <2>1, <2>2
  <1> QED BY <1>2, <1>3, <1>4

LEMMA ResendHandled ==
    ASSUME AllFit, NEW r \in Callers, Resend(r)
    PROVE  Handled(r)
  <1>1. /\ req[r] \in Request /\ req[r].snapshot \in Snapshots
        /\ req[r].mode # "images" => req[r].left = 1
        /\ req[r].sends + 1 <= Spent(req[r]) + req[r].attempt
    BY DEF Resend, At, AllFit, Fits, Thrifty, Request
  <1> QED BY <1>1, SendingHandled DEF Resend

\* The second login is a new start, which the first one's two attempts leave room for.
LEMMA UnauthorizedHandled ==
    ASSUME AllFit, AuthType, NEW r \in Callers, Unauthorized(r)
    PROVE  Handled(r) /\ AuthType'
  <1> DEFINE news == NewsAfter(req[r].snapshot)
             l == [req[r] EXCEPT !.reloaded = TRUE, !.attempt = 1]
  <1>1. req[r] \in Request /\ Thrifty(req[r])
    BY DEF AllFit, Fits
  <1>2. news \in Snapshots /\ (news = Unavailable => Warranted(r))
    BY OnDiskIsSnapshot, UnavailableIsSnapshot DEF NewsAfter, Warranted
  <1>3. AuthType'
    <2>1. cache' \in {cache, Cached(Unavailable)}
      BY DEF Unauthorized
    <2>2. Cached(Unavailable) \in Snapshots
      BY UnavailableIsSnapshot, LoadedIsSnapshot
    <2> QED BY <2>1, <2>2 DEF Unauthorized, AuthType
  <1>5. CASE req[r].reloaded
    <2>1. Warranted(r) /\ Become(r, Answered(r, 401, TRUE))
      BY <1>5, Zenon DEF Unauthorized, Warranted
    <2> QED BY <1>3, <2>1, RefusalHandled
  <1>6. CASE ~req[r].reloaded /\ news = Unavailable
    <2>1. Become(r, Answered(r, 401, TRUE))
      BY <1>6, Zenon DEF Unauthorized
    <2> QED BY <1>2, <1>3, <1>6, <2>1, RefusalHandled
  <1>7. CASE ~req[r].reloaded /\ news # Unavailable
    <2>1. Become(r, Sending(l, news))
      BY <1>7 DEF Unauthorized
    <2>2. 1 \in 1..CODEX_RESPONSES_MAX_ATTEMPTS
      BY DEF CODEX_RESPONSES_MAX_ATTEMPTS
    <2> HIDE DEF news
    <2>3. /\ l \in Request /\ l.attempt = 1 /\ l.mode = req[r].mode /\ l.reloaded
          /\ l.left = req[r].left /\ l.sends = req[r].sends
      BY <1>1, <2>2 DEF Request
    <2> HIDE DEF l
    <2>4. req[r].attempt \in 1..2 /\ l.sends \in Nat
      BY <1>1, <2>3 DEF Request, CODEX_RESPONSES_MAX_ATTEMPTS
    <2>5. Spent(req[r]) \in Nat /\ Spent(l) = Spent(req[r]) + 2
      <3>1. Spent(req[r]) \in Nat
        BY <1>1, PicturesAreMore DEF Thrifty
      <3>2. Pictures(l) = Pictures(req[r])
        BY <2>3 DEF Pictures
      <3>3. Pictures(l) \in Nat /\ l.left \in Nat
        BY <1>1, <2>3, <3>2, PicturesAreMore DEF Thrifty
      <3> QED BY <1>7, <2>3, <3>1, <3>2, <3>3 DEF Spent
    <2>6. l.sends + 1 <= Spent(l) + l.attempt
      BY <1>1, <2>3, <2>4, <2>5 DEF Thrifty
    <2>7. l.mode # "images" => l.left = 1
      BY <1>1, <2>3 DEF Thrifty
    <2>8. Handled(r)
      BY <1>2, <2>1, <2>3, <2>6, <2>7, SendingHandled
    <2> QED BY <1>3, <2>8
  <1> QED BY <1>3, <1>5, <1>6, <1>7

\* Changes that none of the bounds is about.
LEMMA SameSendsFits ==
    ASSUME AllFit, NEW r \in Callers, NEW l \in Request,
           l.mode = req[r].mode, l.left = req[r].left, l.sends = req[r].sends,
           l.attempt = req[r].attempt, l.reloaded = req[r].reloaded,
           l.pc \in {req[r].pc, "reading", "finishing"}
    PROVE  Thrifty(l)
  <1>1. req[r] \in Request /\ Thrifty(req[r])
    BY DEF AllFit, Fits
  <1> QED BY <1>1 DEF Thrifty, Spent, Pictures

LEMMA BodyStartsHandled ==
    ASSUME AllFit, NEW r \in Callers, BodyStarts(r)
    PROVE  Handled(r)
  <1> DEFINE m == [req[r] EXCEPT !.pc = "reading"]
  <1>1. req[r] \in Request
    BY DEF AllFit
  <1>2. /\ m \in Request /\ m.pc = "reading" /\ m.mode = req[r].mode /\ m.left = req[r].left
        /\ m.sends = req[r].sends /\ m.attempt = req[r].attempt
        /\ m.reloaded = req[r].reloaded
    BY <1>1 DEF Request
  <1>3. Become(r, m)
    BY DEF BodyStarts
  <1> HIDE DEF m
  <1> QED BY <1>2, <1>3, SameSendsFits DEF Handled, Fits, Truthful

LEMMA LeaveHandled ==
    ASSUME AllFit, NEW r \in Callers, Leave(r)
    PROVE  Handled(r)
  <1> DEFINE m == [req[r] EXCEPT !.gone = TRUE]
  <1>1. req[r] \in Request /\ Truthful(req[r])
    BY DEF AllFit, Fits
  <1>2. /\ m \in Request /\ m.pc = req[r].pc /\ m.mode = req[r].mode /\ m.left = req[r].left
        /\ m.sends = req[r].sends /\ m.attempt = req[r].attempt
        /\ m.reloaded = req[r].reloaded /\ m.whole = req[r].whole
        /\ m.status = req[r].status /\ m.failed = req[r].failed
    BY <1>1 DEF Request
  <1>3. Become(r, m)
    BY DEF Leave
  <1> HIDE DEF m
  <1>4. Fits(m)
    BY <1>1, <1>2, SameSendsFits DEF Fits, Truthful
  <1> QED BY <1>2, <1>3, <1>4 DEF Handled

\* However a stream ends, its status is 200: its failure context tells.
LEMMA StreamEndsHandled ==
    ASSUME AllFit, NEW r \in Callers, NEW completed \in BOOLEAN, NEW tokens \in 0..1,
           StreamEnds(r, completed, tokens)
    PROVE  Handled(r)
  <1>1. PICK failed \in BOOLEAN :
            /\ failed <=> ~completed
            /\ Become(r, [Answered(r, 200, failed) EXCEPT !.whole = completed,
                                                         !.tokens = tokens])
    <2> WITNESS (~completed) \in BOOLEAN
    <2> QED BY DEF StreamEnds
  <1> DEFINE a == Answered(r, 200, failed)
             m == [a EXCEPT !.whole = completed, !.tokens = tokens]
  <1>2. 200 \in Statuses
    BY DEF Statuses
  <1>3. /\ a \in Request /\ a.pc = "finishing" /\ a.status = 200 /\ a.failed = failed
        /\ a.mode = req[r].mode /\ a.left = req[r].left /\ a.sends = req[r].sends
        /\ a.reloaded = req[r].reloaded /\ a.attempt = req[r].attempt
    BY <1>2, AnsweredType
  <1>4. Become(r, m)
    BY <1>1
  <1> HIDE DEF a
  <1>5. /\ m \in Request /\ m.pc = "finishing" /\ m.status = 200 /\ m.failed = failed
        /\ m.whole = completed
        /\ m.mode = req[r].mode /\ m.left = req[r].left /\ m.sends = req[r].sends
        /\ m.reloaded = req[r].reloaded /\ m.attempt = req[r].attempt
    BY <1>3 DEF Request
  <1> HIDE DEF m
  <1>6. Truthful(m)
    BY <1>1, <1>5 DEF Truthful
  <1> QED BY <1>4, <1>5, <1>6, SameSendsFits DEF Handled, Fits

\* The next picture begins anew, and a picture has never cost more than its four.
LEMMA CollectedHandled ==
    ASSUME AllFit, NEW r \in Callers, NEW tokens \in 0..1, Collected(r, tokens)
    PROVE  Handled(r)
  <1>1. req[r] \in Request /\ Thrifty(req[r])
    BY DEF AllFit, Fits
  <1>2. CASE req[r].left > 1
    <2> DEFINE n == req[r].left - 1
               l == [req[r] EXCEPT !.left = n, !.attempt = 1, !.reloaded = FALSE]
    <2>1. Become(r, Sending([req[r] EXCEPT !.left = @ - 1, !.attempt = 1,
                                           !.reloaded = FALSE], req[r].snapshot))
      BY <1>2 DEF Collected
    <2>2. Become(r, Sending(l, req[r].snapshot))
      BY <1>1, <2>1 DEF Request
    <2>3. n \in 1..MaxImages /\ n = req[r].left - 1 /\ 1 \in 1..CODEX_RESPONSES_MAX_ATTEMPTS
      BY <1>1, <1>2, ImagesAssumption DEF Request, CODEX_RESPONSES_MAX_ATTEMPTS
    <2> HIDE DEF n
    <2>4. /\ l \in Request /\ l.attempt = 1 /\ l.mode = req[r].mode /\ ~l.reloaded
          /\ l.left = n /\ l.sends = req[r].sends
      BY <1>1, <2>3 DEF Request
    <2> HIDE DEF l
    <2>5. req[r].mode = "images" /\ l.mode = "images"
      BY <1>1, <1>2, <2>4 DEF Thrifty
    <2>6. Pictures(l) = MaxImages /\ Pictures(req[r]) = MaxImages
      BY <2>5 DEF Pictures
    <2>7. /\ req[r].attempt \in 1..2 /\ l.sends \in Nat /\ req[r].left \in 1..MaxImages
          /\ req[r].snapshot \in Snapshots
      BY <1>1, <2>4 DEF Request, CODEX_RESPONSES_MAX_ATTEMPTS
    <2>8. req[r].sends <= 4 * (MaxImages - req[r].left) + 4
      <3>1. req[r].sends <= Spent(req[r]) + req[r].attempt
        BY <1>1 DEF Thrifty
      <3>2. \/ Spent(req[r]) = 4 * (MaxImages - req[r].left) + 2
            \/ Spent(req[r]) = 4 * (MaxImages - req[r].left) + 0
        BY <2>6 DEF Spent
      <3>3. MaxImages \in Nat
        BY ImagesAssumption
      <3>4. req[r].sends \in Nat
        BY <2>4, <2>7
      <3> QED BY <2>7, <3>1, <3>2, <3>3, <3>4
    <2>9. Spent(l) = 4 * (MaxImages - n) + 0
      BY <2>4, <2>6 DEF Spent
    <2>10. l.sends + 1 <= Spent(l) + l.attempt
      BY <2>3, <2>4, <2>7, <2>8, <2>9, ImagesAssumption
    <2> QED BY <2>2, <2>4, <2>5, <2>7, <2>10, SendingHandled
  <1>3. CASE ~(req[r].left > 1)
    <2> DEFINE counted == IF req[r].mode = "images" THEN 0 ELSE tokens
               m == [Answered(r, 200, FALSE) EXCEPT !.tokens = counted]
    <2>1. Become(r, m)
      BY <1>3, Zenon DEF Collected
    <2>2. counted \in 0..1 /\ 200 \in Statuses
      BY DEF Statuses
    <2> HIDE DEF counted
    <2>3. m = [req[r] EXCEPT !.pc = "finishing", !.status = 200, !.failed = FALSE,
                             !.whole = TRUE, !.tokens = counted]
      BY <1>1 DEF Answered, Request
    <2> HIDE DEF m
    <2>4. /\ m \in Request /\ m.pc = "finishing" /\ m.mode = req[r].mode
          /\ m.left = req[r].left /\ m.sends = req[r].sends /\ m.attempt = req[r].attempt
          /\ m.reloaded = req[r].reloaded /\ m.whole /\ m.status = 200 /\ ~m.failed
      BY <1>1, <2>2, <2>3 DEF Request
    <2>5. Truthful(m)
      BY <2>4 DEF Truthful
    <2> QED BY <2>1, <2>4, <2>5, SameSendsFits DEF Handled, Fits
  <1> QED BY <1>2, <1>3

LEMMA CollectFailsHandled ==
    ASSUME AllFit, NEW r \in Callers, CollectFails(r) \/ CollectBreaks(r)
    PROVE  Handled(r)
  <1>1. CASE CollectFails(r)
    <2>1. Fails(r, 502)
      BY <1>1 DEF CollectFails, Fails
    <2> QED BY <2>1, FailureHandled
  <1>2. CASE CollectBreaks(r)
    <2>1. PICK failed \in BOOLEAN : Become(r, Answered(r, 500, failed))
      BY <1>2, Zenon DEF CollectBreaks
    <2> QED BY <2>1, ErrorHandled
  <1> QED BY <1>1, <1>2

LEMMA ForgottenHandled ==
    ASSUME AllFit, NEW r \in Callers, StreamAbandoned(r) \/ Finish(r)
    PROVE  Handled(r)
  <1>1. Become(r, Idle) /\ Idle.pc = "idle"
    BY DEF StreamAbandoned, Finish, Idle
  <1> QED BY <1>1, IdleFits DEF Handled

LEMMA ArriveHandled ==
    ASSUME AllFit, NEW r \in Callers, NEW k \in Keys, NEW mode \in Modes, Arrive(r, k, mode)
    PROVE  Handled(r) \/ UNCHANGED req
  <1> SUFFICES ASSUME NEW n \in IF mode = "images" THEN 1..MaxImages ELSE {1},
                      Become(r, [Idle EXCEPT !.pc = "body", !.mode = mode, !.left = n])
               PROVE  Handled(r)
    BY DEF Arrive
  <1> DEFINE m == [Idle EXCEPT !.pc = "body", !.mode = mode, !.left = n]
  <1>1. Idle \in Request /\ mode \in AllModes
    BY IdleFits, ModesAssumption DEF Fits
  <1>2. n \in 1..MaxImages /\ (mode # "images" => n = 1)
    BY ImagesAssumption
  <1>3. /\ Idle.sends = 0 /\ Idle.attempt = 1 /\ Idle.reloaded = FALSE
    BY DEF Idle
  <1>4. /\ m \in Request /\ m.pc = "body" /\ m.mode = mode /\ m.left = n
        /\ m.sends = 0 /\ m.attempt = 1
    BY <1>1, <1>2, <1>3 DEF Request
  <1> HIDE DEF m
  <1>5. Spent(m) \in Nat
    BY <1>2, <1>4, PicturesAreMore
  <1>6. Thrifty(m)
    BY <1>2, <1>4, <1>5 DEF Thrifty
  <1>7. Become(r, m)
    BY DEF m
  <1> QED BY <1>4, <1>6, <1>7 DEF Handled, Fits, Truthful

-----------------------------------------------------------------------------
(***************************************************************************)
(* Sums.  The usage monitor's totals are compared with sums over its       *)
(* endpoints, which the community modules define as a recursive function   *)
(* on the subsets of the domain.  An induction over the size of a set is a *)
(* least counterexample here.                                              *)
(***************************************************************************)
LEMMA HasLeast ==
    ASSUME NEW S, S \subseteq Nat, S # {}
    PROVE  \E n \in S : \A m \in S : n <= m
  <1> DEFINE R == OpToRel(<, Nat)
  <1>1. PICK n \in S : \A m \in S : ~ (<<m, n>> \in R)
    BY NatLessThanWellFounded, WFMin, Zenon
  <1>2. ASSUME NEW m \in S, m < n PROVE FALSE
    BY <1>1, <1>2 DEF OpToRel
  <1> QED BY <1>2

\* The element a fold takes next.
Chosen(s) == CHOOSE x \in s : TRUE

\* What g says of a set is the sum of v over it.
Adds(g, v, s) == g[s] = IF s = {} THEN 0 ELSE v[Chosen(s)] + g[s \ {Chosen(s)}]
IsSum(g, v, D) == /\ v \in [D -> Nat] /\ g \in [SUBSET D -> Nat]
                  /\ \A s \in SUBSET D : Adds(g, v, s)

LEMMA OneLess ==
    ASSUME NEW D, IsFiniteSet(D), NEW s \in SUBSET D, NEW x \in s
    PROVE  /\ IsFiniteSet(s) /\ Cardinality(s) \in Nat /\ Cardinality(s) # 0
           /\ s \ {x} \in SUBSET D /\ Cardinality(s \ {x}) = Cardinality(s) - 1
           /\ Cardinality(s) <= Cardinality(D)
  <1>1. IsFiniteSet(s) /\ Cardinality(s) <= Cardinality(D)
    BY FS_Subset
  <1>2. Cardinality(s) \in Nat /\ Cardinality(s) # 0
    BY <1>1, FS_CardinalityType, FS_EmptySet
  <1>3. Cardinality(s \ {x}) = Cardinality(s) - 1
    BY <1>1, FS_RemoveElement
  <1> QED BY <1>1, <1>2, <1>3

LEMMA ChosenIsIn == \A s : s # {} => Chosen(s) \in s
  BY DEF Chosen

\* A finite set has a sum.
LEMMA SumExists ==
    ASSUME NEW D, IsFiniteSet(D), NEW v \in [D -> Nat]
    PROVE  \E g : IsSum(g, v, D)
  <1> DEFINE UpTo(g, n) == /\ g \in [SUBSET D -> Nat]
                           /\ \A s \in SUBSET D : Cardinality(s) <= n => Adds(g, v, s)
             T == {n \in Nat : ~ \E g : UpTo(g, n)}
  <1>1. ASSUME NEW n \in T, \A m \in T : n <= m
        PROVE  FALSE
    <2>1. CASE n = 0
      <3> DEFINE g == [s \in SUBSET D |-> 0]
      <3>1. ASSUME NEW s \in SUBSET D, Cardinality(s) <= 0
            PROVE  Adds(g, v, s)
        <4>1. ASSUME NEW x \in s PROVE FALSE
          <5>1. Cardinality(s) \in Nat /\ Cardinality(s) # 0
            BY OneLess
          <5> QED BY <3>1, <5>1
        <4>2. s = {}
          BY <4>1
        <4> QED BY <4>2 DEF Adds
      <3>2. UpTo(g, 0)
        BY <3>1
      <3> QED BY <2>1, <3>2
    <2>2. CASE n # 0
      <3>9. n \in Nat
        OBVIOUS
      <3>1. n - 1 \in Nat /\ n - 1 \notin T
        <4> HIDE DEF T
        <4> QED BY <1>1, <2>2, <3>9
      <3>2. PICK g : UpTo(g, n - 1)
        BY <3>1
      <3> DEFINE h == [s \in SUBSET D |->
                          IF Cardinality(s) = n THEN v[Chosen(s)] + g[s \ {Chosen(s)}] ELSE g[s]]
      <3>3. ASSUME NEW s \in SUBSET D, s # {}
            PROVE  /\ Chosen(s) \in D /\ s \ {Chosen(s)} \in SUBSET D
                   /\ Cardinality(s) \in Nat
                   /\ Cardinality(s \ {Chosen(s)}) = Cardinality(s) - 1
        BY <3>3, ChosenIsIn, OneLess
      <3>4. Cardinality({}) = 0
        BY FS_EmptySet
      <3>5. h \in [SUBSET D -> Nat]
        <4> SUFFICES ASSUME NEW s \in SUBSET D, Cardinality(s) = n
                     PROVE  v[Chosen(s)] + g[s \ {Chosen(s)}] \in Nat
          BY <3>2
        <4>1. s # {}
          BY <2>2, <3>4
        <4>2. v[Chosen(s)] \in Nat /\ g[s \ {Chosen(s)}] \in Nat
          BY <3>2, <3>3, <4>1
        <4> QED BY <4>2
      <3>6. ASSUME NEW s \in SUBSET D, Cardinality(s) <= n
            PROVE  Adds(h, v, s)
        <4>1. CASE s = {}
          <5>1. h[s] = g[s] /\ Cardinality(s) <= n - 1
            BY <2>2, <3>4, <4>1
          <5> QED BY <3>2, <4>1, <5>1 DEF Adds
        <4>2. CASE s # {} /\ Cardinality(s) = n
          <5>1. h[s] = v[Chosen(s)] + g[s \ {Chosen(s)}]
            BY <4>2
          <5>2. h[s \ {Chosen(s)}] = g[s \ {Chosen(s)}]
            BY <3>3, <4>2
          <5> QED BY <4>2, <5>1, <5>2 DEF Adds
        <4>3. CASE s # {} /\ Cardinality(s) # n
          <5>1. Cardinality(s) <= n - 1
            <6>1. Cardinality(s) \in Nat
            BY <3>3, <4>3
          <6> HIDE DEF T, h
          <6> QED BY <3>6, <3>9, <4>3, <6>1
          <5>2. h[s] = g[s] /\ h[s \ {Chosen(s)}] = g[s \ {Chosen(s)}]
            BY <3>3, <4>3, <5>1
          <5> QED BY <3>2, <4>3, <5>1, <5>2 DEF Adds
        <4> QED BY <4>1, <4>2, <4>3
      <3>7. UpTo(h, n)
        BY <3>5, <3>6
      <3> QED BY <3>7
    <2> QED BY <2>1, <2>2
  <1>2. T = {}
    BY <1>1, HasLeast
  <1>3. Cardinality(D) \in Nat
    BY FS_CardinalityType
  <1>4. PICK g : UpTo(g, Cardinality(D))
    BY <1>2, <1>3
  <1>5. ASSUME NEW s \in SUBSET D
        PROVE  Cardinality(s) <= Cardinality(D)
    BY FS_Subset
  <1>6. g \in [SUBSET D -> Nat] /\ \A s \in SUBSET D : Adds(g, v, s)
    BY <1>4, <1>5
  <1> QED BY <1>6 DEF IsSum

\* Chosen element may be taken first.
LEMMA SumSplit ==
    ASSUME NEW D, IsFiniteSet(D), NEW g, NEW v, IsSum(g, v, D),
           NEW s \in SUBSET D, NEW e \in s
    PROVE  g[s] = v[e] + g[s \ {e}]
  <1> DEFINE Free(r, y) == g[r] = v[y] + g[r \ {y}]
             T == {n \in Nat : \E r \in SUBSET D : \E y \in r : Cardinality(r) = n /\ ~Free(r, y)}
  <1>1. ASSUME NEW n \in T, \A m \in T : n <= m
        PROVE  FALSE
    <2>1. PICK r \in SUBSET D : \E y \in r : Cardinality(r) = n /\ ~Free(r, y)
      OBVIOUS
    <2>2. PICK y \in r : Cardinality(r) = n /\ ~Free(r, y)
      BY <2>1
    <2>3. PICK x \in r : g[r] = v[x] + g[r \ {x}]
      BY <2>2, ChosenIsIn DEF IsSum, Adds
    <2>4. x # y
      BY <2>2, <2>3
    <2>5. /\ r \ {x} \in SUBSET D /\ Cardinality(r \ {x}) = n - 1
          /\ r \ {y} \in SUBSET D /\ Cardinality(r \ {y}) = n - 1
          /\ n - 1 \in Nat
      BY <2>2, OneLess
    <2>6. n - 1 \notin T
      <3>1. n \in Nat
        OBVIOUS
      <3> HIDE DEF T
      <3> QED BY <1>1, <2>5, <3>1
    <2>7. /\ g[r \ {x}] = v[y] + g[(r \ {x}) \ {y}]
          /\ g[r \ {y}] = v[x] + g[(r \ {y}) \ {x}]
      BY <2>4, <2>5, <2>6
    <2>8. (r \ {x}) \ {y} = (r \ {y}) \ {x} /\ (r \ {x}) \ {y} \in SUBSET D
      OBVIOUS
    <2>9. v[x] \in Nat /\ v[y] \in Nat /\ g[(r \ {x}) \ {y}] \in Nat
      BY <2>8 DEF IsSum
    <2>10. g[r] = v[x] + (v[y] + g[(r \ {x}) \ {y}])
      BY <2>3, <2>7
    <2>11. v[y] + g[r \ {y}] = v[y] + (v[x] + g[(r \ {x}) \ {y}])
      BY <2>7, <2>8
    <2>12. g[r] = v[y] + g[r \ {y}]
      <3> HIDE DEF T, Free
      <3> QED BY <2>9, <2>10, <2>11
    <2> QED BY <2>2, <2>12
  <1>2. T = {}
    BY <1>1, HasLeast
  <1>3. Cardinality(s) \in Nat
    BY OneLess
  <1> QED BY <1>2, <1>3

\* The sum over a set goes by the values there alone.
LEMMA SumAgree ==
    ASSUME NEW D, IsFiniteSet(D), NEW g, NEW v, \A s \in SUBSET D : Adds(g, v, s),
           NEW E, NEW h, NEW w, \A s \in SUBSET E : Adds(h, w, s),
           NEW s, s \subseteq D, s \subseteq E, \A x \in s : v[x] = w[x]
    PROVE  g[s] = h[s]
  <1> DEFINE T == {n \in Nat : \E r \in SUBSET s : Cardinality(r) = n /\ g[r] # h[r]}
  <1>1. ASSUME NEW n \in T, \A m \in T : n <= m
        PROVE  FALSE
    <2>1. PICK r \in SUBSET s : Cardinality(r) = n /\ g[r] # h[r]
      OBVIOUS
    <2>2. r \in SUBSET D /\ r \in SUBSET E
      OBVIOUS
    <2>3. r # {}
      BY <2>1, <2>2 DEF Adds
    <2>4. Chosen(r) \in r
      BY <2>3, ChosenIsIn
    <2>5. r \ {Chosen(r)} \in SUBSET s /\ Cardinality(r \ {Chosen(r)}) = n - 1 /\ n - 1 \in Nat
      BY <2>1, <2>2, <2>4, OneLess
    <2>6. g[r \ {Chosen(r)}] = h[r \ {Chosen(r)}]
      BY <1>1, <2>5
    <2>7. v[Chosen(r)] = w[Chosen(r)]
      BY <2>4
    <2>8. /\ g[r] = v[Chosen(r)] + g[r \ {Chosen(r)}]
          /\ h[r] = w[Chosen(r)] + h[r \ {Chosen(r)}]
      BY <2>2, <2>3 DEF Adds
    <2> QED BY <2>1, <2>6, <2>7, <2>8
  <1>2. T = {}
    BY <1>1, HasLeast
  <1>3. Cardinality(s) \in Nat
    BY FS_Subset, FS_CardinalityType
  <1> QED BY <1>2, <1>3

\* w is v, but e has grown by t, or come with it.
Grown(v, w, D, e, t) == /\ \A x \in D \ {e} : w[x] = v[x]
                        /\ w[e] = (IF e \in D THEN v[e] ELSE 0) + t

\* One value has grown, or come: so has the sum.
LEMMA SumGrows ==
    ASSUME NEW D, IsFiniteSet(D), NEW g, NEW v, IsSum(g, v, D), NEW e, NEW t \in Nat,
           NEW h, NEW w, IsSum(h, w, D \cup {e}), Grown(v, w, D, e, t)
    PROVE  h[D \cup {e}] = g[D] + t
  <1> DEFINE E == D \cup {e}
             s == D \ {e}
  <1>1. IsFiniteSet(E)
    BY FS_AddElement
  <1>2. E \ {e} = s /\ e \in E /\ s \subseteq D /\ s \subseteq E
    OBVIOUS
  <1>3. h[E] = w[e] + h[s]
    BY <1>1, <1>2, SumSplit
  <1>8. (\A x \in s : w[x] = v[x]) /\ w[e] = (IF e \in D THEN v[e] ELSE 0) + t
    BY DEF Grown
  <1>4. g[s] = h[s]
    <2>1. (\A r \in SUBSET D : Adds(g, v, r)) /\ (\A r \in SUBSET E : Adds(h, w, r))
      BY DEF IsSum
    <2>2. \A x \in s : v[x] = w[x]
      BY <1>8
    <2> HIDE DEF E, s
    <2> QED BY <1>2, <2>1, <2>2, SumAgree
  <1>5. g[s] \in Nat /\ w[e] \in Nat
    BY <1>2 DEF IsSum
  <1>6. CASE e \in D
    <2>1. g[D] = v[e] + g[s]
      BY <1>6, SumSplit
    <2>2. v[e] \in Nat
      BY <1>6 DEF IsSum
    <2> QED BY <1>3, <1>4, <1>5, <1>6, <1>8, <2>1, <2>2
  <1>7. CASE e \notin D
    <2>1. s = D /\ w[e] = 0 + t
      BY <1>7, <1>8
    <2> HIDE DEF s
    <2>2. h[E] = (0 + t) + g[D] /\ g[D] \in Nat
      BY <1>3, <1>4, <1>5, <2>1
    <2> QED BY <2>2
  <1> QED BY <1>6, <1>7

\* The sum over one part of the counters.
PartSum(counters, part) == LET Value(e) == counters[e][part]
                           IN  MapThenSumSet(Value, DOMAIN counters)

\* The fold itself: a function on the subsets of the domain.
Folds(g, counters, part) ==
    g = [s \in SUBSET DOMAIN counters |->
            IF s = {} THEN 0
            ELSE counters[CHOOSE x \in s : TRUE][part] + g[s \ {CHOOSE x \in s : TRUE}]]
Folded(counters, part) == CHOOSE g : Folds(g, counters, part)

LEMMA PartSumIsFold ==
    ASSUME NEW counters, NEW part
    PROVE  PartSum(counters, part) = Folded(counters, part)[DOMAIN counters]
  BY DEF PartSum, MapThenSumSet, MapThenFoldSet, Folded, Folds

LEMMA PartSumIsSum ==
    ASSUME NEW counters, NEW part, IsFiniteSet(DOMAIN counters),
           \A e \in DOMAIN counters : counters[e][part] \in Nat
    PROVE  \E g : /\ IsSum(g, [e \in DOMAIN counters |-> counters[e][part]], DOMAIN counters)
                  /\ PartSum(counters, part) = g[DOMAIN counters]
  <1> DEFINE D == DOMAIN counters
             v == [e \in D |-> counters[e][part]]
  <1>1. v \in [D -> Nat]
    OBVIOUS
  <1> HIDE DEF v
  <1>2. PICK g : IsSum(g, v, D)
    BY <1>1, SumExists
  <1>3. ASSUME NEW s \in SUBSET D, s # {}
        PROVE  v[Chosen(s)] = counters[Chosen(s)][part]
    BY <1>3, ChosenIsIn DEF v
  <1>4. Folds(g, counters, part)
    <2>1. g = [s \in SUBSET D |-> g[s]]
      BY <1>2 DEF IsSum
    <2>2. \A s \in SUBSET D :
              g[s] = IF s = {} THEN 0 ELSE counters[Chosen(s)][part] + g[s \ {Chosen(s)}]
      BY <1>2, <1>3 DEF IsSum, Adds
    <2> QED BY <2>1, <2>2 DEF Folds, Chosen
  <1> DEFINE h == Folded(counters, part)
  <1>5. Folds(h, counters, part)
    BY <1>4, Zenon DEF Folded
  <1> HIDE DEF h
  <1>6. \A s \in SUBSET D : h[s] = IF s = {} THEN 0
                                   ELSE counters[Chosen(s)][part] + h[s \ {Chosen(s)}]
    BY <1>5 DEF Folds, Chosen
  <1>7. \A s \in SUBSET D : Adds(h, v, s)
    BY <1>3, <1>6 DEF Adds
  <1>8. h[D] = g[D]
    BY <1>2, <1>7, SumAgree DEF IsSum
  <1>9. PartSum(counters, part) = g[D]
    BY <1>8, PartSumIsFold DEF h
  <1> QED BY <1>2, <1>9 DEF v

\* The counters now are those before, but e's has gone up by t in this part, or come.
RaisedBy(counters, now, part, e, t) ==
    /\ DOMAIN now = DOMAIN counters \cup {e}
    /\ \A x \in DOMAIN counters \ {e} : now[x][part] = counters[x][part]
    /\ now[e][part] = (IF e \in DOMAIN counters THEN counters[e][part] ELSE 0) + t

LEMMA PartSumGrows ==
    ASSUME NEW counters, NEW part, IsFiniteSet(DOMAIN counters),
           \A x \in DOMAIN counters : counters[x][part] \in Nat,
           NEW now, NEW e, NEW t \in Nat, RaisedBy(counters, now, part, e, t)
    PROVE  PartSum(now, part) = PartSum(counters, part) + t
  <1> DEFINE D == DOMAIN counters
             v == [x \in D |-> counters[x][part]]
             w == [x \in D \cup {e} |-> now[x][part]]
  <1>7. /\ DOMAIN now = D \cup {e}
        /\ \A x \in D \ {e} : now[x][part] = counters[x][part]
        /\ now[e][part] = (IF e \in D THEN counters[e][part] ELSE 0) + t
    BY DEF RaisedBy
  <1>1. IsFiniteSet(DOMAIN now) /\ \A x \in DOMAIN now : now[x][part] \in Nat
    <2>1. IsFiniteSet(DOMAIN now)
      BY <1>7, FS_AddElement
    <2>2. now[e][part] \in Nat
      BY <1>7
    <2> QED BY <1>7, <2>1, <2>2
  <1>2. PICK g : IsSum(g, v, D) /\ PartSum(counters, part) = g[D]
    BY PartSumIsSum
  <1>3. PICK h : IsSum(h, w, D \cup {e}) /\ PartSum(now, part) = h[D \cup {e}]
    BY <1>1, <1>7, PartSumIsSum
  <1>4. Grown(v, w, D, e, t)
    BY <1>7 DEF Grown
  <1> HIDE DEF v, w
  <1>5. IsFiniteSet(D)
    OBVIOUS
  <1> HIDE DEF D
  <1>6. h[D \cup {e}] = g[D] + t
    BY <1>2, <1>3, <1>4, <1>5, SumGrows
  <1> QED BY <1>2, <1>3, <1>6

-----------------------------------------------------------------------------
(* The usage monitor *)

\* UsageAddsUp, of any value of usage.
Tallied(u) ==
    /\ u.totals.total = PartSum(u.endpoints, "total")
    /\ u.totals.success = PartSum(u.endpoints, "success")
    /\ u.totals.tokens = PartSum(u.endpoints, "tokens")
    /\ u.totals.success + u.totals.failure = u.totals.total
    /\ u.nextId = u.totals.total + 1
    /\ Len(u.recent) = Min({MaxRecent, u.totals.total})
    /\ \A i \in DOMAIN u.recent : u.recent[i].id = u.nextId - 1 - Len(u.recent) + i

LEMMA AddsUpIsTallied == UsageAddsUp <=> Tallied(usage)
  BY DEF UsageAddsUp, Tallied, SumOver, PartSum, MapThenSumSet, MapThenFoldSet

UsageInv == UsageType(usage) /\ IsFiniteSet(DOMAIN usage.endpoints) /\ Tallied(usage)

LEMMA MinOfTwo ==
    ASSUME NEW m \in Nat, NEW n \in Nat
    PROVE  Min({m, n}) = IF m <= n THEN m ELSE n
  <1>1. \E x \in {m, n} : \A y \in {m, n} : x <= y
    OBVIOUS
  <1>2. Min({m, n}) \in {m, n} /\ \A y \in {m, n} : Min({m, n}) <= y
    BY <1>1 DEF Min
  <1> QED BY <1>2

\* The records are the latest of n, without a gap, as many as are kept.
Consecutive(records, n) == \A i \in DOMAIN records : records[i].id = n - Len(records) + i
LatestOf(records, n) == Len(records) = Min({MaxRecent, n}) /\ Consecutive(records, n)

\* One more comes.
LEMMA LatestStay ==
    ASSUME NEW R, NEW records \in Seq(R), NEW n \in Nat, LatestOf(records, n),
           NEW x \in R, x.id = n + 1
    PROVE  LET after == Latest(Append(records, x))
           IN  after \in Seq(R) /\ LatestOf(after, n + 1)
  <1> DEFINE all == Append(records, x)
  <1>1. MaxRecent \in Nat /\ MaxRecent # 0 /\ n + 1 \in Nat
    BY RecentAssumption
  <1>2. /\ Len(records) = (IF MaxRecent <= n THEN MaxRecent ELSE n)
        /\ Min({MaxRecent, n + 1}) = (IF MaxRecent <= n + 1 THEN MaxRecent ELSE n + 1)
    BY <1>1, MinOfTwo DEF LatestOf
  <1>4. /\ all \in Seq(R) /\ Len(all) = Len(records) + 1 /\ Len(records) \in Nat
        /\ DOMAIN all = 1..(Len(records) + 1)
        /\ all[Len(records) + 1] = x
        /\ \A i \in 1..Len(records) : all[i] = records[i]
        /\ DOMAIN records = 1..Len(records)
    <2>1. /\ all \in Seq(R) /\ Len(all) = Len(records) + 1
          /\ all[Len(records) + 1] = x
          /\ \A i \in 1..Len(records) : all[i] = records[i]
      <3>1. all \in Seq(R)
        BY AppendProperties
      <3>2. Len(all) = Len(records) + 1
        BY AppendProperties
      <3>3. all[Len(records) + 1] = x
        BY AppendProperties
      <3>4. \A i \in 1..Len(records) : all[i] = records[i]
        BY AppendProperties
      <3> QED BY <3>1, <3>2, <3>3, <3>4
    <2>2. Len(records) \in Nat /\ DOMAIN records = 1..Len(records)
      BY LenProperties
    <2> HIDE DEF all
    <2>3. DOMAIN all = 1..Len(all)
      BY <2>1, LenProperties
    <2> QED BY <2>1, <2>2, <2>3
  <1>5. \A i \in 1..Len(all) : all[i].id = n + 1 - Len(all) + i
    <2> SUFFICES ASSUME NEW i \in 1..Len(all) PROVE all[i].id = n + 1 - Len(all) + i
      OBVIOUS
    <2> HIDE DEF all
    <2>1. CASE i = Len(all)
      BY <1>4, <2>1
    <2>2. CASE i # Len(all)
      <3>1. i \in 1..Len(records) /\ i \in DOMAIN records
        BY <1>4, <2>2
      <3>2. records[i].id = n - Len(records) + i
        BY <3>1 DEF LatestOf, Consecutive
      <3>3. all[i].id = n - Len(records) + i
        BY <1>4, <3>1, <3>2
      <3>4. n - Len(records) + i = n + 1 - Len(all) + i
        BY <1>4
      <3> QED BY <3>3, <3>4
    <2> QED BY <2>1, <2>2
  <1> HIDE DEF all
  <1>6. CASE Len(all) > MaxRecent
    <2>1. all # <<>> /\ Latest(all) = Tail(all)
      BY <1>1, <1>4, <1>6 DEF Latest
    <2>2. /\ Tail(all) \in Seq(R) /\ Len(Tail(all)) = Len(all) - 1
          /\ DOMAIN Tail(all) = 1..(Len(all) - 1)
          /\ \A i \in 1..(Len(all) - 1) : Tail(all)[i] = all[i + 1]
      BY <1>4, <2>1, HeadTailProperties, LenProperties
    <2>3. Len(Tail(all)) = Min({MaxRecent, n + 1})
      BY <1>1, <1>2, <1>4, <1>6, <2>2
    <2>4. ASSUME NEW i \in 1..(Len(all) - 1)
          PROVE  Tail(all)[i].id = n + 1 - Len(Tail(all)) + i
      <3>1. i \in 1..(Len(all) - 1) /\ i + 1 \in 1..Len(all)
        BY <1>4, <2>2
      <3>2. Tail(all)[i].id = n + 1 - Len(all) + (i + 1)
        BY <1>5, <2>2, <3>1
      <3>3. n + 1 - Len(all) + (i + 1) = n + 1 - Len(Tail(all)) + i
        <4>1. Len(all) \in Nat /\ Len(Tail(all)) = Len(all) - 1 /\ i \in Nat
          BY <1>4, <2>2
        <4>2. \A a, b, c \in Int : a + 1 - b + (c + 1) = a + 1 - (b - 1) + c
          OBVIOUS
        <4>3. n + 1 - Len(all) + (i + 1) = n + 1 - (Len(all) - 1) + i
          BY <4>1, <4>2
        <4> QED BY <4>1, <4>3
      <3> QED BY <3>2, <3>3
    <2>5. Consecutive(Tail(all), n + 1)
      BY <2>2, <2>4 DEF Consecutive
    <2>6. LatestOf(Tail(all), n + 1)
      BY <2>3, <2>5 DEF LatestOf
    <2> QED BY <2>1, <2>2, <2>6 DEF all
  <1>7. CASE ~(Len(all) > MaxRecent)
    <2>1. Latest(all) = all
      BY <1>7 DEF Latest
    <2>2. Len(all) = Min({MaxRecent, n + 1})
      BY <1>1, <1>2, <1>4, <1>7
    <2>3. Consecutive(all, n + 1)
      BY <1>4, <1>5 DEF Consecutive
    <2> QED BY <1>4, <2>1, <2>2, <2>3 DEF LatestOf, all
  <1> QED BY <1>6, <1>7

RecentRecord == [id : Nat, endpoint : Endpoints, success : BOOLEAN, tokens : Nat]

\* updateCounter keeps a counter a counter, and a success is no failure.
LEMMA CountedIsCounter ==
    ASSUME NEW c \in Counter, NEW success \in BOOLEAN, NEW tokens \in Nat
    PROVE  LET n == Counted(c, success, tokens)
               one == IF success THEN 1 ELSE 0
           IN  /\ n \in Counter
               /\ one \in Nat
               /\ n.total = c.total + 1 /\ n.success = c.success + one
               /\ n.tokens = c.tokens + tokens
               /\ n.success + n.failure = c.success + c.failure + 1
  <1>1. /\ c.total \in Nat /\ c.success \in Nat /\ c.failure \in Nat /\ c.tokens \in Nat
    BY DEF Counter
  <1>2. CASE success
    BY <1>1, <1>2 DEF Counter, Counted
  <1>3. CASE ~success
    BY <1>1, <1>3 DEF Counter, Counted
  <1> QED BY <1>2, <1>3

LEMMA RecordTallies ==
    ASSUME UsageInv, NEW e \in Endpoints, NEW success \in BOOLEAN, NEW tokens \in Nat,
           Record(e, success, tokens)
    PROVE  UsageInv'
  <1> DEFINE counters == usage.endpoints
             now == usage'.endpoints
             c == CounterOf(e)
             one == IF success THEN 1 ELSE 0
             x == [id |-> usage.nextId, endpoint |-> e, success |-> success, tokens |-> tokens]
  <1>1. /\ usage.totals \in Counter /\ IsFiniteSet(DOMAIN counters)
        /\ DOMAIN counters \subseteq Endpoints
        /\ \A f \in DOMAIN counters : counters[f] \in Counter
        /\ usage.recent \in Seq(RecentRecord)
        /\ usage.nextId = usage.totals.total + 1
        /\ usage.totals.total \in Nat
    BY DEF UsageInv, UsageType, Tallied, RecentRecord, Counter
  <1>2. NoUse \in Counter /\ NoUse.total = 0 /\ NoUse.success = 0 /\ NoUse.tokens = 0
    BY DEF NoUse, Counter
  <1>3. c \in Counter
    BY <1>1, <1>2 DEF CounterOf
  <1>4. /\ usage'.totals = Counted(usage.totals, success, tokens)
        /\ usage'.recent = Latest(Append(usage.recent, x))
        /\ usage'.nextId = usage.nextId + 1
        /\ DOMAIN now = DOMAIN counters \cup {e}
        /\ now[e] = Counted(c, success, tokens)
        /\ \A f \in DOMAIN counters \ {e} : now[f] = counters[f]
    BY DEF Record
  <1>5. x \in RecentRecord /\ x.id = usage.totals.total + 1
    BY <1>1 DEF RecentRecord
  <1> HIDE DEF x
  <1>6. /\ Counted(c, success, tokens) \in Counter
        /\ now[e].total = c.total + 1 /\ now[e].success = c.success + one
        /\ now[e].tokens = c.tokens + tokens
    BY <1>3, <1>4, CountedIsCounter
  <1>7. /\ usage'.totals \in Counter
        /\ usage'.totals.total = usage.totals.total + 1
        /\ usage'.totals.success = usage.totals.success + one
        /\ usage'.totals.tokens = usage.totals.tokens + tokens
        /\ usage'.totals.success + usage'.totals.failure
             = usage.totals.success + usage.totals.failure + 1
        /\ one \in Nat
    <2>1. LET n == Counted(usage.totals, success, tokens)
          IN  /\ n \in Counter /\ one \in Nat
              /\ n.total = usage.totals.total + 1 /\ n.success = usage.totals.success + one
              /\ n.tokens = usage.totals.tokens + tokens
              /\ n.success + n.failure = usage.totals.success + usage.totals.failure + 1
      BY <1>1, CountedIsCounter
    <2> QED BY <1>4, <2>1
  <1>8. /\ usage'.recent \in Seq(RecentRecord)
        /\ Len(usage'.recent) = Min({MaxRecent, usage.totals.total + 1})
        /\ Consecutive(usage'.recent, usage.totals.total + 1)
    <2>1. LatestOf(usage.recent, usage.totals.total)
      <3>1. usage.nextId - 1 = usage.totals.total
        BY <1>1
      <3>2. /\ Len(usage.recent) = Min({MaxRecent, usage.totals.total})
            /\ \A i \in DOMAIN usage.recent :
                   usage.recent[i].id = usage.nextId - 1 - Len(usage.recent) + i
        BY DEF UsageInv, Tallied
      <3> QED BY <3>1, <3>2 DEF LatestOf, Consecutive
    <2>2. LatestOf(usage'.recent, usage.totals.total + 1) /\ usage'.recent \in Seq(RecentRecord)
      BY <1>1, <1>4, <1>5, <2>1, LatestStay
    <2> QED BY <2>2 DEF LatestOf
  <1>9. /\ DOMAIN now \subseteq Endpoints /\ IsFiniteSet(DOMAIN now)
        /\ \A f \in DOMAIN now : now[f] \in Counter
    <2>1. IsFiniteSet(DOMAIN now)
      <3>1. IsFiniteSet(DOMAIN counters \cup {e})
        BY <1>1, FS_AddElement
      <3> QED BY <1>4, <3>1
    <2> QED BY <1>1, <1>4, <1>6, <2>1
  <1>10. UsageType(usage)'
    BY <1>1, <1>4, <1>7, <1>8, <1>9 DEF UsageType, RecentRecord
  <1>11. ASSUME NEW part \in {"total", "success", "tokens"}, NEW t \in Nat,
                now[e][part] = c[part] + t
         PROVE  PartSum(now, part) = PartSum(counters, part) + t
    <2>1. /\ \A f \in DOMAIN counters : counters[f][part] \in Nat
          /\ \A f \in DOMAIN counters \ {e} : now[f][part] = counters[f][part]
      BY <1>1, <1>4 DEF Counter
    <2>2. c[part] = IF e \in DOMAIN counters THEN counters[e][part] ELSE 0
      BY <1>2 DEF CounterOf
    <2>3. RaisedBy(counters, now, part, e, t)
      BY <1>4, <1>11, <2>1, <2>2 DEF RaisedBy
    <2> HIDE DEF c, counters, now
    <2> QED BY <1>1, <2>1, <2>3, PartSumGrows
  <1>12. /\ PartSum(now, "total") = PartSum(counters, "total") + 1
         /\ PartSum(now, "success") = PartSum(counters, "success") + one
         /\ PartSum(now, "tokens") = PartSum(counters, "tokens") + tokens
    BY <1>6, <1>7, <1>11
  <1>13. Tallied(usage')
    <2>1. /\ usage.totals.total = PartSum(counters, "total")
          /\ usage.totals.success = PartSum(counters, "success")
          /\ usage.totals.tokens = PartSum(counters, "tokens")
          /\ usage.totals.success + usage.totals.failure = usage.totals.total
      BY DEF UsageInv, Tallied
    <2>2. usage'.nextId = usage'.totals.total + 1
      BY <1>1, <1>4, <1>7
    <2>3. /\ Len(usage'.recent) = Min({MaxRecent, usage'.totals.total})
          /\ \A i \in DOMAIN usage'.recent :
                 usage'.recent[i].id = usage'.nextId - 1 - Len(usage'.recent) + i
      <3>1. usage'.nextId - 1 = usage.totals.total + 1
        BY <1>1, <1>4
      <3> QED BY <1>7, <1>8, <3>1 DEF Consecutive
    <2>4. /\ usage'.totals.total = PartSum(now, "total")
          /\ usage'.totals.success = PartSum(now, "success")
          /\ usage'.totals.tokens = PartSum(now, "tokens")
          /\ usage'.totals.success + usage'.totals.failure = usage'.totals.total
      BY <1>7, <1>12, <2>1
    <2> QED BY <2>2, <2>3, <2>4 DEF Tallied
  <1> QED BY <1>9, <1>10, <1>13 DEF UsageInv

LEMMA UsageInitInv == UsageInit => UsageInv
  <1> SUFFICES ASSUME UsageInit PROVE UsageInv
    OBVIOUS
  <1>1. /\ usage.totals = NoUse /\ DOMAIN usage.endpoints = {}
        /\ usage.recent = <<>> /\ usage.nextId = 1
    BY DEF UsageInit
  <1>2. NoUse \in Counter /\ NoUse.total = 0 /\ NoUse.success = 0 /\ NoUse.tokens = 0
        /\ NoUse.failure = 0
    BY DEF NoUse, Counter
  <1>3. IsFiniteSet(DOMAIN usage.endpoints)
    BY <1>1, FS_EmptySet
  <1>4. ASSUME NEW part PROVE PartSum(usage.endpoints, part) = 0
    <2>1. PICK g : /\ IsSum(g, [e \in DOMAIN usage.endpoints |-> usage.endpoints[e][part]],
                            DOMAIN usage.endpoints)
                   /\ PartSum(usage.endpoints, part) = g[DOMAIN usage.endpoints]
      BY <1>1, <1>3, PartSumIsSum
    <2>2. g[{}] = 0
      BY <1>1, <2>1 DEF IsSum, Adds
    <2> QED BY <1>1, <2>1, <2>2
  <1>5. UsageType(usage)
    BY <1>1, <1>2 DEF UsageType
  <1>6. Len(usage.recent) = 0 /\ Min({MaxRecent, 0}) = 0
    BY <1>1, MinOfTwo, RecentAssumption
  <1>7. Tallied(usage)
    BY <1>1, <1>2, <1>4, <1>6 DEF Tallied
  <1> QED BY <1>3, <1>5, <1>7 DEF UsageInv

-----------------------------------------------------------------------------
(* The rate limiter *)

Bucket == [count : Nat \ {0}, left : -1..Window]

\* The ages of those let through, the oldest first.
Tidy(ages) == /\ ages \in Seq(0..Window)
              /\ \A i, j \in 1..Len(ages) : i <= j => ages[j] <= ages[i]

\* How many of those let through are of the bucket's window.
Inside(b) == IF b.count < MaxRequests THEN b.count ELSE MaxRequests

\* The latest of those let through are of the bucket, whose first is as old as it
\* is; those before it are too few to fill another.
Live(b, ages) ==
    LET old == Len(ages) - Inside(b)
    IN  /\ old \in 0..(MaxRequests - 1)
        /\ ages[old + 1] = Window - b.left

KeyInv(k) == /\ Tidy(passed[k])
             /\ Fresh(k) => Len(passed[k]) <= MaxRequests - 1
             /\ ~Fresh(k) => Live(buckets[k], passed[k])

LimiterInv == /\ DOMAIN buckets \subseteq Keys
              /\ \A k \in DOMAIN buckets : buckets[k] \in Bucket
              /\ passed \in [Keys -> Seq(0..Window)]
              /\ \A k \in Keys : KeyInv(k)

LEMMA FunctionIsSequence ==
    ASSUME NEW S, NEW m \in Nat, NEW f \in [1..m -> S]
    PROVE  f \in Seq(S) /\ Len(f) = m
  <1>1. f \in Seq(S)
    OBVIOUS
  <1>2. Len(f) \in Nat /\ 1..Len(f) = 1..m
    BY <1>1, LenProperties
  <1>3. Len(f) <= m
    <2> SUFFICES ASSUME m < Len(f) PROVE FALSE
      BY <1>2
    <2>1. m + 1 \in 1..Len(f)
      BY <1>2
    <2>2. m + 1 \notin 1..m
      OBVIOUS
    <2> QED BY <1>2, <2>1, <2>2
  <1>4. m <= Len(f)
    <2> SUFFICES ASSUME Len(f) < m PROVE FALSE
      BY <1>2
    <2>1. Len(f) + 1 \in 1..m /\ Len(f) + 1 \notin 1..Len(f)
      BY <1>2
    <2> QED BY <1>2, <2>1
  <1> QED BY <1>1, <1>2, <1>3, <1>4

LEMMA InsideIsFew ==
    ASSUME NEW b \in Bucket
    PROVE  Inside(b) \in 1..MaxRequests
  BY LimiterAssumption DEF Inside, Bucket

\* Those who drop out are the first.
LEMMA DroppedAreFirst ==
    ASSUME NEW ages, Tidy(ages)
    PROVE  /\ Dropped(ages) \in 0..Len(ages)
           /\ \A i \in 1..Len(ages) : ages[i] = Window <=> i <= Dropped(ages)
  <1> DEFINE n == Len(ages)
             S == {i \in 1..n : ages[i] = Window}
  <1>1. /\ n \in Nat /\ DOMAIN ages = 1..n
        /\ \A i \in 1..n : ages[i] \in 0..Window
        /\ \A i, j \in 1..n : i <= j => ages[j] <= ages[i]
    BY LenProperties DEF Tidy
  <1>2. Dropped(ages) = Cardinality(S)
    BY <1>1 DEF Dropped
  <1>3. ASSUME NEW m \in Nat
        PROVE  IsFiniteSet(1..m) /\ Cardinality(1..m) = m
    BY FS_Interval
  <1>4. IsFiniteSet(S) /\ Cardinality(S) \in Nat /\ Cardinality(S) <= n
    <2>1. S \subseteq 1..n
      OBVIOUS
    <2>2. IsFiniteSet(S) /\ Cardinality(S) <= Cardinality(1..n)
      BY <1>1, <1>3, <2>1, FS_Subset
    <2> QED BY <1>1, <1>3, <2>2, FS_CardinalityType
  <1>5. ASSUME NEW i \in 1..n, ages[i] = Window
        PROVE  i <= Cardinality(S)
    <2>1. i \in Nat /\ IsFiniteSet(1..i) /\ Cardinality(1..i) = i
      BY <1>1, <1>3
    <2>2. ASSUME NEW j \in 1..i PROVE j \in S
      <3>1. j \in 1..n /\ j <= i
        BY <1>1
      <3>2. ages[i] <= ages[j] /\ ages[j] \in 0..Window
        BY <1>1, <3>1
      <3>3. ages[j] = Window
        BY <1>5, <3>2, LimiterAssumption
      <3> QED BY <3>1, <3>3
    <2>3. 1..i \subseteq S
      BY <2>2
    <2>4. Cardinality(1..i) <= Cardinality(S)
      BY <1>4, <2>3, FS_Subset
    <2> QED BY <2>1, <2>4
  <1>6. ASSUME NEW i \in 1..n, ages[i] # Window
        PROVE  ~ (i <= Cardinality(S))
    <2>1. i - 1 \in Nat /\ IsFiniteSet(1..(i - 1)) /\ Cardinality(1..(i - 1)) = i - 1
      BY <1>1, <1>3
    <2>2. ASSUME NEW j \in S PROVE j \in 1..(i - 1)
      <3>1. j \in 1..n /\ ages[j] = Window
        OBVIOUS
      <3>2. ~ (i <= j)
        <4> SUFFICES ASSUME i <= j PROVE FALSE
          OBVIOUS
        <4>1. ages[j] <= ages[i] /\ ages[i] \in 0..Window
          BY <1>1, <3>1
        <4> QED BY <1>6, <3>1, <4>1, LimiterAssumption
      <3> QED BY <1>1, <3>1, <3>2
    <2>3. S \subseteq 1..(i - 1)
      BY <2>2
    <2>4. Cardinality(S) <= Cardinality(1..(i - 1))
      BY <2>1, <2>3, FS_Subset
    <2> QED BY <1>4, <2>1, <2>4
  <1> QED BY <1>1, <1>2, <1>4, <1>5, <1>6

LEMMA AgedAreTidy ==
    ASSUME NEW ages, Tidy(ages)
    PROVE  /\ Tidy(Aged(ages))
           /\ Len(Aged(ages)) = Len(ages) - Dropped(ages)
           /\ \A i \in 1..(Len(ages) - Dropped(ages)) :
                  Aged(ages)[i] = ages[i + Dropped(ages)] + 1
  <1> DEFINE n == Len(ages)
             d == Dropped(ages)
  <1>1. /\ n \in Nat
        /\ \A i \in 1..n : ages[i] \in 0..Window
        /\ \A i, j \in 1..n : i <= j => ages[j] <= ages[i]
    BY LenProperties DEF Tidy
  <1>2. d \in 0..n /\ \A i \in 1..n : ages[i] = Window <=> i <= d
    BY DroppedAreFirst
  <1>3. Aged(ages) = [i \in 1..(n - d) |-> ages[i + d] + 1]
    BY DEF Aged
  <1> HIDE DEF n, d
  <1>4. ASSUME NEW i \in 1..(n - d)
        PROVE  i + d \in 1..n /\ ages[i + d] + 1 \in 0..Window
    <2>1. i + d \in 1..n /\ ~ (i + d <= d)
      BY <1>1, <1>2
    <2>2. ages[i + d] \in 0..Window /\ ages[i + d] # Window
      BY <1>1, <1>2, <2>1
    <2> QED BY <2>1, <2>2, LimiterAssumption
  <1>5. n - d \in Nat
    BY <1>1, <1>2
  <1>6. /\ Aged(ages) \in Seq(0..Window) /\ Len(Aged(ages)) = n - d
        /\ \A i \in 1..(n - d) : Aged(ages)[i] = ages[i + d] + 1
    <2> DEFINE f == Aged(ages)
               m == n - d
    <2>1. f \in [1..m -> 0..Window] /\ \A i \in 1..m : f[i] = ages[i + d] + 1
      BY <1>3, <1>4
    <2> HIDE DEF f, m
    <2>2. m \in Nat
      BY <1>5 DEF m
    <2>3. f \in Seq(0..Window) /\ Len(f) = m
      BY <2>1, <2>2, FunctionIsSequence
    <2> QED BY <2>1, <2>3 DEF f, m
  <1>7. ASSUME NEW i \in 1..(n - d), NEW j \in 1..(n - d), i <= j
        PROVE  Aged(ages)[j] <= Aged(ages)[i]
    <2>1. i + d <= j + d
      BY <1>1, <1>2, <1>7
    <2>2. ages[j + d] <= ages[i + d] /\ ages[j + d] \in 0..Window /\ ages[i + d] \in 0..Window
      BY <1>1, <1>4, <2>1
    <2> QED BY <1>6, <2>2
  <1> QED BY <1>6, <1>7 DEF Tidy, n, d

LEMMA AppendIsTidy ==
    ASSUME NEW ages, Tidy(ages)
    PROVE  /\ Tidy(Append(ages, 0)) /\ Len(Append(ages, 0)) = Len(ages) + 1
           /\ Append(ages, 0)[Len(ages) + 1] = 0
           /\ \A i \in 1..Len(ages) : Append(ages, 0)[i] = ages[i]
  <1> DEFINE all == Append(ages, 0)
  <1>1. /\ Len(ages) \in Nat
        /\ \A i \in 1..Len(ages) : ages[i] \in 0..Window
        /\ \A i, j \in 1..Len(ages) : i <= j => ages[j] <= ages[i]
    BY LenProperties DEF Tidy
  <1>2. 0 \in 0..Window
    BY LimiterAssumption
  <1>3. /\ all \in Seq(0..Window) /\ Len(all) = Len(ages) + 1
        /\ all[Len(ages) + 1] = 0
        /\ \A i \in 1..Len(ages) : all[i] = ages[i]
    BY <1>2, AppendProperties DEF Tidy
  <1> HIDE DEF all
  <1>4. ASSUME NEW i \in 1..Len(all), NEW j \in 1..Len(all), i <= j
        PROVE  all[j] <= all[i]
    <2>1. CASE j = Len(ages) + 1
      <3>1. all[j] = 0 /\ all[i] \in 0..Window
        BY <1>3, <2>1, ElementOfSeq
      <3> QED BY <3>1
    <2>2. CASE j # Len(ages) + 1
      BY <1>1, <1>3, <1>4, <2>2
    <2> QED BY <2>1, <2>2
  <1>5. Tidy(all)
    BY <1>3, <1>4 DEF Tidy
  <1> QED BY <1>3, <1>5 DEF all

\* The first request of a bucket is let through.
LEMMA OpenedIsLive ==
    ASSUME NEW ages, Tidy(ages), Len(ages) <= MaxRequests - 1
    PROVE  Live([count |-> 1, left |-> Window], Append(ages, 0))
  <1> DEFINE b == [count |-> 1, left |-> Window]
  <1>1. Inside(b) = 1
    BY LimiterAssumption DEF Inside
  <1>2. Len(ages) \in Nat
    BY LenProperties DEF Tidy
  <1>3. Len(Append(ages, 0)) = Len(ages) + 1 /\ Append(ages, 0)[Len(ages) + 1] = 0
    BY AppendIsTidy
  <1>4. (Len(ages) + 1) - 1 = Len(ages) /\ Len(ages) \in 0..(MaxRequests - 1)
    BY <1>2, LimiterAssumption
  <1>5. Window - b.left = 0
    BY LimiterAssumption
  <1> HIDE DEF b
  <1>6. Live(b, Append(ages, 0))
    BY <1>1, <1>3, <1>4, <1>5 DEF Live
  <1> QED BY <1>6 DEF b

\* Another is let through.
LEMMA JoinedIsLive ==
    ASSUME NEW ages, Tidy(ages), NEW b \in Bucket, Live(b, ages), b.count < MaxRequests,
           NEW c \in Bucket, c.count = b.count + 1, c.left = b.left
    PROVE  Live(c, Append(ages, 0))
  <1>1. Inside(b) = b.count /\ Inside(c) = b.count + 1 /\ b.count \in Nat \ {0}
    BY LimiterAssumption DEF Inside, Bucket
  <1>2. Len(ages) \in Nat
    BY LenProperties DEF Tidy
  <1> DEFINE old == Len(ages) - Inside(b)
  <1>3. old \in 0..(MaxRequests - 1) /\ ages[old + 1] = Window - b.left
    BY DEF Live
  <1>4. old + 1 \in 1..Len(ages)
    BY <1>1, <1>2, <1>3
  <1>5. Len(Append(ages, 0)) = Len(ages) + 1 /\ Append(ages, 0)[old + 1] = ages[old + 1]
    BY <1>4, AppendIsTidy
  <1>6. Len(Append(ages, 0)) - Inside(c) = old
    BY <1>1, <1>2, <1>5
  <1> HIDE DEF old
  <1> QED BY <1>3, <1>5, <1>6 DEF Live

\* Time passes.
LEMMA AgedIsLive ==
    ASSUME NEW ages, Tidy(ages), NEW b \in Bucket, Live(b, ages), b.left > 0,
           NEW c \in Bucket, c.count = b.count, c.left = b.left - 1
    PROVE  Live(c, Aged(ages))
  <1> DEFINE d == Dropped(ages)
             old == Len(ages) - Inside(b)
  <1>1. Inside(b) \in 1..MaxRequests /\ Inside(c) = Inside(b)
    BY InsideIsFew DEF Inside
  <1>2. Len(ages) \in Nat /\ b.left \in 0..Window
    BY LenProperties DEF Tidy, Bucket
  <1>3. old \in 0..(MaxRequests - 1) /\ ages[old + 1] = Window - b.left
    BY DEF Live
  <1>4. old + 1 \in 1..Len(ages) /\ ages[old + 1] # Window
    BY <1>1, <1>2, <1>3, LimiterAssumption
  <1>5. d \in 0..Len(ages) /\ ~ (old + 1 <= d)
    BY <1>4, DroppedAreFirst
  <1>6. /\ Len(Aged(ages)) = Len(ages) - d
        /\ \A i \in 1..(Len(ages) - d) : Aged(ages)[i] = ages[i + d] + 1
    BY AgedAreTidy
  <1> HIDE DEF d
  <1>7. /\ Len(Aged(ages)) - Inside(c) = old - d /\ old - d \in 0..(MaxRequests - 1)
        /\ (old - d) + 1 \in 1..(Len(ages) - d) /\ ((old - d) + 1) + d = old + 1
    <2>1. ASSUME NEW len \in Nat, NEW n \in 1..MaxRequests, NEW gone \in 0..len,
                 len - n \in 0..(MaxRequests - 1), ~ ((len - n) + 1 <= gone)
          PROVE  /\ (len - gone) - n = (len - n) - gone
                 /\ (len - n) - gone \in 0..(MaxRequests - 1)
                 /\ ((len - n) - gone) + 1 \in 1..(len - gone)
                 /\ (((len - n) - gone) + 1) + gone = (len - n) + 1
      BY <2>1, LimiterAssumption
    <2> QED BY <1>1, <1>2, <1>3, <1>5, <1>6, <2>1
  <1>8. Aged(ages)[(old - d) + 1] = (Window - b.left) + 1
    BY <1>3, <1>6, <1>7
  <1>9. (Window - b.left) + 1 = Window - c.left
    BY <1>2, LimiterAssumption
  <1> HIDE DEF old
  <1> QED BY <1>7, <1>8, <1>9 DEF Live

\* The bucket's time is up: its first request leaves the window with it.
LEMMA OverLeavesFew ==
    ASSUME NEW ages, Tidy(ages), NEW b \in Bucket, Live(b, ages), b.left = 0
    PROVE  Len(Aged(ages)) <= MaxRequests - 1
  <1> DEFINE d == Dropped(ages)
             old == Len(ages) - Inside(b)
  <1>1. Inside(b) \in 1..MaxRequests /\ Len(ages) \in Nat
    BY InsideIsFew, LenProperties DEF Tidy
  <1>2. old \in 0..(MaxRequests - 1) /\ ages[old + 1] = Window - b.left
    BY DEF Live
  <1>3. old + 1 \in 1..Len(ages) /\ ages[old + 1] = Window
    BY <1>1, <1>2, LimiterAssumption
  <1>4. d \in 0..Len(ages) /\ old + 1 <= d
    BY <1>3, DroppedAreFirst
  <1>5. Len(Aged(ages)) = Len(ages) - d
    BY AgedAreTidy
  <1> HIDE DEF d
  <1> QED BY <1>1, <1>4, <1>5, LimiterAssumption

LEMMA LimiterFacts ==
    ASSUME LimiterInv, NEW k \in Keys
    PROVE  /\ Tidy(passed[k])
           /\ ~Fresh(k) => /\ k \in DOMAIN buckets /\ buckets[k] \in Bucket
                           /\ buckets[k].left \in 0..Window /\ buckets[k].count \in Nat \ {0}
                           /\ Live(buckets[k], passed[k])
           /\ Fresh(k) => Len(passed[k]) <= MaxRequests - 1
  <1>1. KeyInv(k)
    BY DEF LimiterInv
  <1>2. ASSUME ~Fresh(k)
        PROVE  /\ k \in DOMAIN buckets /\ buckets[k] \in Bucket
               /\ buckets[k].left \in 0..Window /\ buckets[k].count \in Nat \ {0}
    <2>1. k \in DOMAIN buckets /\ ~ (buckets[k].left < 0)
      BY <1>2 DEF Fresh
    <2>2. buckets[k] \in Bucket
      BY <2>1 DEF LimiterInv
    <2> QED BY <2>1, <2>2, LimiterAssumption DEF Bucket
  <1> QED BY <1>1, <1>2 DEF KeyInv

\* What becomes of a key in a step.
LEMMA KeyFresh ==
    ASSUME NEW k, KeyInv(k), (k \in DOMAIN buckets)' => (buckets[k].left < 0)',
           Tidy(passed'[k]), Len(passed'[k]) <= MaxRequests - 1
    PROVE  KeyInv(k)'
  BY DEF KeyInv, Fresh

LEMMA KeyLive ==
    ASSUME NEW k, k \in DOMAIN buckets', ~ (buckets'[k].left < 0),
           Tidy(passed'[k]), Live(buckets'[k], passed'[k])
    PROVE  KeyInv(k)'
  BY DEF KeyInv, Fresh

LEMMA KeyUnchanged ==
    ASSUME NEW k, KeyInv(k), passed'[k] = passed[k],
           \/ /\ k \in DOMAIN buckets /\ k \in DOMAIN buckets' /\ buckets'[k] = buckets[k]
           \/ Fresh(k) /\ k \notin DOMAIN buckets'
           \/ k \notin DOMAIN buckets /\ k \notin DOMAIN buckets'
    PROVE  KeyInv(k)'
  BY DEF KeyInv, Fresh

LEMMA AdmittedKeeps ==
    ASSUME LimiterInv, NEW k \in Keys, Admit(k),
           passed' = [passed EXCEPT ![k] = Append(@, 0)]
    PROVE  LimiterInv'
  <1>1. /\ passed'[k] = Append(passed[k], 0)
        /\ \A j \in Keys \ {k} : passed'[j] = passed[j]
    BY DEF LimiterInv
  <1>2. Tidy(passed'[k])
    BY <1>1, LimiterFacts, AppendIsTidy
  <1>3. passed' \in [Keys -> Seq(0..Window)]
    BY <1>1, <1>2 DEF LimiterInv, Tidy
  <1>4. CASE Fresh(k) /\ buckets' = With(k, [count |-> 1, left |-> Window])
    <2> DEFINE b == [count |-> 1, left |-> Window]
    <2>1. /\ DOMAIN buckets' = DOMAIN buckets \cup {k} /\ buckets'[k] = b
          /\ \A j \in DOMAIN buckets \ {k} : buckets'[j] = buckets[j]
      BY <1>4 DEF With
    <2>2. b \in Bucket /\ ~ (b.left < 0)
      BY LimiterAssumption DEF Bucket
    <2>3. Live(b, passed'[k])
      BY <1>1, <1>4, LimiterFacts, OpenedIsLive
    <2> HIDE DEF b
    <2>4. KeyInv(k)'
      BY <1>2, <2>1, <2>2, <2>3, KeyLive
    <2>5. ASSUME NEW j \in Keys \ {k} PROVE KeyInv(j)'
      BY <1>1, <2>1, KeyUnchanged DEF LimiterInv
    <2>6. DOMAIN buckets' \subseteq Keys /\ \A j \in DOMAIN buckets' : buckets'[j] \in Bucket
      BY <2>1, <2>2 DEF LimiterInv
    <2> QED BY <1>3, <2>4, <2>5, <2>6 DEF LimiterInv
  <1>5. CASE /\ ~Fresh(k) /\ buckets[k].count < MaxRequests
             /\ buckets' = [buckets EXCEPT ![k].count = @ + 1]
    <2> DEFINE c == [buckets[k] EXCEPT !.count = @ + 1]
    <2>1. /\ k \in DOMAIN buckets /\ buckets[k] \in Bucket
          /\ buckets[k].left \in 0..Window /\ buckets[k].count \in Nat \ {0}
          /\ Live(buckets[k], passed[k])
      BY <1>5, LimiterFacts
    <2>2. /\ DOMAIN buckets' = DOMAIN buckets /\ buckets'[k] = c
          /\ \A j \in DOMAIN buckets \ {k} : buckets'[j] = buckets[j]
      BY <1>5, <2>1
    <2>3. c \in Bucket /\ c.count = buckets[k].count + 1 /\ c.left = buckets[k].left
      BY <2>1 DEF Bucket
    <2> HIDE DEF c
    <2>4. Live(c, passed'[k])
      BY <1>1, <1>5, <2>1, <2>3, LimiterFacts, JoinedIsLive
    <2>5. KeyInv(k)'
      BY <1>2, <2>1, <2>2, <2>3, <2>4, KeyLive
    <2>6. ASSUME NEW j \in Keys \ {k} PROVE KeyInv(j)'
      BY <1>1, <2>2, KeyUnchanged DEF LimiterInv
    <2>7. DOMAIN buckets' \subseteq Keys /\ \A j \in DOMAIN buckets' : buckets'[j] \in Bucket
      BY <2>2, <2>3 DEF LimiterInv
    <2> QED BY <1>3, <2>5, <2>6, <2>7 DEF LimiterInv
  <1> QED BY <1>4, <1>5 DEF Admit

\* A bucket that is full stays so, and keeps what it had.
LEMMA RefusedKeeps ==
    ASSUME LimiterInv, NEW k \in Keys, Refuse(k), UNCHANGED passed
    PROVE  LimiterInv' /\ Len(passed[k]) >= MaxRequests
  <1> DEFINE c == [buckets[k] EXCEPT !.count = @ + 1]
  <1>1. /\ ~Fresh(k) /\ buckets[k].count >= MaxRequests
        /\ buckets' = [buckets EXCEPT ![k].count = @ + 1]
    BY DEF Refuse
  <1>2. /\ k \in DOMAIN buckets /\ buckets[k] \in Bucket
        /\ buckets[k].left \in 0..Window /\ buckets[k].count \in Nat \ {0}
        /\ Live(buckets[k], passed[k]) /\ Tidy(passed[k])
    BY <1>1, LimiterFacts
  <1>3. /\ DOMAIN buckets' = DOMAIN buckets /\ buckets'[k] = c
        /\ \A j \in DOMAIN buckets \ {k} : buckets'[j] = buckets[j]
    BY <1>1, <1>2
  <1>4. c \in Bucket /\ c.count = buckets[k].count + 1 /\ c.left = buckets[k].left
    BY <1>2 DEF Bucket
  <1> HIDE DEF c
  <1>5. Inside(c) = MaxRequests /\ Inside(buckets[k]) = MaxRequests
    BY <1>1, <1>2, <1>4, LimiterAssumption DEF Inside
  <1>6. Live(c, passed[k])
    BY <1>2, <1>4, <1>5 DEF Live
  <1>7. KeyInv(k)'
    BY <1>2, <1>3, <1>4, <1>6, KeyLive
  <1>8. ASSUME NEW j \in Keys \ {k} PROVE KeyInv(j)'
    BY <1>3, KeyUnchanged DEF LimiterInv
  <1>9. DOMAIN buckets' \subseteq Keys /\ \A j \in DOMAIN buckets' : buckets'[j] \in Bucket
    BY <1>3, <1>4 DEF LimiterInv
  <1>10. LimiterInv'
    BY <1>7, <1>8, <1>9 DEF LimiterInv
  <1>11. Len(passed[k]) \in Nat /\ Len(passed[k]) - MaxRequests \in Nat
    <2>1. Len(passed[k]) \in Nat
      BY <1>2, LenProperties DEF Tidy
    <2> QED BY <1>2, <1>5, <2>1 DEF Live
  <1> QED BY <1>10, <1>11, LimiterAssumption

LEMMA SweptKeeps ==
    ASSUME LimiterInv, Cleanup, UNCHANGED passed
    PROVE  LimiterInv'
  <1>1. /\ DOMAIN buckets' = {j \in DOMAIN buckets : ~Fresh(j)}
        /\ \A j \in DOMAIN buckets' : buckets'[j] = buckets[j]
    BY DEF Cleanup
  <1>2. ASSUME NEW j \in Keys PROVE KeyInv(j)'
    BY <1>1, KeyUnchanged DEF LimiterInv
  <1>3. DOMAIN buckets' \subseteq Keys /\ \A j \in DOMAIN buckets' : buckets'[j] \in Bucket
    BY <1>1 DEF LimiterInv
  <1> QED BY <1>2, <1>3 DEF LimiterInv

LEMMA TickKeeps ==
    ASSUME LimiterInv, BucketsTick, passed' = [k \in Keys |-> Aged(passed[k])]
    PROVE  LimiterInv'
  <1>1. /\ DOMAIN buckets' = DOMAIN buckets
        /\ \A k \in DOMAIN buckets :
               buckets'[k] = [buckets[k] EXCEPT !.left = IF @ < 0 THEN @ ELSE @ - 1]
    BY DEF BucketsTick
  <1>2. ASSUME NEW k \in DOMAIN buckets
        PROVE  /\ buckets'[k] \in Bucket /\ buckets'[k].count = buckets[k].count
               /\ buckets'[k].left = IF buckets[k].left < 0 THEN buckets[k].left
                                     ELSE buckets[k].left - 1
    <2>1. buckets[k] \in Bucket
      BY DEF LimiterInv
    <2> QED BY <1>1, <2>1, LimiterAssumption DEF Bucket
  <1>3. ASSUME NEW k \in Keys
        PROVE  KeyInv(k)' /\ passed'[k] \in Seq(0..Window)
    <2>1. /\ passed'[k] = Aged(passed[k]) /\ Tidy(passed'[k])
          /\ Len(passed'[k]) <= Len(passed[k])
      <3>1. Tidy(passed[k])
        BY LimiterFacts
      <3>2. /\ Tidy(Aged(passed[k])) /\ Dropped(passed[k]) \in 0..Len(passed[k])
            /\ Len(Aged(passed[k])) = Len(passed[k]) - Dropped(passed[k])
            /\ Len(passed[k]) \in Nat
        BY <3>1, AgedAreTidy, DroppedAreFirst, LenProperties DEF Tidy
      <3> QED BY <3>2
    <2>2. KeyInv(k)
      BY DEF LimiterInv
    <2>3. CASE Fresh(k)
      <3>1. Len(passed'[k]) <= MaxRequests - 1
        <4>1. /\ Len(passed[k]) \in Nat /\ Len(passed'[k]) \in Nat
              /\ Len(passed[k]) <= MaxRequests - 1
          BY <2>1, <2>3, LimiterFacts, LenProperties DEF Tidy
        <4> QED BY <2>1, <4>1, LimiterAssumption
      <3>2. ASSUME k \in DOMAIN buckets' PROVE buckets'[k].left < 0
        BY <1>1, <1>2, <2>3, <3>2 DEF Fresh
      <3> QED BY <2>1, <2>2, <3>1, <3>2, KeyFresh DEF Tidy
    <2>4. CASE ~Fresh(k)
      <3>1. /\ k \in DOMAIN buckets /\ buckets[k] \in Bucket
            /\ buckets[k].left \in 0..Window
            /\ Live(buckets[k], passed[k]) /\ Tidy(passed[k])
        BY <2>4, LimiterFacts
      <3>2. /\ buckets'[k] \in Bucket /\ buckets'[k].count = buckets[k].count
            /\ buckets'[k].left = buckets[k].left - 1
        BY <1>2, <3>1
      <3>3. CASE buckets[k].left = 0
        <4>1. Len(passed'[k]) <= MaxRequests - 1
          BY <2>1, <3>1, <3>3, OverLeavesFew
        <4>2. buckets'[k].left < 0
          BY <3>2, <3>3
        <4> QED BY <2>1, <2>2, <4>1, <4>2, KeyFresh DEF Tidy
      <3>4. CASE buckets[k].left # 0
        <4>1. buckets[k].left > 0 /\ ~ (buckets'[k].left < 0)
          BY <3>1, <3>2, <3>4
        <4>2. Live(buckets'[k], passed'[k])
          BY <2>1, <3>1, <3>2, <4>1, AgedIsLive
        <4> QED BY <1>1, <2>1, <3>1, <4>1, <4>2, KeyLive DEF Tidy
      <3> QED BY <3>3, <3>4
    <2> QED BY <2>3, <2>4
  <1>4. passed' \in [Keys -> Seq(0..Window)]
    <2>1. passed' = [k \in Keys |-> passed'[k]]
      OBVIOUS
    <2> QED BY <1>3, <2>1
  <1>5. DOMAIN buckets' \subseteq Keys /\ \A j \in DOMAIN buckets' : buckets'[j] \in Bucket
    BY <1>1, <1>2 DEF LimiterInv
  <1> QED BY <1>3, <1>4, <1>5 DEF LimiterInv

\* Two windows' worth, less one, is the most.
LEMMA FewInWindow ==
    ASSUME LimiterInv, NEW k \in Keys
    PROVE  Len(passed[k]) < 2 * MaxRequests
  <1>1. Len(passed[k]) \in Nat /\ MaxRequests \in Nat \ {0}
    BY LimiterFacts, LenProperties, LimiterAssumption DEF Tidy
  <1>2. CASE Fresh(k)
    BY <1>1, <1>2, LimiterFacts
  <1>3. CASE ~Fresh(k)
    <2>1. Live(buckets[k], passed[k]) /\ buckets[k] \in Bucket
      BY <1>3, LimiterFacts
    <2>2. Inside(buckets[k]) \in 1..MaxRequests
      BY <2>1, InsideIsFew
    <2>3. Len(passed[k]) - Inside(buckets[k]) \in 0..(MaxRequests - 1)
      BY <2>1 DEF Live
    <2> QED BY <1>1, <2>2, <2>3
  <1> QED BY <1>2, <1>3

LEMMA LimiterInitInv ==
    ASSUME LimiterInit, passed = [k \in Keys |-> <<>>]
    PROVE  LimiterInv
  <1>1. DOMAIN buckets = {}
    BY DEF LimiterInit
  <1>2. passed \in [Keys -> Seq(0..Window)] /\ \A k \in Keys : passed[k] = <<>>
    OBVIOUS
  <1>3. ASSUME NEW k \in Keys PROVE KeyInv(k)
    <2>1. Tidy(<<>>) /\ Len(<<>>) = 0
      BY DEF Tidy
    <2> QED BY <1>1, <1>2, <2>1, LimiterAssumption DEF KeyInv, Fresh
  <1> QED BY <1>1, <1>2, <1>3 DEF LimiterInv

-----------------------------------------------------------------------------
(* Together *)

IInv == /\ AllFit /\ AuthType /\ UsageInv /\ LimiterInv
        /\ arrivals \in 0..MaxArrivals

LEMMA InitInv == Init => IInv
  <1> SUFFICES ASSUME Init PROVE IInv
    OBVIOUS
  <1>1. AllFit
    BY IdleFits DEF Init, AllFit, Fits
  <1>2. AuthType
    <2>1. 1 \in Tokens /\ 0 \in 0..MaxEvents
      BY TokensAssumption DEF Tokens
    <2>2. files \in [Paths -> {Gone, Torn} \cup Tokens]
      BY <2>1 DEF Init, AuthInit
    <2> QED BY <2>1, <2>2, UnavailableIsSnapshot DEF Init, AuthInit, AuthType
  <1>3. UsageInv
    BY UsageInitInv DEF Init
  <1>4. LimiterInv
    BY LimiterInitInv DEF Init
  <1>5. arrivals \in 0..MaxArrivals
    BY ArrivalsAssumption DEF Init
  <1> QED BY <1>1, <1>2, <1>3, <1>4, <1>5 DEF IInv

\* What a handler writes fits, and its 401 is warranted; the others are as they were.
LEMMA HandledKeeps ==
    ASSUME AllFit, NEW r \in Callers, Handled(r)
    PROVE  AllFit' /\ \A q \in Callers : Refused(q) => Warranted(q)
  <1>1. PICK l : /\ Become(r, l) /\ Fits(l)
                 /\ req[r].pc # "finishing" /\ l.pc = "finishing" /\ l.status = 401 => Warranted(r)
    BY DEF Handled
  <1>2. AllFit' /\ req'[r] = l /\ \A q \in Callers \ {r} : req'[q] = req[q]
    BY <1>1, BecomeFits
  <1>3. ASSUME NEW q \in Callers, Refused(q) PROVE Warranted(q)
    BY <1>1, <1>2, <1>3 DEF Refused, At
  <1> QED BY <1>2, <1>3

LEMMA SameUsage == UsageInv /\ UNCHANGED usage => UsageInv'
  BY DEF UsageInv, UsageType, Tallied

LEMMA SameAuth == AuthType /\ UNCHANGED authVars => AuthType'
  BY DEF AuthType, authVars, Present

LEMMA SameLimiter == LimiterInv /\ UNCHANGED <<buckets, passed>> => LimiterInv'
  BY DEF LimiterInv, KeyInv, Fresh

LEMMA FinishTallies ==
    ASSUME AllFit, UsageInv, NEW r \in Callers, Finish(r)
    PROVE  UsageInv'
  <1>1. CASE UNCHANGED usage
    BY <1>1, SameUsage
  <1>2. CASE Record(EndpointOf(req[r].mode), req[r].status < 400 /\ ~req[r].failed, req[r].tokens)
    <2>1. EndpointOf(req[r].mode) \in Endpoints
      BY EndpointsAssumption DEF EndpointOf
    <2>2. req[r].tokens \in Nat
      BY DEF AllFit, Fits, Request
    <2>3. PICK success \in BOOLEAN : Record(EndpointOf(req[r].mode), success, req[r].tokens)
      <3> WITNESS (req[r].status < 400 /\ ~req[r].failed) \in BOOLEAN
      <3> QED BY <1>2
    <2> QED BY <2>1, <2>2, <2>3, RecordTallies
  <1> QED BY <1>1, <1>2 DEF Finish

LEMMA RequestStepKeeps ==
    ASSUME AllFit, AuthType, UsageInv, NEW r \in Callers, RequestStep(r)
    PROVE  /\ Handled(r) /\ AuthType' /\ UsageInv'
           /\ UNCHANGED <<buckets, passed, arrivals>>
  <1>1. CASE Begin(r)
    <2>1. Handled(r) /\ AuthType'
      BY <1>1, BeginHandled
    <2>2. UNCHANGED <<buckets, usage, passed, arrivals>>
      BY <1>1 DEF Begin
    <2> QED BY <2>1, <2>2, SameUsage
  <1>2. CASE Unauthorized(r)
    <2>1. Handled(r) /\ AuthType'
      BY <1>2, UnauthorizedHandled
    <2>2. UNCHANGED <<buckets, usage, passed, arrivals>>
      BY <1>2 DEF Unauthorized
    <2> QED BY <2>1, <2>2, SameUsage
  <1>3. ASSUME Unshared, Handled(r)
        PROVE  /\ AuthType' /\ UsageInv' /\ UNCHANGED <<buckets, passed, arrivals>>
    BY <1>3, SameUsage, SameAuth DEF Unshared
  <1>4. CASE \/ \E transient \in BOOLEAN : FetchFails(r, transient)
             \/ FetchTimesOut(r)
             \/ \E status \in {429, 500} : UpstreamRefuses(r, status)
    <2>1. Handled(r)
      BY <1>4, FetchHandled
    <2>2. Unshared
      BY <1>4 DEF FetchFails, FetchTimesOut, UpstreamRefuses
    <2> QED BY <1>3, <2>1, <2>2
  <1>5. CASE Resend(r)
    <2>1. Unshared
      BY <1>5 DEF Resend
    <2> QED BY <1>3, <1>5, <2>1, ResendHandled
  <1>6. CASE BodyStarts(r)
    <2>1. Unshared
      BY <1>6 DEF BodyStarts
    <2> QED BY <1>3, <1>6, <2>1, BodyStartsHandled
  <1>7. ASSUME NEW completed \in BOOLEAN, NEW tokens \in 0..1, StreamEnds(r, completed, tokens)
        PROVE  Handled(r) /\ AuthType' /\ UsageInv' /\ UNCHANGED <<buckets, passed, arrivals>>
    <2>1. Unshared
      BY <1>7 DEF StreamEnds
    <2> QED BY <1>3, <1>7, <2>1, StreamEndsHandled
  <1>8. CASE StreamAbandoned(r)
    <2>1. Unshared
      BY <1>8 DEF StreamAbandoned
    <2> QED BY <1>3, <1>8, <2>1, ForgottenHandled
  <1>9. ASSUME NEW tokens \in 0..1, Collected(r, tokens)
        PROVE  Handled(r) /\ AuthType' /\ UsageInv' /\ UNCHANGED <<buckets, passed, arrivals>>
    <2>1. Unshared
      BY <1>9 DEF Collected
    <2> QED BY <1>3, <1>9, <2>1, CollectedHandled
  <1>10. CASE CollectFails(r) \/ CollectBreaks(r)
    <2>1. Unshared
      BY <1>10 DEF CollectFails, CollectBreaks
    <2> QED BY <1>3, <1>10, <2>1, CollectFailsHandled
  <1>11. CASE Finish(r)
    <2>1. Handled(r) /\ UsageInv'
      BY <1>11, ForgottenHandled, FinishTallies
    <2>2. UNCHANGED <<buckets, authVars, passed, arrivals>>
      BY <1>11 DEF Finish
    <2> QED BY <2>1, <2>2, SameAuth
  <1> QED BY <1>1, <1>2, <1>4, <1>5, <1>6, <1>7, <1>8, <1>9, <1>10, <1>11 DEF RequestStep

\* A key that is refused has MaxRequests of its own in the window.
QuotaStep == \A k \in Keys : arrivals' # arrivals /\ Turned(k) => Len(passed[k]) >= MaxRequests
\* A client that is told 401 had another login tried, or there was none.
RefusalStep == \A r \in Callers : Refused(r) => Warranted(r)

LEMMA ArriveKeeps ==
    ASSUME IInv, NEW r \in Callers, NEW k \in Keys, NEW mode \in Modes, Arrive(r, k, mode)
    PROVE  IInv' /\ QuotaStep /\ RefusalStep
  <1>1. /\ arrivals < MaxArrivals /\ arrivals' = arrivals + 1
        /\ UNCHANGED <<usage, authVars>>
    BY DEF Arrive
  <1>2. arrivals' \in 0..MaxArrivals /\ UsageInv' /\ AuthType'
    BY <1>1, ArrivalsAssumption, SameUsage, SameAuth DEF IInv
  <1>3. AllFit' /\ RefusalStep
    <2>1. CASE Handled(r)
      BY <2>1, HandledKeeps DEF IInv, RefusalStep
    <2>2. CASE UNCHANGED req
      BY <2>2 DEF IInv, AllFit, RefusalStep, Refused, At
    <2> QED BY <2>1, <2>2, ArriveHandled DEF IInv
  <1>4. CASE Admit(k) /\ passed' = [passed EXCEPT ![k] = Append(@, 0)]
    <2>1. LimiterInv'
      BY <1>4, AdmittedKeeps DEF IInv
    <2>2. ASSUME NEW j \in Keys PROVE ~Turned(j)
      <3>1. CASE j # k
        <4> SUFFICES ASSUME j \in DOMAIN buckets PROVE ~ (buckets'[j].count > buckets[j].count)
          BY DEF Turned
        <4>1. buckets[j] \in Bucket
          BY DEF IInv, LimiterInv
        <4>2. buckets'[j] = buckets[j]
          BY <1>4, <3>1 DEF Admit, With
        <4> QED BY <4>1, <4>2 DEF Bucket
      <3>2. CASE j = k
        <4> SUFFICES ASSUME k \in DOMAIN buckets PROVE ~ (buckets'[k].count > MaxRequests)
          BY <3>2 DEF Turned
        <4>1. buckets[k] \in Bucket
          BY DEF IInv, LimiterInv
        <4>2. buckets'[k].count = 1 \/ (buckets[k].count < MaxRequests /\ buckets'[k].count = buckets[k].count + 1)
          BY <1>4, <4>1 DEF Admit, With, Bucket
        <4> QED BY <4>1, <4>2, LimiterAssumption DEF Bucket
      <3> QED BY <3>1, <3>2
    <2> QED BY <1>2, <1>3, <2>1, <2>2 DEF IInv, QuotaStep
  <1>5. CASE Refuse(k) /\ UNCHANGED passed
    <2>1. LimiterInv' /\ Len(passed[k]) >= MaxRequests
      BY <1>5, RefusedKeeps DEF IInv
    <2>2. ASSUME NEW j \in Keys, j # k PROVE ~Turned(j)
      <3> SUFFICES ASSUME j \in DOMAIN buckets PROVE ~ (buckets'[j].count > buckets[j].count)
        BY DEF Turned
      <3>1. buckets[j] \in Bucket /\ buckets'[j] = buckets[j]
        BY <1>5, <2>2 DEF Refuse, IInv, LimiterInv
      <3> QED BY <3>1 DEF Bucket
    <2> QED BY <1>2, <1>3, <2>1, <2>2 DEF IInv, QuotaStep
  <1> QED BY <1>4, <1>5 DEF Arrive

LEMMA StepKeeps ==
    ASSUME IInv, [Next]_vars
    PROVE  IInv' /\ QuotaStep /\ RefusalStep
  <1>1. ASSUME UNCHANGED req PROVE AllFit' /\ RefusalStep
    BY <1>1 DEF IInv, AllFit, RefusalStep, Refused, At
  <1>2. ASSUME UNCHANGED arrivals PROVE arrivals' \in 0..MaxArrivals /\ QuotaStep
    BY <1>2 DEF IInv, QuotaStep
  <1>3. ASSUME NEW r \in Callers, NEW k \in Keys, NEW mode \in Modes, Arrive(r, k, mode)
        PROVE  IInv' /\ QuotaStep /\ RefusalStep
    BY <1>3, ArriveKeeps
  <1>4. ASSUME NEW r \in Callers, RequestStep(r)
        PROVE  IInv' /\ QuotaStep /\ RefusalStep
    <2>1. /\ Handled(r) /\ AuthType' /\ UsageInv'
          /\ UNCHANGED <<buckets, passed, arrivals>>
      BY <1>4, RequestStepKeeps DEF IInv
    <2>2. AllFit' /\ RefusalStep
      BY <2>1, HandledKeeps DEF IInv, RefusalStep
    <2>3. LimiterInv'
      BY <2>1, SameLimiter DEF IInv
    <2> QED BY <1>2, <2>1, <2>2, <2>3 DEF IInv
  <1>5. ASSUME NEW r \in Callers, Leave(r)
        PROVE  IInv' /\ QuotaStep /\ RefusalStep
    <2>1. Unshared
      BY <1>5 DEF Leave
    <2>2. AllFit' /\ RefusalStep
      BY <1>5, LeaveHandled, HandledKeeps DEF IInv, RefusalStep
    <2>3. LimiterInv' /\ AuthType' /\ UsageInv'
      BY <2>1, SameLimiter, SameAuth, SameUsage DEF IInv, Unshared
    <2> QED BY <1>2, <2>1, <2>2, <2>3 DEF IInv, Unshared
  <1>6. CASE AuthStep /\ UNCHANGED <<buckets, usage, req, arrivals, passed>>
    <2>1. LimiterInv' /\ AuthType' /\ UsageInv'
      BY <1>6, SameLimiter, AuthStepType, SameUsage DEF IInv
    <2> QED BY <1>1, <1>2, <1>6, <2>1 DEF IInv
  <1>7. CASE Tick
    <2>1. LimiterInv'
      BY <1>7, TickKeeps DEF IInv, Tick
    <2>2. UNCHANGED <<usage, authVars, req, arrivals>>
      BY <1>7 DEF Tick
    <2>3. AuthType' /\ UsageInv'
      BY <2>2, SameAuth, SameUsage DEF IInv
    <2> QED BY <1>1, <1>2, <2>1, <2>2, <2>3 DEF IInv
  <1>8. CASE Sweep
    <2>1. UNCHANGED <<usage, authVars, req, arrivals, passed>> /\ Cleanup
      BY <1>8 DEF Sweep
    <2>2. LimiterInv' /\ AuthType' /\ UsageInv'
      BY <2>1, SweptKeeps, SameAuth, SameUsage DEF IInv
    <2> QED BY <1>1, <1>2, <2>1, <2>2 DEF IInv
  <1>9. CASE UNCHANGED vars
    <2>1. UNCHANGED <<buckets, usage, authVars, req, arrivals, passed>>
      BY <1>9 DEF vars
    <2>2. LimiterInv' /\ AuthType' /\ UsageInv'
      BY <2>1, SameLimiter, SameAuth, SameUsage DEF IInv
    <2> QED BY <1>1, <1>2, <2>1, <2>2 DEF IInv
  <1> QED BY <1>3, <1>4, <1>5, <1>6, <1>7, <1>8, <1>9 DEF Next

THEOREM Invariance == Spec => []IInv
  <1>1. IInv /\ [Next]_vars => IInv'
    BY StepKeeps
  <1> QED BY InitInv, <1>1, PTL DEF Spec

\* Every value the server keeps is of its kind.
THEOREM AlwaysTyped == Spec => []TypeOK
  <1>1. IInv => TypeOK
    <2> SUFFICES ASSUME IInv PROVE TypeOK
      OBVIOUS
    <2>1. BucketsType(buckets)
      BY DEF IInv, LimiterInv, BucketsType, Bucket
    <2>2. req \in [Callers -> Request]
      BY DEF IInv, AllFit
    <2>3. UsageType(usage) /\ AuthType /\ arrivals \in 0..MaxArrivals
          /\ passed \in [Keys -> Seq(0..Window)]
      BY DEF IInv, UsageInv, LimiterInv
    <2> QED BY <2>1, <2>2, <2>3 DEF TypeOK
  <1> QED BY <1>1, Invariance, PTL

\* The number of sends is bounded by the logins and attempts of the calls
\* (callCodexResponses), for any number of callers and pictures.
THEOREM AlwaysWithinBudget == Spec => []SendsWithinBudget
  <1>1. IInv => SendsWithinBudget
    <2> SUFFICES ASSUME IInv, NEW r \in Callers
                 PROVE  req[r].sends <= 2 * CODEX_RESPONSES_MAX_ATTEMPTS
                                          * (IF req[r].mode = "images" THEN MaxImages ELSE 1)
      BY DEF SendsWithinBudget
    <2>1. Fits(req[r])
      BY DEF IInv, AllFit
    <2>2. /\ req[r] \in Request /\ req[r].sends <= Spent(req[r]) + req[r].attempt
          /\ req[r].sends \in Nat /\ req[r].attempt \in 1..2
          /\ req[r].mode # "images" => req[r].left = 1
      BY <2>1 DEF Fits, Thrifty, Request, CODEX_RESPONSES_MAX_ATTEMPTS
    <2>3. /\ Spent(req[r]) \in Nat /\ Spent(req[r]) <= 4 * Pictures(req[r]) - 2
          /\ Pictures(req[r]) \in Nat
      BY <2>2, PicturesAreMore
    <2>4. req[r].sends <= 4 * Pictures(req[r])
      BY <2>2, <2>3
    <2>5. 2 * CODEX_RESPONSES_MAX_ATTEMPTS = 4
      BY DEF CODEX_RESPONSES_MAX_ATTEMPTS
    <2> QED BY <2>4, <2>5 DEF Pictures
  <1> QED BY <1>1, Invariance, PTL

\* A record says success exactly of what its client got whole (wrapTrackedHandler,
\* setFailureContext).
THEOREM SuccessAlwaysWhole == Spec => []SuccessIsWhole
  <1>1. IInv => SuccessIsWhole
    BY DEF IInv, AllFit, Fits, Truthful, SuccessIsWhole, At
  <1> QED BY <1>1, Invariance, PTL

\* The monitor's totals are the sums over its endpoints, for any set of endpoints,
\* and the recent records have no gap (record of src/monitoring/usage.ts).
THEOREM UsageAlwaysAddsUp == Spec => []UsageAddsUp
  <1>1. IInv => UsageAddsUp
    BY AddsUpIsTallied DEF IInv, UsageInv
  <1> QED BY <1>1, Invariance, PTL

\* No client is told 401 while the files hold a login it has not tried
\* (reloadAfterAuthFailure).
THEOREM RefusedAlwaysAfterReload == Spec => RefusedOnlyAfterReload
  <1>1. IInv /\ [Next]_vars =>
            [\A r \in Callers : Refused(r) =>
                req[r].reloaded \/ OnDisk \in {Unavailable, req[r].snapshot}]_vars
    BY StepKeeps DEF RefusalStep, Warranted
  <1> QED BY <1>1, Invariance, PTL DEF Spec, RefusedOnlyAfterReload

\* The quota of the rate limiter, for any number of keys, any window and any
\* maximum (createRateLimitMiddleware of src/server.ts).
THEOREM QuotaAlwaysKept == Spec => QuotaIsKept
  <1> DEFINE Few == \A k \in Keys : Len(passed[k]) < 2 * MaxRequests
  <1>1. IInv => Few
    BY FewInWindow DEF IInv
  <1>2. IInv /\ Few' /\ [Next]_vars =>
            [\A k \in Keys :
                /\ arrivals' # arrivals /\ Turned(k) => Len(passed[k]) >= MaxRequests
                /\ Len(passed'[k]) < 2 * MaxRequests]_vars
    BY StepKeeps DEF QuotaStep
  <1> HIDE DEF Few
  <1> QED BY <1>1, <1>2, Invariance, PTL DEF Spec, QuotaIsKept

=============================================================================
