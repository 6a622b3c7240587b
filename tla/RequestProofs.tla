--------------------------- MODULE RequestProofs ----------------------------
(***************************************************************************)
(* Proofs about ClaudeRequests: its type invariant, the bound on what one  *)
(* request sends, that the loops implement AccountClients, and with that   *)
(* what AccountProofs has shown of every implementation.                   *)
(***************************************************************************)
EXTENDS ClaudeRequests, FiniteSetTheorems, TLAPS

\* AccountProofs, about the calls the loops have open.
C == INSTANCE AccountProofs WITH
    calls <- CallsView,
    MaxAttempts <- Cardinality(Callers) * (MaxRetries + NNames)

-----------------------------------------------------------------------------
(* One manager under two names *)

\* AccountClients takes the manager over unchanged, so an operator of it is the
\* operator of that name here.  The instance has a copy of its own of every
\* definition; the proof opens both.
LEMMA SameManager ==
  /\ C!ManagerTypeOK <=> ManagerTypeOK
  /\ C!ManagerInit <=> ManagerInit
  /\ \A e : /\ C!RecordAttempt(e) <=> RecordAttempt(e)
            /\ C!RecordSuccess(e) <=> RecordSuccess(e)
            /\ \A kind : C!RecordFailure(e, kind) <=> RecordFailure(e, kind)
            /\ \A w : C!RefreshAccount(w, e) <=> RefreshAccount(w, e)
  /\ \A unused : C!ManagerStep(unused) <=> ManagerStep(unused)
  /\ C!Restart <=> Restart
BY SMTT(60) DEF
     C!memory, memory, C!files, files, C!managerVars, managerVars, C!Names, Names,
     C!Tokens, Tokens, C!FailureKinds, FailureKinds, C!Token, Token, C!Runtime,
     Runtime, C!Account, Account, C!FreshRuntime, FreshRuntime, C!Capped, Capped,
     C!Backoff, Backoff, C!Less, Less, C!AgeToken, AgeToken, C!AgeRuntime,
     AgeRuntime, C!IsTokenExpired, IsTokenExpired, C!IsAccountUsable,
     IsAccountUsable, C!First, First, C!Last, Last, C!UsableSlots, UsableSlots,
     C!Holders, Holders, C!Held, Held, C!SlotOf, SlotOf, C!AfterAttempt,
     AfterAttempt, C!AfterSuccess, AfterSuccess, C!AfterFailure, AfterFailure,
     C!AfterNewToken, AfterNewToken, C!AfterRefreshFailure, AfterRefreshFailure,
     C!Put, Put, C!Without, Without, C!NoFile, NoFile, C!StateOf, StateOf, C!Loaded,
     Loaded, C!Waiters, Waiters, C!RefreshInFlight, RefreshInFlight, C!NoRefresh,
     NoRefresh, C!NoAnswer, NoAnswer, C!NoLogin, NoLogin, C!LoginAt, LoginAt,
     C!ManagerTypeOK, ManagerTypeOK, C!ManagerInit, ManagerInit, C!PersistState,
     PersistState, C!Commit, Commit, C!SaveTokenFails, SaveTokenFails, C!Record,
     Record, C!RecordAttempt, RecordAttempt, C!RecordSuccess, RecordSuccess,
     C!RecordFailure, RecordFailure, C!RefreshAccount, RefreshAccount, C!Settle,
     Settle, C!RefreshFails, RefreshFails, C!GrantedEmails, GrantedEmails,
     C!GrantGranted, GrantGranted, C!NextTry, NextTry, C!GrantError, GrantError,
     C!GrantReplyLost, GrantReplyLost, C!GrantRejected, GrantRejected, C!DueSlots,
     DueSlots, C!SweepFrom, SweepFrom, C!SweepUnchanged, SweepUnchanged,
     C!SweepStart, SweepStart, C!SweepResume, SweepResume, C!AgeAccounts,
     AgeAccounts, C!Tick, Tick, C!Restart, Restart, C!LoginStart, LoginStart,
     C!LoginFinish, LoginFinish, C!TokensInUse, TokensInUse, C!ManagerStep,
     ManagerStep

\* So do the helpers that actions of AccountClients read.
LEMMA SameNames ==
  /\ C!Names = Names /\ C!Tokens = Tokens /\ C!FailureKinds = FailureKinds
  /\ C!Waiters = Waiters
  /\ C!managerVars = managerVars /\ C!files = files
  /\ C!UsableSlots(accounts) = UsableSlots(accounts)
  /\ \A S : C!First(S) = First(S)
  /\ \A e : C!Holders(accounts, e) = Holders(accounts, e)
  /\ C!TokensInUse = TokensInUse
  /\ \A acc : C!StateOf(acc) = StateOf(acc)
BY DEF C!Names, Names, C!Tokens, Tokens, C!FailureKinds, FailureKinds, C!Waiters, Waiters,
       C!managerVars, managerVars, C!files, files, C!UsableSlots, UsableSlots,
       C!IsAccountUsable, IsAccountUsable, C!IsTokenExpired, IsTokenExpired,
       C!First, First, C!Holders, Holders, C!TokensInUse, TokensInUse, C!NoLogin, NoLogin,
       C!StateOf, StateOf, C!Last, Last

\* The assumptions of AccountProofs are those of AccountManager.
LEMMA SameAssumptions ==
  /\ NNames \in Nat \ {0} /\ Unknown \in C!Names
  /\ BackoffBase \in [C!FailureKinds -> Nat] /\ BackoffMax \in [C!FailureKinds -> Nat]
  /\ RefreshFailBase \in Nat /\ RefreshFailMax \in Nat
  /\ RefreshLead \in Nat /\ ExpirySkew \in Nat /\ Lifetime \in Nat
  /\ NTokens \in Nat
  /\ MaxRefreshFailures \in Nat \ {0}
  /\ RefreshFailBase * 2 ^ (MaxRefreshFailures - 1) >= RefreshFailMax
  /\ Sweep \notin Callers
  /\ InitialFiles \subseteq C!Names \cap C!Tokens
  /\ GrantOmitsEmail \in BOOLEAN /\ MaxGrantTries \in Nat \ {0}
  /\ MaxNetFaults \in Nat /\ MaxDiskFaults \in Nat
  /\ MaxLogins \in Nat /\ MaxRestarts \in Nat
BY NamesAssumption, TimesAssumption, TokensAssumption, RefreshFailuresAssumption,
   WaitersAssumption, InitialAssumption, GrantAssumption, BoundsAssumption
DEF C!Names, Names, C!Tokens, Tokens, C!FailureKinds, FailureKinds

\* The specification that ImplementsClients names is the one AccountProofs is about.
LEMMA SameClients ==
  /\ Clients!Init <=> C!Init
  /\ [Clients!Next]_(Clients!vars) <=> [C!Next]_(C!vars)
BY ZenonT(60) DEF
     Clients!memory, C!memory, Clients!files, C!files, Clients!managerVars,
     C!managerVars, Clients!Names, C!Names, Clients!Tokens, C!Tokens,
     Clients!FailureKinds, C!FailureKinds, Clients!Token, C!Token, Clients!Runtime,
     C!Runtime, Clients!Account, C!Account, Clients!FreshRuntime, C!FreshRuntime,
     Clients!Capped, C!Capped, Clients!Backoff, C!Backoff, Clients!Less, C!Less,
     Clients!AgeToken, C!AgeToken, Clients!AgeRuntime, C!AgeRuntime,
     Clients!IsTokenExpired, C!IsTokenExpired, Clients!IsAccountUsable,
     C!IsAccountUsable, Clients!First, C!First, Clients!Last, C!Last,
     Clients!UsableSlots, C!UsableSlots, Clients!Holders, C!Holders, Clients!Held,
     C!Held, Clients!SlotOf, C!SlotOf, Clients!AfterAttempt, C!AfterAttempt,
     Clients!AfterSuccess, C!AfterSuccess, Clients!AfterFailure, C!AfterFailure,
     Clients!AfterNewToken, C!AfterNewToken, Clients!AfterRefreshFailure,
     C!AfterRefreshFailure, Clients!Put, C!Put, Clients!Without, C!Without,
     Clients!NoFile, C!NoFile, Clients!StateOf, C!StateOf, Clients!Loaded, C!Loaded,
     Clients!Waiters, C!Waiters, Clients!RefreshInFlight, C!RefreshInFlight,
     Clients!NoRefresh, C!NoRefresh, Clients!NoAnswer, C!NoAnswer, Clients!NoLogin,
     C!NoLogin, Clients!LoginAt, C!LoginAt, Clients!ManagerTypeOK, C!ManagerTypeOK,
     Clients!ManagerInit, C!ManagerInit, Clients!PersistState, C!PersistState,
     Clients!Commit, C!Commit, Clients!SaveTokenFails, C!SaveTokenFails,
     Clients!Record, C!Record, Clients!RecordAttempt, C!RecordAttempt,
     Clients!RecordSuccess, C!RecordSuccess, Clients!RecordFailure, C!RecordFailure,
     Clients!RefreshAccount, C!RefreshAccount, Clients!Settle, C!Settle,
     Clients!RefreshFails, C!RefreshFails, Clients!GrantedEmails, C!GrantedEmails,
     Clients!GrantGranted, C!GrantGranted, Clients!NextTry, C!NextTry,
     Clients!GrantError, C!GrantError, Clients!GrantReplyLost, C!GrantReplyLost,
     Clients!GrantRejected, C!GrantRejected, Clients!DueSlots, C!DueSlots,
     Clients!SweepFrom, C!SweepFrom, Clients!SweepUnchanged, C!SweepUnchanged,
     Clients!SweepStart, C!SweepStart, Clients!SweepResume, C!SweepResume,
     Clients!AgeAccounts, C!AgeAccounts, Clients!Tick, C!Tick, Clients!Restart,
     C!Restart, Clients!LoginStart, C!LoginStart, Clients!LoginFinish,
     C!LoginFinish, Clients!TokensInUse, C!TokensInUse, Clients!ManagerStep,
     C!ManagerStep, Clients!vars, C!vars, Clients!Init, C!Init, Clients!NoCall,
     C!NoCall, Clients!Idle, C!Idle, Clients!Sent, C!Sent, Clients!Close, C!Close,
     Clients!RecordOnly, C!RecordOnly, Clients!Begin, C!Begin, Clients!Succeed,
     C!Succeed, Clients!Fail, C!Fail, Clients!Drop, C!Drop, Clients!AskRefresh,
     C!AskRefresh, Clients!Answered, C!Answered, Clients!TakeAnswer, C!TakeAnswer,
     Clients!Refreshed, C!Refreshed, Clients!NotRefreshed, C!NotRefreshed,
     Clients!CallerStep, C!CallerStep, Clients!HeldTokens, C!HeldTokens,
     Clients!UnusedTokens, C!UnusedTokens, Clients!Crash, C!Crash, Clients!Next,
     C!Next

-----------------------------------------------------------------------------
(* The invariants *)

\* The call a request with these locals has open (CallsView, one at a time).
View(l) ==
    CASE l.pc \in {"sent", "streaming"} -> [phase |-> "sent", email |-> l.email, tok |-> l.tok]
      [] l.pc = "refreshing" -> [phase |-> "refreshing", email |-> l.email, tok |-> l.tok]
      [] OTHER -> C!NoCall

\* The inductive invariant of one request.  Each attempt sends once, and once more
\* after a refresh; the refresh is paid for by an account that was not in
\* refreshedAccounts, which is why a refreshing request must know it is not.
Frugal(l) ==
    /\ l \in Locals
    /\ l.pc \in {"pick", "delay"} => l.sends <= l.attempt + Cardinality(l.refreshed)
    /\ l.pc \in {"sent", "streaming", "refreshing"} =>
         /\ l.sends <= l.attempt + Cardinality(l.refreshed) + 1
         /\ l.email \in Names /\ l.tok \in Tokens
    /\ l.pc = "refreshing" => l.email \notin l.refreshed
    /\ l.pc = "done" => l.sends <= MaxRetries + Cardinality(l.refreshed)
AllFrugal == req \in [Callers -> Locals] /\ \A r \in Callers : Frugal(req[r])

\* The requests sent so far, told apart by their number; there are never more than
\* the loops may send together.
SendNumbers == 1..(MaxRetries + NNames)
Sends == {p \in Callers \X SendNumbers : p[2] <= req[p[1]].sends}

\* No copy of the counters holds more than n attempts.
AtMost(n) ==
    /\ \A s \in DOMAIN accounts : accounts[s].run.totalRequests <= n
    /\ \A e \in DOMAIN stateFile : stateFile[e].totalRequests <= n
    /\ login # NoLogin => \A s \in DOMAIN login.acc : login.acc[s].run.totalRequests <= n

IInv == C!TypeOK /\ AllFrugal /\ AtMost(Cardinality(Sends))

-----------------------------------------------------------------------------
(* The view of the calls *)

\* A call is open from the fetch to its outcome, and not between two attempts.
LEMMA ViewCases ==
  ASSUME NEW l
  PROVE  /\ l.pc \in {"sent", "streaming"} =>
              View(l) = [phase |-> "sent", email |-> l.email, tok |-> l.tok]
         /\ l.pc = "refreshing" =>
              View(l) = [phase |-> "refreshing", email |-> l.email, tok |-> l.tok]
         /\ l.pc \notin {"sent", "streaming", "refreshing"} => View(l) = C!NoCall
BY DEF View

\* CallsView, request by request.
LEMMA CallsViewed == CallsView = [r \in Callers |-> View(req[r])]
BY DEF CallsView, View, C!NoCall

\* Both specifications hand out the same new tokens.
LEMMA SameUnused ==
  ASSUME AllFrugal
  PROVE  C!UnusedTokens = UnusedTokens
<1>1. \A r \in Callers : /\ CallsView[r].phase # "idle" <=>
                              req[r].pc \in {"sent", "streaming", "refreshing"}
                         /\ CallsView[r].phase # "idle" => CallsView[r].tok = req[r].tok
  BY CallsViewed, ViewCases DEF C!NoCall
<1>2. C!HeldTokens = HeldTokens BY <1>1 DEF C!HeldTokens, C!Idle, HeldTokens
<1> QED BY <1>2, SameNames DEF C!UnusedTokens, UnusedTokens

\* Only the call of the request that moves can change.
LEMMA ViewMoves ==
  ASSUME AllFrugal, NEW r \in Callers, NEW l, req' = [req EXCEPT ![r] = l]
  PROVE  CallsView' = [CallsView EXCEPT ![r] = View(l)]
<1>1. \A q \in Callers : req'[q] = IF q = r THEN l ELSE req[q] BY DEF AllFrugal
<1>2. CallsView' = [q \in Callers |-> View(req'[q])] BY DEF CallsView, View, C!NoCall
<1> QED BY <1>1, <1>2, CallsViewed

-----------------------------------------------------------------------------
(* Counting what was sent *)

\* The loops together have only so many numbers to send under.
LEMMA SendsFinite ==
  /\ IsFiniteSet(Callers \X SendNumbers)
  /\ Cardinality(Callers \X SendNumbers) = Cardinality(Callers) * (MaxRetries + NNames)
<1>1. IsFiniteSet(Callers) /\ MaxRetries + NNames \in Nat
  BY RequestsAssumption, NamesAssumption
<1>2. IsFiniteSet(SendNumbers) /\ Cardinality(SendNumbers) = MaxRetries + NNames
  BY <1>1, FS_Interval DEF SendNumbers
<1> QED BY <1>1, <1>2, FS_Product

\* What was sent can be counted.
LEMMA SendsType ==
  IsFiniteSet(Sends) /\ Cardinality(Sends) \in Nat
BY SendsFinite, FS_Subset, FS_CardinalityType DEF Sends

\* refreshedAccounts holds each account once, so it is never larger than the list.
LEMMA RefreshedType ==
  ASSUME NEW S, S \subseteq Names
  PROVE  /\ IsFiniteSet(S) /\ Cardinality(S) \in Nat /\ Cardinality(S) <= NNames
         /\ \A e \in Names : Cardinality(S \cup {e}) =
              IF e \in S THEN Cardinality(S) ELSE Cardinality(S) + 1
<1>1. IsFiniteSet(Names) /\ Cardinality(Names) = NNames
  BY NamesAssumption, FS_Interval DEF Names
<1>2. IsFiniteSet(S) BY <1>1, FS_Subset
<1> QED BY <1>1, <1>2, FS_Subset, FS_CardinalityType, FS_AddElement

\* One more send is one more number, and one that was still free.
LEMMA SendCounts ==
  ASSUME AllFrugal, NEW r \in Callers, At(r, "pick"), NEW l, l.sends = req[r].sends + 1,
         req' = [req EXCEPT ![r] = l]
  PROVE  /\ Cardinality(Sends') = Cardinality(Sends) + 1
         /\ Cardinality(Sends) < Cardinality(Callers) * (MaxRetries + NNames)
<1> DEFINE p == <<r, req[r].sends + 1>>
<1>1. req[r].sends + 1 \in SendNumbers
  <2>1. /\ req[r].sends \in Nat /\ req[r].refreshed \subseteq Names
        /\ req[r].attempt \in 0..(MaxRetries - 1)
        /\ req[r].sends <= req[r].attempt + Cardinality(req[r].refreshed)
    BY DEF AllFrugal, Frugal, Locals, At
  <2>2. /\ Cardinality(req[r].refreshed) \in Nat
        /\ Cardinality(req[r].refreshed) <= NNames
    BY <2>1, RefreshedType
  <2> QED BY <2>1, <2>2, RequestsAssumption, NamesAssumption DEF SendNumbers
<1>2. p \in Callers \X SendNumbers /\ p \notin Sends /\ req[r].sends \in Nat
  BY <1>1 DEF Sends, AllFrugal, Locals
<1>3. Sends' = Sends \cup {p}
  <2>1. \A q \in Callers : /\ req'[q] = IF q = r THEN l ELSE req[q]
                           /\ req[q].sends \in Nat
    BY DEF AllFrugal, Locals
  <2>2. ASSUME NEW q \in Callers, NEW n \in SendNumbers
        PROVE  n <= req'[q].sends <=> n <= req[q].sends \/ (q = r /\ n = req[r].sends + 1)
    <3>1. n \in Int BY DEF SendNumbers
    <3>2. CASE q # r BY <2>1, <3>1, <3>2
    <3>3. CASE q = r BY <2>1, <3>1, <3>3
    <3> QED BY <3>2, <3>3
  <2>3. ASSUME NEW q \in Callers, NEW n \in SendNumbers
        PROVE  <<q, n>> \in Sends' <=> <<q, n>> \in Sends \cup {p}
    BY <2>2 DEF Sends
  <2>4. Sends' \subseteq Callers \X SendNumbers BY DEF Sends
  <2>5. Sends \cup {p} \subseteq Callers \X SendNumbers BY <1>2 DEF Sends
  <2> QED BY <2>3, <2>4, <2>5
<1>4. Cardinality(Sends') = Cardinality(Sends) + 1
  BY <1>2, <1>3, SendsType, FS_AddElement
<1>5. Sends' \subseteq Callers \X SendNumbers BY <1>2, <1>3 DEF Sends
<1>6. Cardinality(Sends') <= Cardinality(Callers) * (MaxRetries + NNames)
  BY <1>5, SendsFinite, FS_Subset
<1>7. Cardinality(Callers) * (MaxRetries + NNames) \in Nat
  BY SendsFinite, FS_CardinalityType
<1> QED BY <1>4, <1>6, <1>7, SendsType

\* A step that sends nothing leaves the count alone.
LEMMA SendsStay ==
  ASSUME \A r \in Callers : req'[r].sends = req[r].sends
  PROVE  Sends' = Sends
BY DEF Sends

-----------------------------------------------------------------------------
(* The counters of the manager *)

\* persistState writes no counter that memory does not hold.
LEMMA PersistAtMost ==
  ASSUME NEW acc, DOMAIN acc \subseteq Names, NEW n, NEW k, PersistState(acc, k),
         \A s \in DOMAIN acc : acc[s].run.totalRequests <= n,
         \A e \in DOMAIN stateFile : stateFile[e].totalRequests <= n
  PROVE  \A e \in DOMAIN stateFile' : stateFile'[e].totalRequests <= n
<1>1. \A e \in DOMAIN StateOf(acc) : \E s \in DOMAIN acc : StateOf(acc)[e] = acc[s].run
  BY C!StateOfEntries, SameAssumptions, SameNames
<1>2. stateFile' \in {StateOf(acc), stateFile, NoFile} BY DEF PersistState
<1>3. DOMAIN NoFile = {} BY DEF NoFile
<1> QED BY <1>1, <1>2, <1>3

\* A step that persists the list it leaves behind.
LEMMA ListAtMost ==
  ASSUME ManagerTypeOK, NEW n, AtMost(n), NEW k, login' = login,
         DOMAIN accounts' \subseteq Names,
         \A s \in DOMAIN accounts' : accounts'[s].run.totalRequests <= n,
         PersistState(accounts', k) \/ stateFile' = stateFile
  PROVE  AtMost(n)'
<1>1. \A e \in DOMAIN stateFile' : stateFile'[e].totalRequests <= n
  BY PersistAtMost DEF AtMost
<1> QED BY <1>1 DEF AtMost

\* An account whose counter stays, or a counter that has room for one more.
LEMMA ChangeAtMost ==
  ASSUME ManagerTypeOK, NEW n, AtMost(n), NEW s \in DOMAIN accounts, NEW run,
         Commit([accounts EXCEPT ![s].run = run]), run.totalRequests <= n, login' = login
  PROVE  AtMost(n)'
<1>1. accounts' = [accounts EXCEPT ![s].run = run] /\ PersistState(accounts', 0)
  BY DEF Commit
<1>2. /\ DOMAIN accounts' = DOMAIN accounts /\ DOMAIN accounts \subseteq Names
      /\ \A q \in DOMAIN accounts : accounts[q] \in Account
  BY <1>1 DEF ManagerTypeOK
<1>3. \A q \in DOMAIN accounts : accounts'[q].run = IF q = s THEN run ELSE accounts[q].run
  BY <1>1, <1>2 DEF Account
<1>4. \A q \in DOMAIN accounts' : accounts'[q].run.totalRequests <= n
  BY <1>2, <1>3 DEF AtMost
<1> QED BY <1>1, <1>2, <1>4, ListAtMost

\* A step that leaves every copy alone.
LEMMA StillAtMost ==
  ASSUME NEW n, AtMost(n), UNCHANGED <<accounts, stateFile, login>>
  PROVE  AtMost(n)'
BY DEF AtMost

\* getAccountByEmail finds an account of the list.
LEMMA HolderHeld ==
  ASSUME ManagerTypeOK, NEW e, Held(accounts, e)
  PROVE  SlotOf(accounts, e) \in DOMAIN accounts
<1>1. Holders(accounts, e) \subseteq Names /\ Holders(accounts, e) # {}
  BY DEF ManagerTypeOK, Holders, Held
<1>2. First(Holders(accounts, e)) \in Holders(accounts, e)
  BY <1>1, C!FirstIsMember, SameAssumptions, SameNames
<1> QED BY <1>2 DEF SlotOf, Holders

\* recordSuccess and recordFailure leave the counter of the attempts alone.
LEMMA OutcomeAtMost ==
  ASSUME ManagerTypeOK, NEW n, AtMost(n), NEW e, login' = login,
         RecordSuccess(e) \/ \E kind \in FailureKinds : RecordFailure(e, kind)
  PROVE  AtMost(n)'
<1>1. CASE ~Held(accounts, e)
  <2>1. UNCHANGED <<accounts, stateFile>>
    BY <1>1 DEF RecordSuccess, RecordFailure, Record
  <2> QED BY <2>1, StillAtMost
<1>2. CASE Held(accounts, e)
  <2> DEFINE s == SlotOf(accounts, e)
  <2>1. s \in DOMAIN accounts BY <1>2, HolderHeld
  <2>2. accounts[s].run \in Runtime BY <2>1 DEF ManagerTypeOK, Account
  <2>3. accounts[s].run.totalRequests <= n BY <2>1 DEF AtMost
  <2>4. CASE RecordSuccess(e)
    <3>1. Commit([accounts EXCEPT ![s].run = AfterSuccess(accounts[s].run)])
      BY <1>2, <2>4 DEF RecordSuccess, Record
    <3>2. AfterSuccess(accounts[s].run).totalRequests = accounts[s].run.totalRequests
      BY <2>2 DEF AfterSuccess, Runtime
    <3> QED BY <2>1, <2>3, <3>1, <3>2, ChangeAtMost
  <2>5. ASSUME NEW kind \in FailureKinds, RecordFailure(e, kind) PROVE AtMost(n)'
    <3>1. Commit([accounts EXCEPT ![s].run = AfterFailure(accounts[s].run, kind)])
      BY <1>2, <2>5 DEF RecordFailure, Record
    <3>2. AfterFailure(accounts[s].run, kind).totalRequests = accounts[s].run.totalRequests
      BY <2>2 DEF AfterFailure, Runtime
    <3> QED BY <2>1, <2>3, <3>1, <3>2, ChangeAtMost
  <2> QED BY <2>4, <2>5
<1> QED BY <1>1, <1>2

\* recordAttempt counts one.
LEMMA AttemptAtMost ==
  ASSUME ManagerTypeOK, NEW n \in Nat, AtMost(n), NEW e, login' = login, RecordAttempt(e)
  PROVE  AtMost(n + 1)'
<1>1. AtMost(n + 1)
  <2>1. \A s \in DOMAIN accounts : accounts[s].run.totalRequests \in Nat
    BY DEF ManagerTypeOK, Account, Runtime
  <2>2. \A f \in DOMAIN stateFile : stateFile[f].totalRequests \in Nat
    BY DEF ManagerTypeOK, Runtime
  <2>3. login # NoLogin => \A s \in DOMAIN login.acc : login.acc[s].run.totalRequests \in Nat
    BY DEF ManagerTypeOK, Account, Runtime
  <2> QED BY <2>1, <2>2, <2>3 DEF AtMost
<1>2. CASE ~Held(accounts, e)
  <2>1. UNCHANGED <<accounts, stateFile>> BY <1>2 DEF RecordAttempt, Record
  <2> QED BY <1>1, <2>1, StillAtMost
<1>3. CASE Held(accounts, e)
  <2> DEFINE s == SlotOf(accounts, e)
  <2>1. s \in DOMAIN accounts BY <1>3, HolderHeld
  <2>2. accounts[s].run \in Runtime BY <2>1 DEF ManagerTypeOK, Account
  <2>3. Commit([accounts EXCEPT ![s].run = AfterAttempt(accounts[s].run)])
    BY <1>3 DEF RecordAttempt, Record
  <2>4. AfterAttempt(accounts[s].run).totalRequests <= n + 1
    BY <2>1, <2>2 DEF AfterAttempt, Runtime, AtMost
  <2> QED BY <1>1, <2>1, <2>3, <2>4, ChangeAtMost
<1> QED BY <1>2, <1>3

\* load() reads the counters of state.json, or starts at 0.
LEMMA LoadedAtMost ==
  ASSUME NEW n \in Nat, AtMost(n)
  PROVE  \A s \in DOMAIN Loaded(tokenFiles, stateFile) :
            Loaded(tokenFiles, stateFile)[s].run.totalRequests <= n
BY DEF Loaded, AtMost, FreshRuntime

\* Without any request nothing is counted.
LEMMA ManagerAtMost ==
  ASSUME ManagerTypeOK, NEW n \in Nat, AtMost(n), NEW unused, ManagerStep(unused)
  PROVE  AtMost(n)'
<1> USE DEF ManagerTypeOK
<1>1. ASSUME NEW s \in DOMAIN refresh, GrantError(s) \/ GrantReplyLost(s) \/ GrantRejected(s)
      PROVE  AtMost(n)'
  <2>1. (NextTry(s) \/ RefreshFails(s)) /\ login' = login
    BY <1>1 DEF GrantError, GrantReplyLost, GrantRejected
  <2>2. CASE UNCHANGED <<accounts, stateFile>> BY <2>1, <2>2, StillAtMost
  <2>3. CASE RefreshFails(s)
    <3>1. s \in DOMAIN accounts OBVIOUS
    <3>2. accounts[s].run \in Runtime BY <3>1 DEF Account
    <3>3. AfterRefreshFailure(accounts[s].run).totalRequests <= n
      BY <3>1, <3>2 DEF AfterRefreshFailure, Runtime, AtMost
    <3>4. Commit([accounts EXCEPT ![s].run = AfterRefreshFailure(accounts[s].run)])
      BY <2>3 DEF RefreshFails
    <3> QED BY <2>1, <3>1, <3>3, <3>4, ChangeAtMost
  <2> QED BY <2>1, <2>2, <2>3 DEF NextTry
<1>2. ASSUME NEW s \in DOMAIN refresh, NEW t, GrantGranted(s, t) PROVE AtMost(n)'
  <2>1. s \in DOMAIN accounts /\ accounts[s].run \in Runtime /\ DOMAIN accounts \subseteq Names
    BY DEF Account
  <2>2. PICK e \in GrantedEmails(s) :
          LET pair == [id |-> t, life |-> Lifetime]
              fresh == [email |-> e, tok |-> pair, run |-> AfterNewToken(accounts[s].run)]
              failed == [fresh EXCEPT !.run = AfterRefreshFailure(@)]
          IN  \/ Commit([accounts EXCEPT ![s] = fresh])
              \/ /\ accounts' = [accounts EXCEPT ![s] = failed]
                 /\ PersistState([accounts EXCEPT ![s] = failed], 1)
    BY <1>2, Zenon DEF GrantGranted
  <2> DEFINE pair == [id |-> t, life |-> Lifetime]
             fresh == [email |-> e, tok |-> pair, run |-> AfterNewToken(accounts[s].run)]
             failed == [fresh EXCEPT !.run = AfterRefreshFailure(@)]
  <2>3. /\ fresh.run.totalRequests = accounts[s].run.totalRequests
        /\ failed.run.totalRequests = accounts[s].run.totalRequests
    BY <2>1 DEF AfterNewToken, AfterRefreshFailure, Runtime
  <2>4. login' = login BY <1>2 DEF GrantGranted
  <2> HIDE DEF pair, fresh, failed
  <2>5. \/ accounts' = [accounts EXCEPT ![s] = fresh] /\ PersistState(accounts', 0)
        \/ accounts' = [accounts EXCEPT ![s] = failed] /\ PersistState(accounts', 1)
    BY <2>2, Zenon DEF Commit, pair, fresh, failed
  <2>6. PICK a, k : /\ a.run.totalRequests = accounts[s].run.totalRequests
                    /\ accounts' = [accounts EXCEPT ![s] = a] /\ PersistState(accounts', k)
    BY <2>3, <2>5
  <2>7. DOMAIN accounts' = DOMAIN accounts
        /\ \A q \in DOMAIN accounts' : accounts'[q].run.totalRequests <= n
    BY <2>1, <2>6 DEF AtMost
  <2> QED BY <2>1, <2>4, <2>6, <2>7, ListAtMost
<1>3. CASE SweepStart \/ SweepResume
  BY <1>3, StillAtMost DEF SweepStart, SweepResume, SweepUnchanged, files
<1>4. CASE Tick
  <2>1. \A run \in Runtime : AgeRuntime(run).totalRequests = run.totalRequests
    BY DEF AgeRuntime, Runtime
  <2>2. \A a \in Account : [a EXCEPT !.tok = AgeToken(@), !.run = AgeRuntime(@)].run.totalRequests
                             = a.run.totalRequests
    BY <2>1 DEF Account
  <2>3. \A s \in DOMAIN accounts' : accounts'[s].run.totalRequests <= n
    BY <1>4, <2>2 DEF Tick, AgeAccounts, AtMost
  <2>4. \A e \in DOMAIN stateFile' : stateFile'[e].totalRequests <= n
    BY <1>4, <2>1 DEF Tick, AtMost
  <2>5. login' # NoLogin => \A s \in DOMAIN login'.acc : login'.acc[s].run.totalRequests <= n
    <3> SUFFICES ASSUME login # NoLogin
                 PROVE  \A s \in DOMAIN login'.acc : login'.acc[s].run.totalRequests <= n
      BY <1>4 DEF Tick
    <3>1. login'.acc = AgeAccounts(login.acc) BY <1>4 DEF Tick, LoginAt
    <3>2. \A s \in DOMAIN login.acc : login.acc[s] \in Account OBVIOUS
    <3>3. \A s \in DOMAIN login.acc :
            login'.acc[s] = [login.acc[s] EXCEPT !.tok = AgeToken(@), !.run = AgeRuntime(@)]
      BY <3>1 DEF AgeAccounts
    <3>4. \A s \in DOMAIN login.acc :
            login'.acc[s].run.totalRequests = login.acc[s].run.totalRequests
      BY <2>2, <3>2, <3>3
    <3>5. DOMAIN login'.acc = DOMAIN login.acc BY <3>1 DEF AgeAccounts
    <3> QED BY <3>4, <3>5 DEF AtMost
  <2> QED BY <2>3, <2>4, <2>5 DEF AtMost
<1>5. ASSUME NEW e \in Names, LoginStart(e) PROVE AtMost(n)'
  <2>1. /\ UNCHANGED <<accounts, stateFile>>
        /\ login' = LoginAt(e, Loaded(tokenFiles, stateFile))
    BY <1>5 DEF LoginStart, memory, files
  <2> QED BY <2>1, LoadedAtMost DEF AtMost, LoginAt
<1>6. ASSUME NEW t, LoginFinish(t) PROVE AtMost(n)'
  <2> DEFINE e == login.email
             pair == [id |-> t, life |-> Lifetime]
             acc == login.acc
             added == IF Held(acc, e)
                      THEN [acc EXCEPT ![SlotOf(acc, e)].tok = pair,
                                       ![SlotOf(acc, e)].run = AfterNewToken(@)]
                      ELSE Put(acc, e, [email |-> e, tok |-> pair, run |-> FreshRuntime])
  <2>1. /\ login # NoLogin /\ login' = NoLogin /\ UNCHANGED accounts
        /\ PersistState(added, 0) \/ UNCHANGED stateFile
    BY <1>6, Zenon DEF LoginFinish, memory
  <2>2. /\ DOMAIN acc \subseteq Names /\ e \in Names
        /\ acc \in [DOMAIN acc -> Account]
        /\ \A s \in DOMAIN acc : acc[s].run \in Runtime /\ acc[s].run.totalRequests <= n
    BY <2>1 DEF AtMost, Account
  <2> HIDE DEF pair, acc, e
  <2>3. DOMAIN added \subseteq Names /\ \A s \in DOMAIN added : added[s].run.totalRequests <= n
    <3>1. CASE Held(acc, e)
      <4>1. DOMAIN added = DOMAIN acc BY <3>1
      <4>2. \A s \in DOMAIN acc :
              added[s].run = IF s = SlotOf(acc, e) THEN AfterNewToken(acc[s].run)
                                                   ELSE acc[s].run
        BY <2>2, <3>1 DEF Account
      <4>3. \A run \in Runtime : AfterNewToken(run).totalRequests = run.totalRequests
        BY DEF AfterNewToken, Runtime
      <4> HIDE DEF added
      <4> QED BY <2>2, <4>1, <4>2, <4>3
    <3>2. CASE ~Held(acc, e)
      <4>1. added = Put(acc, e, [email |-> e, tok |-> pair, run |-> FreshRuntime]) BY <3>2
      <4> HIDE DEF added
      <4>2. \A s \in DOMAIN added :
              added[s].run = IF s = e THEN FreshRuntime ELSE acc[s].run
        BY <4>1 DEF Put
      <4>3. DOMAIN added = DOMAIN acc \cup {e} BY <4>1 DEF Put
      <4>4. FreshRuntime.totalRequests <= n BY DEF FreshRuntime
      <4> QED BY <2>2, <4>2, <4>3, <4>4
    <3> QED BY <3>1, <3>2
  <2> HIDE DEF added
  <2>4. \A f \in DOMAIN stateFile' : stateFile'[f].totalRequests <= n
    BY <2>1, <2>3, PersistAtMost DEF AtMost
  <2> QED BY <2>1, <2>4 DEF AtMost
<1> QED BY <1>1, <1>2, <1>3, <1>4, <1>5, <1>6 DEF ManagerStep

\* A restart forgets what was not persisted.
LEMMA RestartAtMost ==
  ASSUME NEW n \in Nat, AtMost(n), Restart
  PROVE  AtMost(n)'
BY LoadedAtMost DEF Restart, AtMost, files

-----------------------------------------------------------------------------
(* The steps of a request *)

\* The types of the locals the budget is about.
LEMMA FrugalType ==
  ASSUME NEW l, Frugal(l)
  PROVE  /\ l \in Locals /\ l.sends \in Nat /\ l.attempt \in 0..(MaxRetries - 1)
         /\ l.refreshed \subseteq Names /\ Cardinality(l.refreshed) \in Nat
<1>1. l \in Locals /\ l.refreshed \subseteq Names BY DEF Frugal, Locals
<1> QED BY <1>1, RefreshedType DEF Locals

\* A request moves, sends nothing and stays within its budget.
LEMMA OneMoves ==
  ASSUME AllFrugal, NEW r \in Callers, NEW l, Frugal(l), l.sends = req[r].sends,
         req' = [req EXCEPT ![r] = l]
  PROVE  AllFrugal' /\ Sends' = Sends /\ CallsView' = [CallsView EXCEPT ![r] = View(l)]
<1>1. \A q \in Callers : req'[q] = IF q = r THEN l ELSE req[q] BY DEF AllFrugal
<1>2. l \in Locals BY DEF Frugal
<1>3. AllFrugal' BY <1>1, <1>2 DEF AllFrugal
<1>4. Sends' = Sends BY <1>1, SendsStay
<1> QED BY <1>3, <1>4, ViewMoves

\* Whatever a request is doing, it has sent no more than it may.
LEMMA FrugalBudget ==
  ASSUME NEW l, Frugal(l)
  PROVE  l.sends <= MaxRetries + Cardinality(l.refreshed)
<1>1. l.pc \in {"pick", "sent", "streaming", "refreshing", "delay", "done"}
  BY DEF Frugal, Locals
<1> QED BY <1>1, FrugalType, RequestsAssumption DEF Frugal

\* What is left of a request that is over is within its budget.
LEMMA AnsweredFrugal ==
  ASSUME NEW r \in Callers, Frugal(req[r]), NEW a \in Answers
  PROVE  /\ Frugal(Answered(r, a)) /\ Answered(r, a).pc = "done"
         /\ Answered(r, a).sends = req[r].sends
<1> DEFINE l == Answered(r, a)
<1>1. /\ l \in Locals /\ l.pc = "done" /\ l.sends = req[r].sends
      /\ l.refreshed = req[r].refreshed
  <2>1. req[r] \in Locals BY DEF Frugal
  <2>2. 0 \in 0..(MaxRetries - 1) BY RequestsAssumption
  <2> QED BY <2>1, <2>2 DEF Locals, Answered
<1> HIDE DEF l
<1>2. Frugal(l) BY <1>1, FrugalBudget DEF Frugal
<1> QED BY <1>1, <1>2 DEF l

\* The handler returns: the call is closed.
LEMMA AnswerMoves ==
  ASSUME AllFrugal, NEW r \in Callers, NEW a \in Answers, Answer(r, a)
  PROVE  AllFrugal' /\ Sends' = Sends /\ C!Close(r)
<1> DEFINE l == Answered(r, a)
<1>1. Frugal(req[r]) BY DEF AllFrugal
<1>2. Frugal(l) /\ l.pc = "done" /\ l.sends = req[r].sends BY <1>1, AnsweredFrugal
<1>3. View(l) = C!NoCall BY <1>2, ViewCases
<1>4. req' = [req EXCEPT ![r] = l] BY DEF Answer
<1> HIDE DEF l
<1>5. /\ AllFrugal' /\ Sends' = Sends
      /\ CallsView' = [CallsView EXCEPT ![r] = View(l)]
  BY <1>1, <1>2, <1>4, OneMoves
<1> QED BY <1>3, <1>5 DEF C!Close

\* Another attempt, or the handler returns.
LEMMA RetryMoves ==
  ASSUME AllFrugal, NEW r \in Callers, At(r, "sent"), NEW a \in Answers, RetryOr(r, a)
  PROVE  AllFrugal' /\ Sends' = Sends /\ C!Close(r)
<1>1. CASE Answer(r, a) BY <1>1, AnswerMoves
<1>2. CASE req[r].attempt < MaxRetries - 1
  <2> DEFINE l == [req[r] EXCEPT !.pc = "delay", !.attempt = @ + 1]
  <2>1. req' = [req EXCEPT ![r].pc = "delay", ![r].attempt = @ + 1] BY <1>2 DEF RetryOr
  <2>2. req' = [req EXCEPT ![r] = l]
    <3>1. req[r] \in Locals /\ req \in [Callers -> Locals] BY DEF AllFrugal, Frugal
    <3>2. \A q \in Callers : req'[q] = IF q = r THEN l ELSE req[q] BY <2>1, <3>1 DEF Locals
    <3>3. req' = [q \in Callers |-> req'[q]] BY <2>1, <3>1
    <3> HIDE DEF l
    <3> QED BY <3>1, <3>2, <3>3
  <2>3. Frugal(req[r]) BY DEF AllFrugal
  <2>4. /\ l \in Locals /\ l.pc = "delay" /\ l.sends = req[r].sends
        /\ l.refreshed = req[r].refreshed /\ l.attempt = req[r].attempt + 1
    <3>1. req[r] \in Locals BY <2>3 DEF Frugal
    <3>2. req[r].attempt + 1 \in 0..(MaxRetries - 1)
      BY <1>2, <2>3, FrugalType, RequestsAssumption
    <3> QED BY <3>1, <3>2 DEF Locals
  <2>5. req[r].sends <= req[r].attempt + Cardinality(req[r].refreshed) + 1
    BY <2>3 DEF Frugal, At
  <2> HIDE DEF l
  <2>6. Frugal(l) BY <2>3, <2>4, <2>5, FrugalType DEF Frugal
  <2>7. View(l) = C!NoCall BY <2>4, ViewCases
  <2>8. /\ AllFrugal' /\ Sends' = Sends
        /\ CallsView' = [CallsView EXCEPT ![r] = View(l)]
    BY <2>2, <2>4, <2>6, OneMoves
  <2> QED BY <2>7, <2>8 DEF C!Close
<1> QED BY <1>1, <1>2 DEF RetryOr

\* A request goes on at pc, and its budget allows it there.
LEMMA GotoMoves ==
  ASSUME AllFrugal, NEW r \in Callers, NEW l, Frugal(l), l.sends = req[r].sends,
         req' = [req EXCEPT ![r] = l], View(l) = CallsView[r]
  PROVE  AllFrugal' /\ Sends' = Sends /\ UNCHANGED CallsView
<1>1. /\ AllFrugal' /\ Sends' = Sends
      /\ CallsView' = [CallsView EXCEPT ![r] = View(l)]
  BY OneMoves
<1> QED BY <1>1, CallsViewed

\* The head of the loop opens a call (getNextAccount, recordAttempt).
LEMMA SendMaps ==
  ASSUME IInv, NEW r \in Callers, Send(r)
  PROVE  AllFrugal' /\ AtMost(Cardinality(Sends))' /\ C!Begin(r)
<1>1. AllFrugal /\ AtMost(Cardinality(Sends)) /\ ManagerTypeOK
  BY SameManager DEF IInv, C!TypeOK
<1> DEFINE s == First(UsableSlots(accounts))
           a == accounts[s]
           l == [req[r] EXCEPT !.pc = "sent", !.email = a.email, !.tok = a.tok.id,
                               !.sends = @ + 1]
<1>2. /\ At(r, "pick") /\ UsableSlots(accounts) # {} /\ RecordAttempt(a.email) /\ Recorded
      /\ req' = [req EXCEPT ![r].pc = "sent", ![r].email = a.email,
                            ![r].tok = a.tok.id, ![r].sends = @ + 1]
  BY DEF Send
<1>3. s \in DOMAIN accounts /\ a.email \in Names /\ a.tok.id \in Tokens
  <2>1. UsableSlots(accounts) \subseteq Names BY <1>1 DEF ManagerTypeOK, UsableSlots
  <2>2. s \in UsableSlots(accounts)
    BY <1>2, <2>1, C!FirstIsMember, SameAssumptions, SameNames
  <2> QED BY <1>1, <2>2 DEF UsableSlots, ManagerTypeOK, Account, Token
<1>4. Frugal(req[r]) /\ req \in [Callers -> Locals] BY <1>1 DEF AllFrugal
<1>5. req' = [req EXCEPT ![r] = l]
  <2>1. \A q \in Callers : req'[q] = IF q = r THEN l ELSE req[q] BY <1>2, <1>4 DEF Locals
  <2>2. req' = [q \in Callers |-> req'[q]] BY <1>2, <1>4
  <2> HIDE DEF l
  <2> QED BY <1>4, <2>1, <2>2
<1>6. /\ l \in Locals /\ l.pc = "sent" /\ l.email = a.email /\ l.tok = a.tok.id
      /\ l.sends = req[r].sends + 1 /\ l.attempt = req[r].attempt
      /\ l.refreshed = req[r].refreshed
  <2>1. req[r] \in Locals BY <1>4 DEF Frugal
  <2>2. req[r].sends + 1 \in Nat BY <1>4, FrugalType
  <2> HIDE DEF a
  <2> QED BY <1>3, <2>1, <2>2 DEF Locals
<1> HIDE DEF l
<1>7. Frugal(l)
  <2>1. req[r].sends <= req[r].attempt + Cardinality(req[r].refreshed)
    BY <1>2, <1>4 DEF Frugal, At
  <2> QED BY <1>3, <1>4, <1>6, <2>1, FrugalType DEF Frugal
<1>8. AllFrugal'
  <2>1. \A q \in Callers : req'[q] = IF q = r THEN l ELSE req[q] BY <1>4, <1>5
  <2> QED BY <1>1, <1>5, <1>6, <1>7, <2>1 DEF AllFrugal
<1>9. /\ Cardinality(Sends') = Cardinality(Sends) + 1
      /\ Cardinality(Sends) < Cardinality(Callers) * (MaxRetries + NNames)
  BY <1>1, <1>2, <1>5, <1>6, SendCounts
<1>10. AtMost(Cardinality(Sends))'
  <2>1. PICK n \in Nat : n = Cardinality(Sends) BY SendsType
  <2>2. AtMost(n + 1)' BY <1>1, <1>2, <2>1, AttemptAtMost DEF Recorded, RecordOnly
  <2> QED BY <1>9, <2>1, <2>2
<1>11. C!Begin(r)
  <2>1. C!Idle(r)
    BY <1>2, CallsViewed, ViewCases DEF C!Idle, C!NoCall, At
  <2>2. CallsView' = [CallsView EXCEPT ![r] =
                        [phase |-> "sent", email |-> a.email, tok |-> a.tok.id]]
    <3>1. View(l) = [phase |-> "sent", email |-> a.email, tok |-> a.tok.id]
      BY <1>6, ViewCases
    <3>2. CallsView' = [CallsView EXCEPT ![r] = View(l)] BY <1>1, <1>5, ViewMoves
    <3> QED BY <3>1, <3>2
  <2>3. \A h \in Holders(accounts, a.email) :
           accounts[h].run.totalRequests < Cardinality(Callers) * (MaxRetries + NNames)
    <3>1. \A h \in DOMAIN accounts : /\ accounts[h].run.totalRequests \in Nat
                                     /\ accounts[h].run.totalRequests <= Cardinality(Sends)
      BY <1>1 DEF AtMost, ManagerTypeOK, Account, Runtime
    <3>2. Cardinality(Callers) * (MaxRetries + NNames) \in Nat
      BY SendsFinite, FS_CardinalityType
    <3>3. Cardinality(Sends) \in Nat BY SendsType
    <3> QED BY <1>9, <3>1, <3>2, <3>3 DEF Holders
  <2>4. C!RecordOnly /\ UNCHANGED answer BY <1>2 DEF Recorded, RecordOnly, C!RecordOnly
  <2>5. C!RecordAttempt(a.email) BY <1>2, SameManager
  <2> QED BY <1>2, <2>1, <2>2, <2>3, <2>4, <2>5, SameNames DEF C!Begin
<1> QED BY <1>8, <1>10, <1>11

\* Every step of a request is a step of a caller of AccountClients, or none, and
\* keeps to its budget.
LEMMA RequestMaps ==
  ASSUME IInv, NEW r \in Callers, RequestStep(r)
  PROVE  /\ AllFrugal' /\ AtMost(Cardinality(Sends))'
         /\ C!CallerStep(r) \/ UNCHANGED C!vars
<1>1. AllFrugal /\ AtMost(Cardinality(Sends)) /\ ManagerTypeOK /\ CallsView[r] = View(req[r])
  BY SameManager, CallsViewed DEF IInv, C!TypeOK
<1>2. Frugal(req[r]) /\ req \in [Callers -> Locals] BY <1>1 DEF AllFrugal
<1>3. PICK n \in Nat : n = Cardinality(Sends) BY SendsType
<1>4. At(r, "sent") \/ At(r, "streaming") => C!Sent(r) /\ CallsView[r].email = req[r].email
  BY <1>1, ViewCases DEF At, C!Sent
<1>5. ASSUME AllFrugal', Sends' = Sends, C!Close(r), C!Sent(r), NothingRecorded
      PROVE  AtMost(Cardinality(Sends))' /\ C!CallerStep(r)
  <2>1. AtMost(n)' BY <1>1, <1>3, <1>5, StillAtMost DEF NothingRecorded, managerVars
  <2>2. C!Drop(r) BY <1>5, SameNames DEF NothingRecorded, managerVars, C!Drop, C!managerVars
  <2> QED BY <1>3, <1>5, <2>1, <2>2 DEF C!CallerStep
<1>6. ASSUME AllFrugal', Sends' = Sends, C!Close(r), C!Sent(r), Recorded,
             RecordSuccess(CallsView[r].email)
      PROVE  AtMost(Cardinality(Sends))' /\ C!CallerStep(r)
  <2>1. AtMost(n)' BY <1>1, <1>3, <1>6, OutcomeAtMost DEF Recorded, RecordOnly
  <2>2. C!RecordOnly /\ UNCHANGED answer BY <1>6 DEF Recorded, RecordOnly, C!RecordOnly
  <2>3. C!RecordSuccess(CallsView[r].email) BY <1>6, SameManager
  <2>4. C!Succeed(r) BY <1>6, <2>2, <2>3 DEF C!Succeed
  <2> QED BY <1>3, <1>6, <2>1, <2>4 DEF C!CallerStep
<1>7. ASSUME AllFrugal', Sends' = Sends, C!Close(r), C!Sent(r), Recorded,
             NEW kind \in FailureKinds, RecordFailure(CallsView[r].email, kind)
      PROVE  AtMost(Cardinality(Sends))' /\ C!CallerStep(r)
  <2>1. AtMost(n)' BY <1>1, <1>3, <1>7, OutcomeAtMost DEF Recorded, RecordOnly
  <2>2. C!RecordOnly /\ UNCHANGED answer BY <1>7 DEF Recorded, RecordOnly, C!RecordOnly
  <2>3. C!RecordFailure(CallsView[r].email, kind) BY <1>7, SameManager
  <2>4. C!Fail(r) BY <1>7, <2>2, <2>3, SameNames DEF C!Fail
  <2> QED BY <1>3, <1>7, <2>1, <2>4 DEF C!CallerStep
<1>8. ASSUME NEW l, Frugal(l), l.sends = req[r].sends, req' = [req EXCEPT ![r] = l],
             View(l) = View(req[r]), NothingRecorded
      PROVE  AllFrugal' /\ AtMost(Cardinality(Sends))' /\ UNCHANGED C!vars
  <2>1. AllFrugal' /\ Sends' = Sends /\ UNCHANGED CallsView BY <1>1, <1>8, GotoMoves
  <2>2. AtMost(n)' BY <1>1, <1>3, <1>8, StillAtMost DEF NothingRecorded, managerVars
  <2>3. UNCHANGED C!vars
    BY <1>8, <2>1 DEF NothingRecorded, managerVars, C!vars, C!managerVars
  <2> QED BY <1>3, <2>1, <2>2, <2>3
<1>9. CASE Send(r) BY <1>9, SendMaps DEF C!CallerStep
<1>10. CASE NetworkError(r)
  <2>1. At(r, "sent") /\ RetryOr(r, "network") /\ "network" \in Answers
    BY <1>10 DEF NetworkError, Answers
  <2>2. AllFrugal' /\ Sends' = Sends /\ C!Close(r) BY <1>1, <2>1, RetryMoves
  <2>3. \/ NothingRecorded
        \/ RecordFailure(CallsView[r].email, "network") /\ Recorded
    BY <1>4, <1>10, <2>1 DEF NetworkError
  <2>4. "network" \in FailureKinds BY DEF FailureKinds
  <2> QED BY <1>4, <1>5, <1>7, <2>1, <2>2, <2>3, <2>4
<1>11. CASE JsonReply(r)
  <2>1. PICK a \in Answers : Answer(r, a) BY <1>11 DEF JsonReply, Answers
  <2>2. AllFrugal' /\ Sends' = Sends /\ C!Close(r) BY <1>1, <2>1, AnswerMoves
  <2>3. /\ At(r, "sent")
        /\ \/ NothingRecorded
           \/ RecordSuccess(req[r].email) /\ Recorded
           \/ RecordFailure(req[r].email, "server") /\ Recorded
    BY <1>11 DEF JsonReply
  <2>4. "server" \in FailureKinds BY DEF FailureKinds
  <2> QED BY <1>4, <1>5, <1>6, <1>7, <2>2, <2>3, <2>4
<1>12. CASE HttpError(r)
  <2>1. PICK status \in Statuses \ {"401"} :
          /\ IF FailureKind(status) = "none"
             THEN NothingRecorded
             ELSE RecordFailure(req[r].email, FailureKind(status)) /\ Recorded
          /\ IF status \in Retryable THEN RetryOr(r, status) ELSE Answer(r, status)
    BY <1>12 DEF HttpError
  <2>2. At(r, "sent") /\ status \in Answers BY <1>12 DEF HttpError, Answers
  <2>3. AllFrugal' /\ Sends' = Sends /\ C!Close(r)
    BY <1>1, <2>1, <2>2, AnswerMoves, RetryMoves
  <2>4. FailureKind(status) \in FailureKinds \cup {"none"}
    BY DEF FailureKind, FailureKinds
  <2> QED BY <1>4, <1>5, <1>7, <2>1, <2>2, <2>3, <2>4
<1>13. CASE NoBody(r)
  <2>1. At(r, "sent") /\ Answer(r, "cut off") /\ "cut off" \in Answers
    BY <1>13 DEF NoBody, Answers
  <2>2. AllFrugal' /\ Sends' = Sends /\ C!Close(r) BY <1>1, <2>1, AnswerMoves
  <2>3. NothingRecorded \/ (RecordFailure(CallsView[r].email, "network") /\ Recorded)
    BY <1>4, <1>13, <2>1 DEF NoBody
  <2>4. "network" \in FailureKinds BY DEF FailureKinds
  <2> QED BY <1>4, <1>5, <1>7, <2>1, <2>2, <2>3, <2>4
<1>14. CASE StreamCompletes(r)
  <2>1. At(r, "streaming") /\ Answer(r, "ok") /\ "ok" \in Answers
    BY <1>14 DEF StreamCompletes, Answers
  <2>2. AllFrugal' /\ Sends' = Sends /\ C!Close(r) BY <1>1, <2>1, AnswerMoves
  <2>3. NothingRecorded \/ (RecordSuccess(CallsView[r].email) /\ Recorded)
    BY <1>4, <1>14, <2>1 DEF StreamCompletes
  <2> QED BY <1>4, <1>5, <1>6, <2>1, <2>2, <2>3
<1>15. CASE StreamBreaks(r)
  <2>1. At(r, "streaming") /\ Answer(r, "cut off") /\ "cut off" \in Answers
    BY <1>15 DEF StreamBreaks, Answers
  <2>2. AllFrugal' /\ Sends' = Sends /\ C!Close(r) BY <1>1, <2>1, AnswerMoves
  <2>3. NothingRecorded \/ (RecordFailure(CallsView[r].email, "network") /\ Recorded)
    BY <1>4, <1>15, <2>1 DEF StreamBreaks
  <2>4. "network" \in FailureKinds BY DEF FailureKinds
  <2> QED BY <1>4, <1>5, <1>7, <2>1, <2>2, <2>3, <2>4
<1>16. CASE UnauthorizedAgain(r)
  <2>1. At(r, "sent") /\ Answer(r, "401") /\ "401" \in Answers
    BY <1>16 DEF UnauthorizedAgain, Answers, Statuses
  <2>2. AllFrugal' /\ Sends' = Sends /\ C!Close(r) BY <1>1, <2>1, AnswerMoves
  <2>3. RecordFailure(CallsView[r].email, "auth") /\ Recorded
    BY <1>4, <1>16, <2>1 DEF UnauthorizedAgain
  <2>4. "auth" \in FailureKinds BY DEF FailureKinds
  <2> QED BY <1>4, <1>7, <2>1, <2>2, <2>3, <2>4
<1>17. CASE Unavailable(r)
  <2>1. PICK a \in Answers : Answer(r, a) BY <1>17 DEF Unavailable, Answers
  <2>2. AllFrugal' /\ Sends' = Sends /\ C!Close(r) BY <1>1, <2>1, AnswerMoves
  <2>3. At(r, "pick") /\ NothingRecorded BY <1>17 DEF Unavailable
  <2>4. CallsView[r] = C!NoCall BY <1>1, <2>3, ViewCases DEF At
  <2>5. UNCHANGED CallsView BY <2>2, <2>4, CallsViewed DEF C!Close
  <2>6. AtMost(n)' BY <1>1, <1>3, <2>3, StillAtMost DEF NothingRecorded, managerVars
  <2>7. UNCHANGED C!vars
    BY <2>3, <2>5 DEF NothingRecorded, managerVars, C!vars, C!managerVars
  <2> QED BY <1>3, <2>2, <2>6, <2>7
<1>18. ASSUME NEW pc \in {"pick", "delay", "streaming", "sent", "refreshing"},
              NEW l, l \in Locals, l.pc = pc, l.sends = req[r].sends,
              l.attempt = req[r].attempt, l.refreshed = req[r].refreshed,
              l.email = req[r].email, l.tok = req[r].tok,
              \/ pc = "pick" /\ At(r, "delay")
              \/ pc = "streaming" /\ At(r, "sent")
              \/ /\ pc = "refreshing" /\ At(r, "sent")
                 /\ req[r].email \notin req[r].refreshed
       PROVE  Frugal(l)
  BY <1>2, <1>18 DEF Frugal, At
<1>19. CASE Wake(r)
  <2> DEFINE l == [req[r] EXCEPT !.pc = "pick"]
  <2>1. At(r, "delay") /\ NothingRecorded /\ req' = [req EXCEPT ![r] = l]
    BY <1>2, <1>19 DEF Wake, Goto
  <2>2. /\ l \in Locals /\ l.pc = "pick" /\ l.sends = req[r].sends
        /\ l.attempt = req[r].attempt /\ l.refreshed = req[r].refreshed
        /\ l.email = req[r].email /\ l.tok = req[r].tok
    BY <1>2 DEF Locals
  <2> HIDE DEF l
  <2>3. Frugal(l) BY <1>18, <2>1, <2>2
  <2>4. View(l) = View(req[r]) BY <2>1, <2>2, ViewCases DEF At
  <2> QED BY <1>8, <2>1, <2>2, <2>3, <2>4
<1>20. CASE StreamStarts(r)
  <2> DEFINE l == [req[r] EXCEPT !.pc = "streaming", !.answer = "ok"]
  <2>1. /\ At(r, "sent") /\ NothingRecorded
        /\ req' = [req EXCEPT ![r].pc = "streaming", ![r].answer = "ok"]
    BY <1>20 DEF StreamStarts
  <2>2. /\ l \in Locals /\ l.pc = "streaming" /\ l.sends = req[r].sends
        /\ l.attempt = req[r].attempt /\ l.refreshed = req[r].refreshed
        /\ l.email = req[r].email /\ l.tok = req[r].tok
    BY <1>2 DEF Locals, Answers
  <2>3. req' = [req EXCEPT ![r] = l]
    <3>1. \A q \in Callers : req'[q] = IF q = r THEN l ELSE req[q] BY <1>2, <2>1 DEF Locals
    <3>2. req' = [q \in Callers |-> req'[q]] BY <1>2, <2>1
    <3> HIDE DEF l
    <3> QED BY <1>2, <3>1, <3>2
  <2> HIDE DEF l
  <2>4. Frugal(l) BY <1>18, <2>1, <2>2
  <2>5. View(l) = View(req[r]) BY <2>1, <2>2, ViewCases DEF At
  <2> QED BY <1>8, <2>1, <2>2, <2>3, <2>4, <2>5
<1>21. CASE Unauthorized(r)
  <2> DEFINE l == [req[r] EXCEPT !.pc = "refreshing"]
  <2>1. /\ At(r, "sent") /\ req[r].email \notin req[r].refreshed
        /\ req' = [req EXCEPT ![r] = l]
        /\ RefreshAccount(r, req[r].email)
        /\ UNCHANGED <<accounts, files, sweep, live, login, netFaults, logins, restarts>>
    BY <1>2, <1>21 DEF Unauthorized, Goto
  <2>2. /\ l \in Locals /\ l.pc = "refreshing" /\ l.sends = req[r].sends
        /\ l.attempt = req[r].attempt /\ l.refreshed = req[r].refreshed
        /\ l.email = req[r].email /\ l.tok = req[r].tok
    BY <1>2 DEF Locals
  <2> HIDE DEF l
  <2>3. Frugal(l) BY <1>18, <2>1, <2>2
  <2>4. AllFrugal' /\ Sends' = Sends /\ CallsView' = [CallsView EXCEPT ![r] = View(l)]
    BY <1>1, <2>1, <2>2, <2>3, OneMoves
  <2>5. AtMost(n)' BY <1>1, <1>3, <2>1, StillAtMost DEF files
  <2>6. CallsView' = [CallsView EXCEPT ![r].phase = "refreshing"]
    <3>1. CallsView[r] = [phase |-> "sent", email |-> req[r].email, tok |-> req[r].tok]
      BY <1>1, <2>1, ViewCases DEF At
    <3>2. View(l) = [phase |-> "refreshing", email |-> req[r].email, tok |-> req[r].tok]
      BY <2>2, ViewCases
    <3>3. [CallsView[r] EXCEPT !.phase = "refreshing"] = View(l) BY <3>1, <3>2
    <3> QED BY <2>4, <3>3
  <2>7. C!RefreshAccount(r, CallsView[r].email) BY <1>4, <2>1, SameManager
  <2>8. UNCHANGED <<accounts, C!files, sweep, live, login, netFaults, logins, restarts>>
    BY <2>1, SameNames DEF files, C!files
  <2>9. C!AskRefresh(r) BY <1>4, <2>1, <2>6, <2>7, <2>8 DEF C!AskRefresh
  <2> QED BY <1>3, <2>4, <2>5, <2>9 DEF C!CallerStep
<1>22. At(r, "refreshing") => /\ CallsView[r].phase = "refreshing"
                              /\ CallsView[r].email = req[r].email
  BY <1>1, ViewCases DEF At
<1>23. CASE Refreshed(r)
  <2> DEFINE l == [req[r] EXCEPT !.pc = "pick", !.refreshed = @ \cup {req[r].email}]
  <2>1. /\ At(r, "refreshing") /\ answer[r] = "true" /\ TakeAnswer(r)
        /\ req' = [req EXCEPT ![r].pc = "pick", ![r].refreshed = @ \cup {req[r].email}]
        /\ UNCHANGED <<accounts, files>> /\ RecordOnly
    BY <1>23 DEF Refreshed, Awaited
  <2>2. /\ req[r].email \in Names /\ req[r].email \notin req[r].refreshed
        /\ req[r].sends <= req[r].attempt + Cardinality(req[r].refreshed) + 1
    BY <1>2, <2>1 DEF Frugal, At
  <2>3. /\ l \in Locals /\ l.pc = "pick" /\ l.sends = req[r].sends
        /\ l.attempt = req[r].attempt /\ l.refreshed = req[r].refreshed \cup {req[r].email}
    BY <1>2, <2>2 DEF Locals
  <2>4. req' = [req EXCEPT ![r] = l]
    <3>1. \A q \in Callers : req'[q] = IF q = r THEN l ELSE req[q] BY <1>2, <2>1 DEF Locals
    <3>2. req' = [q \in Callers |-> req'[q]] BY <1>2, <2>1
    <3> HIDE DEF l
    <3> QED BY <1>2, <3>1, <3>2
  <2> HIDE DEF l
  <2>5. Frugal(l)
    <3>1. Cardinality(l.refreshed) = Cardinality(req[r].refreshed) + 1
      BY <1>2, <2>2, <2>3, FrugalType, RefreshedType
    <3>2. l.sends <= l.attempt + Cardinality(l.refreshed)
      BY <1>2, <2>2, <2>3, <3>1, FrugalType
    <3> QED BY <2>3, <3>2 DEF Frugal
  <2>6. AllFrugal' /\ Sends' = Sends /\ CallsView' = [CallsView EXCEPT ![r] = View(l)]
    BY <1>1, <2>3, <2>4, <2>5, OneMoves
  <2>7. C!Close(r) BY <2>3, <2>6, ViewCases DEF C!Close
  <2>8. AtMost(n)' BY <1>1, <1>3, <2>1, StillAtMost DEF RecordOnly, files
  <2>9. C!Refreshed(r)
    BY <1>22, <2>1, <2>7
    DEF C!Refreshed, C!Answered, C!TakeAnswer, TakeAnswer, C!RecordOnly, RecordOnly,
        C!files, files
  <2> QED BY <1>3, <2>6, <2>8, <2>9 DEF C!CallerStep
<1>24. CASE NotRefreshed(r)
  <2>1. /\ At(r, "refreshing") /\ answer[r] = "false" /\ TakeAnswer(r)
        /\ Answer(r, "401") /\ "401" \in Answers
        /\ RecordFailure(req[r].email, "auth") /\ RecordOnly
    BY <1>24 DEF NotRefreshed, Awaited, Answers, Statuses
  <2>2. AllFrugal' /\ Sends' = Sends /\ C!Close(r) BY <1>1, <2>1, AnswerMoves
  <2>3. "auth" \in FailureKinds BY DEF FailureKinds
  <2>4. AtMost(n)' BY <1>1, <1>3, <2>1, <2>3, OutcomeAtMost DEF RecordOnly
  <2>5. C!RecordFailure(CallsView[r].email, "auth") BY <1>22, <2>1, SameManager
  <2>6. C!NotRefreshed(r)
    BY <1>22, <2>1, <2>2, <2>5
    DEF C!NotRefreshed, C!Answered, C!TakeAnswer, TakeAnswer, C!RecordOnly, RecordOnly
  <2> QED BY <1>3, <2>2, <2>4, <2>6 DEF C!CallerStep
<1> QED
  BY <1>9, <1>10, <1>11, <1>12, <1>13, <1>14, <1>15, <1>16, <1>17, <1>19, <1>20, <1>21,
     <1>23, <1>24
  DEF RequestStep

-----------------------------------------------------------------------------
(* The theorems *)

\* A server that has just started has sent nothing.
LEMMA StartsWithin ==
  ASSUME Init
  PROVE  IInv /\ C!Init
<1>1. /\ ManagerInit
      /\ req \in [Callers -> [pc : {"pick"}, mode : RequestModes, attempt : {0},
                              email : {0}, tok : {0}, refreshed : {{}},
                              sends : {0}, answer : {"none"}]]
  BY DEF Init
<1>2. AllFrugal
  <2> SUFFICES ASSUME NEW r \in Callers PROVE req[r] \in Locals /\ Frugal(req[r])
    BY <1>1 DEF AllFrugal
  <2>1. /\ req[r] \in [pc : {"pick"}, mode : RequestModes, attempt : {0}, email : {0},
                       tok : {0}, refreshed : {{}}, sends : {0}, answer : {"none"}]
        /\ 0 \in 0..(MaxRetries - 1) /\ RequestModes \subseteq Modes
    BY <1>1, RequestsAssumption
  <2>2. req[r] \in Locals
    <3>1. "none" \in Answers BY DEF Answers
    <3>2. req[r].mode \in Modes BY <2>1
    <3> QED BY <2>1, <3>1, <3>2 DEF Locals
  <2>3. /\ req[r].pc = "pick" /\ req[r].sends = 0 /\ req[r].attempt = 0
        /\ req[r].refreshed = {}
    BY <2>1
  <2> QED BY <2>2, <2>3, FS_EmptySet DEF Frugal
<1>3. C!Init
  <2>1. \A r \in Callers : CallsView[r] = C!NoCall
    BY <1>1, CallsViewed, ViewCases
  <2>2. CallsView = [r \in Callers |-> C!NoCall] BY <2>1, CallsViewed
  <2> QED BY <1>1, <2>2, SameManager DEF C!Init
<1>4. C!TypeOK BY <1>3, C!InitType, SameAssumptions
<1>5. AtMost(Cardinality(Sends))
  <2>1. Cardinality(Sends) \in Nat BY SendsType
  <2>2. /\ accounts = Loaded(tokenFiles, stateFile) /\ stateFile = NoFile /\ login = NoLogin
    BY <1>1 DEF ManagerInit
  <2> QED BY <2>1, <2>2 DEF AtMost, Loaded, NoFile, FreshRuntime
<1> QED BY <1>2, <1>3, <1>4, <1>5 DEF IInv

\* Every step keeps the invariant and is one that AccountClients allows.
LEMMA StepMaps ==
  ASSUME IInv, [Next]_vars
  PROVE  IInv' /\ [C!Next]_(C!vars)
<1>1. AllFrugal /\ AtMost(Cardinality(Sends)) /\ ManagerTypeOK /\ C!TypeOK
  BY SameManager DEF IInv, C!TypeOK
<1>2. PICK n \in Nat : n = Cardinality(Sends) BY SendsType
<1>3. /\ AllFrugal' /\ AtMost(Cardinality(Sends))'
      /\ C!Next \/ UNCHANGED C!vars
  <2>1. CASE \E r \in Callers : RequestStep(r) BY <2>1, RequestMaps DEF C!Next
  <2>2. CASE ManagerStep(UnusedTokens) /\ UNCHANGED req
    <3>1. AllFrugal' /\ UNCHANGED CallsView BY <1>1, <2>2 DEF AllFrugal, CallsView
    <3>2. Sends' = Sends BY <2>2, SendsStay
    <3>3. AtMost(n)' BY <1>1, <1>2, <2>2, ManagerAtMost
    <3>4. C!ManagerStep(C!UnusedTokens) BY <1>1, <2>2, SameUnused, SameManager
    <3> QED BY <1>2, <3>1, <3>2, <3>3, <3>4 DEF C!Next
  <2>3. CASE Crash
    <3>1. /\ Restart
          /\ req' = [r \in Callers |->
                       IF At(r, "done") THEN req[r] ELSE Answered(r, "cut off")]
      BY <2>3 DEF Crash
    <3>2. ASSUME NEW r \in Callers
          PROVE  /\ Frugal(req'[r]) /\ req'[r].sends = req[r].sends
                 /\ req'[r].pc = "done"
      <4>1. CASE At(r, "done") BY <1>1, <3>1, <4>1 DEF AllFrugal, At
      <4>2. CASE ~At(r, "done")
        <5>1. req'[r] = Answered(r, "cut off") BY <3>1, <4>2
        <5>2. Frugal(req[r]) BY <1>1 DEF AllFrugal
        <5>3. "cut off" \in Answers BY DEF Answers
        <5> QED BY <5>1, <5>2, <5>3, AnsweredFrugal
      <4> QED BY <4>1, <4>2
    <3>3. AllFrugal' BY <3>1, <3>2 DEF AllFrugal, Frugal
    <3>4. Sends' = Sends BY <3>2, SendsStay
    <3>5. AtMost(n)' BY <1>1, <1>2, <3>1, RestartAtMost
    <3>6. CallsView' = [r \in Callers |-> C!NoCall]
      <4>1. CallsView' = [r \in Callers |-> View(req'[r])]
        BY DEF CallsView, View, C!NoCall
      <4> QED BY <3>2, <4>1, ViewCases
    <3>7. C!Crash BY <3>1, <3>6, SameManager DEF C!Crash
    <3> QED BY <1>2, <3>3, <3>4, <3>5, <3>7 DEF C!Next
  <2>4. CASE UNCHANGED vars
    <3>1. AllFrugal' /\ UNCHANGED CallsView BY <1>1, <2>4 DEF AllFrugal, CallsView, vars
    <3>2. Sends' = Sends BY <2>4, SendsStay DEF vars
    <3>3. AtMost(n)' BY <1>1, <1>2, <2>4, StillAtMost DEF vars, managerVars
    <3> QED BY <1>2, <2>4, <3>1, <3>2, <3>3 DEF vars, managerVars, C!vars, C!managerVars
  <2> QED BY <2>1, <2>2, <2>3, <2>4 DEF Next
<1>4. C!TypeOK' BY <1>1, <1>3, C!NextType, SameAssumptions
<1> QED BY <1>3, <1>4 DEF IInv

\* The invariant of the proofs holds in every reachable state.
LEMMA IInvAlways == Spec => []IInv
<1>1. Init => IInv BY StartsWithin
<1>2. IInv /\ [Next]_vars => IInv' BY StepMaps
<1> QED BY <1>1, <1>2, PTL DEF Spec

\* Every behaviour of the loops is one of AccountClients, seen through CallsView.
LEMMA RequestsAreClients == Spec => C!Spec
<1>1. Init => C!Init BY StartsWithin
<1>2. IInv /\ [Next]_vars => [C!Next]_(C!vars) BY StepMaps
<1> QED BY <1>1, <1>2, IInvAlways, PTL DEF Spec, C!Spec

\* The locals of every request and the state of the manager stay well formed
\* (createChatCompletionsHandler and its three siblings, AccountManager).
THEOREM RequestsTypeCorrect == Spec => []TypeOK
<1>1. IInv => TypeOK BY SameManager DEF IInv, C!TypeOK, AllFrugal, TypeOK
<1> QED BY <1>1, IInvAlways, PTL

\* However replies, refreshes and other requests interleave, a request sends
\* upstream at most MAX_RETRIES times and once more for each account it got
\* refreshed (attempt-- is paid for by refreshedAccounts).
THEOREM SendsBounded == Spec => []SendsWithinBudget
<1>1. ASSUME IInv PROVE SendsWithinBudget
  <2> SUFFICES ASSUME NEW r \in Callers
               PROVE  req[r].sends <= MaxRetries + Cardinality(req[r].refreshed)
    BY DEF SendsWithinBudget
  <2>1. Frugal(req[r]) BY <1>1 DEF IInv, AllFrugal
  <2> QED BY <2>1, FrugalBudget
<1> QED BY <1>1, IInvAlways, PTL

\* The loops use the manager as AccountClients allows: per attempt one outcome at
\* most, a refresh only for an open attempt, and never more attempts on one account
\* than every request's retries and refreshes add up to.
THEOREM RequestsImplementClients == Spec => ImplementsClients
BY RequestsAreClients, SameClients, PTL DEF ImplementsClients, C!Spec, Clients!Spec

\* What AccountProofs shows of every implementation of AccountClients therefore holds
\* of the request loops.  A rotating refresh token is good once: unless a reply or a
\* write was lost, what performRefresh presents was never spent before, and so is
\* every token file.
THEOREM RequestsNeverBurnLogins == Spec => []LoginsStayRedeemable
<1>1. C!LoginsStayRedeemable => LoginsStayRedeemable
  BY DEF C!LoginsStayRedeemable, LoginsStayRedeemable
<1>2. C!Spec => []C!LoginsStayRedeemable
  BY C!LoginsAreNeverBurnt, SameAssumptions, PTL
<1> QED BY <1>1, <1>2, RequestsAreClients, PTL
=============================================================================
