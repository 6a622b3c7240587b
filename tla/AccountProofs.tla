---------------------------- MODULE AccountProofs ----------------------------
(* Proofs about AccountClients, for every value of the constants: type       *)
(* correctness, that a restart loses nothing, that whoever awaits a refresh  *)
(* is told its outcome, that no refresh token is presented twice, and that   *)
(* outcomes stay within the attempts.                                        *)
EXTENDS AccountClients, FiniteSetTheorems, WellFoundedInduction, TLAPS

-----------------------------------------------------------------------------
(* First and Last: a nonempty set of slots has a least and a greatest member. *)

\* A nonempty set of naturals has a least member; what First chooses exists.
LEMMA HasLeast ==
  ASSUME NEW S, S \subseteq Nat, S # {}
  PROVE  \E s \in S : \A t \in S : s <= t
<1> DEFINE R == OpToRel(<, Nat)
<1>1. PICK x \in S : \A y \in S : ~ (<<y, x>> \in R)
  BY NatLessThanWellFounded, WFMin, Zenon
<1>2. ASSUME NEW y \in S, y < x PROVE FALSE
  <2>1. <<y, x>> \in R BY <1>2 DEF OpToRel
  <2> QED BY <2>1, <1>1
<1>3. \A y \in S : x <= y
  <2> TAKE y \in S
  <2>1. ~(y < x) BY <1>2
  <2> QED BY <2>1
<1> QED BY <1>3

\* A nonempty set of slots has a greatest member; what Last chooses exists.
LEMMA HasGreatest ==
  ASSUME NEW S, NEW n \in Nat, S \subseteq 1..n, S # {}
  PROVE  \E s \in S : \A t \in S : t <= s
<1> DEFINE T == {n - s : s \in S}
<1>1. T \subseteq Nat
  <2> SUFFICES ASSUME NEW s \in S PROVE n - s \in Nat OBVIOUS
  <2> QED OBVIOUS
<1>2. T # {} OBVIOUS
<1>3. PICK m \in T : \A t \in T : m <= t BY <1>1, <1>2, HasLeast
<1>4. PICK s \in S : m = n - s OBVIOUS
<1>5. ASSUME NEW t \in S PROVE t <= s
  <2>1. n - t \in T OBVIOUS
  <2>2. m <= n - t BY <2>1, <1>3
  <2> HIDE DEF T
  <2> QED BY <2>2, <1>4
<1> QED BY <1>5

\* First picks a member (getAccountByEmail and getNextAccount return an account
\* of the list).
LEMMA FirstIsMember ==
  ASSUME NEW S, S \subseteq Names, S # {}
  PROVE  First(S) \in S
<1>1. S \subseteq Nat BY NamesAssumption DEF Names
<1> QED BY <1>1, HasLeast DEF First

\* Last picks a member (Object.fromEntries keeps an entry of the list).
LEMMA LastIsMember ==
  ASSUME NEW S, S \subseteq Names, S # {}
  PROVE  Last(S) \in S
<1> QED BY HasGreatest, NamesAssumption DEF Last, Names

-----------------------------------------------------------------------------
(* Types of the operators *)

\* A backoff is a natural number however often the code has failed.
LEMMA BackoffType ==
  ASSUME NEW x, NEW max \in Nat
  PROVE  Capped(x, max) \in Nat
BY DEF Capped

\* Every change of an account's runtime state yields a runtime state.
LEMMA RuntimeType ==
  ASSUME NEW run \in Runtime
  PROVE  /\ AfterAttempt(run) \in Runtime
         /\ AfterSuccess(run) \in Runtime
         /\ \A kind \in FailureKinds : AfterFailure(run, kind) \in Runtime
         /\ AfterNewToken(run) \in Runtime
         /\ AfterRefreshFailure(run) \in Runtime
         /\ AgeRuntime(run) \in Runtime
         /\ FreshRuntime \in Runtime
<1>1. AfterAttempt(run) \in Runtime BY DEF AfterAttempt, Runtime
<1>2. AfterSuccess(run) \in Runtime
  <2>1. run.totalSuccesses + 1 \in Nat BY DEF Runtime
  <2>2. \A n \in Nat : [run EXCEPT !.cool = 0, !.failureCount = 0, !.lastError = "none",
                                   !.totalSuccesses = n] \in Runtime
    BY DEF Runtime
  <2> QED BY <2>1, <2>2 DEF AfterSuccess
<1>3. ASSUME NEW kind \in FailureKinds PROVE AfterFailure(run, kind) \in Runtime
  <2>1. Backoff(BackoffBase[kind], BackoffMax[kind], run.failureCount + 1) \in Nat
    BY TimesAssumption, BackoffType DEF Backoff
  <2>2. run.failureCount + 1 \in Nat /\ run.totalFailures + 1 \in Nat BY DEF Runtime
  <2>3. \A n, m, d \in Nat : [run EXCEPT !.failureCount = n, !.totalFailures = m,
                                          !.lastError = kind, !.cool = d] \in Runtime
    BY DEF Runtime
  <2> QED BY <2>1, <2>2, <2>3 DEF AfterFailure
<1>4. AfterNewToken(run) \in Runtime BY DEF AfterNewToken, Runtime
<1>5. AfterRefreshFailure(run) \in Runtime
  <2>1. Backoff(RefreshFailBase, RefreshFailMax, run.refreshFailureCount + 1) \in Nat
    BY TimesAssumption, BackoffType DEF Backoff
  <2>2. Capped(run.refreshFailureCount + 1, MaxRefreshFailures) \in Nat
    BY RefreshFailuresAssumption, BackoffType
  <2> QED BY <2>1, <2>2 DEF AfterRefreshFailure, Runtime
<1>6. AgeRuntime(run) \in Runtime
  <2>1. Less(run.cool) \in Nat /\ Less(run.refreshBackoff) \in Nat BY DEF Runtime, Less
  <2>2. \A n, m \in Nat : [run EXCEPT !.cool = n, !.refreshBackoff = m] \in Runtime
    BY DEF Runtime
  <2> QED BY <2>1, <2>2 DEF AgeRuntime
<1>7. FreshRuntime \in Runtime BY DEF FreshRuntime, Runtime
<1> QED BY <1>1, <1>2, <1>3, <1>4, <1>5, <1>6, <1>7

\* A list of accounts, and a set of files.
IsAccounts(acc) == DOMAIN acc \subseteq Names /\ acc \in [DOMAIN acc -> Account]
IsTokens(f) == DOMAIN f \subseteq Names /\ f \in [DOMAIN f -> Token]
IsStates(f) == DOMAIN f \subseteq Names /\ f \in [DOMAIN f -> Runtime]

\* What load() builds from well-formed files is a well-formed list.
LEMMA LoadedType ==
  ASSUME NEW tokens, NEW states, IsTokens(tokens), IsStates(states)
  PROVE  IsAccounts(Loaded(tokens, states))
BY RuntimeType DEF IsAccounts, IsTokens, IsStates, Loaded, Account, FreshRuntime, Runtime

\* getAccountByEmail yields a slot that holds the email.
LEMMA SlotOfType ==
  ASSUME NEW acc, IsAccounts(acc), NEW e, Held(acc, e)
  PROVE  SlotOf(acc, e) \in DOMAIN acc /\ acc[SlotOf(acc, e)].email = e
<1>1. Holders(acc, e) \subseteq Names BY DEF Holders, IsAccounts
<1>2. SlotOf(acc, e) \in Holders(acc, e)
  BY <1>1, FirstIsMember DEF SlotOf, Held
<1> QED BY <1>2 DEF Holders

\* What persistState writes is a well-formed state file.
LEMMA StateOfType ==
  ASSUME NEW acc, IsAccounts(acc)
  PROVE  IsStates(StateOf(acc))
<1>1. ASSUME NEW s \in DOMAIN acc
      PROVE  acc[s].email \in Names /\ acc[s].run \in Runtime
  BY DEF IsAccounts, Account
<1>2. ASSUME NEW e \in {acc[s].email : s \in DOMAIN acc}
      PROVE  acc[Last(Holders(acc, e))].run \in Runtime
  <2>1. Holders(acc, e) # {} /\ Holders(acc, e) \subseteq Names
    BY DEF Holders, IsAccounts
  <2>2. Last(Holders(acc, e)) \in DOMAIN acc
    BY <2>1, LastIsMember DEF Holders
  <2> QED BY <2>2, <1>1
<1> QED BY <1>1, <1>2 DEF IsStates, StateOf

\* Changing one account's runtime state keeps the list well-formed.
LEMMA UpdateRunType ==
  ASSUME NEW acc, IsAccounts(acc), NEW s \in DOMAIN acc, NEW run \in Runtime
  PROVE  IsAccounts([acc EXCEPT ![s].run = run])
BY DEF IsAccounts, Account

-----------------------------------------------------------------------------
(* What the steps have in common *)

\* The effect of a record call: none, or a new runtime state for one account,
\* persisted.
ChangesRun ==
    \E s \in DOMAIN accounts, run \in Runtime : Commit([accounts EXCEPT ![s].run = run])
RecordEffect == UNCHANGED <<accounts, stateFile, diskFaults>> \/ ChangesRun

\* recordAttempt, recordSuccess and recordFailure have that effect.
LEMMA RecordsChangeRun ==
  ASSUME ManagerTypeOK, NEW e
  PROVE  /\ RecordAttempt(e) => RecordEffect
         /\ RecordSuccess(e) => RecordEffect
         /\ \A kind \in FailureKinds : RecordFailure(e, kind) => RecordEffect
<1>1. IsAccounts(accounts) BY DEF ManagerTypeOK, IsAccounts
<1>2. ASSUME Held(accounts, e)
      PROVE  /\ SlotOf(accounts, e) \in DOMAIN accounts
             /\ accounts[SlotOf(accounts, e)].run \in Runtime
  <2>1. SlotOf(accounts, e) \in DOMAIN accounts BY <1>1, <1>2, SlotOfType
  <2> QED BY <1>1, <2>1 DEF IsAccounts, Account
<1> DEFINE run == accounts[SlotOf(accounts, e)].run
<1>3. ASSUME RecordAttempt(e) PROVE RecordEffect
  <2>1. CASE Held(accounts, e)
    <3>1. AfterAttempt(run) \in Runtime BY <1>2, <2>1, RuntimeType
    <3> QED BY <1>2, <1>3, <2>1, <3>1 DEF RecordAttempt, Record, RecordEffect, ChangesRun
  <2>2. CASE ~Held(accounts, e)
    BY <1>3, <2>2 DEF RecordAttempt, Record, RecordEffect
  <2> QED BY <2>1, <2>2
<1>4. ASSUME RecordSuccess(e) PROVE RecordEffect
  <2>1. CASE Held(accounts, e)
    <3>1. AfterSuccess(run) \in Runtime BY <1>2, <2>1, RuntimeType
    <3> QED BY <1>2, <1>4, <2>1, <3>1 DEF RecordSuccess, Record, RecordEffect, ChangesRun
  <2>2. CASE ~Held(accounts, e)
    BY <1>4, <2>2 DEF RecordSuccess, Record, RecordEffect
  <2> QED BY <2>1, <2>2
<1>5. ASSUME NEW kind \in FailureKinds, RecordFailure(e, kind) PROVE RecordEffect
  <2>1. CASE Held(accounts, e)
    <3>1. AfterFailure(run, kind) \in Runtime BY <1>2, <2>1, RuntimeType
    <3> QED BY <1>2, <1>5, <2>1, <3>1 DEF RecordFailure, Record, RecordEffect, ChangesRun
  <2>2. CASE ~Held(accounts, e)
    BY <1>5, <2>2 DEF RecordFailure, Record, RecordEffect
  <2> QED BY <2>1, <2>2
<1> QED BY <1>3, <1>4, <1>5

\* persistState writes a well-formed file, or leaves one, within its bound.
LEMMA PersistType ==
  ASSUME ManagerTypeOK, NEW acc, IsAccounts(acc), NEW spent \in {0, 1},
         diskFaults + spent <= MaxDiskFaults, PersistState(acc, spent)
  PROVE  IsStates(stateFile') /\ diskFaults' \in 0..MaxDiskFaults
<1>1. IsStates(StateOf(acc)) BY StateOfType
<1>2. IsStates(stateFile) BY DEF ManagerTypeOK, IsStates
<1>3. IsStates(NoFile) BY DEF IsStates, NoFile
<1>4. stateFile' \in {StateOf(acc), stateFile, NoFile} BY DEF PersistState
<1>5. diskFaults' \in 0..MaxDiskFaults
  BY BoundsAssumption DEF ManagerTypeOK, PersistState
<1> QED BY <1>1, <1>2, <1>3, <1>4, <1>5

\* A record call keeps the types, the slots, the emails and the tokens.
LEMMA RecordEffectType ==
  ASSUME ManagerTypeOK, RecordEffect
  PROVE  /\ IsAccounts(accounts') /\ DOMAIN accounts' = DOMAIN accounts
         /\ IsStates(stateFile') /\ diskFaults' \in 0..MaxDiskFaults
<1>1. IsAccounts(accounts) /\ IsStates(stateFile) BY DEF ManagerTypeOK, IsAccounts, IsStates
<1>2. CASE UNCHANGED <<accounts, stateFile, diskFaults>>
  BY <1>1, <1>2 DEF ManagerTypeOK
<1>3. CASE ChangesRun
  <2>1. PICK s \in DOMAIN accounts, run \in Runtime : Commit([accounts EXCEPT ![s].run = run])
    BY <1>3 DEF ChangesRun
  <2>2. IsAccounts([accounts EXCEPT ![s].run = run]) BY <1>1, UpdateRunType
  <2>3. accounts' = [accounts EXCEPT ![s].run = run] BY <2>1 DEF Commit
  <2>4. diskFaults + 0 <= MaxDiskFaults BY BoundsAssumption DEF ManagerTypeOK
  <2>5. PersistState([accounts EXCEPT ![s].run = run], 0) BY <2>1 DEF Commit
  <2>6. IsStates(stateFile') /\ diskFaults' \in 0..MaxDiskFaults
    BY <2>2, <2>4, <2>5, PersistType
  <2> QED BY <2>2, <2>3, <2>6
<1> QED BY <1>2, <1>3 DEF RecordEffect

\* refreshAccount keeps the refreshes and answers well-formed.
LEMMA RefreshAccountType ==
  ASSUME ManagerTypeOK, NEW w \in Waiters, NEW e, RefreshAccount(w, e)
  PROVE  /\ DOMAIN refresh' \subseteq DOMAIN accounts
         /\ refresh' \in [DOMAIN refresh' -> RefreshInFlight]
         /\ answer' \in [Waiters -> {"none", "true", "false"}]
<1>1. answer' \in [Waiters -> {"none", "true", "false"}]
  BY DEF RefreshAccount, ManagerTypeOK
<1>2. CASE ~Held(accounts, e)
  BY <1>1, <1>2 DEF RefreshAccount, ManagerTypeOK
<1>3. CASE Held(accounts, e)
  <2> DEFINE s == SlotOf(accounts, e)
  <2>1. s \in DOMAIN accounts /\ accounts[s].tok.id \in Tokens
    <3>1. IsAccounts(accounts) BY DEF ManagerTypeOK, IsAccounts
    <3>2. s \in DOMAIN accounts BY <1>3, <3>1, SlotOfType
    <3> QED BY <3>1, <3>2 DEF IsAccounts, Account, Token
  <2> HIDE DEF s
  <2>2. CASE s \in DOMAIN refresh
    <3>1. refresh' = [refresh EXCEPT ![s].waiters = @ \cup {w}]
      BY <1>3, <2>2 DEF RefreshAccount, s
    <3>2. refresh \in [DOMAIN refresh -> RefreshInFlight] /\ DOMAIN refresh \subseteq DOMAIN accounts
      BY DEF ManagerTypeOK
    <3> QED BY <1>1, <2>2, <3>1, <3>2 DEF RefreshInFlight
  <2>3. CASE s \notin DOMAIN refresh
    <3>1. refresh' = Put(refresh, s, [tok |-> accounts[s].tok.id, try |-> 1, waiters |-> {w}])
      BY <1>3, <2>3 DEF RefreshAccount, s
    <3>2. [tok |-> accounts[s].tok.id, try |-> 1, waiters |-> {w}] \in RefreshInFlight
      BY <2>1, GrantAssumption DEF RefreshInFlight
    <3>3. refresh \in [DOMAIN refresh -> RefreshInFlight] /\ DOMAIN refresh \subseteq DOMAIN accounts
      BY DEF ManagerTypeOK
    <3> QED BY <1>1, <2>1, <3>1, <3>2, <3>3 DEF Put
  <2> QED BY <2>2, <2>3
<1> QED BY <1>2, <1>3

\* Settling a refresh removes it and answers those who waited.
LEMMA SettleType ==
  ASSUME ManagerTypeOK, NEW s \in DOMAIN refresh, NEW result \in {"true", "false"},
         Settle(s, result)
  PROVE  /\ DOMAIN refresh' \subseteq DOMAIN refresh
         /\ refresh' \in [DOMAIN refresh' -> RefreshInFlight]
         /\ answer' \in [Waiters -> {"none", "true", "false"}]
BY DEF Settle, Without, ManagerTypeOK

-----------------------------------------------------------------------------
(* Type correctness *)

\* A granted refresh keeps the types, whether saveToken succeeds or throws.
LEMMA GrantGrantedType ==
  ASSUME ManagerTypeOK, NEW s \in DOMAIN refresh, NEW t \in Tokens, GrantGranted(s, t)
  PROVE  ManagerTypeOK'
<1>1. s \in DOMAIN accounts /\ IsAccounts(accounts) /\ IsTokens(tokenFiles)
  BY DEF ManagerTypeOK, IsAccounts, IsTokens
<1>2. PICK e \in GrantedEmails(s) :
        LET pair == [id |-> t, life |-> Lifetime]
            fresh == [email |-> e, tok |-> pair, run |-> AfterNewToken(accounts[s].run)]
            failed == [fresh EXCEPT !.run = AfterRefreshFailure(@)]
        IN  \/ /\ tokenFiles' = Put(tokenFiles, e, pair)
               /\ Commit([accounts EXCEPT ![s] = fresh])
               /\ Settle(s, "true")
            \/ /\ SaveTokenFails(e)
               /\ accounts' = [accounts EXCEPT ![s] = failed]
               /\ PersistState([accounts EXCEPT ![s] = failed], 1)
               /\ Settle(s, "false")
  BY Zenon DEF GrantGranted
<1> DEFINE pair == [id |-> t, life |-> Lifetime]
           fresh == [email |-> e, tok |-> pair, run |-> AfterNewToken(accounts[s].run)]
           failed == [fresh EXCEPT !.run = AfterRefreshFailure(@)]
<1>3. e \in Names
  BY <1>1, NamesAssumption DEF GrantedEmails, IsAccounts, Account
<1>4. pair \in Token BY TimesAssumption DEF Token
<1>5. accounts[s].run \in Runtime BY <1>1 DEF IsAccounts, Account
<1>6. fresh \in Account /\ failed \in Account
  <2>1. AfterNewToken(accounts[s].run) \in Runtime BY <1>5, RuntimeType
  <2>2. AfterRefreshFailure(AfterNewToken(accounts[s].run)) \in Runtime
    BY <2>1, RuntimeType
  <2> QED BY <1>3, <1>4, <2>1, <2>2 DEF Account
<1> HIDE DEF fresh, failed, pair
<1>7. IsAccounts([accounts EXCEPT ![s] = fresh]) /\ IsAccounts([accounts EXCEPT ![s] = failed])
  BY <1>1, <1>6 DEF IsAccounts
<1>8. live' \subseteq Tokens BY DEF GrantGranted, ManagerTypeOK
<1>9. UNCHANGED <<sweep, login, netFaults, logins, restarts>> BY DEF GrantGranted
<1>10. CASE /\ tokenFiles' = Put(tokenFiles, e, pair)
            /\ Commit([accounts EXCEPT ![s] = fresh])
            /\ Settle(s, "true")
  <2>1. accounts' = [accounts EXCEPT ![s] = fresh] BY <1>10 DEF Commit
  <2>2. IsTokens(tokenFiles') BY <1>1, <1>3, <1>4, <1>10 DEF IsTokens, Put
  <2>3. diskFaults + 0 <= MaxDiskFaults BY BoundsAssumption DEF ManagerTypeOK
  <2>4. IsStates(stateFile') /\ diskFaults' \in 0..MaxDiskFaults
    BY <1>7, <1>10, <2>3, PersistType DEF Commit
  <2>5. /\ DOMAIN refresh' \subseteq DOMAIN refresh
        /\ refresh' \in [DOMAIN refresh' -> RefreshInFlight]
        /\ answer' \in [Waiters -> {"none", "true", "false"}]
    BY <1>10, SettleType
  <2>6. DOMAIN accounts' = DOMAIN accounts BY <2>1
  <2> QED BY <1>7, <1>8, <1>9, <2>1, <2>2, <2>4, <2>5, <2>6
          DEF ManagerTypeOK, IsAccounts, IsTokens, IsStates
<1>11. CASE /\ SaveTokenFails(e)
            /\ accounts' = [accounts EXCEPT ![s] = failed]
            /\ PersistState([accounts EXCEPT ![s] = failed], 1)
            /\ Settle(s, "false")
  <2>2. IsTokens(tokenFiles') BY <1>1, <1>11 DEF SaveTokenFails, IsTokens, Without
  <2>3. diskFaults + 1 <= MaxDiskFaults
    BY <1>11, BoundsAssumption DEF ManagerTypeOK, SaveTokenFails
  <2>4. IsStates(stateFile') /\ diskFaults' \in 0..MaxDiskFaults
    BY <1>7, <1>11, <2>3, PersistType
  <2>5. /\ DOMAIN refresh' \subseteq DOMAIN refresh
        /\ refresh' \in [DOMAIN refresh' -> RefreshInFlight]
        /\ answer' \in [Waiters -> {"none", "true", "false"}]
    BY <1>11, SettleType
  <2>6. DOMAIN accounts' = DOMAIN accounts BY <1>11
  <2> QED BY <1>7, <1>8, <1>9, <1>11, <2>2, <2>4, <2>5, <2>6
          DEF ManagerTypeOK, IsAccounts, IsTokens, IsStates
<1> QED BY <1>2, <1>10, <1>11, Zenon DEF fresh, failed, pair

\* The catch branch of performRefresh is a record call that settles.
LEMMA RefreshFailsType ==
  ASSUME ManagerTypeOK, NEW s \in DOMAIN refresh, RefreshFails(s)
  PROVE  /\ IsAccounts(accounts') /\ DOMAIN accounts' = DOMAIN accounts
         /\ IsStates(stateFile') /\ diskFaults' \in 0..MaxDiskFaults
         /\ DOMAIN refresh' \subseteq DOMAIN refresh
         /\ refresh' \in [DOMAIN refresh' -> RefreshInFlight]
         /\ answer' \in [Waiters -> {"none", "true", "false"}]
<1>1. s \in DOMAIN accounts /\ accounts[s].run \in Runtime
  BY DEF ManagerTypeOK, Account
<1>2. AfterRefreshFailure(accounts[s].run) \in Runtime BY <1>1, RuntimeType
<1>3. RecordEffect
  BY <1>1, <1>2 DEF RefreshFails, RecordEffect, ChangesRun
<1>4. Settle(s, "false") BY DEF RefreshFails
<1> QED BY <1>3, <1>4, RecordEffectType, SettleType

\* So is another try, or the last one.
LEMMA NextTryType ==
  ASSUME ManagerTypeOK, NEW s \in DOMAIN refresh, NextTry(s) \/ RefreshFails(s)
  PROVE  /\ IsAccounts(accounts') /\ DOMAIN accounts' = DOMAIN accounts
         /\ IsStates(stateFile') /\ diskFaults' \in 0..MaxDiskFaults
         /\ DOMAIN refresh' \subseteq DOMAIN refresh
         /\ refresh' \in [DOMAIN refresh' -> RefreshInFlight]
         /\ answer' \in [Waiters -> {"none", "true", "false"}]
<1>1. CASE RefreshFails(s) BY <1>1, RefreshFailsType
<1>2. CASE NextTry(s) /\ ~RefreshFails(s)
  <2>1. /\ refresh[s].try < MaxGrantTries
        /\ refresh' = [refresh EXCEPT ![s].try = @ + 1]
        /\ UNCHANGED <<accounts, answer, stateFile, diskFaults>>
    BY <1>2 DEF NextTry
  <2>2. refresh[s].try + 1 \in 1..MaxGrantTries
    BY <2>1, GrantAssumption DEF ManagerTypeOK, RefreshInFlight
  <2>3. refresh' \in [DOMAIN refresh -> RefreshInFlight]
    BY <2>1, <2>2 DEF ManagerTypeOK, RefreshInFlight
  <2> QED BY <2>1, <2>3 DEF ManagerTypeOK, IsAccounts, IsStates
<1> QED BY <1>1, <1>2

\* A token request that fails, is lost or is rejected keeps the types.
LEMMA GrantFailsType ==
  ASSUME ManagerTypeOK, NEW s \in DOMAIN refresh,
         GrantError(s) \/ GrantReplyLost(s) \/ GrantRejected(s)
  PROVE  ManagerTypeOK'
<1>1. NextTry(s) \/ RefreshFails(s)
  BY DEF GrantError, GrantReplyLost, GrantRejected
<1>2. /\ IsAccounts(accounts') /\ DOMAIN accounts' = DOMAIN accounts
      /\ IsStates(stateFile') /\ diskFaults' \in 0..MaxDiskFaults
      /\ DOMAIN refresh' \subseteq DOMAIN refresh
      /\ refresh' \in [DOMAIN refresh' -> RefreshInFlight]
      /\ answer' \in [Waiters -> {"none", "true", "false"}]
  BY <1>1, NextTryType
<1>3. /\ netFaults' \in 0..MaxNetFaults /\ live' \subseteq Tokens
      /\ UNCHANGED <<sweep, tokenFiles, login, logins, restarts>>
  BY BoundsAssumption DEF GrantError, GrantReplyLost, GrantRejected, ManagerTypeOK
<1> QED BY <1>2, <1>3 DEF ManagerTypeOK, IsAccounts, IsStates

\* The login conjunct of the type invariant.
LoginOK == \/ login = NoLogin
           \/ /\ login = LoginAt(login.email, login.acc) /\ login.email \in Names
              /\ IsAccounts(login.acc)

\* A pass of refreshAll keeps the types: it waits for slots of the list.
LEMMA SweepType ==
  ASSUME ManagerTypeOK, SweepStart \/ SweepResume
  PROVE  ManagerTypeOK'
<1>1. PICK p \in Int : SweepFrom(p) /\ SweepUnchanged
  BY DEF SweepStart, SweepResume, ManagerTypeOK, Names
<1> DEFINE due == {s \in DueSlots : s >= p}
<1>2. CASE due = {}
  <2>1. sweep' = 0 /\ answer' = [answer EXCEPT ![Sweep] = "none"] /\ UNCHANGED refresh
    BY <1>1, <1>2 DEF SweepFrom
  <2> QED BY <1>1, <2>1 DEF SweepUnchanged, files, ManagerTypeOK
<1>3. CASE due # {}
  <2>1. First(due) \in Names
    <3>1. due \subseteq Names BY DEF DueSlots, ManagerTypeOK
    <3> QED BY <1>3, <3>1, FirstIsMember
  <2>2. sweep' = First(due) /\ RefreshAccount(Sweep, accounts[First(due)].email)
    BY <1>1, <1>3 DEF SweepFrom
  <2>3. /\ DOMAIN refresh' \subseteq DOMAIN accounts
        /\ refresh' \in [DOMAIN refresh' -> RefreshInFlight]
        /\ answer' \in [Waiters -> {"none", "true", "false"}]
    BY <2>2, RefreshAccountType DEF Waiters
  <2> HIDE DEF due
  <2> QED BY <1>1, <2>1, <2>2, <2>3 DEF SweepUnchanged, files, ManagerTypeOK
<1> QED BY <1>2, <1>3

\* A unit of time leaves tokens and runtime states well-formed.
LEMMA AgeType ==
  ASSUME NEW acc, IsAccounts(acc)
  PROVE  IsAccounts(AgeAccounts(acc)) /\ DOMAIN AgeAccounts(acc) = DOMAIN acc
<1>1. ASSUME NEW a \in Account PROVE [a EXCEPT !.tok = AgeToken(@), !.run = AgeRuntime(@)] \in Account
  <2>1. AgeToken(a.tok) \in Token BY DEF Account, Token, AgeToken, Less
  <2>2. AgeRuntime(a.run) \in Runtime BY RuntimeType DEF Account
  <2>3. \A tok \in Token, run \in Runtime : [a EXCEPT !.tok = tok, !.run = run] \in Account
    BY DEF Account
  <2> QED BY <2>1, <2>2, <2>3
<1> QED BY <1>1 DEF AgeAccounts, IsAccounts

\* A unit of time keeps the types.
LEMMA TickType ==
  ASSUME ManagerTypeOK, Tick
  PROVE  ManagerTypeOK'
<1>1. IsAccounts(accounts') /\ DOMAIN accounts' = DOMAIN accounts
  BY AgeType DEF Tick, ManagerTypeOK, IsAccounts
<1>2. IsTokens(tokenFiles')
  <2>1. \A tok \in Token : AgeToken(tok) \in Token BY DEF Token, AgeToken, Less
  <2> QED BY <2>1 DEF Tick, ManagerTypeOK, IsTokens
<1>3. IsStates(stateFile')
  <2>1. \A run \in Runtime : AgeRuntime(run) \in Runtime BY RuntimeType
  <2> QED BY <2>1 DEF Tick, ManagerTypeOK, IsStates
<1>4. LoginOK'
  <2>1. CASE login = NoLogin BY <2>1 DEF Tick, LoginOK
  <2>2. CASE login # NoLogin
    <3>1. IsAccounts(login.acc) /\ login.email \in Names
      BY <2>2 DEF ManagerTypeOK, IsAccounts
    <3>2. login' = LoginAt(login.email, AgeAccounts(login.acc)) BY <2>2 DEF Tick
    <3>3. IsAccounts(AgeAccounts(login.acc)) BY <3>1, AgeType
    <3> QED BY <3>1, <3>2, <3>3 DEF LoginOK, LoginAt
  <2> QED BY <2>1, <2>2
<1>5. UNCHANGED <<refresh, answer, sweep, live, netFaults, diskFaults, logins, restarts>>
  BY DEF Tick
<1> QED BY <1>1, <1>2, <1>3, <1>4, <1>5
        DEF ManagerTypeOK, LoginOK, IsAccounts, IsTokens, IsStates

\* What a new process loads from well-formed files is well-typed.
LEMMA RestartType ==
  ASSUME ManagerTypeOK, Restart
  PROVE  ManagerTypeOK'
<1>1. IsAccounts(Loaded(tokenFiles, stateFile))
  BY LoadedType DEF ManagerTypeOK, IsTokens, IsStates
<1>2. restarts' \in 0..MaxRestarts BY BoundsAssumption DEF ManagerTypeOK, Restart
<1> QED BY <1>1, <1>2 DEF ManagerTypeOK, Restart, files, IsAccounts, NoRefresh, NoAnswer

\* A login process starts on a well-formed list.
LEMMA LoginStartType ==
  ASSUME ManagerTypeOK, NEW e \in Names, LoginStart(e)
  PROVE  ManagerTypeOK'
<1>1. IsAccounts(Loaded(tokenFiles, stateFile))
  BY LoadedType DEF ManagerTypeOK, IsTokens, IsStates
<1>2. logins' \in 0..MaxLogins BY BoundsAssumption DEF ManagerTypeOK, LoginStart
<1>3. LoginOK' BY <1>1 DEF LoginStart, LoginOK, LoginAt
<1> QED BY <1>2, <1>3 DEF ManagerTypeOK, LoginOK, LoginStart, memory, files, IsAccounts

\* addAccount in the login process leaves well-formed files.
LEMMA LoginFinishType ==
  ASSUME ManagerTypeOK, NEW t \in Tokens, LoginFinish(t)
  PROVE  ManagerTypeOK'
<1> DEFINE e == login.email
           pair == [id |-> t, life |-> Lifetime]
           acc == login.acc
           added == IF Held(acc, e)
                    THEN [acc EXCEPT ![SlotOf(acc, e)].tok = pair,
                                     ![SlotOf(acc, e)].run = AfterNewToken(@)]
                    ELSE Put(acc, e, [email |-> e, tok |-> pair, run |-> FreshRuntime])
<1>1. e \in Names /\ IsAccounts(acc) BY DEF LoginFinish, ManagerTypeOK, IsAccounts
<1>2. pair \in Token BY TimesAssumption DEF Token
<1>3. IsAccounts(added)
  <2>1. CASE Held(acc, e)
    <3> DEFINE s == SlotOf(acc, e)
    <3>1. s \in DOMAIN acc /\ acc[s] \in Account BY <1>1, <2>1, SlotOfType DEF IsAccounts
    <3>2. AfterNewToken(acc[s].run) \in Runtime BY <3>1, RuntimeType DEF Account
    <3>3. added = [acc EXCEPT ![s].tok = pair, ![s].run = AfterNewToken(@)]
      BY <2>1
    <3> HIDE DEF added, pair, s, acc
    <3>4. acc[s].tok \in Token BY <3>1 DEF Account
    <3>5. \A tok \in Token, run \in Runtime :
             IsAccounts([acc EXCEPT ![s].tok = tok, ![s].run = run])
      BY <1>1, <3>1 DEF IsAccounts, Account
    <3>6. added = [acc EXCEPT ![s].tok = pair, ![s].run = AfterNewToken(acc[s].run)]
      BY <1>1, <3>1, <3>3 DEF IsAccounts, Account
    <3> QED BY <1>2, <3>2, <3>5, <3>6
  <2>2. CASE ~Held(acc, e)
    <3>1. added = Put(acc, e, [email |-> e, tok |-> pair, run |-> FreshRuntime])
      BY <2>2
    <3>2. FreshRuntime \in Runtime BY DEF FreshRuntime, Runtime
    <3>3. [email |-> e, tok |-> pair, run |-> FreshRuntime] \in Account
      BY <1>1, <1>2, <3>2 DEF Account
    <3> HIDE DEF added, pair, acc, e
    <3> QED BY <1>1, <3>1, <3>3 DEF IsAccounts, Put
  <2> QED BY <2>1, <2>2
<1>4. \/ tokenFiles' = Put(tokenFiles, e, pair) /\ PersistState(added, 0)
      \/ SaveTokenFails(e) /\ diskFaults' = diskFaults + 1 /\ UNCHANGED stateFile
  BY Zenon DEF LoginFinish
<1>5. live' \subseteq Tokens BY DEF LoginFinish, ManagerTypeOK
<1>6. login' = NoLogin /\ UNCHANGED <<memory, netFaults, logins, restarts>>
  BY DEF LoginFinish
<1> HIDE DEF added, pair, acc, e
<1>7. IsTokens(tokenFiles')
  <2>1. IsTokens(tokenFiles) BY DEF ManagerTypeOK, IsTokens
  <2> QED BY <1>1, <1>2, <1>4, <2>1 DEF IsTokens, Put, SaveTokenFails, Without
<1>8. IsStates(stateFile') /\ diskFaults' \in 0..MaxDiskFaults
  <2>1. CASE PersistState(added, 0)
    <3>1. diskFaults + 0 <= MaxDiskFaults BY BoundsAssumption DEF ManagerTypeOK
    <3> QED BY <1>3, <2>1, <3>1, PersistType
  <2>2. CASE SaveTokenFails(e) /\ diskFaults' = diskFaults + 1 /\ UNCHANGED stateFile
    BY <2>2, BoundsAssumption DEF ManagerTypeOK, SaveTokenFails, IsStates
  <2> QED BY <1>4, <2>1, <2>2
<1> QED BY <1>5, <1>6, <1>7, <1>8 DEF ManagerTypeOK, memory, IsTokens, IsStates

\* The environment of the requests keeps the manager's types.
LEMMA ManagerStepType ==
  ASSUME ManagerTypeOK, NEW unused, unused \subseteq Tokens, ManagerStep(unused)
  PROVE  ManagerTypeOK'
<1>1. ASSUME NEW s \in DOMAIN refresh, GrantError(s) \/ GrantReplyLost(s) \/ GrantRejected(s)
      PROVE  ManagerTypeOK'
  BY <1>1, GrantFailsType
<1>2. unused # {} => (CHOOSE t \in unused : TRUE) \in Tokens OBVIOUS
<1>3. ASSUME unused # {}, NEW s \in DOMAIN refresh, GrantGranted(s, CHOOSE t \in unused : TRUE)
      PROVE  ManagerTypeOK'
  BY <1>2, <1>3, GrantGrantedType
<1>4. ASSUME unused # {}, LoginFinish(CHOOSE t \in unused : TRUE) PROVE ManagerTypeOK'
  BY <1>2, <1>4, LoginFinishType
<1> QED BY <1>1, <1>3, <1>4, SweepType, TickType, LoginStartType DEF ManagerStep

\* A call a request makes keeps the types.
LEMMA CallerStepType ==
  ASSUME TypeOK, NEW c \in Callers, CallerStep(c)
  PROVE  TypeOK'
<1> USE DEF TypeOK
<1>1. ASSUME RecordEffect, RecordOnly, answer' \in [Waiters -> {"none", "true", "false"}]
      PROVE  ManagerTypeOK'
  BY <1>1, RecordEffectType DEF RecordOnly, ManagerTypeOK, IsAccounts, IsStates
<1>2. answer \in [Waiters -> {"none", "true", "false"}] BY DEF ManagerTypeOK
<1>3. ASSUME calls' = [calls EXCEPT ![c] = NoCall]
      PROVE  calls' \in [Callers -> {NoCall} \cup OpenCall]
  BY <1>3
<1>4. CASE Begin(c)
  <2> DEFINE s == First(UsableSlots(accounts))
  <2>1. s \in DOMAIN accounts
    <3>1. UsableSlots(accounts) # {} /\ UsableSlots(accounts) \subseteq Names
      BY <1>4 DEF Begin, UsableSlots, ManagerTypeOK
    <3> QED BY <3>1, FirstIsMember DEF UsableSlots
  <2>2. accounts[s].email \in Names /\ accounts[s].tok.id \in Tokens
    BY <2>1 DEF ManagerTypeOK, Account, Token
  <2>3. /\ calls' = [calls EXCEPT ![c] = [phase |-> "sent", email |-> accounts[s].email,
                                          tok |-> accounts[s].tok.id]]
        /\ RecordAttempt(accounts[s].email) /\ RecordOnly /\ UNCHANGED answer
    BY <1>4 DEF Begin
  <2> HIDE DEF s
  <2>4. calls' \in [Callers -> {NoCall} \cup OpenCall]
    BY <2>2, <2>3 DEF OpenCall
  <2>5. RecordEffect BY <2>3, RecordsChangeRun
  <2> QED BY <1>1, <1>2, <2>3, <2>4, <2>5
<1>5. CASE Succeed(c)
  <2>1. RecordEffect BY <1>5, RecordsChangeRun DEF Succeed
  <2> QED BY <1>1, <1>2, <1>3, <1>5, <2>1 DEF Succeed, Close
<1>6. CASE Fail(c)
  <2>1. RecordEffect BY <1>6, RecordsChangeRun DEF Fail
  <2> QED BY <1>1, <1>2, <1>3, <1>6, <2>1 DEF Fail, Close
<1>7. CASE Drop(c)
  BY <1>3, <1>7 DEF Drop, Close, managerVars, ManagerTypeOK
<1>8. CASE AskRefresh(c)
  <2>1. calls[c] \in OpenCall BY <1>8 DEF AskRefresh, Sent, NoCall
  <2>2. calls' \in [Callers -> {NoCall} \cup OpenCall]
    BY <1>8, <2>1 DEF AskRefresh, OpenCall
  <2>3. RefreshAccount(c, calls[c].email) BY <1>8 DEF AskRefresh
  <2>4. /\ DOMAIN refresh' \subseteq DOMAIN accounts
        /\ refresh' \in [DOMAIN refresh' -> RefreshInFlight]
        /\ answer' \in [Waiters -> {"none", "true", "false"}]
    BY <2>3, RefreshAccountType DEF Waiters
  <2>5. UNCHANGED <<accounts, files, sweep, live, login, netFaults, logins, restarts>>
    BY <1>8 DEF AskRefresh
  <2> QED BY <2>2, <2>4, <2>5 DEF ManagerTypeOK, files
<1>9. CASE Refreshed(c)
  <2>1. answer' \in [Waiters -> {"none", "true", "false"}]
    BY <1>9, <1>2 DEF Refreshed, TakeAnswer
  <2>2. RecordEffect BY <1>9 DEF Refreshed, RecordEffect, files
  <2> QED BY <1>1, <1>3, <1>9, <2>1, <2>2 DEF Refreshed, Close
<1>10. CASE NotRefreshed(c)
  <2>1. answer' \in [Waiters -> {"none", "true", "false"}]
    BY <1>10, <1>2 DEF NotRefreshed, TakeAnswer
  <2>2. RecordEffect BY <1>10, RecordsChangeRun DEF NotRefreshed, FailureKinds
  <2> QED BY <1>1, <1>3, <1>10, <2>1, <2>2 DEF NotRefreshed, Close
<1> QED BY <1>4, <1>5, <1>6, <1>7, <1>8, <1>9, <1>10 DEF CallerStep

\* The first load() of the token files is well-typed.
LEMMA InitType ==
  ASSUME Init
  PROVE  TypeOK
<1>1. ManagerInit /\ calls = [c \in Callers |-> NoCall] BY DEF Init
<1>2. PICK age \in [InitialFiles -> 0..Lifetime] :
        tokenFiles = [n \in InitialFiles |-> [id |-> n, life |-> age[n]]]
  BY <1>1 DEF ManagerInit
<1>3. IsTokens(tokenFiles)
  BY <1>2, InitialAssumption, TimesAssumption DEF IsTokens, Token
<1>4. IsStates(stateFile) BY <1>1 DEF ManagerInit, NoFile, IsStates
<1>5. IsAccounts(accounts) BY <1>1, <1>3, <1>4, LoadedType DEF ManagerInit
<1>6. refresh = NoRefresh /\ answer = NoAnswer /\ sweep = 0 /\ live = InitialFiles
      /\ login = NoLogin
      /\ netFaults = 0 /\ diskFaults = 0 /\ logins = 0 /\ restarts = 0
  BY <1>1 DEF ManagerInit
<1> QED BY <1>1, <1>3, <1>4, <1>5, <1>6, InitialAssumption, BoundsAssumption
        DEF TypeOK, ManagerTypeOK, IsTokens, IsStates, IsAccounts, NoRefresh, NoAnswer

\* The type invariant is inductive.
LEMMA NextType ==
  ASSUME TypeOK, [Next]_vars
  PROVE  TypeOK'
<1>1. ASSUME NEW c \in Callers, CallerStep(c) PROVE TypeOK'
  BY <1>1, CallerStepType
<1>2. CASE ManagerStep(UnusedTokens) /\ UNCHANGED calls
  <2>1. UnusedTokens \subseteq Tokens BY DEF UnusedTokens
  <2> QED BY <1>2, <2>1, ManagerStepType DEF TypeOK
<1>3. CASE Crash
  BY <1>3, RestartType DEF Crash, TypeOK
<1>4. CASE UNCHANGED vars
  BY <1>4 DEF vars, managerVars, TypeOK, ManagerTypeOK
<1> QED BY <1>1, <1>2, <1>3, <1>4 DEF Next

\* Accounts, files, refreshes in flight and open calls stay well-formed in every
\* run: a refresh is always of an account in the list, an answer always of a
\* known waiter, and no counter or timer leaves the naturals.
THEOREM TypeCorrect == Spec => []TypeOK
<1> QED BY InitType, NextType, PTL DEF Spec

-----------------------------------------------------------------------------
(* A restart loses nothing *)

\* The inductive invariant: RestartLosesNothing needs to know that an account
\* stays under its own email (else state.json is keyed by another one) and
\* that no login process is about to write.
OwnEmails(acc) == \A s \in DOMAIN acc : acc[s].email = s
NoWriteLost == diskFaults = 0 /\ logins = 0
Mirror ==
    /\ OwnEmails(accounts)
    /\ logins = 0 => login = NoLogin
    /\ NoWriteLost => Loaded(tokenFiles, stateFile) = accounts

\* Under its own email every account has an entry of its own in state.json.
LEMMA StateOfOwn ==
  ASSUME NEW acc, IsAccounts(acc), OwnEmails(acc)
  PROVE  StateOf(acc) = [s \in DOMAIN acc |-> acc[s].run]
<1>1. {acc[s].email : s \in DOMAIN acc} = DOMAIN acc BY DEF OwnEmails
<1>2. ASSUME NEW e \in DOMAIN acc PROVE Last(Holders(acc, e)) = e
  <2>1. Holders(acc, e) = {e} BY DEF OwnEmails, Holders
  <2>2. Last({e}) \in {e} BY LastIsMember DEF IsAccounts
  <2> QED BY <2>1, <2>2
<1> QED BY <1>1, <1>2 DEF StateOf

\* What load() makes of current token files and a current state.json is the
\* accounts list.
LEMMA ReloadOwn ==
  ASSUME NEW acc, IsAccounts(acc), OwnEmails(acc), NEW tokens,
         DOMAIN tokens = DOMAIN acc, \A s \in DOMAIN acc : tokens[s] = acc[s].tok
  PROVE  Loaded(tokens, StateOf(acc)) = acc
<1>1. StateOf(acc) = [s \in DOMAIN acc |-> acc[s].run] BY StateOfOwn
<1>2. ASSUME NEW n \in DOMAIN acc
      PROVE  [email |-> n, tok |-> tokens[n], run |-> acc[n].run] = acc[n]
  <2>1. acc[n] \in Account /\ acc[n].email = n BY DEF IsAccounts, OwnEmails
  <2> QED BY <2>1 DEF Account
<1>3. acc = [n \in DOMAIN acc |-> acc[n]] BY DEF IsAccounts
<1>4. Loaded(tokens, StateOf(acc)) =
        [n \in DOMAIN acc |-> [email |-> n, tok |-> tokens[n], run |-> acc[n].run]]
  BY <1>1 DEF Loaded
<1> QED BY <1>2, <1>3, <1>4

\* The mirror as facts about each account.
LEMMA MirrorTokens ==
  ASSUME NEW tokens, NEW states, NEW acc, Loaded(tokens, states) = acc
  PROVE  DOMAIN tokens = DOMAIN acc /\ \A s \in DOMAIN acc : tokens[s] = acc[s].tok
BY DEF Loaded

\* A write that did not fail wrote the state of the list.
LEMMA PersistedState ==
  ASSUME ManagerTypeOK, NEW acc, NEW spent \in {0, 1}, PersistState(acc, spent),
         diskFaults' = 0
  PROVE  stateFile' = StateOf(acc) /\ diskFaults = 0
BY DEF PersistState, ManagerTypeOK

\* A record call keeps the mirror.
LEMMA RecordMirror ==
  ASSUME ManagerTypeOK, Mirror, RecordEffect,
         UNCHANGED <<tokenFiles, logins, login>>
  PROVE  Mirror'
<1>1. CASE UNCHANGED <<accounts, stateFile, diskFaults>>
  BY <1>1 DEF Mirror, NoWriteLost
<1>2. CASE ChangesRun
  <2>1. PICK s \in DOMAIN accounts, run \in Runtime : Commit([accounts EXCEPT ![s].run = run])
    BY <1>2 DEF ChangesRun
  <2> DEFINE acc == [accounts EXCEPT ![s].run = run]
  <2>2. IsAccounts(acc) BY UpdateRunType DEF ManagerTypeOK, IsAccounts
  <2>3. accounts' = acc /\ PersistState(acc, 0) BY <2>1 DEF Commit
  <2>4. /\ DOMAIN acc = DOMAIN accounts
        /\ \A t \in DOMAIN accounts : acc[t].email = accounts[t].email
                                      /\ acc[t].tok = accounts[t].tok
    BY DEF ManagerTypeOK, Account
  <2> HIDE DEF acc
  <2>5. OwnEmails(acc) BY <2>4 DEF Mirror, OwnEmails
  <2>6. ASSUME NoWriteLost' PROVE Loaded(tokenFiles', stateFile') = accounts'
    <3>1. stateFile' = StateOf(acc) /\ diskFaults = 0
      BY <2>3, <2>6, PersistedState DEF NoWriteLost
    <3>2. Loaded(tokenFiles, stateFile) = accounts
      BY <2>6, <3>1 DEF Mirror, NoWriteLost
    <3>3. DOMAIN tokenFiles = DOMAIN acc /\ \A t \in DOMAIN acc : tokenFiles[t] = acc[t].tok
      BY <2>4, <3>2, MirrorTokens
    <3> QED BY <2>2, <2>3, <2>5, <3>1, <3>3, ReloadOwn
  <2> QED BY <2>3, <2>5, <2>6 DEF Mirror
<1> QED BY <1>1, <1>2 DEF RecordEffect

\* So does the end of a refresh that failed, or another try of it.
LEMMA GrantFailsMirror ==
  ASSUME ManagerTypeOK, Mirror, NEW s \in DOMAIN refresh,
         GrantError(s) \/ GrantReplyLost(s) \/ GrantRejected(s)
  PROVE  Mirror'
<1>1. NextTry(s) \/ RefreshFails(s)
  BY DEF GrantError, GrantReplyLost, GrantRejected
<1>2. UNCHANGED <<tokenFiles, logins, login>>
  BY DEF GrantError, GrantReplyLost, GrantRejected
<1>3. s \in DOMAIN accounts /\ accounts[s].run \in Runtime
  BY DEF ManagerTypeOK, Account
<1>4. AfterRefreshFailure(accounts[s].run) \in Runtime BY <1>3, RuntimeType
<1>5. RefreshFails(s) => RecordEffect
  BY <1>3, <1>4 DEF RefreshFails, RecordEffect, ChangesRun
<1>6. NextTry(s) => RecordEffect
  BY <1>5 DEF NextTry, RecordEffect
<1> QED BY <1>1, <1>2, <1>5, <1>6, RecordMirror

\* A granted refresh writes the token file and the state of the new token.
LEMMA GrantGrantedMirror ==
  ASSUME ManagerTypeOK, Mirror, ~GrantOmitsEmail, NEW s \in DOMAIN refresh,
         NEW t \in Tokens, GrantGranted(s, t)
  PROVE  Mirror'
<1> DEFINE pair == [id |-> t, life |-> Lifetime]
           fresh == [email |-> s, tok |-> pair, run |-> AfterNewToken(accounts[s].run)]
           failed == [fresh EXCEPT !.run = AfterRefreshFailure(@)]
<1>1. s \in DOMAIN accounts /\ accounts[s].email = s /\ s \in Names
  BY DEF ManagerTypeOK, Mirror, OwnEmails
<1>2. GrantedEmails(s) = {s} BY <1>1 DEF GrantedEmails
<1>3. \/ /\ tokenFiles' = Put(tokenFiles, s, pair)
         /\ Commit([accounts EXCEPT ![s] = fresh])
      \/ /\ SaveTokenFails(s)
         /\ accounts' = [accounts EXCEPT ![s] = failed]
         /\ PersistState([accounts EXCEPT ![s] = failed], 1)
  BY <1>2, Zenon DEF GrantGranted
<1>4. UNCHANGED <<login, logins>> BY DEF GrantGranted
<1>5. pair \in Token BY TimesAssumption DEF Token
<1>6. accounts[s].run \in Runtime BY <1>1 DEF ManagerTypeOK, Account
<1>7. fresh \in Account BY <1>1, <1>5, <1>6, RuntimeType DEF Account
<1>8. fresh.email = s /\ failed.email = s /\ fresh.tok = pair OBVIOUS
<1> HIDE DEF fresh, failed, pair
<1>9. CASE /\ tokenFiles' = Put(tokenFiles, s, pair)
           /\ Commit([accounts EXCEPT ![s] = fresh])
  <2> DEFINE acc == [accounts EXCEPT ![s] = fresh]
  <2>1. accounts' = acc /\ PersistState(acc, 0) BY <1>9 DEF Commit
  <2>2. IsAccounts(acc) BY <1>1, <1>7 DEF ManagerTypeOK, IsAccounts
  <2>3. DOMAIN acc = DOMAIN accounts /\ acc[s] = fresh
        /\ \A u \in DOMAIN accounts : u # s => acc[u] = accounts[u]
    BY <1>1 DEF ManagerTypeOK
  <2> HIDE DEF acc
  <2>4. OwnEmails(acc) BY <1>8, <2>3 DEF Mirror, OwnEmails
  <2>5. ASSUME NoWriteLost' PROVE Loaded(tokenFiles', stateFile') = accounts'
    <3>1. stateFile' = StateOf(acc) /\ diskFaults = 0
      BY <2>1, <2>5, PersistedState DEF NoWriteLost
    <3>2. Loaded(tokenFiles, stateFile) = accounts
      BY <1>4, <2>5, <3>1 DEF Mirror, NoWriteLost
    <3>3. DOMAIN tokenFiles = DOMAIN accounts
          /\ \A u \in DOMAIN accounts : tokenFiles[u] = accounts[u].tok
      BY <3>2, MirrorTokens
    <3>4. DOMAIN tokenFiles' = DOMAIN acc /\ \A u \in DOMAIN acc : tokenFiles'[u] = acc[u].tok
      BY <1>1, <1>8, <1>9, <2>3, <3>3 DEF Put
    <3> QED BY <2>1, <2>2, <2>4, <3>1, <3>4, ReloadOwn
  <2> QED BY <1>4, <2>1, <2>4, <2>5 DEF Mirror
<1>10. CASE /\ SaveTokenFails(s)
            /\ accounts' = [accounts EXCEPT ![s] = failed]
            /\ PersistState([accounts EXCEPT ![s] = failed], 1)
  <2>1. OwnEmails(accounts') BY <1>1, <1>8, <1>10 DEF Mirror, OwnEmails, ManagerTypeOK
  <2>2. diskFaults' # 0 BY <1>10 DEF PersistState, ManagerTypeOK
  <2> QED BY <1>4, <2>1, <2>2 DEF Mirror, NoWriteLost
<1> QED BY <1>3, <1>9, <1>10

\* Ageing the list ages each account's token and timers and keeps its email.
LEMMA AgedAccount ==
  ASSUME NEW acc, IsAccounts(acc), NEW s \in DOMAIN acc
  PROVE  AgeAccounts(acc)[s] = [email |-> acc[s].email, tok |-> AgeToken(acc[s].tok),
                                run |-> AgeRuntime(acc[s].run)]
<1>1. acc[s] \in Account BY DEF IsAccounts
<1>2. \A a \in Account, tok \in Token, run \in Runtime :
        [a EXCEPT !.tok = tok, !.run = run] = [email |-> a.email, tok |-> tok, run |-> run]
  <2> TAKE a \in Account, tok \in Token, run \in Runtime
  <2>1. [a EXCEPT !.tok = tok] = [email |-> a.email, tok |-> tok, run |-> a.run]
    BY DEF Account
  <2>2. [[email |-> a.email, tok |-> tok, run |-> a.run] EXCEPT !.run = run]
          = [email |-> a.email, tok |-> tok, run |-> run]
    OBVIOUS
  <2> QED BY <2>1, <2>2, Zenon
<1> AgeToken(acc[s].tok) \in Token /\ AgeRuntime(acc[s].run) \in Runtime
  <2>1. acc[s].tok \in Token /\ acc[s].run \in Runtime BY <1>1 DEF Account
  <2> QED BY <2>1, RuntimeType DEF AgeToken, Token, Less
<1>3. AgeAccounts(acc)[s] =
        [acc[s] EXCEPT !.tok = AgeToken(acc[s].tok), !.run = AgeRuntime(acc[s].run)]
  BY Zenon DEF AgeAccounts
<1> QED BY <1>1, <1>2, <1>3

\* Time passes for the files as it does for memory.
LEMMA TickMirror ==
  ASSUME ManagerTypeOK, Mirror, Tick
  PROVE  Mirror'
<1>1. /\ accounts' = AgeAccounts(accounts)
      /\ tokenFiles' = [e \in DOMAIN tokenFiles |-> AgeToken(tokenFiles[e])]
      /\ stateFile' = [e \in DOMAIN stateFile |-> AgeRuntime(stateFile[e])]
      /\ login = NoLogin => login' = NoLogin
      /\ UNCHANGED <<diskFaults, logins>>
  BY DEF Tick
<1> IsAccounts(accounts) BY DEF ManagerTypeOK, IsAccounts
<1>2. OwnEmails(accounts')
  <2>1. DOMAIN accounts' = DOMAIN accounts BY <1>1 DEF AgeAccounts
  <2>2. ASSUME NEW s \in DOMAIN accounts PROVE accounts'[s].email = s
    <3>1. accounts[s].email = s BY DEF Mirror, OwnEmails
    <3>2. AgeAccounts(accounts)[s] =
            [email |-> accounts[s].email, tok |-> AgeToken(accounts[s].tok),
             run |-> AgeRuntime(accounts[s].run)]
      BY AgedAccount
    <3>3. AgeAccounts(accounts)[s].email = accounts[s].email BY <3>2
    <3> QED BY <1>1, <3>1, <3>3
  <2> QED BY <2>1, <2>2 DEF OwnEmails
<1>3. AgeRuntime(FreshRuntime) = FreshRuntime
  <2>1. Less(FreshRuntime.cool) = 0 /\ Less(FreshRuntime.refreshBackoff) = 0
    BY DEF Less, FreshRuntime
  <2>2. \A run \in Runtime : run.cool = 0 /\ run.refreshBackoff = 0
                               => [run EXCEPT !.cool = 0, !.refreshBackoff = 0] = run
    BY DEF Runtime
  <2>3. FreshRuntime \in Runtime /\ FreshRuntime.cool = 0 /\ FreshRuntime.refreshBackoff = 0
    BY DEF FreshRuntime, Runtime
  <2> QED BY <2>1, <2>2, <2>3, Zenon DEF AgeRuntime
<1>4. ASSUME NoWriteLost' PROVE Loaded(tokenFiles', stateFile') = accounts'
  <2>1. accounts = Loaded(tokenFiles, stateFile) BY <1>1, <1>4 DEF Mirror, NoWriteLost
  <2>2. DOMAIN accounts = DOMAIN tokenFiles BY <2>1 DEF Loaded
  <2>3. ASSUME NEW n \in DOMAIN tokenFiles
        PROVE  AgeAccounts(accounts)[n] = Loaded(tokenFiles', stateFile')[n]
    <3> DEFINE run == IF n \in DOMAIN stateFile THEN stateFile[n] ELSE FreshRuntime
    <3>1. accounts[n] = [email |-> n, tok |-> tokenFiles[n], run |-> run]
      BY <2>1 DEF Loaded
    <3>2. AgeAccounts(accounts)[n] =
            [email |-> n, tok |-> AgeToken(tokenFiles[n]), run |-> AgeRuntime(run)]
      BY <2>2, <3>1, AgedAccount
    <3>3. AgeRuntime(run) = IF n \in DOMAIN stateFile' THEN stateFile'[n] ELSE FreshRuntime
      BY <1>1, <1>3
    <3>4. tokenFiles'[n] = AgeToken(tokenFiles[n]) /\ n \in DOMAIN tokenFiles' BY <1>1
    <3> HIDE DEF run
    <3> QED BY <3>2, <3>3, <3>4 DEF Loaded
  <2>4. DOMAIN tokenFiles' = DOMAIN tokenFiles BY <1>1
  <2> QED BY <1>1, <2>2, <2>3, <2>4 DEF Loaded, AgeAccounts
<1> QED BY <1>1, <1>2, <1>4 DEF Mirror, NoWriteLost

\* No step of the environment breaks the mirror.
LEMMA ManagerStepMirror ==
  ASSUME ManagerTypeOK, Mirror, ~GrantOmitsEmail, NEW unused, unused \subseteq Tokens,
         ManagerStep(unused)
  PROVE  Mirror'
<1>1. ASSUME NEW s \in DOMAIN refresh, GrantError(s) \/ GrantReplyLost(s) \/ GrantRejected(s)
      PROVE  Mirror'
  BY <1>1, GrantFailsMirror
<1>2. unused # {} => (CHOOSE t \in unused : TRUE) \in Tokens OBVIOUS
<1>3. ASSUME unused # {}, NEW s \in DOMAIN refresh, GrantGranted(s, CHOOSE t \in unused : TRUE)
      PROVE  Mirror'
  BY <1>2, <1>3, GrantGrantedMirror
<1>4. ASSUME SweepStart \/ SweepResume PROVE Mirror'
  BY <1>4 DEF SweepStart, SweepResume, SweepUnchanged, files, Mirror, NoWriteLost
\* Once a login has started the mirror promises nothing about the files.
<1>5. ASSUME NEW e \in Names, LoginStart(e) PROVE Mirror'
  <2>1. logins' # 0 BY <1>5 DEF LoginStart, ManagerTypeOK
  <2>2. accounts' = accounts BY <1>5 DEF LoginStart, memory
  <2> QED BY <2>1, <2>2 DEF Mirror, NoWriteLost
<1>6. ASSUME NEW t, LoginFinish(t) PROVE Mirror'
  <2>1. login # NoLogin /\ UNCHANGED <<memory, logins>> BY <1>6 DEF LoginFinish
  <2>2. logins' # 0 /\ accounts' = accounts BY <2>1 DEF Mirror, memory
  <2> QED BY <2>2 DEF Mirror, NoWriteLost
<1> QED BY <1>1, <1>3, <1>4, <1>5, <1>6, TickMirror DEF ManagerStep

\* Nor does a call a request makes.
LEMMA CallerStepMirror ==
  ASSUME ManagerTypeOK, Mirror, NEW c \in Callers, CallerStep(c)
  PROVE  Mirror'
<1>1. ASSUME RecordEffect, RecordOnly PROVE Mirror'
  BY <1>1, RecordMirror DEF RecordOnly
<1>2. ASSUME UNCHANGED <<accounts, files, login, logins>> PROVE Mirror'
  BY <1>2 DEF files, Mirror, NoWriteLost
<1>3. CASE Begin(c)
  BY <1>1, <1>3, RecordsChangeRun DEF Begin
<1>4. CASE Succeed(c)
  BY <1>1, <1>4, RecordsChangeRun DEF Succeed
<1>5. CASE Fail(c)
  BY <1>1, <1>5, RecordsChangeRun DEF Fail
<1>6. CASE Drop(c)
  BY <1>2, <1>6 DEF Drop, managerVars, files
<1>7. CASE AskRefresh(c)
  BY <1>2, <1>7 DEF AskRefresh
<1>8. CASE Refreshed(c)
  BY <1>2, <1>8 DEF Refreshed, RecordOnly
<1>9. CASE NotRefreshed(c)
  BY <1>1, <1>9, RecordsChangeRun DEF NotRefreshed, FailureKinds
<1> QED BY <1>3, <1>4, <1>5, <1>6, <1>7, <1>8, <1>9 DEF CallerStep

\* The mirror is an inductive invariant.
LEMMA NextMirror ==
  ASSUME TypeOK, Mirror, ~GrantOmitsEmail, [Next]_vars
  PROVE  Mirror'
<1> USE DEF TypeOK
<1>1. CASE ManagerStep(UnusedTokens) /\ UNCHANGED calls
  <2>1. UnusedTokens \subseteq Tokens BY DEF UnusedTokens
  <2> QED BY <1>1, <2>1, ManagerStepMirror
\* A restart makes the mirror whole, whatever the files hold.
<1>2. CASE Crash
  BY <1>2 DEF Crash, Restart, files, Mirror, OwnEmails, Loaded
<1>3. CASE UNCHANGED vars
  BY <1>3 DEF vars, managerVars, Mirror, NoWriteLost
<1> QED BY <1>1, <1>2, <1>3, CallerStepMirror DEF Next

\* As long as no write failed, no other process wrote the files and no grant
\* renamed an account, a restart at any point brings back exactly what memory
\* held: rotated tokens, cooldowns, backoffs and counters (saveToken and
\* persistState after every change; load).
THEOREM RestartIsLossless == Spec => []RestartLosesNothing
<1> DEFINE Inv == TypeOK /\ (~GrantOmitsEmail => Mirror)
<1>1. Init => Inv
  <2>1. Init => Mirror
    BY DEF Init, ManagerInit, Mirror, OwnEmails, Loaded
  <2> QED BY <2>1, InitType
<1>2. Inv /\ [Next]_vars => Inv'
  BY NextType, NextMirror
<1>3. Inv => RestartLosesNothing
  BY DEF Mirror, NoWriteLost, RestartLosesNothing
<1> QED BY <1>1, <1>2, <1>3, PTL DEF Spec

-----------------------------------------------------------------------------
(* Nobody waits for nothing *)

\* The refreshes a waiter is registered with.
Registered(w) == {s \in DOMAIN refresh : w \in refresh[s].waiters}
Awaits(w) == IF w = Sweep THEN sweep # 0 ELSE calls[w].phase = "refreshing"

\* The inductive invariant: a waiter waits for nothing, has been answered, or is
\* registered with one refresh, and never two of these.  Without the last part a
\* second refresh could answer who has gone on already.
Standing(w) ==
    \/ ~Awaits(w) /\ answer[w] = "none" /\ Registered(w) = {}
    \/ Awaits(w) /\ answer[w] # "none" /\ Registered(w) = {}
    \/ Awaits(w) /\ answer[w] = "none" /\ \E s \in DOMAIN refresh : Registered(w) = {s}
AllStand == \A w \in Waiters : Standing(w)

\* The promise tells everyone who awaits it, and nobody else (performRefresh's
\* finally block).
LEMMA SettleStands ==
  ASSUME ManagerTypeOK, AllStand, NEW s \in DOMAIN refresh,
         NEW result \in {"true", "false"}, Settle(s, result), UNCHANGED <<calls, sweep>>
  PROVE  AllStand'
<1> SUFFICES ASSUME NEW w \in Waiters PROVE Standing(w)'
  BY DEF AllStand
<1>1. Standing(w) /\ (Awaits(w))' = Awaits(w) BY DEF AllStand, Awaits
<1>2. /\ DOMAIN refresh' = DOMAIN refresh \ {s}
      /\ \A t \in DOMAIN refresh' : refresh'[t] = refresh[t]
      /\ answer'[w] = IF w \in refresh[s].waiters THEN result ELSE answer[w]
  BY DEF Settle, Without
<1>3. Registered(w)' = Registered(w) \ {s} BY <1>2 DEF Registered
<1>4. CASE w \in refresh[s].waiters
  <2>1. s \in Registered(w) BY <1>4 DEF Registered
  <2>2. Awaits(w) /\ Registered(w) = {s} BY <1>1, <2>1 DEF Standing
  <2> QED BY <1>1, <1>2, <1>3, <1>4, <2>2 DEF Standing
<1>5. CASE w \notin refresh[s].waiters
  <2>1. Registered(w)' = Registered(w) BY <1>3, <1>5 DEF Registered
  <2>2. \A t \in DOMAIN refresh : Registered(w) = {t} => t \in DOMAIN refresh'
    BY <1>2, <1>5 DEF Registered
  <2> QED BY <1>1, <1>2, <1>5, <2>1, <2>2 DEF Standing
<1> QED BY <1>4, <1>5

\* Another try keeps everyone where they are.
LEMMA NextTryStands ==
  ASSUME ManagerTypeOK, AllStand, NEW s \in DOMAIN refresh,
         NextTry(s) \/ RefreshFails(s), UNCHANGED <<calls, sweep>>
  PROVE  AllStand'
<1>1. CASE RefreshFails(s)
  BY <1>1, SettleStands DEF RefreshFails
<1>2. CASE refresh' = [refresh EXCEPT ![s].try = @ + 1] /\ answer' = answer
  <2>1. /\ DOMAIN refresh' = DOMAIN refresh
        /\ \A t \in DOMAIN refresh : refresh'[t].waiters = refresh[t].waiters
    BY <1>2 DEF ManagerTypeOK, RefreshInFlight
  <2>2. \A w \in Waiters : Registered(w)' = Registered(w) BY <2>1 DEF Registered
  <2>3. \A w \in Waiters : (Awaits(w))' = Awaits(w) BY DEF Awaits
  <2> QED BY <1>2, <2>1, <2>2, <2>3 DEF AllStand, Standing
<1> QED BY <1>1, <1>2 DEF NextTry

\* refreshAccount registers its caller with one refresh, or answers it, and
\* leaves the others alone.
LEMMA RefreshAccountStands ==
  ASSUME ManagerTypeOK, NEW w \in Waiters, Registered(w) = {}, NEW e, RefreshAccount(w, e)
  PROVE  /\ \/ answer'[w] # "none" /\ Registered(w)' = {}
            \/ answer'[w] = "none" /\ \E s \in DOMAIN refresh' : Registered(w)' = {s}
         /\ \A v \in Waiters \ {w} : answer'[v] = answer[v] /\ Registered(v)' = Registered(v)
         /\ DOMAIN refresh \subseteq DOMAIN refresh'
<1>1. /\ answer \in [Waiters -> {"none", "true", "false"}]
      /\ refresh \in [DOMAIN refresh -> RefreshInFlight]
  BY DEF ManagerTypeOK
<1>2. CASE ~Held(accounts, e)
  BY <1>1, <1>2 DEF RefreshAccount, Registered
<1>3. CASE Held(accounts, e)
  <2> DEFINE s == SlotOf(accounts, e)
             fresh == [tok |-> accounts[s].tok.id, try |-> 1, waiters |-> {w}]
  <2>1. /\ answer' = [answer EXCEPT ![w] = "none"]
        /\ refresh' = IF s \in DOMAIN refresh
                      THEN [refresh EXCEPT ![s].waiters = @ \cup {w}]
                      ELSE Put(refresh, s, fresh)
    BY <1>3 DEF RefreshAccount
  <2> HIDE DEF s
  <2>2. CASE s \in DOMAIN refresh
    <3>1. /\ DOMAIN refresh' = DOMAIN refresh
          /\ refresh'[s].waiters = refresh[s].waiters \cup {w}
          /\ \A t \in DOMAIN refresh \ {s} : refresh'[t] = refresh[t]
      BY <1>1, <2>1, <2>2 DEF RefreshInFlight
    <3>2. Registered(w)' = {s} BY <2>2, <3>1 DEF Registered
    <3>3. \A v \in Waiters \ {w} : Registered(v)' = Registered(v)
      BY <2>2, <3>1 DEF Registered
    <3> QED BY <1>1, <2>1, <2>2, <3>1, <3>2, <3>3
  <2>3. CASE s \notin DOMAIN refresh
    <3>1. /\ DOMAIN refresh' = DOMAIN refresh \cup {s}
          /\ refresh'[s].waiters = {w}
          /\ \A t \in DOMAIN refresh : refresh'[t] = refresh[t]
      BY <2>1, <2>3 DEF Put
    <3>2. Registered(w)' = {s} BY <2>3, <3>1 DEF Registered
    <3>3. \A v \in Waiters \ {w} : Registered(v)' = Registered(v)
      BY <2>3, <3>1 DEF Registered
    <3> QED BY <1>1, <2>1, <3>1, <3>2, <3>3
  <2> QED BY <2>2, <2>3
<1> QED BY <1>2, <1>3

\* A step that touches neither promises nor answers, and begins and ends no wait.
LEMMA OthersStand ==
  ASSUME AllStand, UNCHANGED <<refresh, answer>>,
         \A w \in Waiters : (Awaits(w))' = Awaits(w)
  PROVE  AllStand'
BY DEF AllStand, Standing, Registered

\* One who is not registered begins to await a refresh.
LEMMA BeginsToWait ==
  ASSUME ManagerTypeOK, AllStand, NEW w \in Waiters, Registered(w) = {},
         NEW e, RefreshAccount(w, e), (Awaits(w))',
         \A v \in Waiters \ {w} : (Awaits(v))' = Awaits(v)
  PROVE  AllStand'
<1> SUFFICES ASSUME NEW v \in Waiters PROVE Standing(v)'
  BY DEF AllStand
<1>1. CASE v = w BY <1>1, RefreshAccountStands DEF Standing
<1>2. CASE v # w
  <2>1. /\ answer'[v] = answer[v] /\ Registered(v)' = Registered(v)
        /\ DOMAIN refresh \subseteq DOMAIN refresh'
    BY <1>2, RefreshAccountStands
  <2> QED BY <1>2, <2>1 DEF AllStand, Standing
<1> QED BY <1>1, <1>2

\* The sweep waits for one refresh after the other, or ends its pass.
LEMMA SweepStands ==
  ASSUME ManagerTypeOK, AllStand, SweepStart \/ SweepResume, UNCHANGED calls
  PROVE  AllStand'
<1>1. Sweep \in Waiters /\ Registered(Sweep) = {}
  <2>1. Sweep \in Waiters BY DEF Waiters
  <2>2. sweep = 0 \/ answer[Sweep] # "none" BY DEF SweepStart, SweepResume
  <2> QED BY <2>1, <2>2 DEF AllStand, Standing, Awaits
<1>2. PICK p : SweepFrom(p) BY DEF SweepStart, SweepResume
<1> DEFINE due == {s \in DueSlots : s >= p}
<1>3. \A w \in Waiters \ {Sweep} : (Awaits(w))' = Awaits(w) BY DEF Awaits
<1>4. CASE due = {}
  <2>1. sweep' = 0 /\ refresh' = refresh /\ answer' = [answer EXCEPT ![Sweep] = "none"]
    BY <1>2, <1>4 DEF SweepFrom
  <2>2. \A w \in Waiters : Registered(w)' = Registered(w) BY <2>1 DEF Registered
  <2>3. answer \in [Waiters -> {"none", "true", "false"}] BY DEF ManagerTypeOK
  <2>4. Standing(Sweep)' BY <1>1, <2>1, <2>2, <2>3 DEF Standing, Awaits
  <2>5. ASSUME NEW w \in Waiters \ {Sweep} PROVE Standing(w)'
    BY <1>3, <2>1, <2>2, <2>3 DEF AllStand, Standing
  <2> QED BY <2>4, <2>5 DEF AllStand
<1>5. CASE due # {}
  <2>1. sweep' = First(due) /\ RefreshAccount(Sweep, accounts[First(due)].email)
    BY <1>2, <1>5 DEF SweepFrom
  <2>2. due \subseteq Names BY DEF DueSlots, ManagerTypeOK
  <2>3. First(due) \in Names BY <1>5, <2>2, FirstIsMember
  <2>4. (Awaits(Sweep))' BY <2>1, <2>3 DEF Awaits, Names
  <2> QED BY <1>1, <1>3, <2>1, <2>4, BeginsToWait
<1> QED BY <1>4, <1>5

\* What happens without any request keeps everyone answered or registered.
LEMMA ManagerStepStands ==
  ASSUME ManagerTypeOK, AllStand, NEW unused, ManagerStep(unused), UNCHANGED calls
  PROVE  AllStand'
<1>1. ASSUME NEW s \in DOMAIN refresh, GrantError(s) \/ GrantReplyLost(s) \/ GrantRejected(s)
      PROVE  AllStand'
  <2>1. (NextTry(s) \/ RefreshFails(s)) /\ sweep' = sweep
    BY <1>1 DEF GrantError, GrantReplyLost, GrantRejected
  <2> QED BY <2>1, NextTryStands
<1>2. ASSUME NEW s \in DOMAIN refresh, NEW t, GrantGranted(s, t) PROVE AllStand'
  <2>1. (Settle(s, "true") \/ Settle(s, "false")) /\ sweep' = sweep
    BY <1>2 DEF GrantGranted
  <2> QED BY <2>1, SettleStands
<1>3. ASSUME UNCHANGED <<refresh, answer, sweep>> PROVE AllStand'
  BY <1>3, OthersStand DEF Awaits
<1>4. Tick => UNCHANGED <<refresh, answer, sweep>> BY DEF Tick
<1>5. \A e : LoginStart(e) => UNCHANGED <<refresh, answer, sweep>> BY DEF LoginStart, memory
<1>6. \A t : LoginFinish(t) => UNCHANGED <<refresh, answer, sweep>> BY DEF LoginFinish, memory
<1> QED BY <1>1, <1>2, <1>3, <1>4, <1>5, <1>6, SweepStands DEF ManagerStep

\* A call closed or sent is no wait.
LEMMA CallerStepStands ==
  ASSUME TypeOK, AllStand, NEW c \in Callers, CallerStep(c)
  PROVE  AllStand'
<1> USE DEF TypeOK
<1>1. c \in Waiters /\ c # Sweep BY WaitersAssumption DEF Waiters
<1>2. \A w \in Waiters \ {c} : calls'[w] = calls[w] \/ w = Sweep
  BY DEF CallerStep, Begin, Succeed, Fail, Drop, AskRefresh, Refreshed, NotRefreshed,
         Close, Waiters
<1>3. sweep' = sweep
  BY DEF CallerStep, Begin, Succeed, Fail, Drop, AskRefresh, Refreshed, NotRefreshed,
         RecordOnly, managerVars
<1>4. \A w \in Waiters \ {c} : (Awaits(w))' = Awaits(w) BY <1>2, <1>3 DEF Awaits
<1>5. CASE Begin(c) \/ Succeed(c) \/ Fail(c) \/ Drop(c)
  <2>1. UNCHANGED <<refresh, answer>>
    BY <1>5 DEF Begin, Succeed, Fail, Drop, RecordOnly, managerVars
  <2>2. calls[c].phase # "refreshing" /\ calls'[c].phase # "refreshing"
    BY <1>5 DEF Begin, Succeed, Fail, Drop, Close, Idle, Sent, NoCall
  <2>3. (Awaits(c))' = Awaits(c) BY <1>1, <2>2 DEF Awaits
  <2> QED BY <1>4, <2>1, <2>3, OthersStand
<1>6. CASE AskRefresh(c)
  <2>1. RefreshAccount(c, calls[c].email) /\ calls'[c].phase = "refreshing"
        /\ calls[c].phase = "sent"
    BY <1>6 DEF AskRefresh, Sent, OpenCall, NoCall
  <2>2. ~Awaits(c) /\ (Awaits(c))' BY <1>1, <2>1 DEF Awaits
  <2>3. Registered(c) = {} BY <1>1, <2>2 DEF AllStand, Standing
  <2> QED BY <1>1, <1>4, <2>1, <2>2, <2>3, BeginsToWait
<1>7. CASE Refreshed(c) \/ NotRefreshed(c)
  <2>1. /\ refresh' = refresh /\ answer' = [answer EXCEPT ![c] = "none"]
        /\ answer[c] # "none" /\ calls'[c] = NoCall
    BY <1>7 DEF Refreshed, NotRefreshed, Answered, TakeAnswer, Close, RecordOnly
  <2>2. \A w \in Waiters : Registered(w)' = Registered(w) BY <2>1 DEF Registered
  <2>3. answer \in [Waiters -> {"none", "true", "false"}] BY DEF ManagerTypeOK
  <2>4. Registered(c) = {} BY <1>1, <2>1 DEF AllStand, Standing
  <2>5. ~(Awaits(c))' BY <1>1, <2>1 DEF Awaits, NoCall
  <2>6. Standing(c)' BY <1>1, <2>1, <2>2, <2>3, <2>4, <2>5 DEF Standing
  <2>7. ASSUME NEW w \in Waiters \ {c} PROVE Standing(w)'
    BY <1>4, <2>1, <2>2, <2>3 DEF AllStand, Standing
  <2> QED BY <2>6, <2>7 DEF AllStand
<1> QED BY <1>5, <1>6, <1>7 DEF CallerStep

\* After a start nobody waits.
LEMMA FreshStands ==
  ASSUME refresh = NoRefresh, answer = NoAnswer, sweep = 0,
         calls = [c \in Callers |-> NoCall]
  PROVE  AllStand
BY DEF NoRefresh, NoAnswer, NoCall, AllStand, Standing, Registered, Awaits, Waiters

\* Whoever awaits a refresh is registered with the promise in flight or has its
\* answer already, whatever joins, tries, restarts and logins come in between:
\* no request and no sweep hangs on a refresh that is over (refreshAccount's join,
\* performRefresh's finally).
THEOREM EveryoneIsAnswered == Spec => []NobodyWaitsForNothing
<1> DEFINE Inv == TypeOK /\ AllStand
<1>1. Init => Inv
  BY InitType, FreshStands DEF Init, ManagerInit
<1>2. Inv /\ [Next]_vars => Inv'
  <2> SUFFICES ASSUME TypeOK, AllStand, [Next]_vars PROVE AllStand'
    BY NextType
  <2>1. CASE \E c \in Callers : CallerStep(c) BY <2>1, CallerStepStands
  <2>2. CASE ManagerStep(UnusedTokens) /\ UNCHANGED calls
    BY <2>2, ManagerStepStands DEF TypeOK
  <2>3. CASE Crash
    BY <2>3 DEF Crash, Restart, NoRefresh, NoAnswer, NoCall, AllStand, Standing,
                Registered, Awaits, Waiters
  <2>4. CASE UNCHANGED vars
    BY <2>4, OthersStand DEF vars, managerVars, Awaits
  <2> QED BY <2>1, <2>2, <2>3, <2>4 DEF Next
<1>3. Inv => NobodyWaitsForNothing
  BY DEF AllStand, Standing, Registered, Awaits, NobodyWaitsForNothing
<1> QED BY <1>1, <1>2, <1>3, PTL DEF Spec

-----------------------------------------------------------------------------
(* Logins stay redeemable *)

\* The token ids the account or the token file of an email holds.
Owns(e, id) == \/ e \in DOMAIN accounts /\ accounts[e].tok.id = id
               \/ e \in DOMAIN tokenFiles /\ tokenFiles[e].id = id

\* The inductive invariant, while nothing was lost: what a refresh presents is
\* its account's own token, every token held is honoured, and no two emails hold
\* the same one.  Without the last part rotating one pair could spend another's.
Faultless == netFaults = 0 /\ diskFaults = 0 /\ ~GrantOmitsEmail
Honoured ==
    /\ \A s \in DOMAIN refresh : refresh[s].tok = accounts[s].tok.id
    /\ \A e \in Names, id \in Tokens : Owns(e, id) => id \in live
    /\ \A e, f \in Names, id \in Tokens : Owns(e, id) /\ Owns(f, id) => e = f
KeepsTokens == /\ ~GrantOmitsEmail => OwnEmails(accounts)
               /\ Faultless => Honoured

\* Fault counts only grow.
LEMMA FaultsStay ==
  ASSUME TypeOK, [Next]_vars, Faultless'
  PROVE  Faultless
<1> USE DEF TypeOK, ManagerTypeOK, Faultless
<1>1. \A acc : PersistState(acc, 0) \/ PersistState(acc, 1) => diskFaults' >= diskFaults
  BY DEF PersistState
<1>2. ASSUME NEW e PROVE /\ RecordAttempt(e) => diskFaults' >= diskFaults
                         /\ RecordSuccess(e) => diskFaults' >= diskFaults
                         /\ \A kind : RecordFailure(e, kind) => diskFaults' >= diskFaults
  BY <1>1 DEF RecordAttempt, RecordSuccess, RecordFailure, Record, Commit
<1>3. ASSUME NEW c \in Callers, CallerStep(c) PROVE Faultless
  <2>1. netFaults' = netFaults
    BY <1>3 DEF CallerStep, Begin, Succeed, Fail, Drop, AskRefresh, Refreshed,
                NotRefreshed, RecordOnly, managerVars
  <2>2. diskFaults' >= diskFaults
    BY <1>2, <1>3 DEF CallerStep, Begin, Succeed, Fail, Drop, AskRefresh, Refreshed,
                      NotRefreshed, files, managerVars
  <2> QED BY <2>1, <2>2
<1>4. CASE ManagerStep(UnusedTokens)
  <2>1. ASSUME NEW s, GrantError(s) \/ GrantReplyLost(s) \/ GrantRejected(s) PROVE Faultless
    BY <1>1, <2>1 DEF GrantError, GrantReplyLost, GrantRejected, NextTry, RefreshFails, Commit
  <2>2. ASSUME NEW s, NEW t, GrantGranted(s, t) PROVE Faultless
    <3>1. netFaults' = netFaults /\ \E acc : PersistState(acc, 0) \/ PersistState(acc, 1)
      BY <2>2 DEF GrantGranted, Commit
    <3> QED BY <1>1, <3>1
  <2>3. ASSUME NEW t, LoginFinish(t) PROVE Faultless
    <3>1. netFaults' = netFaults /\ (\/ \E acc : PersistState(acc, 0)
                                     \/ diskFaults' = diskFaults + 1)
      BY <2>3 DEF LoginFinish
    <3> QED BY <1>1, <3>1
  <2>4. SweepStart \/ SweepResume \/ Tick \/ (\E e \in Names : LoginStart(e)) => Faultless
    BY DEF SweepStart, SweepResume, SweepUnchanged, Tick, LoginStart, files
  <2> QED BY <1>4, <2>1, <2>2, <2>3, <2>4 DEF ManagerStep
<1>5. Crash \/ UNCHANGED vars => Faultless BY DEF Crash, Restart, files, vars, managerVars
<1> QED BY <1>3, <1>4, <1>5 DEF Next

\* A step that leaves emails, token ids and what is in flight alone keeps the invariant.
LEMMA SameTokensKept ==
  ASSUME TypeOK, KeepsTokens, [Next]_vars,
         DOMAIN accounts' = DOMAIN accounts,
         \A s \in DOMAIN accounts : /\ accounts'[s].email = accounts[s].email
                                    /\ accounts'[s].tok.id = accounts[s].tok.id,
         DOMAIN tokenFiles' = DOMAIN tokenFiles,
         \A e \in DOMAIN tokenFiles : tokenFiles'[e].id = tokenFiles[e].id,
         live' = live,
         \A s \in DOMAIN refresh' :
            \/ s \in DOMAIN refresh /\ refresh'[s].tok = refresh[s].tok
            \/ s \in DOMAIN accounts /\ refresh'[s].tok = accounts[s].tok.id
  PROVE  KeepsTokens'
<1>1. ~GrantOmitsEmail => OwnEmails(accounts)' BY DEF KeepsTokens, OwnEmails
<1>2. ASSUME Faultless' PROVE Honoured'
  <2>1. Honoured BY <1>2, FaultsStay DEF KeepsTokens
  <2>2. \A e, id : Owns(e, id)' = Owns(e, id) BY DEF Owns
  <2>3. DOMAIN refresh \subseteq DOMAIN accounts BY DEF TypeOK, ManagerTypeOK
  <2> QED BY <2>1, <2>2, <2>3 DEF Honoured
<1> QED BY <1>1, <1>2 DEF KeepsTokens, Faultless

\* A record call changes no email and no token.
LEMMA RecordKeepsTokens ==
  ASSUME TypeOK, RecordEffect
  PROVE  /\ DOMAIN accounts' = DOMAIN accounts
         /\ \A s \in DOMAIN accounts : /\ accounts'[s].email = accounts[s].email
                                       /\ accounts'[s].tok = accounts[s].tok
<1>1. CASE ChangesRun
  <2>1. PICK s \in DOMAIN accounts, run \in Runtime :
          accounts' = [accounts EXCEPT ![s].run = run]
    BY <1>1 DEF ChangesRun, Commit
  <2> QED BY <2>1 DEF TypeOK, ManagerTypeOK, Account
<1> QED BY <1>1 DEF RecordEffect

\* A refresh begun presents the account's own token.
LEMMA RefreshAccountPresents ==
  ASSUME TypeOK, NEW w \in Waiters, NEW e, RefreshAccount(w, e)
  PROVE  \A s \in DOMAIN refresh' :
            \/ s \in DOMAIN refresh /\ refresh'[s].tok = refresh[s].tok
            \/ s \in DOMAIN accounts /\ refresh'[s].tok = accounts[s].tok.id
<1>1. CASE ~Held(accounts, e) BY <1>1 DEF RefreshAccount
<1>2. CASE Held(accounts, e)
  <2> DEFINE s == SlotOf(accounts, e)
             fresh == [tok |-> accounts[s].tok.id, try |-> 1, waiters |-> {w}]
  <2>1. IsAccounts(accounts) /\ refresh \in [DOMAIN refresh -> RefreshInFlight]
    BY DEF TypeOK, ManagerTypeOK, IsAccounts
  <2>2. s \in DOMAIN accounts BY <1>2, <2>1, SlotOfType
  <2>3. refresh' = IF s \in DOMAIN refresh
                   THEN [refresh EXCEPT ![s].waiters = @ \cup {w}]
                   ELSE Put(refresh, s, fresh)
    BY <1>2 DEF RefreshAccount
  <2> HIDE DEF s
  <2>4. CASE s \in DOMAIN refresh BY <2>1, <2>3, <2>4 DEF RefreshInFlight
  <2>5. CASE s \notin DOMAIN refresh BY <2>2, <2>3, <2>5 DEF Put
  <2> QED BY <2>4, <2>5
<1> QED BY <1>1, <1>2

\* A grant spends the account's own token and puts the new one in its place, in
\* memory and in its file.
LEMMA GrantKeepsTokens ==
  ASSUME TypeOK, KeepsTokens, [Next]_vars, NEW s \in DOMAIN refresh,
         NEW t \in UnusedTokens, GrantGranted(s, t)
  PROVE  KeepsTokens'
<1>1. s \in DOMAIN accounts /\ accounts[s].email \in Names /\ diskFaults \in Nat
      /\ DOMAIN accounts \subseteq Names /\ DOMAIN tokenFiles \subseteq Names
      /\ s \in Names /\ refresh[s].tok \in Tokens /\ DOMAIN refresh \subseteq DOMAIN accounts
  BY BoundsAssumption DEF TypeOK, ManagerTypeOK, Account, RefreshInFlight
<1> SUFFICES ASSUME ~GrantOmitsEmail
             PROVE  OwnEmails(accounts)' /\ (Faultless' => Honoured')
  BY DEF KeepsTokens, Faultless
<1>2. GrantedEmails(s) = {s} BY <1>1 DEF GrantedEmails, KeepsTokens, OwnEmails
<1> DEFINE pair == [id |-> t, life |-> Lifetime]
           fresh == [email |-> s, tok |-> pair, run |-> AfterNewToken(accounts[s].run)]
           failed == [fresh EXCEPT !.run = AfterRefreshFailure(@)]
<1>3. \/ /\ tokenFiles' = Put(tokenFiles, s, pair)
         /\ Commit([accounts EXCEPT ![s] = fresh])
         /\ Settle(s, "true")
      \/ /\ SaveTokenFails(s)
         /\ accounts' = [accounts EXCEPT ![s] = failed]
         /\ PersistState([accounts EXCEPT ![s] = failed], 1)
         /\ Settle(s, "false")
  BY <1>2, Zenon DEF GrantGranted
<1>4. \E a : accounts' = [accounts EXCEPT ![s] = a] /\ a.email = s
  BY <1>3 DEF Commit
<1>5. OwnEmails(accounts)' BY <1>4, <1>1 DEF KeepsTokens, OwnEmails
<1>6. ASSUME Faultless' PROVE Honoured'
  <2>1. Honoured BY <1>6, FaultsStay DEF KeepsTokens
  <2>2. /\ tokenFiles' = Put(tokenFiles, s, pair)
        /\ accounts' = [accounts EXCEPT ![s] = fresh]
        /\ Settle(s, "true")
    BY <1>1, <1>3, <1>6 DEF PersistState, Commit, Faultless
  <2>3. live' = (live \ {refresh[s].tok}) \cup {t} BY DEF GrantGranted
  <2>4. \A e, id : Owns(e, id)' = IF e = s THEN id = t ELSE Owns(e, id)
    BY <1>1, <2>2 DEF Owns, Put
  <2>5. \A e \in Names : ~Owns(e, t)
    BY DEF Owns, UnusedTokens, TokensInUse
  <2>6. Owns(s, refresh[s].tok) BY <1>1, <2>1 DEF Honoured, Owns
  <2>7. \A e \in Names, id \in Tokens : Owns(e, id) /\ e # s => id # refresh[s].tok /\ id # t
    BY <1>1, <2>1, <2>5, <2>6 DEF Honoured
  <2>8. \A r \in DOMAIN refresh' : refresh'[r].tok = accounts'[r].tok.id
    BY <1>1, <2>1, <2>2 DEF Honoured, Settle, Without
  <2>9. \A e \in Names, id \in Tokens : Owns(e, id)' => id \in live'
    BY <2>1, <2>3, <2>4, <2>7 DEF Honoured
  <2>10. \A e, f \in Names, id \in Tokens : Owns(e, id)' /\ Owns(f, id)' => e = f
    BY <2>1, <2>4, <2>7 DEF Honoured
  <2> QED BY <2>8, <2>9, <2>10 DEF Honoured
<1> QED BY <1>5, <1>6

\* So does a login, for the file alone.
LEMMA LoginKeepsTokens ==
  ASSUME TypeOK, KeepsTokens, [Next]_vars, NEW t \in UnusedTokens, LoginFinish(t)
  PROVE  KeepsTokens'
<1> DEFINE e == login.email
           pair == [id |-> t, life |-> Lifetime]
<1>1. /\ live' = live \cup {t} /\ UNCHANGED <<accounts, refresh>>
      /\ \/ tokenFiles' = Put(tokenFiles, e, pair)
         \/ diskFaults' = diskFaults + 1
  BY DEF LoginFinish, memory
<1>2. ASSUME Faultless' PROVE Honoured'
  <2>1. Honoured BY <1>2, FaultsStay DEF KeepsTokens
  <2>2. tokenFiles' = Put(tokenFiles, e, pair)
    BY <1>1, <1>2, FaultsStay DEF Faultless
  <2> HIDE DEF e
  <2>3. \A f, id : Owns(f, id)' => Owns(f, id) \/ (f = e /\ id = t)
    BY <1>1, <2>2 DEF Owns, Put
  <2>4. \A f \in Names : ~Owns(f, t) BY DEF Owns, UnusedTokens, TokensInUse
  <2> QED BY <1>1, <2>1, <2>3, <2>4 DEF Honoured
<1> QED BY <1>1, <1>2 DEF KeepsTokens, Faultless

\* What fails, while nothing is lost, is a refresh whose token is spent, and
\* there is none; while something is, the emails still stay.
LEMMA GrantFailsKeepsTokens ==
  ASSUME TypeOK, KeepsTokens, [Next]_vars, NEW s \in DOMAIN refresh,
         GrantError(s) \/ GrantReplyLost(s) \/ GrantRejected(s)
  PROVE  KeepsTokens'
<1>1. s \in DOMAIN accounts /\ accounts[s].run \in Runtime /\ netFaults \in Nat
      /\ accounts[s].tok.id \in Tokens /\ s \in Names
  BY BoundsAssumption DEF TypeOK, ManagerTypeOK, Account, Token
<1>2. NextTry(s) \/ RefreshFails(s) BY DEF GrantError, GrantReplyLost, GrantRejected
<1>3. RecordEffect
  <2>1. AfterRefreshFailure(accounts[s].run) \in Runtime BY <1>1, RuntimeType
  <2>2. RefreshFails(s) => RecordEffect
    BY <1>1, <2>1 DEF RefreshFails, RecordEffect, ChangesRun
  <2> QED BY <1>2, <2>2 DEF NextTry, RecordEffect
<1>4. \A r \in DOMAIN accounts : accounts'[r].email = accounts[r].email
      /\ DOMAIN accounts' = DOMAIN accounts
  BY <1>3, RecordKeepsTokens
<1>5. ~GrantOmitsEmail => OwnEmails(accounts)' BY <1>1, <1>4 DEF KeepsTokens, OwnEmails
<1>6. ASSUME Faultless' PROVE FALSE
  <2>1. Honoured /\ netFaults = 0 BY <1>6, FaultsStay DEF KeepsTokens, Faultless
  <2>2. GrantRejected(s)
    BY <1>1, <1>6, <2>1 DEF GrantError, GrantReplyLost, Faultless
  <2>3. refresh[s].tok \in live BY <1>1, <2>1 DEF Honoured, Owns
  <2> QED BY <2>2, <2>3 DEF GrantRejected
<1> QED BY <1>5, <1>6 DEF KeepsTokens, Faultless

\* A call a request makes keeps what is held.
LEMMA CallerKeepsTokens ==
  ASSUME TypeOK, KeepsTokens, [Next]_vars, NEW c \in Callers, CallerStep(c)
  PROVE  KeepsTokens'
<1>1. UNCHANGED <<tokenFiles, live>>
  BY DEF CallerStep, Begin, Succeed, Fail, Drop, AskRefresh, Refreshed,
         NotRefreshed, RecordOnly, managerVars, RecordAttempt, RecordSuccess,
         RecordFailure, Record, Commit, files
<1>2. CASE AskRefresh(c)
  <2>1. c \in Waiters BY DEF Waiters
  <2> QED BY <1>1, <1>2, <2>1, RefreshAccountPresents, SameTokensKept DEF AskRefresh
<1>3. CASE ~AskRefresh(c)
  <2>1. RecordEffect
    BY <1>3, RecordsChangeRun
       DEF TypeOK, CallerStep, Begin, Succeed, Fail, Drop, Refreshed, NotRefreshed,
           FailureKinds, managerVars, files, RecordEffect
  <2>2. refresh' = refresh
    BY <1>3 DEF CallerStep, Begin, Succeed, Fail, Drop, Refreshed, NotRefreshed,
                RecordOnly, managerVars
  <2> QED BY <1>1, <2>1, <2>2, RecordKeepsTokens, SameTokensKept
<1> QED BY <1>2, <1>3

\* The sweep presents the tokens its accounts hold; time and a login's start
\* change none.
LEMMA OthersKeepTokens ==
  ASSUME TypeOK, KeepsTokens, [Next]_vars,
         SweepStart \/ SweepResume \/ Tick \/ \E e \in Names : LoginStart(e)
  PROVE  KeepsTokens'
<1>1. CASE SweepStart \/ SweepResume
  <2>1. PICK p : SweepFrom(p) BY <1>1 DEF SweepStart, SweepResume
  <2>2. UNCHANGED refresh \/ \E e : RefreshAccount(Sweep, e) BY <2>1 DEF SweepFrom
  <2>3. Sweep \in Waiters BY DEF Waiters
  <2>4. \A s \in DOMAIN refresh' :
           \/ s \in DOMAIN refresh /\ refresh'[s].tok = refresh[s].tok
           \/ s \in DOMAIN accounts /\ refresh'[s].tok = accounts[s].tok.id
    BY <2>2, <2>3, RefreshAccountPresents
  <2> QED BY <1>1, <2>4, SameTokensKept DEF SweepStart, SweepResume, SweepUnchanged, files
<1>2. CASE Tick
  <2>1. \A tok \in Token : AgeToken(tok).id = tok.id BY DEF Token, AgeToken
  <2>2. \A a \in Account : /\ a.tok \in Token
                           /\ [a EXCEPT !.tok = AgeToken(@), !.run = AgeRuntime(@)].email = a.email
                           /\ [a EXCEPT !.tok = AgeToken(@), !.run = AgeRuntime(@)].tok
                                = AgeToken(a.tok)
    BY DEF Account
  <2>3. /\ DOMAIN accounts' = DOMAIN accounts
        /\ \A s \in DOMAIN accounts : /\ accounts'[s].email = accounts[s].email
                                      /\ accounts'[s].tok.id = accounts[s].tok.id
    BY <1>2, <2>1, <2>2 DEF Tick, AgeAccounts, TypeOK, ManagerTypeOK
  <2>4. /\ DOMAIN tokenFiles' = DOMAIN tokenFiles
        /\ \A e \in DOMAIN tokenFiles : tokenFiles'[e].id = tokenFiles[e].id
    BY <1>2, <2>1 DEF Tick, TypeOK, ManagerTypeOK
  <2> QED BY <1>2, <2>3, <2>4, SameTokensKept DEF Tick
<1>3. CASE \E e \in Names : LoginStart(e)
  BY <1>3, SameTokensKept DEF LoginStart, memory, files
<1> QED BY <1>1, <1>2, <1>3

\* Unless a reply or a write was lost, what performRefresh presents was never
\* spent before, whoever asked for it, and so is every token file: sweep, requests,
\* logins in another process and restarts between any two steps never burn a login
\* (one refreshPromise per account; saveToken on success).
THEOREM LoginsAreNeverBurnt == Spec => []LoginsStayRedeemable
<1> DEFINE Inv == TypeOK /\ KeepsTokens
<1>1. Init => Inv
  <2> SUFFICES ASSUME Init PROVE TypeOK /\ KeepsTokens OBVIOUS
  <2>1. PICK age \in [InitialFiles -> 0..Lifetime] :
          tokenFiles = [n \in InitialFiles |-> [id |-> n, life |-> age[n]]]
    BY DEF Init, ManagerInit
  <2>2. accounts = Loaded(tokenFiles, stateFile) /\ refresh = NoRefresh /\ live = InitialFiles
    BY DEF Init, ManagerInit
  <2>3. \A e, id : Owns(e, id) => id = e /\ id \in InitialFiles
    BY <2>1, <2>2 DEF Owns, Loaded
  <2>4. Honoured BY <2>2, <2>3 DEF Honoured, NoRefresh
  <2>5. OwnEmails(accounts) BY <2>2 DEF OwnEmails, Loaded
  <2> QED BY <2>4, <2>5, InitType DEF KeepsTokens
<1>2. Inv /\ [Next]_vars => Inv'
  <2> SUFFICES ASSUME TypeOK, KeepsTokens, [Next]_vars PROVE KeepsTokens'
    BY NextType
  <2>1. CASE \E c \in Callers : CallerStep(c) BY <2>1, CallerKeepsTokens
  <2>2. CASE ManagerStep(UnusedTokens)
    <3>1. UnusedTokens # {} => (CHOOSE t \in UnusedTokens : TRUE) \in UnusedTokens OBVIOUS
    <3> HIDE DEF UnusedTokens
    <3>2. ASSUME UnusedTokens # {}, NEW s \in DOMAIN refresh,
                 GrantGranted(s, CHOOSE t \in UnusedTokens : TRUE)
          PROVE  KeepsTokens'
      BY <3>1, <3>2, GrantKeepsTokens
    <3>3. ASSUME UnusedTokens # {}, LoginFinish(CHOOSE t \in UnusedTokens : TRUE)
          PROVE  KeepsTokens'
      BY <3>1, <3>3, LoginKeepsTokens
    <3> QED BY <2>2, <3>2, <3>3, GrantFailsKeepsTokens, OthersKeepTokens DEF ManagerStep
  <2>3. CASE Crash
    <3>1. /\ accounts' = Loaded(tokenFiles, stateFile) /\ refresh' = NoRefresh
          /\ UNCHANGED <<tokenFiles, live>>
      BY <2>3 DEF Crash, Restart, files
    <3>2. OwnEmails(accounts)' BY <3>1 DEF OwnEmails, Loaded
    <3>3. \A e, id : Owns(e, id)' => Owns(e, id) BY <3>1 DEF Owns, Loaded
    <3>4. Faultless' => Honoured' BY <3>1, <3>3, FaultsStay DEF Honoured, NoRefresh, KeepsTokens
    <3> QED BY <3>2, <3>4 DEF KeepsTokens
  <2>4. CASE UNCHANGED vars
    BY <2>4, SameTokensKept DEF vars, managerVars
  <2> QED BY <2>1, <2>2, <2>3, <2>4 DEF Next
<1>3. Inv => LoginsStayRedeemable
  <2> SUFFICES ASSUME TypeOK, Honoured
               PROVE  /\ \A s \in DOMAIN refresh : refresh[s].tok \in live
                      /\ \A e \in DOMAIN tokenFiles : tokenFiles[e].id \in live
    BY DEF KeepsTokens, Faultless, LoginsStayRedeemable
  <2>1. \A s \in DOMAIN refresh : /\ s \in DOMAIN accounts /\ s \in Names
                                  /\ refresh[s].tok \in Tokens
    BY DEF TypeOK, ManagerTypeOK, RefreshInFlight
  <2>2. \A e \in DOMAIN tokenFiles : e \in Names /\ tokenFiles[e].id \in Tokens
    BY DEF TypeOK, ManagerTypeOK, Token
  <2> QED BY <2>1, <2>2 DEF Honoured, Owns
<1> QED BY <1>1, <1>2, <1>3, PTL DEF Spec

-----------------------------------------------------------------------------
(* Outcomes stay within the attempts *)

\* At least n of the attempts counted have no outcome yet.
LeavesOpen(run, n) == run.totalSuccesses + run.totalFailures + n <= run.totalRequests

\* The inductive invariant: OutcomesWithinAttempts, and that no copy of the
\* counters on disk or in a login process holds more outcomes than attempts; a
\* restart loads one of them and cuts every open attempt off.
Counted ==
    /\ OwnEmails(accounts)
    /\ \A e \in Names : IsFiniteSet(OpenOn(e))
    /\ \A s \in DOMAIN accounts : LeavesOpen(accounts[s].run, Cardinality(OpenOn(s)))
    /\ \A e \in DOMAIN stateFile : LeavesOpen(stateFile[e], 0)
    /\ login # NoLogin => \A s \in DOMAIN login.acc : LeavesOpen(login.acc[s].run, 0)

\* Every entry of state.json is the runtime state of an account of the list.
LEMMA StateOfEntries ==
  ASSUME NEW acc, DOMAIN acc \subseteq Names
  PROVE  \A e \in DOMAIN StateOf(acc) : \E s \in DOMAIN acc : StateOf(acc)[e] = acc[s].run
<1> SUFFICES ASSUME NEW e \in {acc[s].email : s \in DOMAIN acc}
             PROVE  \E s \in DOMAIN acc : acc[Last(Holders(acc, e))].run = acc[s].run
  BY DEF StateOf
<1>1. Holders(acc, e) # {} /\ Holders(acc, e) \subseteq Names BY DEF Holders
<1>2. Last(Holders(acc, e)) \in DOMAIN acc BY <1>1, LastIsMember DEF Holders
<1> QED BY <1>2

\* What persistState leaves behind: the old file, none, or entries of the list.
LEMMA PersistedEntries ==
  ASSUME NEW acc, DOMAIN acc \subseteq Names, NEW k, PersistState(acc, k),
         \A s \in DOMAIN acc : LeavesOpen(acc[s].run, 0),
         \A e \in DOMAIN stateFile : LeavesOpen(stateFile[e], 0)
  PROVE  \A e \in DOMAIN stateFile' : LeavesOpen(stateFile'[e], 0)
<1>1. stateFile' \in {StateOf(acc), stateFile, NoFile} BY DEF PersistState
<1>2. DOMAIN NoFile = {} BY DEF NoFile
<1> QED BY <1>1, <1>2, StateOfEntries

\* What a call counts: an attempt opens one, an outcome closes one, and nothing
\* else touches the counters.
LEMMA CountersMove ==
  ASSUME NEW run \in Runtime, NEW n \in Nat
  PROVE  /\ LeavesOpen(run, n) => LeavesOpen(AfterAttempt(run), n + 1)
         /\ LeavesOpen(run, n + 1) => LeavesOpen(AfterSuccess(run), n)
         /\ LeavesOpen(run, n + 1) =>
              \A kind \in FailureKinds : LeavesOpen(AfterFailure(run, kind), n)
         /\ LeavesOpen(run, n) => LeavesOpen(AfterNewToken(run), n)
         /\ LeavesOpen(run, n) => LeavesOpen(AfterRefreshFailure(run), n)
         /\ LeavesOpen(run, n) => LeavesOpen(AgeRuntime(run), n)
         /\ LeavesOpen(run, n) => LeavesOpen(run, 0)
         /\ LeavesOpen(FreshRuntime, 0)
<1>1. run.totalRequests \in Nat /\ run.totalSuccesses \in Nat /\ run.totalFailures \in Nat
  BY DEF Runtime
<1>2. /\ AfterAttempt(run).totalRequests = run.totalRequests + 1
      /\ AfterAttempt(run).totalSuccesses = run.totalSuccesses
      /\ AfterAttempt(run).totalFailures = run.totalFailures
  BY DEF AfterAttempt, Runtime
<1>3. /\ AfterSuccess(run).totalRequests = run.totalRequests
      /\ AfterSuccess(run).totalSuccesses = run.totalSuccesses + 1
      /\ AfterSuccess(run).totalFailures = run.totalFailures
  BY DEF AfterSuccess, Runtime
<1>4. ASSUME NEW kind \in FailureKinds
      PROVE  /\ AfterFailure(run, kind).totalRequests = run.totalRequests
             /\ AfterFailure(run, kind).totalSuccesses = run.totalSuccesses
             /\ AfterFailure(run, kind).totalFailures = run.totalFailures + 1
  BY DEF AfterFailure, Runtime
<1>5. /\ AfterNewToken(run).totalRequests = run.totalRequests
      /\ AfterNewToken(run).totalSuccesses = run.totalSuccesses
      /\ AfterNewToken(run).totalFailures = run.totalFailures
  BY DEF AfterNewToken, Runtime
<1>6. /\ AfterRefreshFailure(run).totalRequests = run.totalRequests
      /\ AfterRefreshFailure(run).totalSuccesses = run.totalSuccesses
      /\ AfterRefreshFailure(run).totalFailures = run.totalFailures
  BY DEF AfterRefreshFailure, Runtime
<1>7. /\ AgeRuntime(run).totalRequests = run.totalRequests
      /\ AgeRuntime(run).totalSuccesses = run.totalSuccesses
      /\ AgeRuntime(run).totalFailures = run.totalFailures
  BY DEF AgeRuntime, Runtime
<1>8. LeavesOpen(FreshRuntime, 0) BY DEF LeavesOpen, FreshRuntime
<1> QED BY <1>1, <1>2, <1>3, <1>4, <1>5, <1>6, <1>7, <1>8 DEF LeavesOpen

\* The record calls are about the account of their email and no other.
LEMMA RecordOwn ==
  ASSUME TypeOK, OwnEmails(accounts), NEW e
  PROVE  \/ /\ e \notin DOMAIN accounts
            /\ RecordAttempt(e) \/ RecordSuccess(e) \/ (\E k \in FailureKinds : RecordFailure(e, k))
                 => UNCHANGED <<accounts, stateFile>>
         \/ /\ e \in DOMAIN accounts
            /\ RecordAttempt(e) => Commit([accounts EXCEPT ![e].run = AfterAttempt(accounts[e].run)])
            /\ RecordSuccess(e) => Commit([accounts EXCEPT ![e].run = AfterSuccess(accounts[e].run)])
            /\ \A k \in FailureKinds : RecordFailure(e, k) =>
                 Commit([accounts EXCEPT ![e].run = AfterFailure(accounts[e].run, k)])
<1>1. Held(accounts, e) <=> e \in DOMAIN accounts BY DEF Held, Holders, OwnEmails
<1>2. CASE e \notin DOMAIN accounts
  BY <1>1, <1>2 DEF RecordAttempt, RecordSuccess, RecordFailure, Record
<1>3. CASE e \in DOMAIN accounts
  <2>1. SlotOf(accounts, e) = e
    <3>1. Holders(accounts, e) = {e} BY <1>3 DEF Holders, OwnEmails
    <3>2. {e} \subseteq Names BY <1>3 DEF TypeOK, ManagerTypeOK
    <3>3. First({e}) \in {e} BY <3>2, FirstIsMember
    <3> QED BY <3>1, <3>3 DEF SlotOf
  <2> QED BY <1>1, <1>3, <2>1 DEF RecordAttempt, RecordSuccess, RecordFailure, Record
<1> QED BY <1>2, <1>3

\* The attempts open on an email number a natural.
LEMMA OpenType ==
  ASSUME Counted, NEW e \in Names
  PROVE  IsFiniteSet(OpenOn(e)) /\ Cardinality(OpenOn(e)) \in Nat
BY FS_CardinalityType DEF Counted

\* An attempt is opened on one email ...
LEMMA OpensOne ==
  ASSUME TypeOK, Counted, NEW c \in Callers, Idle(c), NEW e \in Names, NEW t,
         calls' = [calls EXCEPT ![c] = [phase |-> "sent", email |-> e, tok |-> t]],
         NEW f \in Names
  PROVE  /\ IsFiniteSet(OpenOn(f)')
         /\ Cardinality(OpenOn(f)') = Cardinality(OpenOn(f)) + (IF f = e THEN 1 ELSE 0)
<1>1. IsFiniteSet(OpenOn(f)) /\ Cardinality(OpenOn(f)) \in Nat BY OpenType
<1>2. OpenOn(f)' = IF f = e THEN OpenOn(f) \cup {c} ELSE OpenOn(f)
  BY DEF OpenOn, Idle, TypeOK
<1>3. c \notin OpenOn(f) BY DEF OpenOn
<1> QED BY <1>1, <1>2, <1>3, FS_AddElement

\* ... and closed on the one it was opened on.
LEMMA ClosesOne ==
  ASSUME TypeOK, Counted, NEW c \in Callers, ~Idle(c), Close(c), NEW f \in Names
  PROVE  /\ IsFiniteSet(OpenOn(f)')
         /\ Cardinality(OpenOn(f))
              = Cardinality(OpenOn(f)') + (IF f = calls[c].email THEN 1 ELSE 0)
         /\ Cardinality(OpenOn(f)') \in Nat
<1>1. IsFiniteSet(OpenOn(f)) /\ Cardinality(OpenOn(f)) \in Nat BY OpenType
<1>2. OpenOn(f)' = OpenOn(f) \ {c} BY DEF OpenOn, Idle, TypeOK, Close, NoCall
<1>3. c \in OpenOn(f) <=> f = calls[c].email BY DEF OpenOn
<1>4. IsFiniteSet(OpenOn(f)') BY <1>1, <1>2, FS_RemoveElement
<1>5. Cardinality(OpenOn(f)') \in Nat BY <1>4, FS_CardinalityType
<1>6. Cardinality(OpenOn(f)')
        = IF c \in OpenOn(f) THEN Cardinality(OpenOn(f)) - 1 ELSE Cardinality(OpenOn(f))
  BY <1>1, <1>2, FS_RemoveElement
<1> QED BY <1>1, <1>3, <1>4, <1>5, <1>6

\* A step that counts right in memory and then persists counts right on disk.
LEMMA CountedPersisted ==
  ASSUME TypeOK, Counted, [Next]_vars, OwnEmails(accounts'), NEW k,
         PersistState(accounts', k) \/ stateFile' = stateFile, login' = login,
         \A e \in Names : IsFiniteSet(OpenOn(e)'),
         \A s \in DOMAIN accounts' : LeavesOpen(accounts'[s].run, Cardinality(OpenOn(s)'))
  PROVE  Counted'
<1>1. IsAccounts(accounts') BY NextType DEF TypeOK, ManagerTypeOK, IsAccounts
<1>2. ASSUME NEW s \in DOMAIN accounts' PROVE LeavesOpen(accounts'[s].run, 0)
  <2>1. s \in Names /\ accounts'[s].run \in Runtime BY <1>1 DEF IsAccounts, Account
  <2>2. Cardinality(OpenOn(s)') \in Nat BY <2>1, FS_CardinalityType
  <2> QED BY <2>1, <2>2, CountersMove
<1>3. \A e \in DOMAIN stateFile' : LeavesOpen(stateFile'[e], 0)
  <2>1. CASE stateFile' = stateFile BY <2>1 DEF Counted
  <2>2. CASE PersistState(accounts', k) BY <1>1, <1>2, <2>2, PersistedEntries DEF Counted, IsAccounts
  <2> QED BY <2>1, <2>2
<1> QED BY <1>3 DEF Counted

\* One account's counters move, in step with its open attempts.
LEMMA CountedMoved ==
  ASSUME TypeOK, Counted, [Next]_vars, NEW s \in DOMAIN accounts, NEW run \in Runtime,
         Commit([accounts EXCEPT ![s].run = run]), login' = login,
         \A e \in Names : IsFiniteSet(OpenOn(e)'),
         \A r \in DOMAIN accounts \ {s} : Cardinality(OpenOn(r)') = Cardinality(OpenOn(r)),
         LeavesOpen(run, Cardinality(OpenOn(s)'))
  PROVE  Counted'
<1>1. accounts' = [accounts EXCEPT ![s].run = run] /\ PersistState(accounts', 0)
  BY DEF Commit
<1>2. /\ DOMAIN accounts' = DOMAIN accounts /\ accounts'[s].run = run
      /\ \A r \in DOMAIN accounts : accounts'[r].email = accounts[r].email
      /\ \A r \in DOMAIN accounts \ {s} : accounts'[r] = accounts[r]
  BY <1>1 DEF TypeOK, ManagerTypeOK, Account
<1>3. OwnEmails(accounts') BY <1>2 DEF OwnEmails, Counted
<1>4. \A r \in DOMAIN accounts' : LeavesOpen(accounts'[r].run, Cardinality(OpenOn(r)'))
  BY <1>2 DEF Counted
<1> QED BY <1>1, <1>3, <1>4, CountedPersisted

\* Nothing is counted, and no attempt is opened.
LEMMA CountedStill ==
  ASSUME TypeOK, Counted, [Next]_vars, UNCHANGED <<accounts, stateFile>>, login' = login,
         \A e \in Names : /\ IsFiniteSet(OpenOn(e)')
                          /\ Cardinality(OpenOn(e)') \in Nat
                          /\ Cardinality(OpenOn(e)') <= Cardinality(OpenOn(e))
  PROVE  Counted'
<1>1. ASSUME NEW s \in DOMAIN accounts
      PROVE  LeavesOpen(accounts[s].run, Cardinality(OpenOn(s)'))
  <2>1. s \in Names /\ accounts[s].run \in Runtime BY DEF TypeOK, ManagerTypeOK, Account
  <2>2. /\ accounts[s].run.totalRequests \in Nat /\ accounts[s].run.totalSuccesses \in Nat
        /\ accounts[s].run.totalFailures \in Nat
    BY <2>1 DEF Runtime
  <2>3. LeavesOpen(accounts[s].run, Cardinality(OpenOn(s))) BY DEF Counted
  <2>4. Cardinality(OpenOn(s)) \in Nat BY <2>1, OpenType
  <2> QED BY <2>1, <2>2, <2>3, <2>4 DEF LeavesOpen
<1>2. OwnEmails(accounts') BY DEF Counted, OwnEmails
<1> QED BY <1>1, <1>2, CountedPersisted

\* What a request calls counts an attempt once and its outcome at most once.
LEMMA CallerCounts ==
  ASSUME TypeOK, Counted, [Next]_vars, NEW c \in Callers, CallerStep(c)
  PROVE  Counted'
<1>1. login' = login
  BY DEF CallerStep, Begin, Succeed, Fail, Drop, AskRefresh, Refreshed, NotRefreshed,
         RecordOnly, managerVars
<1>2. OwnEmails(accounts) BY DEF Counted
<1>3. CASE Begin(c)
  <2>1. PICK s \in DOMAIN accounts : s = First(UsableSlots(accounts))
    <3>1. UsableSlots(accounts) # {} /\ UsableSlots(accounts) \subseteq Names
      BY <1>3 DEF Begin, UsableSlots, TypeOK, ManagerTypeOK
    <3> QED BY <3>1, FirstIsMember DEF UsableSlots
  <2>2. accounts[s].email = s BY <2>1 DEF Counted, OwnEmails
  <2>3. /\ calls' = [calls EXCEPT ![c] = [phase |-> "sent", email |-> s,
                                          tok |-> accounts[s].tok.id]]
        /\ Idle(c) /\ RecordAttempt(s)
    BY <1>3, <2>1, <2>2 DEF Begin
  <2>4. s \in Names /\ accounts[s].run \in Runtime BY <2>1 DEF TypeOK, ManagerTypeOK, Account
  <2>5. Commit([accounts EXCEPT ![s].run = AfterAttempt(accounts[s].run)])
    BY <1>2, <2>1, <2>3, RecordOwn
  <2>6. \A f \in Names : /\ IsFiniteSet(OpenOn(f)')
                         /\ Cardinality(OpenOn(f)')
                              = Cardinality(OpenOn(f)) + (IF f = s THEN 1 ELSE 0)
                         /\ Cardinality(OpenOn(f)) \in Nat
    BY <2>3, <2>4, OpensOne, OpenType
  <2>7. LeavesOpen(AfterAttempt(accounts[s].run), Cardinality(OpenOn(s)'))
    BY <2>1, <2>4, <2>6, CountersMove DEF Counted
  <2>8. \A r \in DOMAIN accounts \ {s} : Cardinality(OpenOn(r)') = Cardinality(OpenOn(r))
    BY <2>6 DEF TypeOK, ManagerTypeOK
  <2>9. AfterAttempt(accounts[s].run) \in Runtime BY <2>4, RuntimeType
  <2> QED BY <1>1, <2>1, <2>5, <2>6, <2>7, <2>8, <2>9, CountedMoved
<1>4. ASSUME ~Idle(c), Close(c), NEW e, e = calls[c].email,
             RecordSuccess(e) \/ \E k \in FailureKinds : RecordFailure(e, k)
      PROVE  Counted'
  <2>1. \A f \in Names : /\ IsFiniteSet(OpenOn(f)') /\ Cardinality(OpenOn(f)') \in Nat
                         /\ Cardinality(OpenOn(f))
                              = Cardinality(OpenOn(f)') + (IF f = e THEN 1 ELSE 0)
    BY <1>4, ClosesOne
  <2>2. CASE e \notin DOMAIN accounts
    <3>1. UNCHANGED <<accounts, stateFile>> BY <1>2, <1>4, <2>2, RecordOwn
    <3> QED BY <1>1, <2>1, <3>1, CountedStill
  <2>3. CASE e \in DOMAIN accounts
    <3>1. e \in Names /\ accounts[e].run \in Runtime
      BY <2>3 DEF TypeOK, ManagerTypeOK, Account
    <3>2. PICK run \in Runtime :
            /\ Commit([accounts EXCEPT ![e].run = run])
            /\ \A n \in Nat : LeavesOpen(accounts[e].run, n + 1) => LeavesOpen(run, n)
      <4>1. CASE RecordSuccess(e)
        <5>1. AfterSuccess(accounts[e].run) \in Runtime BY <3>1, RuntimeType
        <5> QED BY <1>2, <2>3, <3>1, <4>1, <5>1, RecordOwn, CountersMove
      <4>2. ASSUME NEW k \in FailureKinds, RecordFailure(e, k)
            PROVE  \E run \in Runtime :
                     /\ Commit([accounts EXCEPT ![e].run = run])
                     /\ \A n \in Nat : LeavesOpen(accounts[e].run, n + 1) => LeavesOpen(run, n)
        <5>1. AfterFailure(accounts[e].run, k) \in Runtime BY <3>1, RuntimeType
        <5> QED BY <1>2, <2>3, <3>1, <4>2, <5>1, RecordOwn, CountersMove
      <4> QED BY <1>4, <4>1, <4>2
    <3>3. LeavesOpen(run, Cardinality(OpenOn(e)')) BY <2>1, <2>3, <3>1, <3>2 DEF Counted
    <3>4. \A r \in DOMAIN accounts \ {e} : Cardinality(OpenOn(r)') = Cardinality(OpenOn(r))
      BY <2>1 DEF TypeOK, ManagerTypeOK
    <3> QED BY <1>1, <2>1, <2>3, <3>2, <3>3, <3>4, CountedMoved
  <2> QED BY <2>2, <2>3
<1>5. CASE Succeed(c) \/ Fail(c)
  BY <1>4, <1>5 DEF Succeed, Fail, Sent, Idle
<1>6. CASE NotRefreshed(c)
  BY <1>4, <1>6 DEF NotRefreshed, Answered, Idle, FailureKinds
<1>7. CASE Drop(c) \/ Refreshed(c)
  <2>1. ~Idle(c) /\ Close(c) /\ UNCHANGED <<accounts, stateFile>>
    BY <1>7 DEF Drop, Refreshed, Sent, Answered, Idle, managerVars, files
  <2>2. \A f \in Names : /\ IsFiniteSet(OpenOn(f)') /\ Cardinality(OpenOn(f)') \in Nat
                         /\ Cardinality(OpenOn(f)') <= Cardinality(OpenOn(f))
    <3> TAKE f \in Names
    <3> QED BY <2>1, ClosesOne
  <2> QED BY <1>1, <2>1, <2>2, CountedStill
<1>8. CASE AskRefresh(c)
  <2>1. UNCHANGED <<accounts, stateFile>> BY <1>8 DEF AskRefresh, files
  <2>2. \A e : OpenOn(e)' = OpenOn(e)
    BY <1>8 DEF AskRefresh, Sent, OpenOn, Idle, TypeOK, OpenCall, NoCall
  <2> QED BY <1>1, <2>1, <2>2, OpenType, CountedStill
<1> QED BY <1>3, <1>5, <1>6, <1>7, <1>8 DEF CallerStep

\* Without any request nothing is counted: a refresh, a login and the passing of
\* time copy the counters or leave them.
LEMMA ManagerCounts ==
  ASSUME TypeOK, Counted, [Next]_vars, ~GrantOmitsEmail, ManagerStep(UnusedTokens),
         UNCHANGED calls
  PROVE  Counted'
<1>1. \A e : OpenOn(e)' = OpenOn(e) BY DEF OpenOn, Idle
<1>2. \A e \in Names : IsFiniteSet(OpenOn(e)) /\ Cardinality(OpenOn(e)) \in Nat BY OpenType
<1>3. ASSUME UNCHANGED <<accounts, stateFile, login>> PROVE Counted'
  BY <1>1, <1>2, <1>3, CountedStill
<1>4. ASSUME NEW s \in DOMAIN refresh, GrantError(s) \/ GrantReplyLost(s) \/ GrantRejected(s)
      PROVE  Counted'
  <2>1. (NextTry(s) \/ RefreshFails(s)) /\ login' = login
    BY <1>4 DEF GrantError, GrantReplyLost, GrantRejected
  <2>2. CASE UNCHANGED <<accounts, stateFile>> BY <1>3, <2>1, <2>2
  <2>3. CASE RefreshFails(s)
    <3>1. s \in DOMAIN accounts /\ s \in Names /\ accounts[s].run \in Runtime
      BY DEF TypeOK, ManagerTypeOK, Account
    <3>2. AfterRefreshFailure(accounts[s].run) \in Runtime BY <3>1, RuntimeType
    <3>3. LeavesOpen(AfterRefreshFailure(accounts[s].run), Cardinality(OpenOn(s)))
      BY <1>2, <3>1, CountersMove DEF Counted
    <3>4. Commit([accounts EXCEPT ![s].run = AfterRefreshFailure(accounts[s].run)])
      BY <2>3 DEF RefreshFails
    <3> QED BY <1>1, <1>2, <2>1, <3>1, <3>2, <3>3, <3>4, CountedMoved
  <2> QED BY <2>1, <2>2, <2>3 DEF NextTry
<1>5. ASSUME NEW s \in DOMAIN refresh, NEW t, GrantGranted(s, t) PROVE Counted'
  <2>1. s \in DOMAIN accounts /\ s \in Names /\ accounts[s].run \in Runtime
        /\ accounts[s].email = s
    BY DEF TypeOK, ManagerTypeOK, Account, Counted, OwnEmails
  <2>2. GrantedEmails(s) = {s} BY <2>1 DEF GrantedEmails
  <2> DEFINE pair == [id |-> t, life |-> Lifetime]
             fresh == [email |-> s, tok |-> pair, run |-> AfterNewToken(accounts[s].run)]
             failed == [fresh EXCEPT !.run = AfterRefreshFailure(@)]
  <2>3. \/ /\ Commit([accounts EXCEPT ![s] = fresh])
           /\ Settle(s, "true")
        \/ /\ accounts' = [accounts EXCEPT ![s] = failed]
           /\ PersistState([accounts EXCEPT ![s] = failed], 1)
           /\ Settle(s, "false")
    BY <1>5, <2>2, Zenon DEF GrantGranted
  <2>4. login' = login BY <1>5 DEF GrantGranted
  <2>5. LeavesOpen(accounts[s].run, Cardinality(OpenOn(s))) BY <2>1 DEF Counted
  <2>6. PICK a : /\ accounts' = [accounts EXCEPT ![s] = a] /\ a.email = s
                 /\ \E k : PersistState(accounts', k)
                 /\ LeavesOpen(a.run, Cardinality(OpenOn(s)))
    <3>1. /\ AfterNewToken(accounts[s].run) \in Runtime
          /\ LeavesOpen(AfterNewToken(accounts[s].run), Cardinality(OpenOn(s)))
      BY <1>2, <2>1, <2>5, RuntimeType, CountersMove
    <3>2. LeavesOpen(AfterRefreshFailure(AfterNewToken(accounts[s].run)),
                     Cardinality(OpenOn(s)))
      BY <1>2, <2>1, <3>1, CountersMove
    <3>3. fresh.email = s /\ fresh.run = AfterNewToken(accounts[s].run) OBVIOUS
    <3>4. failed.email = s
          /\ failed.run = AfterRefreshFailure(AfterNewToken(accounts[s].run))
      OBVIOUS
    <3> HIDE DEF fresh, failed, pair
    <3>5. \/ accounts' = [accounts EXCEPT ![s] = fresh] /\ PersistState(accounts', 0)
          \/ accounts' = [accounts EXCEPT ![s] = failed] /\ PersistState(accounts', 1)
      BY <2>3, Zenon DEF Commit
    <3> QED BY <3>1, <3>2, <3>3, <3>4, <3>5
  <2>7. /\ OwnEmails(accounts')
        /\ \A r \in DOMAIN accounts' : LeavesOpen(accounts'[r].run, Cardinality(OpenOn(r)))
    BY <2>6 DEF Counted, OwnEmails
  <2>8. PICK k : PersistState(accounts', k) BY <2>6
  <2> QED BY <1>1, <1>2, <2>4, <2>7, <2>8, CountedPersisted
<1>6. CASE SweepStart \/ SweepResume
  BY <1>3, <1>6 DEF SweepStart, SweepResume, SweepUnchanged, files
<1>7. CASE Tick
  <2>1. ASSUME NEW a \in Account, NEW n \in Nat, LeavesOpen(a.run, n)
        PROVE  /\ LeavesOpen([a EXCEPT !.tok = AgeToken(@), !.run = AgeRuntime(@)].run, n)
               /\ [a EXCEPT !.tok = AgeToken(@), !.run = AgeRuntime(@)].email = a.email
    <3>1. a.run \in Runtime /\ LeavesOpen(AgeRuntime(a.run), n)
      BY <2>1, CountersMove DEF Account
    <3>2. [a EXCEPT !.tok = AgeToken(@), !.run = AgeRuntime(@)].run = AgeRuntime(a.run)
      BY DEF Account
    <3> QED BY <3>1, <3>2 DEF Account
  <2>2. \A s \in DOMAIN accounts : s \in Names /\ accounts[s] \in Account
    BY DEF TypeOK, ManagerTypeOK
  <2>3. /\ OwnEmails(accounts')
        /\ \A s \in DOMAIN accounts' : LeavesOpen(accounts'[s].run, Cardinality(OpenOn(s)))
    BY <1>2, <1>7, <2>1, <2>2 DEF Tick, AgeAccounts, Counted, OwnEmails
  <2>4. \A e \in DOMAIN stateFile' : LeavesOpen(stateFile'[e], 0)
    <3>1. \A e \in DOMAIN stateFile : stateFile[e] \in Runtime
      BY DEF TypeOK, ManagerTypeOK
    <3>2. \A e \in DOMAIN stateFile : LeavesOpen(AgeRuntime(stateFile[e]), 0)
      BY <3>1, CountersMove DEF Counted
    <3> QED BY <1>7, <3>2 DEF Tick
  <2>5. login' # NoLogin => \A s \in DOMAIN login'.acc : LeavesOpen(login'.acc[s].run, 0)
    <3> SUFFICES ASSUME login # NoLogin
                 PROVE  \A s \in DOMAIN login'.acc : LeavesOpen(login'.acc[s].run, 0)
      BY <1>7 DEF Tick
    <3>1. login'.acc = AgeAccounts(login.acc) BY <1>7 DEF Tick, LoginAt
    <3>2. \A s \in DOMAIN login.acc : login.acc[s] \in Account
      BY DEF TypeOK, ManagerTypeOK
    <3> QED BY <2>1, <3>1, <3>2 DEF AgeAccounts, Counted
  <2> QED BY <1>1, <1>2, <2>3, <2>4, <2>5 DEF Counted
<1>8. ASSUME NEW e \in Names, LoginStart(e) PROVE Counted'
  <2>1. /\ UNCHANGED <<accounts, stateFile>>
        /\ login' = LoginAt(e, Loaded(tokenFiles, stateFile))
    BY <1>8 DEF LoginStart, memory, files
  <2>2. \A s \in DOMAIN Loaded(tokenFiles, stateFile) :
           LeavesOpen(Loaded(tokenFiles, stateFile)[s].run, 0)
    BY DEF Loaded, Counted, LeavesOpen, FreshRuntime
  <2> QED BY <1>1, <1>2, <2>1, <2>2 DEF Counted, LoginAt
<1>9. ASSUME NEW t, LoginFinish(t) PROVE Counted'
  <2> DEFINE e == login.email
             pair == [id |-> t, life |-> Lifetime]
             acc == login.acc
             added == IF Held(acc, e)
                      THEN [acc EXCEPT ![SlotOf(acc, e)].tok = pair,
                                       ![SlotOf(acc, e)].run = AfterNewToken(@)]
                      ELSE Put(acc, e, [email |-> e, tok |-> pair, run |-> FreshRuntime])
  <2>1. /\ login # NoLogin /\ login' = NoLogin /\ UNCHANGED accounts
        /\ PersistState(added, 0) \/ UNCHANGED stateFile
    BY <1>9, Zenon DEF LoginFinish, memory
  <2>2. IsAccounts(acc) /\ e \in Names /\ \A s \in DOMAIN acc : LeavesOpen(acc[s].run, 0)
    BY <2>1 DEF TypeOK, ManagerTypeOK, IsAccounts, Counted
  <2> HIDE DEF pair, acc, e
  <2>3. \A s \in DOMAIN added : LeavesOpen(added[s].run, 0)
    <3>1. CASE Held(acc, e)
      <4>1. SlotOf(acc, e) \in DOMAIN acc BY <2>2, <3>1, SlotOfType
      <4>2. acc[SlotOf(acc, e)].run \in Runtime BY <2>2, <4>1 DEF IsAccounts, Account
      <4>3. LeavesOpen(AfterNewToken(acc[SlotOf(acc, e)].run), 0)
        BY <2>2, <4>1, <4>2, CountersMove
      <4>4. \A s \in DOMAIN acc : added[s].run =
              IF s = SlotOf(acc, e) THEN AfterNewToken(acc[SlotOf(acc, e)].run) ELSE acc[s].run
        BY <2>2, <3>1, <4>1 DEF IsAccounts, Account
      <4>5. DOMAIN added = DOMAIN acc BY <3>1
      <4> QED BY <2>2, <4>3, <4>4, <4>5
    <3>2. CASE ~Held(acc, e)
      <4>1. added = Put(acc, e, [email |-> e, tok |-> pair, run |-> FreshRuntime]) BY <3>2
      <4> HIDE DEF added
      <4> QED BY <2>2, <4>1 DEF Put, LeavesOpen, FreshRuntime
    <3> QED BY <3>1, <3>2
  <2> HIDE DEF added
  <2>5. \A f \in DOMAIN stateFile' : LeavesOpen(stateFile'[f], 0)
    <3>1. DOMAIN added \subseteq Names BY <2>2 DEF added, Put, IsAccounts
    <3> QED BY <2>1, <2>3, <3>1, PersistedEntries DEF Counted
  <2> QED BY <1>1, <1>2, <2>1, <2>5 DEF Counted
<1> QED BY <1>4, <1>5, <1>6, <1>7, <1>8, <1>9 DEF ManagerStep

\* Every attempt is counted once and ends in at most one outcome, whichever
\* requests interleave, whatever is refreshed, restarted or lost on disk in
\* between: successes, failures and open attempts never exceed the attempts counted
\* on the account (recordAttempt, recordSuccess, recordFailure; the counters of
\* state.json).
THEOREM NoOutcomeWithoutAttempt == Spec => []OutcomesWithinAttempts
<1> DEFINE Inv == TypeOK /\ (~GrantOmitsEmail => Counted)
<1>1. /\ OwnEmails(accounts)
      /\ calls = [c \in Callers |-> NoCall]
      /\ \A s \in DOMAIN accounts : LeavesOpen(accounts[s].run, 0)
      /\ \A e \in DOMAIN stateFile : LeavesOpen(stateFile[e], 0)
      /\ login = NoLogin
      => Counted
  <2>1. calls = [c \in Callers |-> NoCall] => \A e : OpenOn(e) = {}
    BY DEF OpenOn, Idle, NoCall
  <2> QED BY <2>1, FS_EmptySet DEF Counted
<1>2. Init => Inv
  <2> SUFFICES ASSUME Init PROVE TypeOK /\ Counted OBVIOUS
  <2>1. /\ accounts = Loaded(tokenFiles, stateFile) /\ stateFile = NoFile /\ login = NoLogin
        /\ calls = [c \in Callers |-> NoCall]
    BY DEF Init, ManagerInit
  <2>2. OwnEmails(accounts) BY <2>1 DEF OwnEmails, Loaded
  <2>3. \A s \in DOMAIN accounts : LeavesOpen(accounts[s].run, 0)
    BY <2>1 DEF Loaded, NoFile, LeavesOpen, FreshRuntime
  <2>4. \A e \in DOMAIN stateFile : LeavesOpen(stateFile[e], 0) BY <2>1 DEF NoFile
  <2> QED BY <1>1, <2>1, <2>2, <2>3, <2>4, InitType
<1>3. Inv /\ [Next]_vars => Inv'
  <2> SUFFICES ASSUME TypeOK, ~GrantOmitsEmail, Counted, [Next]_vars PROVE Counted'
    BY NextType
  <2>1. CASE \E c \in Callers : CallerStep(c) BY <2>1, CallerCounts
  <2>2. CASE ManagerStep(UnusedTokens) /\ UNCHANGED calls BY <2>2, ManagerCounts
  <2>3. CASE Crash
    <3>1. /\ accounts' = Loaded(tokenFiles, stateFile) /\ UNCHANGED <<stateFile, login>>
          /\ calls' = [c \in Callers |-> NoCall]
      BY <2>3 DEF Crash, Restart, files
    <3>2. \A e : OpenOn(e)' = {} BY <3>1 DEF OpenOn, Idle, NoCall
    <3>3. OwnEmails(accounts') BY <3>1 DEF OwnEmails, Loaded
    <3>4. \A s \in DOMAIN accounts' : LeavesOpen(accounts'[s].run, 0)
      BY <3>1 DEF Loaded, LeavesOpen, FreshRuntime, Counted
    <3> QED BY <3>1, <3>2, <3>3, <3>4, FS_EmptySet DEF Counted
  <2>4. CASE UNCHANGED vars
    <3>1. \A e : OpenOn(e)' = OpenOn(e) BY <2>4 DEF OpenOn, Idle, vars
    <3> QED BY <2>4, <3>1, OpenType, CountedStill DEF vars, managerVars
  <2> QED BY <2>1, <2>2, <2>3, <2>4 DEF Next
<1>4. Inv => OutcomesWithinAttempts
  <2> SUFFICES ASSUME Counted, NEW s \in DOMAIN accounts
               PROVE  LET run == accounts[s].run
                      IN  run.totalSuccesses + run.totalFailures
                            + Cardinality(OpenOn(accounts[s].email)) <= run.totalRequests
    BY DEF OutcomesWithinAttempts
  <2> QED BY DEF Counted, OwnEmails, LeavesOpen
<1> QED BY <1>2, <1>3, <1>4, PTL DEF Spec
=============================================================================
