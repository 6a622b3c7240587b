--------------------------- MODULE AccountManager ---------------------------
(***************************************************************************)
(* AccountManager (src/accounts/manager.ts) with the things it touches:    *)
(* the files of the auth directory (src/auth/token-storage.ts), the OAuth  *)
(* token endpoint behind refreshTokensWithRetry (src/auth/oauth.ts), the   *)
(* periodic sweep of startAutoRefresh, a restart of the server, and a      *)
(* --login run in a second process (src/index.ts).                         *)
(*                                                                         *)
(* The module has no Next of its own: RecordAttempt, RecordSuccess,        *)
(* RecordFailure and RefreshAccount are steps of a caller, who conjoins    *)
(* them with a change of its own state (AccountClients, ClaudeRequests).   *)
(* A JavaScript run-to-completion section is one action; an await is the   *)
(* boundary between two.                                                   *)
(***************************************************************************)
EXTENDS Accounts

CONSTANTS
    Callers,            \* who may await refreshAccount
    Sweep,              \* the refreshAll loop, which awaits it too
    InitialFiles,       \* the token files found by the first load()
    GrantOmitsEmail,    \* may a refresh grant come without account.email_address?
    MaxGrantTries,      \* maxRetries of refreshTokensWithRetry
    MaxNetFaults,       \* bound: failed or lost token requests
    MaxDiskFaults,      \* bound: failed file writes
    MaxLogins,          \* bound: --login runs
    MaxRestarts         \* bound: crashes or restarts of the server

Waiters == Callers \cup {Sweep}

ASSUME WaitersAssumption == Sweep \notin Callers
ASSUME InitialAssumption == InitialFiles \subseteq Names \cap Tokens
ASSUME GrantAssumption == GrantOmitsEmail \in BOOLEAN /\ MaxGrantTries \in Nat \ {0}
ASSUME BoundsAssumption ==
    /\ MaxNetFaults \in Nat /\ MaxDiskFaults \in Nat
    /\ MaxLogins \in Nat /\ MaxRestarts \in Nat

VARIABLES
    accounts,    \* the accounts list: slot -> Account
    refresh,     \* slot -> the refreshPromise in flight: token, try, waiters
    answer,      \* what a settled refreshPromise told each waiter
    sweep,       \* refreshAll: 0 idle, s > 0 awaiting the refresh of slot s
    tokenFiles,  \* auth-dir/claude-<email>.json by email
    stateFile,   \* the accounts object of auth-dir/state.json by email
    live,        \* tokens whose refresh token the OAuth server still honours
    login,       \* the --login process
    netFaults, diskFaults, logins, restarts   \* how much of each bound is used

memory == <<accounts, refresh, answer, sweep>>
files == <<tokenFiles, stateFile, diskFaults>>
managerVars == <<accounts, refresh, answer, sweep, tokenFiles, stateFile, live,
                 login, netFaults, diskFaults, logins, restarts>>

RefreshInFlight == [tok : Tokens, try : 1..MaxGrantTries, waiters : SUBSET Waiters]
NoRefresh == [s \in {} |-> 0]
NoAnswer == [w \in Waiters |-> "none"]
NoLogin == [phase |-> "none"]
LoginAt(e, acc) == [phase |-> "browser", email |-> e, acc |-> acc]

ManagerTypeOK ==
    /\ DOMAIN accounts \subseteq Names /\ accounts \in [DOMAIN accounts -> Account]
    /\ DOMAIN refresh \subseteq DOMAIN accounts
    /\ refresh \in [DOMAIN refresh -> RefreshInFlight]
    /\ answer \in [Waiters -> {"none", "true", "false"}]
    /\ sweep \in Names \cup {0}
    /\ DOMAIN tokenFiles \subseteq Names /\ tokenFiles \in [DOMAIN tokenFiles -> Token]
    /\ DOMAIN stateFile \subseteq Names /\ stateFile \in [DOMAIN stateFile -> Runtime]
    /\ live \subseteq Tokens
    /\ \/ login = NoLogin
       \/ /\ login = LoginAt(login.email, login.acc) /\ login.email \in Names
          /\ DOMAIN login.acc \subseteq Names /\ login.acc \in [DOMAIN login.acc -> Account]
    /\ netFaults \in 0..MaxNetFaults /\ diskFaults \in 0..MaxDiskFaults
    /\ logins \in 0..MaxLogins /\ restarts \in 0..MaxRestarts

\* The server starts on token files an earlier login left; their age varies.
ManagerInit ==
    /\ \E age \in [InitialFiles -> 0..Lifetime] :
         tokenFiles = [n \in InitialFiles |-> [id |-> n, life |-> age[n]]]
    /\ stateFile = NoFile
    /\ accounts = Loaded(tokenFiles, stateFile)
    /\ refresh = NoRefresh /\ answer = NoAnswer /\ sweep = 0
    /\ live = InitialFiles
    /\ login = NoLogin
    /\ netFaults = 0 /\ diskFaults = 0 /\ logins = 0 /\ restarts = 0

-----------------------------------------------------------------------------
(* Files *)

\* persistState: a write error is swallowed.  It leaves the old file, or,
\* once writeFileSync has truncated it, one that loads as {}.  spent counts
\* the writes that already failed in this step.
PersistState(acc, spent) ==
    \/ stateFile' = StateOf(acc) /\ diskFaults' = diskFaults + spent
    \/ /\ diskFaults + spent < MaxDiskFaults
       /\ stateFile' \in {stateFile, NoFile}
       /\ diskFaults' = diskFaults + spent + 1

\* A change of the accounts list and the persistState that ends it.
Commit(acc) == accounts' = acc /\ PersistState(acc, 0)

\* saveToken that throws: the old file stays, or is left truncated.
SaveTokenFails(e) ==
    /\ diskFaults < MaxDiskFaults
    /\ tokenFiles' \in {tokenFiles, Without(tokenFiles, e)}

-----------------------------------------------------------------------------
(* The calls a request makes *)

\* Run change(run) on the account that holds the email; no such account, no
\* effect.
Record(e, Change(_)) ==
    \/ ~Held(accounts, e) /\ UNCHANGED <<accounts, stateFile, diskFaults>>
    \/ /\ Held(accounts, e)
       /\ LET s == SlotOf(accounts, e)
          IN  Commit([accounts EXCEPT ![s].run = Change(accounts[s].run)])

RecordAttempt(e) == Record(e, AfterAttempt)
RecordSuccess(e) == Record(e, AfterSuccess)
RecordFailure(e, kind) == Record(e, LAMBDA run : AfterFailure(run, kind))

\* refreshAccount: join the promise in flight, or start performRefresh,
\* which reads the refresh token before its first await.
RefreshAccount(w, e) ==
    \/ /\ ~Held(accounts, e)
       /\ answer' = [answer EXCEPT ![w] = "false"]
       /\ UNCHANGED refresh
    \/ /\ Held(accounts, e)
       /\ answer' = [answer EXCEPT ![w] = "none"]
       /\ LET s == SlotOf(accounts, e)
          IN  refresh' = IF s \in DOMAIN refresh
                         THEN [refresh EXCEPT ![s].waiters = @ \cup {w}]
                         ELSE Put(refresh, s, [tok |-> accounts[s].tok.id,
                                               try |-> 1, waiters |-> {w}])

-----------------------------------------------------------------------------
(* refreshTokensWithRetry and the rest of performRefresh *)

\* Fault: no finally block, the settled promise stays in refreshPromise.
SettleForever(s, result) ==
    /\ answer' = [w \in Waiters |-> IF w \in refresh[s].waiters
                                    THEN result ELSE answer[w]]
    /\ UNCHANGED refresh

\* The finally block, and the promise telling everyone who awaits it.
Settle(s, result) ==
    /\ refresh' = Without(refresh, s)
    /\ answer' = [w \in Waiters |-> IF w \in refresh[s].waiters
                                    THEN result ELSE answer[w]]

\* Fault: the catch block does not call persistState.
RefreshFailsUnsaved(s) ==
    /\ accounts' = [accounts EXCEPT ![s].run = AfterRefreshFailure(@)]
    /\ UNCHANGED <<stateFile, diskFaults>>
    /\ Settle(s, "false")

\* Fault: the promise of a failed refresh is dropped and never settles.
RefreshFailsUnanswered(s) ==
    /\ Commit([accounts EXCEPT ![s].run = AfterRefreshFailure(@)])
    /\ refresh' = Without(refresh, s) /\ UNCHANGED answer

\* The catch block.
RefreshFails(s) ==
    /\ Commit([accounts EXCEPT ![s].run = AfterRefreshFailure(@)])
    /\ Settle(s, "false")

\* The email a grant comes with: account.email_address, or "unknown".
GrantedEmails(s) ==
    {accounts[s].email} \cup (IF GrantOmitsEmail THEN {Unknown} ELSE {})

\* The endpoint rotates the pair to t and its reply is read: the try block.
\* When saveToken throws the catch block runs on the new token.
GrantGranted(s, t) ==
    /\ refresh[s].tok \in live
    /\ live' = (live \ {refresh[s].tok}) \cup {t}
    /\ \E e \in GrantedEmails(s) :
         LET pair == [id |-> t, life |-> Lifetime]
             fresh == [email |-> e, tok |-> pair, run |-> AfterNewToken(accounts[s].run)]
             failed == [fresh EXCEPT !.run = AfterRefreshFailure(@)]
         IN  \/ /\ tokenFiles' = Put(tokenFiles, e, pair)
                /\ Commit([accounts EXCEPT ![s] = fresh])
                /\ Settle(s, "true")
             \/ /\ SaveTokenFails(e)
                /\ accounts' = [accounts EXCEPT ![s] = failed]
                /\ PersistState([accounts EXCEPT ![s] = failed], 1)
                /\ Settle(s, "false")
    /\ UNCHANGED <<sweep, login, netFaults, logins, restarts>>

\* Another try after a retryable error, or the catch block after the last.
NextTry(s) ==
    IF refresh[s].try < MaxGrantTries
    THEN /\ refresh' = [refresh EXCEPT ![s].try = @ + 1]
         /\ UNCHANGED <<accounts, answer, stateFile, diskFaults>>
    ELSE RefreshFails(s)

\* The request does not reach the endpoint, or is answered 408, 429 or 5xx;
\* or it is answered another 4xx, which is not tried again.
GrantError(s) ==
    /\ netFaults < MaxNetFaults /\ netFaults' = netFaults + 1
    /\ NextTry(s) \/ RefreshFails(s)
    /\ UNCHANGED <<sweep, tokenFiles, live, login, logins, restarts>>

\* The endpoint rotates the pair, and the reply is lost or unreadable: the
\* next try presents a refresh token that is already spent.
GrantReplyLost(s) ==
    /\ refresh[s].tok \in live
    /\ netFaults < MaxNetFaults /\ netFaults' = netFaults + 1
    /\ live' = live \ {refresh[s].tok}
    /\ NextTry(s)
    /\ UNCHANGED <<sweep, tokenFiles, login, logins, restarts>>

\* invalid_grant: a 4xx, not retried.
GrantRejected(s) ==
    /\ refresh[s].tok \notin live
    /\ RefreshFails(s)
    /\ UNCHANGED <<sweep, tokenFiles, live, login, netFaults, logins, restarts>>

-----------------------------------------------------------------------------
(* refreshAll: one pass over the accounts, awaiting each refresh in turn *)

\* Fault: a token that has run out already is not refreshed.
DueUnexpiredSlots ==
    {s \in DOMAIN accounts : /\ accounts[s].tok.life \in 1..RefreshLead
                             /\ accounts[s].run.refreshBackoff = 0}

DueSlots == {s \in DOMAIN accounts : /\ accounts[s].tok.life <= RefreshLead
                                     /\ accounts[s].run.refreshBackoff = 0}

\* Fault: a pass that has reached the end of the list does not clear its flag.
SweepFromForGood(p) ==
    LET due == {s \in DueSlots : s >= p}
    IN  \/ /\ due = {}
           /\ sweep' = p
           /\ answer' = [answer EXCEPT ![Sweep] = "none"]
           /\ UNCHANGED refresh
        \/ /\ due # {}
           /\ sweep' = First(due)
           /\ RefreshAccount(Sweep, accounts[First(due)].email)

\* The loop of a pass, from slot p on.
SweepFrom(p) ==
    LET due == {s \in DueSlots : s >= p}
    IN  \/ /\ due = {}
           /\ sweep' = 0
           /\ answer' = [answer EXCEPT ![Sweep] = "none"]
           /\ UNCHANGED refresh
        \/ /\ due # {}
           /\ sweep' = First(due)
           /\ RefreshAccount(Sweep, accounts[First(due)].email)

SweepUnchanged == UNCHANGED <<accounts, files, live, login, netFaults, logins, restarts>>

\* The 60 s timer fires; a pass still under way makes it return at once.
SweepStart == sweep = 0 /\ SweepFrom(1) /\ SweepUnchanged
SweepResume == /\ sweep # 0 /\ answer[Sweep] # "none"
               /\ SweepFrom(sweep + 1) /\ SweepUnchanged

-----------------------------------------------------------------------------
(* Time, restart, and a login in another process *)

AgeAccounts(acc) == [s \in DOMAIN acc |->
    [acc[s] EXCEPT !.tok = AgeToken(@), !.run = AgeRuntime(@)]]

Tick ==
    /\ accounts' = AgeAccounts(accounts)
    /\ tokenFiles' = [e \in DOMAIN tokenFiles |-> AgeToken(tokenFiles[e])]
    /\ stateFile' = [e \in DOMAIN stateFile |-> AgeRuntime(stateFile[e])]
    /\ login' = IF login = NoLogin THEN NoLogin
                ELSE LoginAt(login.email, AgeAccounts(login.acc))
    /\ UNCHANGED <<refresh, answer, sweep, live, netFaults, diskFaults, logins, restarts>>

\* The process ends, in any state, and a new one loads what is on disk.
Restart ==
    /\ restarts < MaxRestarts /\ restarts' = restarts + 1
    /\ accounts' = Loaded(tokenFiles, stateFile)
    /\ refresh' = NoRefresh /\ answer' = NoAnswer /\ sweep' = 0
    /\ UNCHANGED <<files, live, login, netFaults, logins>>

\* doLogin: load(), then the user is away in the browser ...
LoginStart(e) ==
    /\ login = NoLogin
    /\ logins < MaxLogins /\ logins' = logins + 1
    /\ login' = LoginAt(e, Loaded(tokenFiles, stateFile))
    /\ UNCHANGED <<memory, files, live, netFaults, restarts>>

\* ... then addAccount in that process, on the states it loaded before.
LoginFinish(t) ==
    /\ login # NoLogin /\ login' = NoLogin
    /\ live' = live \cup {t}
    /\ LET e == login.email
           pair == [id |-> t, life |-> Lifetime]
           acc == login.acc
           added == IF Held(acc, e)
                    THEN [acc EXCEPT ![SlotOf(acc, e)].tok = pair,
                                     ![SlotOf(acc, e)].run = AfterNewToken(@)]
                    ELSE Put(acc, e, [email |-> e, tok |-> pair, run |-> FreshRuntime])
       IN  \/ tokenFiles' = Put(tokenFiles, e, pair) /\ PersistState(added, 0)
           \/ SaveTokenFails(e) /\ diskFaults' = diskFaults + 1 /\ UNCHANGED stateFile
    /\ UNCHANGED <<memory, netFaults, logins, restarts>>

\* Token ids the program still refers to; a grant makes one that is not.
TokensInUse ==
    {accounts[s].tok.id : s \in DOMAIN accounts}
    \cup {tokenFiles[e].id : e \in DOMAIN tokenFiles}
    \cup {refresh[s].tok : s \in DOMAIN refresh}
    \cup (IF login = NoLogin THEN {} ELSE {login.acc[s].tok.id : s \in DOMAIN login.acc})

\* What happens without any request: GrantGranted and LoginFinish take the
\* new token from the given set.
ManagerStep(unused) ==
    \/ \E s \in DOMAIN refresh : \/ GrantError(s)
                                 \/ GrantReplyLost(s)
                                 \/ GrantRejected(s)
    \/ unused # {} /\ \E s \in DOMAIN refresh : GrantGranted(s, CHOOSE t \in unused : TRUE)
    \/ SweepStart \/ SweepResume \/ Tick
    \/ \E e \in Names : LoginStart(e)
    \/ unused # {} /\ LoginFinish(CHOOSE t \in unused : TRUE)

\* The endpoint answers the refresh of slot s for good.
GrantAnswered(s, unused) ==
    /\ s \in DOMAIN refresh
    /\ \/ GrantRejected(s)
       \/ unused # {} /\ GrantGranted(s, CHOOSE t \in unused : TRUE)

-----------------------------------------------------------------------------
(* Properties *)

\* As long as every write succeeded, no second process wrote the files and no
\* grant renamed an account, the files hold exactly what memory holds: a
\* restart at any point, also between the awaits of a refresh, loses neither
\* a rotated token nor a cooldown, a backoff or a counter (saveToken and
\* persistState are called after every change).
RestartLosesNothing ==
    (diskFaults = 0 /\ logins = 0 /\ ~GrantOmitsEmail)
        => Loaded(tokenFiles, stateFile) = accounts

\* A rotating refresh token is good once.  Unless a reply or a write was lost,
\* what performRefresh presents was never spent before, whoever asked for the
\* refresh, and so is every token file: sweep, requests, logins and restarts
\* never burn a login (one refreshPromise per account; saveToken on success).
LoginsStayRedeemable ==
    (netFaults = 0 /\ diskFaults = 0 /\ ~GrantOmitsEmail) =>
        /\ \A s \in DOMAIN refresh : refresh[s].tok \in live
        /\ \A e \in DOMAIN tokenFiles : tokenFiles[e].id \in live

\* Unless a lost reply has spent its token, an account whose access token has run out comes
\* back into use by the sweep alone, however often the endpoint failed before
\* (startAutoRefresh, the backoff of performRefresh, its finally block).
Expired(s) == s \in DOMAIN accounts /\ IsTokenExpired(accounts[s].tok)
Redeemable(s) == accounts[s].tok.id \in live
ExpiredAccountsRecover ==
    \A s \in Names : Expired(s) ~> (~Expired(s) \/ ~Redeemable(s))
=============================================================================
