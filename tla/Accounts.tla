------------------------------ MODULE Accounts ------------------------------
(***************************************************************************)
(* The data of src/accounts/manager.ts: what one AccountState holds, which *)
(* account a request may use, how long a failure cools it down, and what   *)
(* a load() of the auth directory makes of the files found there.          *)
(*                                                                         *)
(* Time.  The code keeps absolute epoch times and compares them with       *)
(* Date.now().  Here every one of them is the time still to run, 0 once    *)
(* passed, and Age lets one unit pass: cooldownUntil <= now is cool = 0.   *)
(*                                                                         *)
(* Order.  Accounts are searched in the order of their token file names,   *)
(* so a name is a number and the account loaded from file n sits in slot n.*)
(***************************************************************************)
EXTENDS Integers, FiniteSets

CONSTANTS
    NNames,           \* names a token file may have, 1..NNames in file order
    Unknown,          \* the name that stands for the string "unknown"
    BackoffBase,      \* FAILURE_BACKOFF[kind].baseMs, in time units
    BackoffMax,       \* FAILURE_BACKOFF[kind].maxMs
    RefreshFailBase,  \* REFRESH_FAIL_BASE_MS
    RefreshFailMax,   \* REFRESH_FAIL_MAX_MS
    RefreshLead,      \* REFRESH_LEAD_MS
    ExpirySkew,       \* TOKEN_EXPIRY_SKEW_MS
    Lifetime,         \* expires_in of a granted token
    NTokens,          \* bound: token ids that can be told apart at one time
    MaxRefreshFailures  \* bound: where refreshFailureCount stops counting, past
                        \* the point where its backoff has reached its maximum

Names == 1..NNames
Tokens == 1..NTokens
FailureKinds == {"rate_limit", "auth", "forbidden", "server", "network"}

ASSUME NamesAssumption == NNames \in Nat \ {0} /\ Unknown \in Names
ASSUME TimesAssumption ==
    /\ BackoffBase \in [FailureKinds -> Nat]
    /\ BackoffMax \in [FailureKinds -> Nat]
    /\ RefreshFailBase \in Nat /\ RefreshFailMax \in Nat
    /\ RefreshLead \in Nat /\ ExpirySkew \in Nat /\ Lifetime \in Nat
ASSUME TokensAssumption == NTokens \in Nat
ASSUME RefreshFailuresAssumption ==
    /\ MaxRefreshFailures \in Nat \ {0}
    /\ RefreshFailBase * 2 ^ (MaxRefreshFailures - 1) >= RefreshFailMax

\* TokenData: an access/refresh token pair and the time it has left.
Token == [id : Tokens, life : Nat]

\* The part of AccountState that persistState writes.  lastError is kept as
\* the kind of the failure; the display timestamps are left out.
Runtime == [cool : Nat, lastError : FailureKinds \cup {"none"},
            failureCount : Nat, totalRequests : Nat, totalSuccesses : Nat,
            totalFailures : Nat, refreshFailureCount : Nat,
            refreshBackoff : Nat]

Account == [email : Names, tok : Token, run : Runtime]

\* createAccountState
FreshRuntime ==
    [cool |-> 0, lastError |-> "none", failureCount |-> 0,
     totalRequests |-> 0, totalSuccesses |-> 0, totalFailures |-> 0,
     refreshFailureCount |-> 0, refreshBackoff |-> 0]

\* Math.min(x, max) for a natural x.
Capped(x, max) == IF x \in 0..max THEN x ELSE max

\* Exponential backoff after the n-th failure in a row, n >= 1.
Backoff(base, max, n) == Capped(base * 2 ^ (n - 1), max)

\* One unit of time passes for a timer.
Less(t) == IF t > 0 THEN t - 1 ELSE 0
AgeToken(tok) == [tok EXCEPT !.life = Less(tok.life)]
AgeRuntime(run) == [run EXCEPT !.cool = Less(run.cool),
                               !.refreshBackoff = Less(run.refreshBackoff)]

-----------------------------------------------------------------------------
(* Looking accounts up.  acc is the accounts list: a function on its slots. *)

IsTokenExpired(tok) == tok.life <= ExpirySkew
IsAccountUsable(a) == a.run.cool = 0 /\ ~IsTokenExpired(a.tok)

First(slots) == CHOOSE s \in slots : \A t \in slots : s <= t
Last(slots) == CHOOSE s \in slots : \A t \in slots : t <= s

UsableSlots(acc) == {s \in DOMAIN acc : IsAccountUsable(acc[s])}

\* getAccountByEmail: the first slot that carries the email.
Holders(acc, e) == {s \in DOMAIN acc : acc[s].email = e}
Held(acc, e) == Holders(acc, e) # {}
SlotOf(acc, e) == First(Holders(acc, e))

\* Accounts that only a cooldown keeps from being used, and those of them
\* whose cooldown ends soonest (getAvailability, the first reduce).
CoolingSlots(acc) ==
    {s \in DOMAIN acc : acc[s].run.cool > 0 /\ ~IsTokenExpired(acc[s].tok)}
SoonestCooling(acc) ==
    First({s \in CoolingSlots(acc) :
             \A t \in CoolingSlots(acc) : acc[s].run.cool <= acc[t].run.cool})

\* getAvailability().state, and the failure the reported account last had.
Availability(acc) ==
    CASE UsableSlots(acc) # {} -> [state |-> "available", lastError |-> "none"]
      [] UsableSlots(acc) = {} /\ CoolingSlots(acc) # {} ->
           [state |-> "cooldown",
            lastError |-> acc[SoonestCooling(acc)].run.lastError]
      [] UsableSlots(acc) = {} /\ CoolingSlots(acc) = {} ->
           [state |-> IF \E s \in DOMAIN acc : IsTokenExpired(acc[s].tok)
                      THEN "expired" ELSE "missing",
            lastError |-> "none"]

-----------------------------------------------------------------------------
(* What one call does to the account it is about. *)

AfterAttempt(run) == [run EXCEPT !.totalRequests = @ + 1]

AfterSuccess(run) ==
    [run EXCEPT !.cool = 0, !.failureCount = 0, !.lastError = "none",
                !.totalSuccesses = @ + 1]

AfterFailure(run, kind) ==
    [run EXCEPT !.failureCount = @ + 1,
                !.totalFailures = @ + 1,
                !.lastError = kind,
                !.cool = Backoff(BackoffBase[kind], BackoffMax[kind],
                                 run.failureCount + 1)]

\* addAccount on a known email, and the success branch of performRefresh.
AfterNewToken(run) ==
    [run EXCEPT !.cool = 0, !.failureCount = 0, !.lastError = "none",
                !.refreshFailureCount = 0, !.refreshBackoff = 0]

\* The catch branch of performRefresh.
AfterRefreshFailure(run) ==
    [run EXCEPT !.refreshFailureCount = Capped(@ + 1, MaxRefreshFailures),
                !.refreshBackoff = Backoff(RefreshFailBase, RefreshFailMax,
                                           run.refreshFailureCount + 1)]

-----------------------------------------------------------------------------
(* Files.  tokens: claude-<email>.json by email; states: the accounts      *)
(* object of state.json by email.  A missing or unreadable file is absent. *)

Put(f, x, v) == [y \in DOMAIN f \cup {x} |-> IF y = x THEN v ELSE f[y]]
Without(f, x) == [y \in DOMAIN f \ {x} |-> f[y]]
NoFile == [y \in {} |-> FreshRuntime]

\* The object persistState writes: of two accounts with one email the later
\* entry wins (Object.fromEntries).
StateOf(acc) ==
    [e \in {acc[s].email : s \in DOMAIN acc} |-> acc[Last(Holders(acc, e))].run]

\* Fault: applyPersistedState leaves totalRequests out.
LoadedUncounted(tokens, states) ==
    [n \in DOMAIN tokens |->
        [email |-> n,
         tok |-> tokens[n],
         run |-> IF n \in DOMAIN states THEN [states[n] EXCEPT !.totalRequests = 0]
                 ELSE FreshRuntime]]

\* load(): one account per readable token file, its runtime state looked up
\* in state.json by email.
Loaded(tokens, states) ==
    [n \in DOMAIN tokens |->
        [email |-> n,
         tok |-> tokens[n],
         run |-> IF n \in DOMAIN states THEN states[n] ELSE FreshRuntime]]
=============================================================================
