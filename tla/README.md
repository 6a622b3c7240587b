# CCPA in TLA+

CCPA is one Node process: an Express proxy that turns OAuth logins of Claude,
Codex and Grok into an OpenAI-compatible API, and that can start command-line
agents on uploaded files ("Agent Runs"). This directory holds TLA+ models of
its stateful parts, TLC configurations that check them on small instances, and
proofs of some of their properties that hold for every value of the constants.

## 1. Inventory

| Component (src/src) | State | Operations | What makes it hard |
|---|---|---|---|
| Account manager (`accounts/manager.ts`, `auth/token-storage.ts`, `auth/oauth.ts`) | accounts in memory, `refreshPromise` per account, token files, `state.json` | `load`, `addAccount`, `getNextAccount`, `getAvailability`, `recordAttempt/Success/Failure`, `refreshAccount`, the 60 s sweep | requests and the sweep share one refresh; rotating refresh tokens; lost replies; failing writes; crashes |
| Claude login (`index.ts`, `auth/callback-server.ts`, `auth/pkce.ts`) | a second process with its own copy of the accounts | `--login` | writes the files the server believes to own |
| Claude request loops (`proxy/handler.ts`, `passthrough.ts` (2), `responses.ts`) | locals of each request: attempt, account and token in use, refreshed accounts | pick, send, retry, refresh after a 401, stream, answer | many at once; every await lets another request change the account; clients leave; streams break |
| Stream translators (`proxy/translator.ts`, `proxy/responses.ts`, `providers/codex-*.ts`) | one state machine per stream | one event in, some events out | unusual orders of upstream events |
| Codex provider (`providers/codex*.ts`) | cached auth file | load, reload after a 401, retry once | the Codex CLI rewrites the file |
| Grok provider (`providers/grok*.ts`) | cached auth file, refresh in flight | load, refresh ahead of expiry, reload or refresh after a 401, forward a stream | the grok CLI rewrites the file and spends the refresh token |
| Agent Runs (`agents/manager.ts`, `agents/routes.ts`) | runs, processes, `runningCount`, directories | create, wait, cancel, download, retention | processes, timers, cancellations and several awaits per run; every path must give the slot back |
| Usage monitoring (`monitoring/`) | counters, recent records | record, snapshot | one record per response |
| HTTP server (`server.ts`) | rate-limit buckets | limit, route, authenticate | window edges |
| Validation and translation of requests (`proxy/handler.ts`, `responses.ts`, `translator.ts`, `passthrough.ts`, `providers/codex-chat.ts`, `codex-responses.ts`, `codex-request.ts`) | none, but a client sends its whole conversation with every turn | validate, normalise older function calls, translate, for Claude or Codex | four translations and two copies of each validator must agree; parameters interact; what was sent before must not change with a new turn |
| Cloaking, configuration, redaction, dashboard, scripts | none | pure functions or start-up | - |

How they interact: a Claude request asks the account manager for an account,
counts an attempt, calls Anthropic with a copy of the token, and reports one
outcome; after a 401 it awaits the manager's refresh. The sweep and the login
process act on the same accounts and files. Agent Runs and the other providers
share no state with the Claude part. JavaScript runs one callback at a time: the
code between two awaits is one step, and everything else may happen at an await.

## 2. Modules

| Module | Models |
|---|---|
| `Accounts` | the data of the account manager and its synchronous operators: which account is usable, backoff, what load() makes of the files |
| `AccountManager` | its actions: records, the shared refresh with its retries, the sweep, persistence, time, restart, a login in a second process |
| `AccountClients` | who calls it, as loosely as possible: each caller opens an attempt and ends it in one of the ways the code has. The abstract specification of the request loops |
| `ClaudeRequests` | the request loop of the four handlers, composed with `AccountManager`; implements `AccountClients` |
| `RunLifecycle` | the abstract specification of Agent Runs: slots, final results, retention |
| `AgentRuns` | the agent manager with its processes, timers and routes; implements `RunLifecycle` |
| `GrokAuth` | the auth file shared with the grok CLI, the cached snapshot, the single-flight refresh, the token endpoint and the CLI |
| `GrokRequests` | the forwarding handler of the Grok provider and the status probe, over `GrokAuth` |
| `ClaudeStreams` | a streamed reply of Claude, its translation into chat chunks and into response events, and the answer without streaming |
| `RateLimiter`, `UsageTracker` | the buckets of the server's limiter; the counters and the ring of recent records |
| `CodexAuth` | the login files of the Codex CLI, what the CLI and upstream do to a login, the cache and the reload after a 401 |
| `CodexRequests` | the three Codex handlers, from the limiter to the record, over the three modules above |
| `CodexText` | what the readers of a Codex stream do with a text that is repeated as a whole |
| `CodexStreams` | the three readers of a Codex stream, over `CodexText`, and the chat answer without streaming |
| `RequestShapes` | the values of parameters, contents, calls and answers that the validators and translators tell apart |
| `ChatHistory`, `ChatFields` | the messages of a chat request with the normalisation of the older function calls; that of the older parameters |
| `ResponsesInput` | the items of a Responses request |
| `ClaudeBody`, `ClaudeChat`, `ClaudeResponses` | the handlers of both APIs for a Claude model up to the first attempt: validators and translation; what the two translations share |
| `CodexChat`, `CodexResponses` | the same for a Codex model |
| `RequestBodies` | a client's conversation, turn by turn, as the handlers of the four modules above answer it |
| `AccountProofs` | theorems about `AccountClients`, hence `AccountManager` and `Accounts` |
| `RequestProofs` | theorems about `ClaudeRequests`, and that it implements `AccountClients` |
| `AgentProofs` | theorems about `AgentRuns`, and that it implements `RunLifecycle` |
| `CodexRequestProofs` | theorems about `CodexRequests`, hence `RateLimiter`, `UsageTracker` and `CodexAuth` |
| `ClaudeStreamProofs` | theorems about `ClaudeStreams`, over lemmas about lists in ascending order |
| `BodyTerms` | the notions `BodyProofs` speaks in of a whole conversation: lists of lists, who answers whom, what is said and heard |
| `CodexProofs`, `BodyProofs`, `GrokProofs` | theorems about `CodexStreams`, `RequestBodies` and `GrokRequests` |
| `MCAccounts`, `MCRequests`, `MCAgentRuns`, `MCGrok`, `MCCodexRequests`, `MCRequestBodies` | constant values and symmetry sets for TLC |

### Correspondence

*Accounts.* `accounts` is the list `this.accounts`: a function from slots to
records. Slots are the file order `getNextAccount` searches in; a name is the
number of its file. Token contents are ids; `live` is what the OAuth server still
honours: a grant removes the presented token and adds a fresh one. `refresh[s]`
is the pending `refreshPromise` of slot `s`, with the token `performRefresh` read
before its first await, the try it is at, and who awaits it; `answer` is what a
settled promise told a waiter that has not run yet. Each grant action is the
endpoint's answer together with all the code runs until the promise settles.
A waiter resumes in a later step. In the code the resumption is a microtask, so
the model allows more interleavings than Node does.

Times are kept as the time still to run; `Tick` lets a unit pass for every timer,
in memory and on disk. The proportions are the code's (auth backoff longest,
refresh lead beyond the expiry skew), not the values. Display timestamps
are left out. `lastError` is kept as the kind of failure.

Writes: `PersistState` swallows errors as the code does; a failed write leaves the
old file, or an empty one that loads as `{}` (`writeFileSync` truncates first).
`saveToken` can throw after the pair has been rotated; the catch block then runs
with the new token in memory.

*Requests.* `req[r].pc` is the await the request stands at: `pick` (head of the
loop), `sent`, `streaming`, `refreshing`, `delay`. `mode` tells how a good reply
ends; the four loops are otherwise the same. The three streaming handlers
differ in corners, which `NoBody`, `StreamCompletes` and `StreamBreaks`
keep: a reply without a body is not recorded by the Responses handler; the chat
handler counts a completed stream although the client has left. Validation has
passed before a request enters the model: it is the subject of `RequestBodies`. One status stands for each way the
loop treats a status (`Retryable` and `FailureKind`); `sends` is a counter of
the model for `SendsWithinBudget`.

*Agent Runs.* `step[r]` is the await `createRun` or `executeRun` stands at.
A runner is a group of a child and at most one helper; both may ignore SIGTERM;
the close event needs both dead, because both hold the pipes. The throwing paths
of git, tar and file writes are alternatives of the step they interrupt. A
rejected completion promise that nobody awaits ends the process (`up`), as Node
does by default. `Finish` is the whole finally block with `cleanupOldRuns`. `runs` is the runs
map as a function from a run to its place in the order of insertion, which is all the stable
sort needs; `Now` is the time of the last end or the next, since several runs
may end within one millisecond.

*Grok.* `file` is the auth file, `cache` is `cachedSnapshot`, `inFlight` is
`refreshInFlight` with its waiters, and `reply` is what a settled promise told a
waiter that has not run yet. One `id` stands for the access token, the refresh token
and the mtime of a write, which always change together here. `load()` is one
step: the code reads the file synchronously. A snapshot keeps the `expired` it was
taken with (the code computes the field once), while `life` goes on running. The
file has one entry and one path; the choice among several entries (`findAuthEntry`) and the
fallback to a second default path (`providers/grok-auth.ts:119`) are not in the model.
The endpoint always rotates the pair and always returns `expires_in`. The CLI
renews in two steps, because it spends the refresh token before it writes the
file; it may write an entry without `expires_at`, which never counts as expired or due
(`Undated`), and which `RefusedOnlyAfterRetry` must hold for too. `revoked` is an access token that upstream refuses before it runs out.
`StreamFails` follows the code to its end: the handler's catch answers a
response whose headers are out, which throws, nothing catches that, and Node
ends on an unhandled rejection; the supervisor starts the process again.

*Codex requests.* A bucket holds the time left until `resetAt` and is over when that
is negative, as `now > resetAt` has it. `files` are the two paths in their order of
preference; an `id` is an access token together with the mtime of its write, and
`Torn` a file that does not parse or holds no token, at which `load` throws without
looking at the next path. `cache` survives a `load` that throws. Only upstream
knows which tokens it takes (`taken`). `req[r].pc` is the await a handler
stands at; `attempt` and `reloaded` are of the present call of
`callCodexResponsesWithAuthRetry`, of which a request for several pictures makes one
each. `failed` says whether `res.locals` holds a failure context; the handlers
differ in where they set one (`Begin`, `CollectBreaks`). `Finish` is the response's
"finish" event, which Node need not emit once the client has left. One breakdown
(`endpoints`) stands for those by provider, source, model and time. `passed` and
`sends` are counters of the model.

*Streams.* The actions are the upstream's events; each includes what every reader
does on reading it. `ClaudeStreams` lets one event go through both translators, and
`CodexStreams` through all three readers, although in the code a request has one:
that is how they can be compared. Upstream's order is Anthropic's (one block at
a time, then `message_delta`, then `message_stop`) and, for Codex, whatever the
readers handle, events left out and texts repeated included: an end may be repeated, follow `[DONE]`, be told by the status of an event of another name, or
hold no JSON. What is assumed of Codex is that only an
incomplete response ends amid an item, that no item begins after an end, and that all events that close a
response tell the same status. `chat` and `resp` are
the client's side: what the chunks or events add up to when they are applied as
the API documents (a delta names its item by index and id, a call by its index).
`order` is the insertion order of the `toolCalls` map. In `CodexStreams`, `terse`
is an upstream that sends text events without items, `finals` how often the text of
the current message has come as a whole, `late` a chunk sent after `[DONE]`, `unordered` that
upstream closed a response after it. `obs.missed` says that the observer took an event for a good end by
its name, without looking at its data (`providers/codex-sse.ts:163`).
The reference is the translation without streaming (`claudeToOpenai`,
`claudeToResponses`, `normalizeResponse`), so a property says that the two halves of
the same file agree. Left out: the splitting into lines, JSON that does not parse
(skipped by all readers), sequence numbers, clients that leave (the reader stops),
and the usage of chat chunks of Claude. Arguments stand for their JSON value, which is `{}`
where upstream sent none and there is no streaming (`Arguments`). Where the two answers differ
the properties say so:

* the arguments of a call without any are "" in a stream and `{}` in an answer (`SameCalls`;
  `proxy/translator.ts:255`, `proxy/responses.ts:1538`);
* a chat client is streamed the thoughts, which `claudeToOpenai` collects, joined by blank
  lines (`proxy/translator.ts:248`), and leaves out of its answer; what is streamed is compared with the
  thinking blocks instead;
* `claudeToResponses` makes reasoning parts of the thoughts (`proxy/responses.ts:1530`), which
  `claudeSSEToResponses` does not stream (line 1708);
* several messages, or several calls of a legacy `functions` client, have one place in an answer;
* a streamed response cut at its token limit says "completed" where the answer says "incomplete".

*Request bodies.* A parameter is absent, malformed, or one of the well-formed values
the code treats alike; `RequestBodies` lists them (`ChatShapes`, `ResponsesShapes`).
Each validator is an operator of its name, and `Checks` their conjunction: since a
handler refuses at the first that fails, in whatever order, the verdict is the same. A text,
a picture or an argument is known by the place of the message that holds it, so
a body is a matter of who says what, in which order. A content is a string, a
string that asks for a drawing, an array of parts without or with a picture, or
nothing: absent, an empty string, or an array without parts or of one empty text
(`Silences`). A message's `listed` says that it has `tool_calls`, be it the empty list, which
the code tells from none. A call is known by its id, which is the client's or the one
`makeLegacyFunctionCallId` makes of the message's place and the function's name.
An answer is a refusal or the body sent. `answers` holds what the handlers for
both kinds of models make of the same request, because the client picks the model and
may pick another one with its next turn; nothing of a request is kept by the
proxy, so each turn is answered from the conversation alone. An input that is a
string is one message of the user. The conversation starts empty, which all handlers refuse
for an array. The older function calls are normalised by a function that the two
files hold line for line; it is one operator here, as are the item validators
of the two Responses files (`ResponsesInput`); all other copies are modelled apart.

Operators whose comment starts with "Fault:" are not part of any specification.
Each is a definition as a plausible bug would have it; replacing the
definition by it must violate the property it is meant for, which shows that the
property depends on that code.

## 3. Runs

TLC checks, with what each shows. Deadlock is checked except for Agent Runs,
where every client asks once and the set of runs is finite, so that the system
stops when all have ended (or the server has died), for the streams, which end, for the
conversations, whose length `MaxTurns` bounds, and for the Codex requests, whose
number `MaxArrivals` bounds.

| Run | Instance | Shows |
|---|---|---|
| `accounts_shared` | 1 account, 2 callers, sweep, 1 network and 1 disk fault, 1 restart, 2 attempts | `TypeOK`, `OutcomesWithinAttempts`, `NobodyWaitsForNothing`, `RestartLosesNothing` |
| `accounts_recover` | 2 accounts, sweep alone, 1 network fault, 1 login, 1 restart, fairness | `ExpiredAccountsRecover` |
| `requests_pair` | 2 requests, 1 account, sweep, 2 tries | `TypeOK`, `LoginsStayRedeemable` |
| `requests_ends` | 1 request of any mode, faults, grants without an address, 1 restart, fairness | `SendsWithinBudget`, `EveryRequestEnds`, `ImplementsClients` |
| `agents_retention` | 3 runs, 2 slots, 1 kept | `NoDirectoryLeaks`, `ForgetsOldest`, `ImplementsLifecycle` |
| `agents_release` | 2 runs, 1 slot, removals may fail, obedient and stubborn children, fairness | `TypeOK`, `SlotsAreCounted`, `SlotsAreReleased` |
| `grok_shared` | 2 requests, any two events of network, disk, login, CLI, revocation and crash | `TypeOK`, `NobodyAwaitsInVain`, `GrokLoginStaysRedeemable`, `RefusedOnlyAfterRetry` |
| `codex_requests` | 2 requests (streamed chat, chat, pictures), 1 key with a limit of 1, any two events of CLI and upstream, any network faults | `TypeOK`, `SendsWithinBudget`, `SuccessIsWhole`, `UsageAddsUp`, `RefusedOnlyAfterReload`, `QuotaIsKept` |
| `claude_streams` | any message of 3 blocks of 4 types with 2 deltas each | `TypeOK`, `ChatStreamIsTheAnswer`, `ResponsesStreamIsTheAnswer` |
| `codex_streams` | any response of 2 items of 4 types with 2 deltas each | `TypeOK`, `SameText`, `SameVerdict`, `ChatStreamIsWellFormed`, `ChatStreamIsTheAnswer` |
| `request_bodies` | any conversation of 4 turns, of 2 with any one parameter, of 1 with any two, in both APIs | `NothingIsLost`, `ResultsAnswerCalls`, `ThinkingFits`, `SettingsTakeEffect`, `ClaudeAcceptsLess`, `EarlierTurnsAreKept` |

One run ends in a counterexample, for something the repository says of the
program and the program does not do (quoted in PROJECT.json, "findings"):
`agents_tree`, in which a helper that ignores SIGTERM survives the timeout, and the run
with it.

The three readers of a Codex stream do differ, and `codex_streams` shows by how much. An event named
`response.completed`, `response.incomplete` or `response.done` is an end for the observer before its data
is read, while the other two take a response of status "failed" under such a name for an error, and
skip data that is no JSON (`UpstreamFails`, `EndUnread`; `providers/codex-sse.ts:52` and `163`).
`SameVerdict` allows the observer that much (`missed`) and nothing else: it never has a response
failed that the clients got whole, and the two clients always agree. `[DONE]` is forwarded when it comes; if
upstream closes the response after it, or never does, the finish and usage chunks follow it
(`providers/codex-chat.ts:2208` and `2274`), and `ChatStreamIsWellFormed` allows them there only.

What the properties of `request_bodies` leave out they name, and each is something
the code does. An assistant's array of parts beside `tool_calls` is sent as an
empty text, also where the list is empty (`BesideCalls`; `proxy/translator.ts:162` and `166`). A
`function_call` beside `tool_calls`, the empty list included, is left as it is by
`normalizeLegacyChatFunctionMessages` and then sent by nobody (`CallIds`; `proxy/handler.ts:283`,
`providers/codex-chat.ts:284`). Of the system items of a Responses
request Claude gets the text of the first that has one, and none beside `instructions` that are not
empty (`UnheardSystem`; `proxy/responses.ts:1398` and `1429`). A conversation in `messages`
passes the Responses handlers and is not sent (`InMessages`). What says nothing (a content that is
empty) is nothing to be lost; whether Claude takes a message without content, or a conversation of
system messages only, is for Claude to say. `SettingsTakeEffect` is about
parameters whose value asks for something (`Neutral` lists the values that ask for what is
done anyway), and `AsideForClaude` and `AsideForCodex` list what another parameter
overrides. A token limit counts for nothing where it is the default (8192) or where it leaves the
thinking no room and is raised (`LimitAside`); it is raised too where a forced
tool then switches the thinking off (`proxy/translator.ts:42` and `199`). `ProtocolKept` says what a client must do for its calls to be
paired: mixing messages of role "function" with `tool_calls` can
answer a call twice, because a `tool` message does not take its call from the pending ones.

### Bounds and why they are enough

`MaxNetFaults`, `MaxDiskFaults`, `MaxLogins`, `MaxRestarts` and `MaxAttempts`
bound how often something happens, never what happens between. The interesting
histories are short: two parties and one refresh for the join; one lost reply
followed by one retry for a spent token; one crash between a grant and the next
record for lost state. `NTokens` is large enough that a fresh token can always
be told from every token still referred to (`UnusedTokens`); a token nobody
refers to any more may be reused. When no id is unused the grant waits, which
the instances with fairness avoid by their bounds. `MaxRefreshFailures` stops
the counter where its backoff no longer grows (`RefreshFailuresAssumption`).
`MaxRetries` is 2 in the runs with several requests, which has both a
retry and a last try. Three runs are the fewest for one to be dropped, one
kept and one executing. `MaxEvents` of the Grok model is a bound on all kinds of
events together; two are what a lost update or a retry after a fault needs.
A limit of one request and a window of one unit
have both edges of a window; with a ring of one record the second pushes out the
first. Two events are a new login written and another lost, between any
two steps of two requests. In `CodexRequests` time passes only while requests are to
arrive, since nothing else reads the clock.
Three blocks have a call before, between and after blocks that are none; two
pieces tell a text from its repetition and an argument from another's; two items
of two deltas have a text that ends with another and a call after a text.

Two calls and their results, with a text in between, need four turns. Any two
parameters interact in one turn, where each value of each meets each of the other; a second
turn shows what one parameter does to the turns before. The limits are an invalid one, one
below every budget, one above some and the default of 8192, which is the budget of "medium".

Time in the model is not bounded by anything but 0, because timers count down.

### Fairness

`AccountClients!Fairness`: time passes, the sweep's interval fires, its loop
continues when its await is over, and the OAuth endpoint answers for good, once
the bounded faults are used up. The code calls `fetch` without a signal there, and what
makes a silent endpoint an error is the HTTP client's default timeout. Nothing is
assumed of requests.
`ClaudeRequests!Fairness`: a request takes its next step: upstream calls are
bounded by `config.timeouts`, the delays are timers, and a client that
leaves ends its stream. `AgentRuns!Fairness`: git and tar commands have timeouts
of their own, timers fire, a process that received SIGTERM and obeys it ends.
A runner is never assumed to end by itself. The Grok model states no fairness:
only its safety and action properties are checked. Nor do the stream models,
`CodexRequests` and `RequestBodies`: a stream, a request or a conversation may stop
anywhere.

## 4. Proofs

`AccountProofs` is about `AccountClients!Spec` for arbitrary constants.

* `TypeCorrect`: `Spec => []TypeOK`. `TypeOK` is inductive. The proof
  goes through one lemma per operation (`RecordEffectType`, `RefreshAccountType`,
  `GrantGrantedType`, ...), over lemmas on the operators: `First` and `Last` of a
  non-empty set of slots are members (`HasLeast`), backoffs are naturals, a
  load of typed files is typed.
* `RestartIsLossless`: `Spec => []RestartLosesNothing`. The invariant is
  `TypeOK` together with `Mirror`, conditional on no disk fault, no second-process
  login and no renaming grant: files equal memory, each account sits in the slot
  of its own email, and no slot is left behind. The last parts are needed because the
  files are written by email and memory is searched by email: if two slots had one
  email, a write of one would clobber the other.

Its second part is about who awaits whom and who holds what:

* `EveryoneIsAnswered`: `Spec => []NobodyWaitsForNothing`. The property is one direction
  of `AllStand`: a party that waits for nothing is registered nowhere, one that waits is
  registered with one refresh or has its answer, and never both. Without the other direction a
  second refresh could answer somebody who has gone on.
* `LoginsAreNeverBurnt`: `Spec => []LoginsStayRedeemable`. `KeepsTokens` says of a
  history without lost replies, failed writes and renaming grants that a refresh
  presents the token its account has, that every token held in memory, on disk or by a
  login process is live, and that two emails never hold the same one. The last part is
  the point: a grant spends one token, and must not spend anybody else's.
  `OwnEmails` is needed as above, for the writes by email.
* `NoOutcomeWithoutAttempt`: `Spec => []OutcomesWithinAttempts`. `Counted` says the same of
  the counters on disk and of those a login process has loaded, because a restart or the end of a
  login brings them back; there the open attempts do not count, for a restart
  closes them all. The set of open attempts is finite, of any number of callers,
  because it starts empty and gains one at a step; its cardinality needs that.

`RequestProofs` is about `ClaudeRequests!Spec`, for any finite set of requests and any
`MAX_RETRIES`. It takes `AccountProofs` as an instance in which `CallsView` stands for the
calls; each operator of the manager is then shown to be the one of that name here
(`SameManager`, `SameNames`).

* `RequestsTypeCorrect`: `Spec => []TypeOK`, the manager's part of it through the instance.
* `SendsBounded`: `Spec => []SendsWithinBudget`. `Frugal` counts by place: between attempts
  a request has sent no more than the attempts behind it and the accounts it refreshed, and while one is
  open at most one more. A refreshing request is known not to have the account in
  `refreshedAccounts`, so `attempt--` is paid for by an element the set gains.
* `RequestsImplementClients`: `Spec => ImplementsClients`. Each step maps to the step of
  a caller or to a stutter (`RequestMaps`): the end of an attempt to `Succeed`, `Fail` or
  `Drop`, the start of a stream and a delay to nothing. The bound of `Begin` on the attempts
  of an account is the hard part: `AtMost` says that no counter in memory, on disk or
  with a login process exceeds the number of requests sent (`Sends`), and `SendCounts` that a
  loop which may send again has a number left.
* `RequestsNeverBurnLogins`: `Spec => []LoginsStayRedeemable`, which is what
  `LoginsAreNeverBurnt` says of every implementation.

`GrokProofs`, about `GrokRequests!Spec`, for any number of requests, tokens, lives and events:

* `GrokTypeCorrect`: `Spec => []TypeOK`, which is inductive. One lemma
  per operation of `GrokAuth`, and one per action of a request over them.
* `NobodyHangs`: `Spec => []NobodyAwaitsInVain`, through `AllAwaitRightly`, which adds that
  nobody is registered and told at once.
* `GrokLoginIsNeverBurnt`: `Spec => []GrokLoginStaysRedeemable`. `Redeemable` adds that
  the CLI has no pair of its own on the way into the file. The pair of the file and the one
  in flight may differ, and a grant for the latter leaves both live or replaces both.
* `TwoTokensBeforeRefusal`: `Spec => RefusedOnlyAfterRetry`. An open request has
  no answer (`Unanswered`), and in an undisturbed history whoever was told the outcome of a
  refresh was told a token that is good and is not the one upstream refused (`Served`).

`AgentProofs`, about `AgentRuns!Spec`:

* `SlotsCounted`: `Spec => []SlotsAreCounted`. `SlotInv` adds to the property
  that a run has a process only while `executeRun` awaits it, and the types it
  needs; the cardinality steps (`SlotTaken`, `SlotKept`, `SlotGiven`) say
  what one run entering, staying in or leaving the holding set does.

Its second part is about what ends, what is kept and what is left on disk. The
invariant is `RunInv`: `SlotInv`, a place of its own for each registered run below the
number of runs that began, a run registered from the end of `createRun` on and at least until
it ends, `finished_at` set only at the end, a final status from the close event on, and no more than
keep-runs ended runs. Each action is first shown to be one of a few kinds (`Kinds`), of
which only `Ends` drops anything.

* `OneTooMany` is the lemma the rest stands on: the order of `cleanupOldRuns`, by time and then by
  place, is total (hence the places), so with one ended run too many exactly the first of them has
  keep-runs others after it, and with no more than keep-runs none has.
* `RunsTypeCorrect`: `Spec => []TypeOK`.
* `NothingIsLeftBehind`: `Spec => []NoDirectoryLeaks`, inductive beside `RunInv`.
* `OldestGoFirst`: `Spec => ForgetsOldest`.
* `AgentsImplementLifecycle`: `Spec => ImplementsLifecycle`, the refinement: `Accept` maps to
  `Accept`, `PrepareFails` to `Abandon`, an end to `End`, all else to a stutter
  (`StepMaps`).

`ClaudeStreamProofs`, about `ClaudeStreams!Spec`, for any pieces and any number of blocks and
deltas. `IInv` says at every event what a client has of the message so far:

* `ChatInv`: its texts are what the bodies of the text and of the thinking blocks are
  together (`Joins`), its calls those of the tool blocks, each at the place of its key in
  `order`. The search of `ToolIndex` finds the last (`ToolIndexIsLast`), because a delta
  belongs to the last block. `ChatStreamIsAlwaysTheAnswer` follows, with `SameCalls` for the call
  that was given no arguments.
* `RespInv`: the flags say of what type the open block is and the buffers hold its body
  (`StateFits`), and the places of the items list the blocks that are shown, each with the
  body of its block, open as long as that is (`ItemsFit`). An event then names the item of
  the open block and no other (`NamedFacts`), and the stop event, which names no type, closes the
  right one. `ResponsesStreamIsAlwaysTheAnswer` follows, through `PartOfList`: the items of one kind
  are in the order of their blocks, and so are the texts among the parts of the answer, with
  reasoning parts in between. `AlwaysTyped` follows from both.

The answer without streaming picks the blocks of a type out of the message in
order. `Ascending` of a set is unique (`ListsUnique`), gains a last element with a new
block (`ListsOneMore`), and is the list of a part (`PartOfList`). The recursive function in
`FlattenSeq` is met by a witness and a least counterexample (`JoinsIsFlatten`).

`CodexProofs`, about `CodexStreams!Spec`, where nothing bounds the pieces, the
items or the deltas but arbitrary constants:

* `SuffixCompletes`: `Merge(current, text) = current \o Suffix(current, text)` for
  all sequences. The case where a text starts with what is already there is the one
  that needs an argument about indexes; the others follow by definition.
* `TypeCorrect`: `Spec => []TypeOK`, with the invariant that an item is being
  produced only when there is one (`phase = "item" => items # <<>>`), without which
  `items[Current]` has no value.
* `SameTextAlways`: `Spec => []SameText`. A delta is appended on both sides;
  a repeated text goes through `SuffixCompletes`; nothing else touches either text.
* `SameVerdictAlways`: `Spec => []SameVerdict`, and `ChatStreamAlwaysWellFormed`:
  `Spec => []ChatStreamIsWellFormed`. Both follow from `EndInv`: `Together` relates what the
  three readers have seen of the end, phase by phase, and `InOrder` says which chunks a
  chat stream has had by then.
* `ChatStreamIsAlwaysTheAnswer`: `Spec => []ChatStreamIsTheAnswer`. `Fits` compares, while a
  response is produced, what its stream has sent and what was collected with the items
  upstream has produced: the text of the one message, the calls that are done, in order
  (`IsChosen`), the pictures shown in part, and the collected items, of which only the open
  one and the pictures may lag behind. When the response is closed the answer of
  the other client follows from `Fits` (`Whole`, `TextAnswered`, `CallsAnswered`, `PicturesAnswered`), and no
  later end changes it (`AgreeStays`). The recursive function of `Chosen` is met by a witness that
  grows with the items (`ChosenSkips`, `ChosenAdds`, `ChosenIs`), in place of an induction.

`CodexRequestProofs`, about `CodexRequests!Spec`, for any callers, keys, endpoints, logins,
pictures, window and maximum. The inductive invariant `IInv` has a part for each module:

* `AllFit` for the requests: `Thrifty` counts by place what a request may have sent by then
  (`Spent`: four for each answer it has, two for a login that was refused), `Truthful` compares its
  record with what the client got. Every action is shown to be `Handled`: it writes locals that
  fit, and a 401 only if it is `Warranted`. `AlwaysTyped`, `AlwaysWithinBudget`,
  `SuccessAlwaysWhole` and `RefusedAlwaysAfterReload` follow.
* `UsageInv` for the monitor: `UsageAddsUp` itself is inductive, but its sums over
  the endpoints are folds of `MapThenSumSet`. That a fold over a finite set exists, that any element may
  be taken first and that it goes by the values alone (`SumExists`, `SumSplit`, `SumAgree`) are
  proved by the least counterexample, over the well-founded order of the naturals, in
  place of an induction; `PartSumGrows` says what one record adds. `UsageAlwaysAddsUp` follows.
* `LimiterInv` for the rate limiter: the ages of a key's requests are in order, the latest of
  them are those of its bucket, whose first is as old as the bucket is, and those before it are fewer
  than `MaxRequests`; with no bucket, or one that is over, that holds of all. When the time of a
  bucket is up its first request leaves the window in the same tick (`OverLeavesFew`), which is why the
  quota is not 2 * `MaxRequests`. `QuotaAlwaysKept` follows.

`BodyProofs`, about `RequestBodies!Spec`, for any messages, items and limits and any
number of turns and parameters:

* `FitForBoth`: `Spec => []ClaudeAcceptsLess`. One lemma per API compares the two
  lists of validators (`ChatChecks`, `ResponsesChecks`), one each the messages and the
  items. The inductive invariant `BodyInv` says that `answers` are those of the
  present conversation and that every parameter has one of its values: the two handlers
  tell a `conversation` beside a `previous_response_id` apart in different ways, and only for
  those values do they agree (`Earlier`).
* `ThinkingAlwaysFits`: `Spec => []ThinkingFits`: whatever limit is asked for, a body with
  thinking enabled has a limit above its budget. Both translations go through `RaisedAbove`.
* `SettingsAlwaysTakeEffect`: `Spec => []SettingsTakeEffect`. For each handler one lemma
  says what a body holds of the parameters (`ClaudeChatBody`, `CodexResponsesBody`, ...), one
  that it takes all others only at their neutral values (`ChatIneffective`, ...), and one
  goes through the parameters that are left and shows where the body
  without each differs (`ClaudeChatEffect`, ...). The prover found what one run of
  TLC had not: a limit that is the default, a `store` that is configured, and a limit raised for a
  thinking that is switched off are named as exceptions since.
* `EarlierTurnsAlwaysKept`: `Spec => EarlierTurnsAreKept`, for conversations of any length, of any
  messages, with the assumptions that messages and items are of the fields and contents
  the model tells apart (`MessagesAssumption`, `ItemsAssumption`). The translations are recursive
  functions over the messages. `Induction` shows by the well-founded order of the naturals that a set
  with 0 and all successors up to n holds 0..n; with the set of the lengths for which a function exists
  (`OrderedExists`, `TurnedExists`) and of those up to which it has what is claimed, it
  gives `InOrderIs` (the places picked are among the given ones) and `NormalizedIs` (of each message
  comes the message itself, a call or a result). Each such function over n + 1 messages is that over n
  with one step more (`NormalizedGrows`, `InOrderGrows`, `FlattenGrows`), so that what was made of the earlier turns is a prefix
  of what is made now (`PickedPrefix`, `InputGrows`), and nothing else of a body looks at the
  conversation (`ClaudeBodyGrows`, `CodexBodyGrows`) but the wish for a drawing. One thing
  looks at all of it: the kind of a Codex tool result is that of the last call with its id,
  anywhere. `KindsStay` is where the client's protocol is needed: the call came before
  the result, a new call has another id, and an id given to a call of the older form
  is none a client can send; where results name functions instead, no call is a custom one.
* `ResultsAlwaysAnswerCalls`: `Spec => []ResultsAnswerCalls`, for conversations of any length. What
  is sent of the earlier and later messages is a list of lists, one per message, and a block's place
  in the whole list goes by its list and its place in that (`FlatIs`, `FlatAppend`,
  `PairedFlat`); so the theorem comes down to who answers whom among the messages. For the
  messages with ids that is the client's protocol (`ChatAnswered`, `ItemAnswers`). For the older form, whose
  results name a function, the loop of the normalisation has the invariant `Matching`: each
  result so far was given the id of an earlier call of its function, none twice, the calls that
  wait are those of the messages whose id no result has yet, and of each function there are as many
  as calls less results. `Traced` is a trace of the loop
  (`TraceExists`, `TraceGrows`), `MatchingTurn` a turn of it, `NormalizedMatches` the whole. `KindsAreOne`
  says that the kind under which Codex is sent a result is that of its call.
* `NothingIsEverLost`: `Spec => []NothingIsLost`, for conversations of any length. A content, a call and a
  result are said in the same `Words` and deeds on both sides (`WordsAre`, `SaysOf`, `HeardsAre`). For Codex each
  message is heard as it is said, at its place (`CodexHearsChat`, `CodexHearsItems`). Claude has the system
  prompt ahead of the rest and hears things the client did not say; therefore sayings are split into parts
  (`PartOf`: what is heard at all, what is the client's, the system's, the others'). A part of a list of
  lists is the list of the parts (`PartFlat`), the parts commute (`PartLaws`), and so a claim for each message
  (`ClaudeHears`, `ClaudeHearsItem`) becomes one about the conversation (`HeardAll`,
  `SystemFirstIs`). The prompt is the text of those system messages of a chat that have one (`PromptHeard`): a
  silent one leaves an empty text that nobody said (`Invented`), so the claim is about those who speak
  (`Speaking`). In a response it is the instructions, unless they are empty, or else the first
  system item that says something (`PromptSaid`, `FirstIs`). Calls are said where
  `tool_calls` is given, be it empty, and by an older `function_call` where it is not
  (`CallingSays`).

Two definitions of `RequestBodies` changed because these proofs failed: a call is one only in an assistant's
message. The validators and the translations look at `tool_calls` there alone and ignore them elsewhere, so
`BesideCalls` had counted as left out what is sent beside calls that are none, and `CallFor` had let a client answer
a call that is never sent. The messages of `MCRequestBodies` held no such calls, which is why
no run had told the difference; one of them does since.

The theorems rest on the named assumptions of the modules about their constants
(`NamesAssumption`, `TimesAssumption`, `RunsAssumption`, ...), which TLC
evaluates for each instance. They hold without the bounds being small. Every invariant and every action property the passing
runs check is stated by a theorem. What only TLC checks is liveness, which is out of the prover's
reach (`ExpiredAccountsRecover`, `EveryRequestEnds` and `SlotsAreReleased`), and the
finding of `agents_tree`, which is a violation.

## 5. Not modelled, and why

Cloaking, configuration, redaction and the dashboard are stateless and left to unit tests. So are the
validators of `/v1/messages` and `count_tokens` (`proxy/passthrough.ts`), which look at a body in Claude's
own form. The translations for Claude do not promise a body that passes them: they forward an empty
text, an empty result or an empty stop sequence that those validators refuse, and leave the verdict to
Claude. `responsesToClaude` leaves the thinking on where a tool is forced, which `openaiToClaude` switches
off (`disableThinkingIfToolChoiceForced`, `proxy/translator.ts:51`); the model has both as they are. Of the
empty contents, an array without parts and one of one empty text are one value (`blank`), although
`responsesToClaude` sends no message for the first and one with an empty text for the second; neither says
anything. Of the bodies, texts, schemas and arguments as such, file and audio parts, and the wording of
refusals are left out; the OAuth
callback server and PKCE run once, alone. A restart of the agent manager is not
modelled: run directories and detached runners of an earlier process are documented
as not recovered. Failures of the log streams and of the process itself have no
promise to check. Of Grok, the translation of legacy search requests and their
citations is left out.
A `grok login` that completes while a refresh is in flight is overwritten by the pair
of the old session (`GrantGranted` writes what it asked for before its await into the
file as it is after it, `providers/grok-auth.ts:281`), although the repository's README says
that a completed login is picked up; the model has that step, and no property forbids it.
A refresh grant without `account.email_address` renames the account: the fallback
`newToken.email || acct.token.email` (`accounts/manager.ts:318`) never applies, because
`refreshTokens` has put "unknown" there (`auth/oauth.ts:107`). The models include such
grants (`GrantOmitsEmail`), and the properties that
they would break say so. A `--login` in a second process does not reach a running server, whose
tokens are read once; `LoginStart` and `LoginFinish` keep that. Times of
day, formats and messages are left out.

## 6. Plan

Done, in this order: `Accounts` and `AccountManager` with `AccountClients`;
`ClaudeRequests` over them; `RunLifecycle` and `AgentRuns`; `GrokAuth` and
`GrokRequests`; `ClaudeStreams`; `CodexText` and `CodexStreams`; `RateLimiter`, `UsageTracker`,
`CodexAuth` and `CodexRequests`; the request bodies with `RequestBodies`; the theorems
above.

Next:

1. The monitor around the Claude loops: a failure context that is set at one attempt and
   cleared when a later one succeeds (README.md of the repository, "Live Traffic").
2. The path rules and limits of `bundle.ts`, and the choice among several
   entries of an auth file, as operators checked against a reference definition.
3. The callback server of the login: one answer, whichever of the redirect, an
   error and the time limit comes first.

New runs may share an MC module with the present ones, so that each still asks one
question of one instance.
