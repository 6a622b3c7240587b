----------------------------- MODULE CodexAuth -----------------------------
(***************************************************************************)
(* CodexAuthStore of src/providers/codex-auth.ts: the login of the Codex   *)
(* CLI, read from the first of two files that exists, with a cache of what *)
(* was read last.  The server never writes the files; the CLI does, and    *)
(* upstream decides which access tokens it takes.                          *)
(*                                                                         *)
(* One id stands for an access token and the mtime of the write that       *)
(* brought it.                                                             *)
(***************************************************************************)
EXTENDS Integers

CONSTANTS
    NTokens,     \* bound: writes of a login
    MaxEvents    \* bound: what the CLI and upstream do to a login

ASSUME TokensAssumption == NTokens \in Nat \ {0} /\ MaxEvents \in Nat

Paths == 1..2          \* auth-file, then ~/.codex/auth.json
Tokens == 1..NTokens
Gone == 0              \* the file does not exist
Torn == -1             \* it does not parse, or holds no access token
Unavailable == [path |-> 0, id |-> Gone]
Snapshots == [path : Paths, id : Tokens] \cup {Unavailable}

VARIABLES
    files,     \* by path: Gone, Torn or a token
    cache,     \* cachedSnapshot with its path and mtime, or Unavailable
    taken,     \* the access tokens upstream takes
    written,   \* the last token written
    events

authVars == <<files, cache, taken, written, events>>

AuthType ==
    /\ files \in [Paths -> {Gone, Torn} \cup Tokens]
    /\ cache \in Snapshots
    /\ taken \subseteq Tokens /\ written \in Tokens /\ events \in 0..MaxEvents

AuthInit ==
    /\ files = [p \in Paths |-> IF p = 1 THEN 1 ELSE Gone]
    /\ cache = Unavailable /\ taken = {1} /\ written = 1 /\ events = 0

Present == {p \in Paths : files[p] # Gone}
FirstPath == CHOOSE p \in Present : \A q \in Present : p <= q

\* What the files say, read afresh.
OnDisk == IF Present = {} \/ files[FirstPath] = Torn THEN Unavailable
          ELSE [path |-> FirstPath, id |-> files[FirstPath]]

\* load with a cache: what was cached is served while path and mtime are the same,
\* and kept when load throws.
Loaded(cached) ==
    IF Present # {} /\ cached.path = FirstPath /\ files[FirstPath] = cached.id
    THEN cached ELSE OnDisk
Cached(cached) == IF Loaded(cached) = Unavailable THEN cached ELSE Loaded(cached)

\* Fault: what is read is compared with the cache, which others refresh too.
NewsOfCache(previous) == IF OnDisk = cache THEN Unavailable ELSE OnDisk

\* reloadAfterAuthFailure: a login other than the one that was refused.
NewsAfter(previous) == IF OnDisk = previous THEN Unavailable ELSE OnDisk

Event == events < MaxEvents /\ events' = events + 1

\* `codex login`, --login-codex, or a refresh by the CLI, which ends the old token.
CliWrite(p) ==
    /\ Event /\ written < NTokens
    /\ written' = written + 1
    /\ files' = [files EXCEPT ![p] = written']
    /\ \E ended \in SUBSET {files[p]} : taken' = (taken \ ended) \cup {written'}
    /\ UNCHANGED cache

CliRemove(p) ==
    /\ Event /\ files[p] # Gone
    /\ files' = [files EXCEPT ![p] = Gone]
    /\ UNCHANGED <<cache, taken, written>>

\* A write that is seen half done.
CliTears(p) ==
    /\ Event /\ files[p] # Gone
    /\ files' = [files EXCEPT ![p] = Torn]
    /\ UNCHANGED <<cache, taken, written>>

\* A token runs out, or upstream withdraws it.
Expire(id) ==
    /\ Event /\ id \in taken
    /\ taken' = taken \ {id}
    /\ UNCHANGED <<files, cache, written>>

AuthStep == \/ \E p \in Paths : CliWrite(p) \/ CliRemove(p) \/ CliTears(p)
            \/ \E id \in Tokens : Expire(id)
=============================================================================
