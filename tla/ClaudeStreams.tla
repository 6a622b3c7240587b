---------------------------- MODULE ClaudeStreams ----------------------------
(***************************************************************************)
(* A streamed reply of Claude and its two translations: into chunks of     *)
(* Chat Completions (claudeStreamEventToOpenai of src/proxy/translator.ts, *)
(* fed by src/proxy/streaming.ts) and into events of the Responses API     *)
(* (claudeSSEToResponses of src/proxy/responses.ts).  Both read the same   *)
(* events here; in the code each request has one of them.                  *)
(*                                                                         *)
(* chat and resp are what a client has put together from what it was sent. *)
(* The reference is the answer the same message gets without streaming     *)
(* (claudeToOpenai, claudeToResponses).  A piece is what one delta brings. *)
(***************************************************************************)
EXTENDS Integers, SequencesExt

CONSTANTS
    Pieces,       \* the contents of deltas
    MaxBlocks,    \* bound: blocks of a message
    MaxDeltas     \* bound: deltas of a block

ASSUME BlocksAssumption == MaxBlocks \in Nat \ {0}

Types == {"text", "thinking", "redacted_thinking", "tool_use"}
StopReasons == {"end_turn", "max_tokens", "tool_use"}
Counters == {"input", "creation", "read"}

VARIABLES
    message,   \* the blocks Claude has generated
    phase,     \* where its stream is
    stop,      \* stop_reason
    counted,   \* input tokens by kind, as last reported
    legacy,    \* legacyFunctionCall: the client uses functions, not tools
    order,     \* StreamState.toolCalls: its keys in insertion order
    state,     \* ResponsesStreamState
    chat,      \* the chat completion as its client has it
    resp       \* the response as its client has it

vars == <<message, phase, stop, counted, legacy, order, state, chat, resp>>

Bodies == Seq(Pieces)
Indexes == 1..MaxBlocks      \* the index of a block, from 1
Phases == {"start", "between", "block", "stopping", "stopped", "cut"}
Call == [id : Indexes, args : Bodies]

\* The message items of a stream share one id, a call has one of its own.
MsgId == 0
Item == [at : Indexes, id : {MsgId} \cup Indexes, body : Bodies, final : Bodies,
         open : BOOLEAN]

TypeOK ==
    /\ message \in Seq([type : Types, body : Bodies])
    /\ phase \in Phases /\ stop \in StopReasons \cup {"none"}
    /\ counted \in [Counters -> 0..2]
    /\ legacy \in BOOLEAN
    /\ order \in Seq(Indexes)
    /\ state \in [inText : BOOLEAN, inThinking : BOOLEAN, inTool : BOOLEAN,
                  text : Bodies, tool : Indexes, args : Bodies,
                  counted : [Counters -> 0..2]]
    /\ chat \in [roles : 0..1, text : Bodies, reasoning : Bodies,
                 calls : Seq(Call),
                 finish : {"none", "stop", "length", "tool_calls", "function_call"},
                 done : BOOLEAN]
    /\ resp \in [status : {"none", "in_progress", "completed"},
                 items : Seq(Item), orphans : BOOLEAN,
                 counted : [Counters -> 0..2]]

Zero == [c \in Counters |-> 0]

Init ==
    /\ message = <<>> /\ phase = "start" /\ stop = "none" /\ counted = Zero
    /\ legacy \in BOOLEAN
    /\ order = <<>>
    /\ state = [inText |-> FALSE, inThinking |-> FALSE, inTool |-> FALSE,
                text |-> <<>>, tool |-> 1, args |-> <<>>, counted |-> Zero]
    /\ chat = [roles |-> 0, text |-> <<>>, reasoning |-> <<>>, calls |-> <<>>,
               finish |-> "none", done |-> FALSE]
    /\ resp = [status |-> "none", items |-> <<>>, orphans |-> FALSE, counted |-> Zero]

-----------------------------------------------------------------------------
(* Chat Completions *)

Tool(type) == type = "tool_use"

\* Fault: the stop reason is passed on as it is.
FinishReasonRaw(reason) == reason

\* mapStopReason
FinishReason(reason) ==
    CASE reason = "max_tokens" -> "length"
      [] reason = "tool_use" -> IF legacy THEN "function_call" ELSE "tool_calls"
      [] OTHER -> "stop"

\* A call goes to the next index, a function_call to the one place there is.
WithCall(n) ==
    IF legacy /\ chat.calls # <<>>
    THEN [chat EXCEPT !.calls[1].id = n]
    ELSE [chat EXCEPT !.calls = Append(@, [id |-> n, args |-> <<>>])]

\* Only a tool block starts something: the head of its call.
ChatBlockStart(n, type) ==
    /\ order' = IF Tool(type) THEN Append(order, n) ELSE order
    /\ chat' = IF Tool(type) THEN WithCall(n) ELSE chat

\* Fault: the search of the call's index does not count.
ToolIndexFirst(n) == 1

\* The index a later delta of the call of block n goes to.
ToolIndex(n) ==
    IF legacy THEN 1
    ELSE CHOOSE i \in DOMAIN order : order[i] = n /\ \A j \in 1..(i - 1) : order[j] # n

ChatDelta(n, type, p) ==
    chat' = CASE type = "text" -> [chat EXCEPT !.text = Append(@, p)]
              [] type = "thinking" -> [chat EXCEPT !.reasoning = Append(@, p)]
              [] Tool(type) /\ n \in ToSet(order) ->
                     [chat EXCEPT !.calls[ToolIndex(n)].args = Append(@, p)]
              [] OTHER -> chat

-----------------------------------------------------------------------------
(* Responses *)

NewItem(n, id) == [at |-> n, id |-> id, body |-> <<>>, final |-> <<>>, open |-> TRUE]

\* Events name their item by output_index and item_id.
Named(n, id) == {i \in DOMAIN resp.items :
                    resp.items[i].at = n /\ resp.items[i].id = id /\ resp.items[i].open}

WithDelta(n, id, p) ==
    [resp EXCEPT
        !.items = [i \in DOMAIN resp.items |->
                      IF i \in Named(n, id)
                      THEN [resp.items[i] EXCEPT !.body = Append(@, p)] ELSE resp.items[i]],
        !.orphans = @ \/ Named(n, id) = {}]

\* The done events of an item, with its whole text or arguments.
WithDone(n, id, final) ==
    [resp EXCEPT
        !.items = [i \in DOMAIN resp.items |->
                      IF i \in Named(n, id)
                      THEN [resp.items[i] EXCEPT !.final = final, !.open = FALSE]
                      ELSE resp.items[i]],
        !.orphans = @ \/ Named(n, id) = {}]

ResponsesBlockStart(n, type) ==
    CASE type = "text" ->
            /\ state' = [state EXCEPT !.inText = TRUE, !.text = <<>>]
            /\ resp' = [resp EXCEPT !.items = Append(@, NewItem(n, MsgId))]
      [] type = "thinking" ->
            state' = [state EXCEPT !.inThinking = TRUE] /\ UNCHANGED resp
      [] Tool(type) ->
            /\ state' = [state EXCEPT !.inTool = TRUE, !.tool = n, !.args = <<>>]
            /\ resp' = [resp EXCEPT !.items = Append(@, NewItem(n, n))]
      [] OTHER -> UNCHANGED <<state, resp>>

ResponsesDelta(n, type, p) ==
    CASE type = "text" ->
            /\ state' = [state EXCEPT !.text = Append(@, p)]
            /\ resp' = WithDelta(n, MsgId, p)
      [] Tool(type) ->
            /\ state' = [state EXCEPT !.args = Append(@, p)]
            /\ resp' = WithDelta(n, state.tool, p)
      [] OTHER -> UNCHANGED <<state, resp>>

\* Fault: the flag of a thinking block is left set.
ResponsesBlockStopThinking(n) ==
    CASE state.inThinking -> UNCHANGED <<state, resp>>
      [] ~state.inThinking /\ state.inText ->
            /\ state' = [state EXCEPT !.inText = FALSE, !.text = <<>>]
            /\ resp' = WithDone(n, MsgId, state.text)
      [] ~state.inThinking /\ ~state.inText /\ state.inTool ->
            /\ state' = [state EXCEPT !.inTool = FALSE, !.args = <<>>]
            /\ resp' = WithDone(n, state.tool, state.args)
      [] OTHER -> UNCHANGED <<state, resp>>

\* The stop event does not say of what type its block is: the flags do.
ResponsesBlockStop(n) ==
    CASE state.inText ->
            /\ state' = [state EXCEPT !.inText = FALSE, !.text = <<>>]
            /\ resp' = WithDone(n, MsgId, state.text)
      [] ~state.inText /\ state.inThinking ->
            state' = [state EXCEPT !.inThinking = FALSE] /\ UNCHANGED resp
      [] ~state.inText /\ ~state.inThinking /\ state.inTool ->
            /\ state' = [state EXCEPT !.inTool = FALSE, !.args = <<>>]
            /\ resp' = WithDone(n, state.tool, state.args)
      [] OTHER -> UNCHANGED <<state, resp>>

-----------------------------------------------------------------------------
(* The events of the stream, in Claude's order *)

MessageStart ==
    /\ phase = "start" /\ phase' = "between"
    /\ counted' = [c \in Counters |-> 1]
    /\ state' = [state EXCEPT !.counted = counted']
    /\ chat' = [chat EXCEPT !.roles = @ + 1]
    /\ resp' = [resp EXCEPT !.status = "in_progress"]
    /\ UNCHANGED <<message, stop, legacy, order>>

BlockStart(type) ==
    /\ phase = "between" /\ Len(message) < MaxBlocks
    /\ phase' = "block"
    /\ message' = Append(message, [type |-> type, body |-> <<>>])
    /\ ChatBlockStart(Len(message'), type)
    /\ ResponsesBlockStart(Len(message'), type)
    /\ UNCHANGED <<stop, counted, legacy>>

BlockDelta(p) ==
    LET n == Len(message)
    IN  /\ phase = "block" /\ Len(message[n].body) < MaxDeltas
        /\ message' = [message EXCEPT ![n].body = Append(@, p)]
        /\ ChatDelta(n, message[n].type, p)
        /\ ResponsesDelta(n, message[n].type, p)
        /\ UNCHANGED <<phase, stop, counted, legacy, order>>

BlockStop ==
    /\ phase = "block" /\ phase' = "between"
    /\ ResponsesBlockStop(Len(message))
    /\ UNCHANGED <<message, stop, counted, legacy, order, chat>>

\* Its usage repeats the input counts that have changed, or all, or none.
MessageDelta(reason, reported) ==
    /\ phase = "between" /\ phase' = "stopping"
    /\ reason = "tool_use" => \E i \in DOMAIN message : Tool(message[i].type)
    /\ stop' = reason
    /\ counted' = [c \in Counters |-> IF c \in reported THEN 2 ELSE counted[c]]
    /\ state' = [state EXCEPT !.counted =
                    [c \in Counters |-> IF c \in reported THEN counted'[c] ELSE @[c]]]
    /\ chat' = [chat EXCEPT !.finish = FinishReason(reason)]
    /\ UNCHANGED <<message, legacy, order, resp>>

MessageStop ==
    /\ phase = "stopping" /\ phase' = "stopped"
    /\ chat' = [chat EXCEPT !.done = TRUE]
    /\ resp' = [resp EXCEPT !.status = "completed", !.counted = state.counted]
    /\ UNCHANGED <<message, stop, counted, legacy, order, state>>

\* An error event, which has no translation, or the end of the connection.
Cut ==
    /\ phase \notin {"stopped", "cut"} /\ phase' = "cut"
    /\ UNCHANGED <<message, stop, counted, legacy, order, state, chat, resp>>

Next == \/ MessageStart
        \/ \E type \in Types : BlockStart(type)
        \/ \E p \in Pieces : BlockDelta(p)
        \/ BlockStop
        \/ \E reason \in StopReasons, reported \in SUBSET Counters :
               MessageDelta(reason, reported)
        \/ MessageStop
        \/ Cut

Spec == Init /\ [][Next]_vars

-----------------------------------------------------------------------------
(* The answers without streaming *)

\* The numbers of S, the least first.
Ascending(S) == CHOOSE s \in [1..Cardinality(S) -> S] :
                    \A i, j \in DOMAIN s : i < j => s[i] < s[j]

Blocks(type) == {n \in DOMAIN message : message[n].type = type}

BodiesOf(type) == LET at == Ascending(Blocks(type))
                  IN  [i \in DOMAIN at |-> message[at[i]].body]

\* JSON.stringify(block.input || {}): arguments stand for their JSON value, and no
\* arguments at all are an empty object.
NoInput == <<"{}">>
Arguments(body) == IF body = <<>> THEN NoInput ELSE body

CallsOf == LET at == Ascending(Blocks("tool_use"))
           IN  [i \in DOMAIN at |-> [id |-> at[i], args |-> Arguments(message[at[i]].body)]]

\* claudeToOpenai.  It collects the thoughts too, and leaves them out of its answer.
ToOpenai == [text |-> FlattenSeq(BodiesOf("text")),
             calls |-> IF legacy /\ CallsOf # <<>> THEN <<CallsOf[1]>> ELSE CallsOf,
             finish |-> FinishReason(stop)]

\* The blocks that become parts of the one message: texts, and thoughts that are
\* not empty, as reasoning.
Parts == LET at == Ascending({n \in DOMAIN message :
                                  \/ message[n].type = "text"
                                  \/ message[n].type = "thinking" /\ message[n].body # <<>>})
         IN  [i \in DOMAIN at |-> message[at[i]]]

\* claudeToResponses
ToResponses == [status |-> IF stop = "max_tokens" THEN "incomplete" ELSE "completed",
                content |-> Parts, calls |-> CallsOf, counted |-> counted]

-----------------------------------------------------------------------------
(* Properties *)

\* The calls of a stream are those of an answer, each with its arguments; a call
\* without any is streamed with "" and answered with "{}".
SameCalls(streamed, answered) ==
    /\ DOMAIN streamed = DOMAIN answered
    /\ \A i \in DOMAIN answered :
           /\ streamed[i].id = answered[i].id
           /\ \/ streamed[i].args = answered[i].args
              \/ streamed[i].args = <<>> /\ answered[i].args = NoInput

\* A client that streams a chat completion to its end has put together what it
\* would have got at once, each argument in its call, whatever blocks come between
\* the calls, and with it the thoughts, which only a stream shows.  A function_call
\* has one place, so one call is all it can take.
ChatStreamIsTheAnswer ==
    chat.done /\ (legacy => Len(CallsOf) <= 1) =>
        /\ chat.text = ToOpenai.text
        /\ SameCalls(chat.calls, ToOpenai.calls)
        /\ chat.finish = ToOpenai.finish
        /\ chat.reasoning = FlattenSeq(BodiesOf("thinking"))

ItemsOf(ids) == LET at == Ascending({i \in DOMAIN resp.items : resp.items[i].id \in ids})
                IN  [i \in DOMAIN at |-> resp.items[at[i]]]

TextsOf(parts) == LET at == Ascending({i \in DOMAIN parts : parts[i].type = "text"})
                  IN  [k \in DOMAIN at |-> parts[at[k]].body]

\* Of a response that is completed, every item was opened, filled and closed, with
\* the whole of its deltas, no event named another item, and the texts, the calls
\* and the count of tokens are those of the answer without streaming.  Two things
\* differ: the reasoning parts of the answer are not streamed, and the status is
\* "completed" where the answer says "incomplete" of max_tokens.
ResponsesStreamIsTheAnswer ==
    resp.status = "completed" =>
        /\ ~resp.orphans
        /\ \A i \in DOMAIN resp.items : ~resp.items[i].open
                                        /\ resp.items[i].body = resp.items[i].final
        /\ LET texts == ItemsOf({MsgId})
               calls == ItemsOf(Indexes)
           IN  /\ TextsOf(ToResponses.content) = [i \in DOMAIN texts |-> texts[i].final]
               /\ SameCalls([i \in DOMAIN calls |->
                                 [id |-> calls[i].id, args |-> calls[i].final]],
                            ToResponses.calls)
        /\ ToResponses.counted = resp.counted
        /\ stop # "max_tokens" => ToResponses.status = resp.status
=============================================================================
