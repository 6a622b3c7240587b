----------------------------- MODULE ChatHistory -----------------------------
(***************************************************************************)
(* The messages of a Chat Completions request, and the older form of them: *)
(* an assistant's function_call, answered by a message of role "function"  *)
(* that has a name and no id.  normalizeLegacyChatFunctionMessages gives   *)
(* the calls ids and turns both into tool calls and tool results.          *)
(* src/proxy/handler.ts and src/providers/codex-chat.ts hold the same      *)
(* functions line for line; this module is translated from the former.     *)
(***************************************************************************)
EXTENDS RequestShapes, SequencesExt

\* A message: calls is tool_calls, and listed tells whether it is given, as an empty
\* list it may be; fcall and name are the names in function_call and of a function's
\* result, answers is tool_call_id.
Message(role, content) ==
    [role |-> role, content |-> content, calls |-> <<>>, listed |-> FALSE,
     fcall |-> Absent, name |-> Absent, answers |-> NoId]
Call(id, kind, name) == [id |-> id, kind |-> kind, name |-> name]
CallKinds == {"function", "custom", Malformed}

\* addPendingFunctionToolCalls
CallRefs(message) ==
    LET calls == message.calls
        functions == InOrder({k \in DOMAIN calls : calls[k].kind = "function"}, Len(calls))
    IN  [k \in DOMAIN functions |->
            [name |-> calls[functions[k]].name, callId |-> calls[functions[k]].id]]

\* findPendingFunctionCallIndex: the latest one of that name, 0 if there is none.
PendingIndex(pending, name) ==
    SelectLastInSeq(pending, LAMBDA ref : ref.name = name)

\* getLegacyAssistantFunctionCallMessageError, getLegacyFunctionRoleMessageError
LegacyFault(message) ==
    \/ message.role = "assistant" /\ message.fcall = Malformed
    \/ /\ message.role = "function"
       /\ message.name = Absent \/ message.content \in {Absent, "scalar"}

\* An assistant message with function_call and no tool_calls, not even [], gets the call as a
\* tool call; its id is made of the message's place and the name.
WithToolCall(message, at) ==
    [message EXCEPT !.calls = <<Call(Id(at, message.fcall), "function", message.fcall)>>,
                    !.listed = TRUE, !.fcall = Absent]

\* One turn of the loop: out holds the messages normalised so far.
FunctionCallTurn(state, message, at) ==
    LET legacy == message.fcall # Absent /\ ~message.listed
        normal == IF legacy THEN WithToolCall(message, at) ELSE message
    IN  [state EXCEPT !.out = Append(@, normal), !.pending = @ \o CallRefs(normal)]

ResultKeepsCall(state, message) ==   \* Fault: the call stays pending
    LET k == PendingIndex(state.pending, message.name)
    IN  IF k = 0 THEN [state EXCEPT !.error = TRUE]
        ELSE [state EXCEPT
                !.out = Append(@, [Message("tool", message.content) EXCEPT
                                      !.answers = state.pending[k].callId])]

FunctionResultTurn(state, message) ==
    LET k == PendingIndex(state.pending, message.name)
    IN  IF k = 0 THEN [state EXCEPT !.error = TRUE]
        ELSE [state EXCEPT
                !.out = Append(@, [Message("tool", message.content) EXCEPT
                                      !.answers = state.pending[k].callId]),
                !.pending = RemoveAt(@, k)]

LegacyTurn(state, message, at) ==
    CASE state.error -> state
      [] ~state.error /\ LegacyFault(message) -> [state EXCEPT !.error = TRUE]
      [] ~state.error /\ ~LegacyFault(message) /\ message.role = "assistant" ->
            FunctionCallTurn(state, message, at)
      [] ~state.error /\ ~LegacyFault(message) /\ message.role = "function" ->
            FunctionResultTurn(state, message)
      [] OTHER -> [state EXCEPT !.out = Append(@, message)]

\* normalizeLegacyChatFunctionMessages
NormalStart == [out |-> <<>>, pending |-> <<>>, error |-> FALSE]
Normalized(messages) ==
    LET turns[at \in 0..Len(messages)] ==
            IF at = 0 THEN NormalStart ELSE LegacyTurn(turns[at - 1], messages[at], at)
    IN  turns[Len(messages)]
=============================================================================
