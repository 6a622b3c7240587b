--------------------------- MODULE ResponsesInput ----------------------------
(***************************************************************************)
(* The input of a request to the Responses API: messages, calls and their  *)
(* outputs.  src/proxy/responses.ts and src/providers/codex-responses.ts   *)
(* validate it with the same functions, each with its own copy; this       *)
(* module is translated from the former.                                   *)
(***************************************************************************)
EXTENDS RequestShapes

\* An input that is a string is a message of the user.  An item: a message has a
\* role, a call or an output an id; content stands for a
\* call's name and arguments and an output's text as well.
InputItem(type, role, content, id) ==
    [type |-> type, role |-> role, content |-> content, id |-> id]
CallTypes == {"function_call", "custom_tool_call"}
OutputTypes == {"function_call_output", "custom_tool_call_output"}
CustomTypes == {"custom_tool_call", "custom_tool_call_output"}
Roles == {"system", "developer", "user", "assistant"}

\* getResponsesContentPartError: a part is a text or a picture, whoever says it.
\* It may say nothing.
PartsValid(content) == content # Malformed
ContentGiven(content) == content \notin {Absent, "scalar"} /\ PartsValid(content)
ItemValid(item) ==
    CASE item.type \in CallTypes -> item.id # NoId /\ item.content # Malformed
      [] item.type = "function_call_output" ->
            item.id # NoId /\ item.content \in {"string", "draw", "empty"}
      [] item.type = "custom_tool_call_output" ->
            item.id # NoId /\ ContentGiven(item.content)
      [] OTHER -> item.role \in Roles /\ ContentGiven(item.content)

\* getResponsesInputItemError
ItemsValid(items) == \A k \in DOMAIN items : ItemValid(items[k])

\* A client may put the conversation in "messages", which the API does not know.
InputOf(items, s) == IF s.messages = Absent THEN items ELSE <<>>
=============================================================================
