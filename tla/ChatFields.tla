----------------------------- MODULE ChatFields ------------------------------
(***************************************************************************)
(* The older parameters of a Chat Completions request.                     *)
(* src/proxy/handler.ts and src/providers/codex-chat.ts hold the same      *)
(* functions line for line; this module is translated from the former.     *)
(***************************************************************************)
EXTENDS RequestShapes

(***************************************************************************)
(* normalizeLegacyChatFunctionFields: functions and function_call stand    *)
(* for tools and tool_choice where those are undefined.                    *)
(***************************************************************************)
ToolsOf(s) ==
    IF s.tools = Absent /\ s.functions # Absent THEN s.functions ELSE s.tools

ToolChoiceOf(s) ==
    CASE s.tool_choice # Absent -> s.tool_choice
      [] s.tool_choice = Absent /\ s.function_call = "named" -> "function"
      [] s.tool_choice = Absent /\ s.function_call \in {"auto", "none"} -> s.function_call
      [] OTHER -> Absent

LegacyFields(s) == [s EXCEPT !.tools = ToolsOf(s), !.tool_choice = ToolChoiceOf(s)]

\* shouldUseLegacyFunctionCallResponse
LegacyReply(s) == s.tools = Absent /\ s.functions # Absent
=============================================================================
