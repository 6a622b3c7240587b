--------------------------- MODULE MCRequestBodies ---------------------------
(***************************************************************************)
(* What the client of RequestBodies may say, for TLC: each role, each form *)
(* of content, calls and results of either kind and of the older form.     *)
(***************************************************************************)
EXTENDS RequestBodies

A == Id(0, "a")
B == Id(0, "b")
C == Id(0, "c")

Says(role, contents) == {Message(role, content) : content \in contents}
Uses(content, calls) == [Message("assistant", content) EXCEPT !.calls = calls, !.listed = TRUE]
Asks(name) == [Message("assistant", Absent) EXCEPT !.fcall = name]
Returns(id, content) == [Message("tool", content) EXCEPT !.answers = id]
Replies(name) == [Message("function", "string") EXCEPT !.name = name]
Function(id) == Call(id, "function", "f")

MCMaxTurns == <<4, 2, 1>>

MCMessages ==
    Says("system", {"string", "blank"}) \cup Says("developer", {"parts"})
    \cup Says("user", {"string", "draw", "empty", "parts", "picture", Malformed})
    \cup Says("assistant", {"string", Absent, "empty"})
    \cup {Uses("string", <<Function(A)>>), Uses("parts", <<Function(B)>>),
          Uses(Absent, <<Function(A), Function(B)>>),
          Uses(Absent, <<Call(C, "custom", "f")>>)}
    \cup {Uses("string", <<>>), Uses("parts", <<>>), Uses("empty", <<Function(C)>>),
          [Uses(Absent, <<>>) EXCEPT !.fcall = "f"]}
    \cup {Returns(A, "string"), Returns(B, "parts"), Returns(C, "string")}
    \cup {[Message("user", "parts") EXCEPT !.calls = <<Function(A)>>, !.listed = TRUE]}
    \cup {Asks("f"), Asks("g"), Replies("f"), Replies("g"), Replies(Absent)}

Item(role, contents) == {ClaudeR!InputItem("message", role, content, NoId) : content \in contents}
Called(type, id) == ClaudeR!InputItem(type, Absent, "string", id)

MCItems ==
    Item("system", {"string", "picture", "empty"}) \cup Item("developer", {"parts"})
    \cup Item("user", {"string", "draw", "parts", "picture", Malformed})
    \cup Item("assistant", {"string", "picture", Absent})
    \cup {Called("function_call", A), Called("function_call", B),
          Called("custom_tool_call", C), Called("function_call_output", A),
          Called("function_call_output", B), Called("custom_tool_call_output", C),
          Called("function_call_output", NoId)}
=============================================================================
