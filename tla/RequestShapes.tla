---------------------------- MODULE RequestShapes ----------------------------
(***************************************************************************)
(* What a request body may hold, as far as the validators and translators  *)
(* of the proxy tell its values apart.                                     *)
(*                                                                         *)
(* A parameter is "absent" (undefined in the code), "malformed" (a value   *)
(* of the wrong type or outside its range, whatever of it is wrong), or    *)
(* one of the well-formed values the code treats alike.  A text, a picture *)
(* or an argument is known by the place of the message that holds it, so   *)
(* that a body is a matter of who says what, in which order.               *)
(***************************************************************************)
EXTENDS Integers, Sequences

Absent == "absent"
Malformed == "malformed"

\* A token limit is an integer; 0 stands for all the validators refuse.
NoLimit == -1

Efforts == {"none", "minimal", "low", "medium", "high", "xhigh"}

\* The id of a call: the client's (at = 0), or the one the proxy gives the
\* function_call of message number at.
Id(at, name) == <<at, name>>
NoId == Id(0, "")

\* A validator that looks at the form alone, and one that refuses some of the
\* well-formed values as unsupported.
Form(value) == value # Malformed
Supported(value, refused) == Form(value) /\ value \notin refused

\* A handler refuses a body with status 400 at the first validator that fails, or
\* sends a body upstream: a sequence of none or one.
Refused == <<>>
Sent(body) == <<body>>
Accepted(answer) == answer # Refused
BodyOf(answer) == Head(answer)

(***************************************************************************)
(* Contents.  A client writes a string, a string that asks for a drawing,  *)
(* an array of text parts, or one with a picture; and may say nothing with *)
(* the empty string, or with an array without parts or of one empty text.  *)
(* What says nothing makes no block.                                       *)
(***************************************************************************)
Texts == {"string", "draw", "parts", "picture"}
Silences == {"empty", "blank"}
Lists == {"parts", "picture", "blank", Malformed}
Contents == Texts \cup Silences \cup {Absent, "scalar", Malformed}
Block(type, at, id) == [type |-> type, at |-> at, id |-> id]
Text(at) == Block("text", at, NoId)
Picture(at) == Block("image", at, NoId)
ContentOf(content, at) ==
    CASE content = "picture" -> <<Text(at), Picture(at)>>
      [] content \in Texts \ {"picture"} -> <<Text(at)>>
      [] OTHER -> <<>>

\* The empty text a translation puts where a text could be.
NoText == Text(0)

\* The first n places, of those that are among places, in order.
InOrder(places, n) ==
    LET upTo[k \in 0..n] ==
            IF k = 0 THEN <<>>
            ELSE IF k \in places THEN Append(upTo[k - 1], k) ELSE upTo[k - 1]
    IN  upTo[n]
=============================================================================
