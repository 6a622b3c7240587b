----------------------------- MODULE BodyTerms ------------------------------
(***************************************************************************)
(* The notions in which BodyProofs speaks of a whole conversation: what    *)
(* the normalisation makes of its messages, lists of lists, who answers    *)
(* whom, and what is said and heard of it.  None is part of the model.     *)
(***************************************************************************)
EXTENDS RequestBodies

(***************************************************************************)
(* What normalizeLegacyChatFunctionMessages makes of a message: itself, a  *)
(* tool call of the older form, or a tool result with some call's id.      *)
(***************************************************************************)
Older(m) == m.role = "assistant" /\ m.fcall # Absent /\ ~m.listed
CameOf(m, at, o) ==
    \/ m.role # "function" /\ ~Older(m) /\ o = m
    \/ Older(m) /\ o = WithToolCall(m, at)
    \/ m.role = "function" /\ \E id : o = [Message("tool", m.content) EXCEPT !.answers = id]

\* After n turns without an error, out holds what came of each of the n messages.
NormalUpTo(state, messages, n) ==
    /\ state = [out |-> state.out, pending |-> state.pending, error |-> state.error]
    /\ state.error \in BOOLEAN
    /\ ~state.error =>
          /\ \E X : state.out \in Seq(X)
          /\ Len(state.out) = n
          /\ \A k \in 1..n : CameOf(messages[k], k, state.out[k])

\* The calls of a message.
CallsIn(m) == IF m.role = "assistant" THEN m.calls ELSE <<>>

\* What may come of the message at a place: an item of its role, one with the text
\* beside its calls, its calls, and its result.
Entries(list, at) ==
    {CodexC!CallItem(list[at].calls[k]) : k \in DOMAIN list[at].calls}
      \cup {CodexC!ResultItem(list, list[at], at),
            CodexC!Item("assistant", CodexC!ContentOf(list[at].content, at)),
            CodexC!Item(list[at].role, CodexC!ContentOf(list[at].content, at))}

-----------------------------------------------------------------------------
(***************************************************************************)
(* Lists, and the lists that lists make.                                   *)
(***************************************************************************)
\* A list, whatever it is of, and n of them.
IsList(s) == \E T : s \in Seq(T)
AreLists(f, n) == f = [i \in 1..n |-> f[i]] /\ \A i \in 1..n : IsList(f[i])

\* The first k of some lists, and the list they make.
First(f, k) == [i \in 1..k |-> f[i]]
FlatUpTo(f, k) == FlattenSeq(First(f, k))

\* The lists h gives for what is in s, as one list.
FlatMap(s, h) == FlattenSeq([k \in DOMAIN s |-> h[s[k]]])
Maps(s, h) == IsList(s) /\ \A k \in DOMAIN s : IsList(h[s[k]])

\* Those of a list that are in some places.
PickedLists(s, places, n) == [k \in 1..n |-> IF k \in places THEN <<s[k]>> ELSE <<>>]

\* Where what is in F, the list that n lists make, comes from: F[i] from list number
\* at[i], in the order of the lists.
Traced(F, f, n, at) ==
    /\ at \in [1..Len(F) -> 1..n]
    /\ \A i, j \in 1..Len(F) : i <= j => at[i] <= at[j]
    /\ \A i \in 1..Len(F) : \E k \in 1..Len(f[at[i]]) : F[i] = f[at[i]][k]
    /\ \A l \in 1..n : \A k \in 1..Len(f[l]) :
          \E i \in 1..Len(F) : at[i] = l /\ F[i] = f[l][k]
    /\ \A i, j \in 1..Len(F) : at[i] = at[j] /\ Len(f[at[i]]) = 1 => i = j

-----------------------------------------------------------------------------
(***************************************************************************)
(* Who answers whom: in lists of blocks, in the loop of                    *)
(* normalizeLegacyChatFunctionMessages, and in what it makes.              *)
(***************************************************************************)
\* A result that stands for itself in its list answers a call of an earlier list, and
\* no other result answers it.
PairedAt(f, n, at, block) ==
    /\ FitsName(block)
    /\ Len(f[at]) = 1
    /\ \E i \in 1..(at - 1) : \E l \in 1..Len(f[i]) :
          f[i][l].id = block.id /\ AnswerTo(f[i][l].type) = block.type
    /\ \A i \in 1..n : \A l \in 1..Len(f[i]) :
          KindOf(f[i][l]) = "result" /\ f[i][l].id = block.id => i = at
ListsPaired(f, n) ==
    \A at \in 1..n : \A k \in 1..Len(f[at]) :
        KindOf(f[at][k]) = "result" => PairedAt(f, n, at, f[at][k])

\* The older calls of the first n messages that wait for a result: each has an id made
\* of its message's place, and waits once.
Ref(i, name) == [name |-> name, callId |-> Id(i, name)]
Waiting(pending, messages, n) ==
    /\ IsList(pending)
    /\ \A k \in 1..Len(pending) : \E i \in 1..n :
          Older(messages[i]) /\ pending[k] = Ref(i, messages[i].fcall)
    /\ \A k, l \in 1..Len(pending) : pending[k].callId = pending[l].callId => k = l

\* A result of the older form has got the id of an earlier call of its function, which
\* no other result has got and which waits no longer.
GetsOlderId(out, messages, k) ==
    \E i \in 1..(k - 1) : /\ Older(messages[i]) /\ messages[i].fcall = messages[k].name
                          /\ out[k].answers = Id(i, messages[k].name)
OlderMatched(out, pending, messages, n) ==
    \A k \in 1..n : messages[k].role = "function" =>
        /\ GetsOlderId(out, messages, k)
        /\ \A l \in 1..n : messages[l].role = "function" /\ out[l].answers = out[k].answers =>
              l = k
        /\ \A l \in 1..Len(pending) : pending[l].callId # out[k].answers

\* A list that begins as another, and calls that wait with one more.
Holds(more, out, n) == \A k \in 1..n : more[k] = out[k]
Joins(later, pending, ref) ==
    \A k \in 1..Len(later) :
        \/ k \in 1..Len(pending) /\ later[k] = pending[k]
        \/ later[k] = ref

\* The older calls and results of the first n messages, as the loop has treated them.
Matching(state, messages, n) ==
    /\ NormalUpTo(state, messages, n)
    /\ ~state.error => /\ Waiting(state.pending, messages, n)
                       /\ OlderMatched(state.out, state.pending, messages, n)

\* A result of a normalised conversation answers an earlier call, which no other result
\* answers; one of the older form answers a call of its function.
CallsAnswered(list, out, n) ==
    \A at \in 1..n : out[at].role = "tool" =>
        /\ \E i \in 1..(at - 1) : \E k \in DOMAIN CallsIn(out[i]) :
              CallsIn(out[i])[k].id = out[at].answers
        /\ \A j \in 1..n : out[j].role = "tool" /\ out[j].answers = out[at].answers => j = at
        /\ list[at].role = "function" => out[at].answers[2] = list[at].name

\* An id stands for calls of one kind.
OneKind(out, n) ==
    \A i, j \in 1..n : \A k \in DOMAIN CallsIn(out[i]), l \in DOMAIN CallsIn(out[j]) :
        CallsIn(out[i])[k].id = CallsIn(out[j])[l].id =>
            CallsIn(out[i])[k].kind = CallsIn(out[j])[l].kind

-----------------------------------------------------------------------------
(***************************************************************************)
(* What is sent of messages and items.                                     *)
(***************************************************************************)
\* A list of blocks other than results.
NoResults(blocks) == IsList(blocks) /\ \A k \in 1..Len(blocks) : KindOf(blocks[k]) # "result"

\* The block of a tool message, and those of other messages: results are in the former,
\* and each call is in those of its message.
AnswersIn(o, at, content) == content = <<ClaudeC!ToolResult(o.answers, at)>>
UsesIn(o, content) ==
    \A k \in DOMAIN CallsIn(o) : \E l \in 1..Len(content) :
        content[l] = ClaudeC!ToolUse(CallsIn(o)[k].id)

\* What h makes of the items of each message, where it makes lists of them.
ItemLists(out, at, h) == \A x \in Entries(out, at) : IsList(h[x])
OfItems(out, at, h, list) ==
    LET m == out[at]
        content == CodexC!ContentOf(m.content, at)
    IN  /\ m.role = "tool" => list = h[CodexC!ResultItem(out, m, at)]
        /\ m.role = "assistant" /\ m.calls # <<>> =>
              list = (IF m.content \in {Absent, "empty"} THEN <<>>
                      ELSE h[CodexC!Item("assistant", content)])
                       \o FlattenSeq([k \in DOMAIN m.calls |-> h[CodexC!CallItem(m.calls[k])]])
        /\ m.role # "tool" /\ ~(m.role = "assistant" /\ m.calls # <<>>) =>
              list = h[CodexC!Item(m.role, content)]

\* A conversation of n messages each of whose items h makes a list of.
Itemized(out, h, n) ==
    DOMAIN out = 1..n /\ \A at \in 1..n : ItemLists(out, at, h) /\ IsList(CallsIn(out[at]))

\* A list holds what another holds.
HasAll(list, some) == \A k \in 1..Len(some) : \E l \in 1..Len(list) : list[l] = some[k]

\* The blocks of a call and of a result for Codex.
CallBlock(c) ==
    CodexC!Block(IF c.kind = "custom" THEN "custom_tool_call" ELSE "function_call", 0, c.id)
ResultBlock(out, at) ==
    CodexC!Block(IF CodexC!AnswersCustomCall(out, out[at].answers)
                 THEN "custom_tool_call_output" ELSE "function_call_output",
                 at, out[at].answers)
ContentsOf(out, n) ==
    [x \in UNION {Entries(out, at) : at \in 1..n} |-> CodexC!Developer(x).content]

\* The contents h gives of the items a message may become.
EntryContents(out, at, h) ==
    /\ h[CodexC!ResultItem(out, out[at], at)] = <<ResultBlock(out, at)>>
    /\ \A k \in DOMAIN out[at].calls :
          h[CodexC!CallItem(out[at].calls[k])] = <<CallBlock(out[at].calls[k])>>
    /\ \A role \in {"assistant", out[at].role} :
          h[CodexC!Item(role, CodexC!ContentOf(out[at].content, at))]
            = ContentOf(out[at].content, at)

\* The blocks of a message for Codex: results are in those of tool messages, and each
\* call is in those of its message.
SentOf(out, at, list) ==
    /\ IsList(list)
    /\ out[at].role = "tool" => list = <<ResultBlock(out, at)>>
    /\ out[at].role # "tool" => NoResults(list)
    /\ \A k \in DOMAIN CallsIn(out[at]) : \E l \in 1..Len(list) :
          list[l] = CallBlock(CallsIn(out[at])[k])

\* What of a conversation over the Responses API is given as its input.
GivenOf(given, n) ==
    /\ n \in Nat /\ DOMAIN given = 1..n
    /\ \A at \in 1..n : at \in DOMAIN items /\ given[at] = items[at] /\ items[at] \in ClientItems
    /\ given = (IF InMessages THEN <<>> ELSE items)

\* The blocks Claude is sent of the items that are no system items.
ClaudeItemLists(given, n) ==
    [at \in 1..n |-> IF ~ClaudeR!IsSystem(given[at])
                     THEN ClaudeR!ToClaude(given[at], at).content ELSE <<>>]

\* The blocks of an item for Codex.
CodexItemLists(given, n) == [at \in 1..n |-> CodexR!Item(given[at], at).content]

-----------------------------------------------------------------------------
(***************************************************************************)
(* What is said and what is heard.                                         *)
(***************************************************************************)
\* The parts of it NothingIsLost speaks of: what the client has said itself, what the
\* translations do not leave out, what the developer and what the others have said.
IsOf(part, x) ==
    \/ part = "clients" /\ ~Invented(x)
    \/ part = "heard" /\ ~Unheard(x)
    \/ part = "system" /\ x.by = "developer"
    \/ part = "others" /\ x.by # "developer"
PartOf(part, s) == Picked(s, {k \in DOMAIN s : IsOf(part, s[k])})
Chosen(part, T) == [x \in T |-> IF IsOf(part, x) THEN <<x>> ELSE <<>>]

\* What a content says, and what is heard of blocks.
Words(content, at, by) ==
    CASE content = "picture" -> <<Saying("text", at, NoId, by), Saying("image", at, NoId, by)>>
      [] content \in Texts \ {"picture"} -> <<Saying("text", at, NoId, by)>>
      [] OTHER -> <<>>
CallSaid(id) == Saying("call", 0, id, "assistant")
Reached(content, role) == [j \in DOMAIN content |-> Reaches(content[j], role)]

\* Texts and pictures of one place, by one speaker.
AllWords(list, at, by) ==
    IsList(list) /\ \A k \in 1..Len(list) :
        list[k].kind \in {"text", "image"} /\ list[k].at = at /\ list[k].by = by

\* What a normalised message says.
OutCalls(o) == [k \in DOMAIN o.calls |-> CallSaid(o.calls[k].id)]
OutSays(o, at) ==
    CASE o.role = "tool" -> <<Result(at)>>
      [] o.role = "assistant" /\ o.calls # <<>> ->
            Words(o.content, at, "assistant") \o OutCalls(o)
      [] OTHER -> Words(o.content, at, Speaker(o.role))
Calling(o) == o.role = "assistant" /\ o.listed

\* A normalised message says what the message says.
SaysTheSame(m, at, o) ==
    /\ MessageSays(m, at) = OutSays(o, at)
    /\ o.content = m.content
    /\ Calling(o) <=> m.role = "assistant" /\ (m.listed \/ m.fcall # Absent)

\* What is heard of the items a message becomes for Codex.
HeardOf(x) == Reached(CodexC!Developer(x).content, CodexC!Developer(x).role)
HeardsOf(out, n) == [x \in UNION {Entries(out, at) : at \in 1..n} |-> HeardOf(x)]
EntryHeards(out, at, h) ==
    /\ h[CodexC!ResultItem(out, out[at], at)] = <<Result(at)>>
    /\ \A k \in DOMAIN out[at].calls :
          h[CodexC!CallItem(out[at].calls[k])] = <<CallSaid(out[at].calls[k].id)>>
    /\ \A role \in {"assistant", out[at].role} :
          h[CodexC!Item(role, CodexC!ContentOf(out[at].content, at))]
            = Words(out[at].content, at, Speaker(role))

\* What an item says.
ItemWords(item, at) ==
    CASE item.type \in ClaudeR!CallTypes -> <<CallSaid(item.id)>>
      [] item.type \in ClaudeR!OutputTypes -> <<Result(at)>>
      [] OTHER -> Words(item.content, at, Speaker(item.role))

\* Messages of which each has a list of blocks.
AllLists(messages) ==
    IsList(messages) /\ \A k \in DOMAIN messages : IsList(messages[k].content)

\* What is heard of the messages at some places, in order.
Placed(f, places, n) ==
    [at \in 1..n |-> IF at \in places THEN Reached(f[at].content, f[at].role) ELSE <<>>]

\* The developer's part, or the others', of what is to be heard of n lists of sayings.
Parted(part, q, n) == [at \in 1..n |-> PartOf(part, PartOf("heard", q[at]))]

\* What one party has said.
AllBy(list, by) == IsList(list) /\ \A k \in 1..Len(list) : list[k].by = by

\* A list of calls, or of results, of one party.
Deeds(list, by) ==
    IsList(list) /\ \A k \in 1..Len(list) :
        list[k].kind \in {"call", "result"} /\ list[k].by = by

\* What Claude is sent of a message that is not the system's, and what it should hear.
Passed(o, at) ==
    LET made == ClaudeC!ToClaude(o, at)
        said == PartOf("heard", OutSays(o, at))
    IN  /\ IsList(made.content)
        /\ PartOf("clients", Reached(made.content, made.role)) = PartOf("others", said)
        /\ PartOf("system", said) = <<>>

\* What the system says in the message at a place.
SystemSaid(at) == Saying("text", at, NoId, "developer")

\* What a system prompt is made of, for Claude, and whose messages have a text.
SystemTexts(out, order) ==
    [k \in DOMAIN order |-> ClaudeC!SystemText(out[order[k]], order[k])]
Speaking(out, places) == {at \in places : out[at].content \in Texts}

\* The system prompt, of the texts at some places.
SystemSaids(n) == [at \in 1..n |-> SystemSaid(at)]

\* What Claude is sent of an item that is not the system's, and what it should hear.
ItemPassed(item, at) ==
    LET made == ClaudeR!ToClaude(item, at)
        said == PartOf("heard", ItemWords(item, at))
    IN  /\ IsList(made.content)
        /\ PartOf("clients", Reached(made.content, made.role)) = PartOf("others", said)
        /\ PartOf("system", said) = <<>>

\* What of the items Claude is sent as messages.
ItemsSent(given, n) ==
    Placed([at \in 1..n |-> ClaudeR!ToClaude(given[at], at)],
           {at \in 1..n : ~ClaudeR!IsSystem(given[at])}, n)

\* What is said of the prompt: of no items nothing; of some, the first system item's text.
FirstSaid(first) ==
    IF ~ClaudeR!Instructed(settings) /\ first # 0 THEN <<SystemSaid(first)>> ELSE <<>>
=============================================================================
