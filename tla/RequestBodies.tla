---------------------------- MODULE RequestBodies ----------------------------
(***************************************************************************)
(* A client's conversation with the proxy through one of its two OpenAI    *)
(* APIs.  With each turn the client sends the whole conversation again,    *)
(* and the same parameters; the proxy keeps nothing of it.  The request is *)
(* shown as the handlers for both kinds of models answer it: the client    *)
(* picks the model, and may pick another one with its next turn.           *)
(***************************************************************************)
EXTENDS ChatHistory, FiniteSets

CONSTANTS
    Messages,       \* the messages of a Chat Completions conversation
    Items,          \* the items of a Responses conversation
    Limits,         \* the token limits a client may ask for
    MaxTurns,       \* bound: MaxTurns[n+1] turns where n parameters are given
    DefaultStore    \* codex.store of the configuration

ASSUME TurnsAssumption == MaxTurns \in Seq(Nat)
ASSUME LimitsAssumption == Limits \subseteq Nat
ASSUME StoreAssumption == DefaultStore \in {"true", "false"}

\* The messages and items the model tells apart, well-formed or not: an id is the
\* client's, and a call without one is malformed.
ClientIds == {0} \X STRING
ClientCalls == {c \in [id : ClientIds, kind : CallKinds, name : STRING] :
                  c.kind # Malformed => c.id # NoId}
ClientMessages ==
    {m \in [role : STRING, content : Contents, calls : Seq(ClientCalls), listed : BOOLEAN,
            fcall : STRING, name : STRING, answers : ClientIds] :
        m.calls # <<>> => m.listed}
ASSUME MessagesAssumption == Messages \subseteq ClientMessages

ClaudeC == INSTANCE ClaudeChat
CodexC == INSTANCE CodexChat
ClaudeR == INSTANCE ClaudeResponses
CodexR == INSTANCE CodexResponses

ClientItems ==
    {i \in [type : {"message"} \cup ClaudeR!CallTypes \cup ClaudeR!OutputTypes,
            role : STRING, content : Contents, id : ClientIds] :
        i.type # "message" => i.role = Absent}
ASSUME ItemsAssumption == Items \subseteq ClientItems

VARIABLES
    api,        \* "chat" (/v1/chat/completions) or "responses" (/v1/responses)
    settings,   \* the request's parameters
    items,      \* the conversation, as the client sends it
    answers     \* what the handlers of either kind make of it

vars == <<api, settings, items, answers>>

(***************************************************************************)
(* The well-formed values of each parameter the code tells apart.          *)
(***************************************************************************)
Given == {Malformed, "given"}
Booleans == {Malformed, "true", "false"}

CommonShapes ==
    [model |-> {"without_temperature"}, stream |-> Booleans, store |-> Booleans,
     parallel_tool_calls |-> Booleans, temperature |-> {Malformed, "up_to_one", "above_one"},
     top_p |-> Given, top_logprobs |-> Given, service_tier |-> Given, verbosity |-> Given,
     prompt_cache_key |-> Given, prompt_cache_retention |-> Given,
     safety_identifier |-> Given, user |-> Given, metadata |-> Given]

Joined(own, common) ==
    [p \in DOMAIN own \cup DOMAIN common |->
        IF p \in DOMAIN own THEN own[p] ELSE common[p]]

ChatShapes == Joined(
    [max_tokens |-> Limits, max_completion_tokens |-> Limits, n |-> {Malformed, "one"},
     stream_options |-> {Malformed, "usage", "obfuscation"},
     reasoning_effort |-> {Malformed} \cup Efforts,
     modalities |-> {Malformed, "text", "image", "audio"}, audio |-> Given,
     web_search_options |-> Given, seed |-> Given, prediction |-> Given,
     presence_penalty |-> {Malformed, "zero", "given"},
     frequency_penalty |-> {Malformed, "zero", "given"},
     response_format |-> {Malformed, "text", "json_object", "json_schema"},
     logprobs |-> Booleans, logit_bias |-> {Malformed, "empty", "given"},
     stop |-> {Malformed, "null", "given"},
     tools |-> {Malformed, "functions", "strict", "image", "custom"},
     functions |-> {Malformed, "functions"},
     function_call |-> {Malformed, "null", "auto", "none", "named"},
     tool_choice |-> {Malformed, "null", "auto", "none", "required", "function", "image",
                      "allowed", "allowed_image", "custom"}], CommonShapes)

ResponsesShapes == Joined(
    [max_output_tokens |-> Limits, messages |-> {"given"}, background |-> Booleans,
     instructions |-> {Malformed, "empty", "given"}, stream_options |-> {Malformed, "empty", "obfuscation"},
     effort |-> {Malformed} \cup Efforts, summary |-> Given,
     text_format |-> {Malformed, "text", "json_object", "json_schema"},
     max_tool_calls |-> Given, context_management |-> Given, prompt |-> Given,
     truncation |-> {Malformed, "auto", "disabled"}, previous_response_id |-> Given,
     conversation |-> Given, include |-> {Malformed, "empty", "given"},
     tools |-> {Malformed, "functions", "strict", "image", "custom", "hosted"},
     tool_choice |-> {Malformed, "null", "auto", "none", "required", "function", "image",
                      "allowed", "custom", "hosted"}], CommonShapes)

ShapesOf(a) == IF a = "chat" THEN ChatShapes ELSE ResponsesShapes
LimitParameters == {"max_tokens", "max_completion_tokens", "max_output_tokens"}
Unset(p) ==
    IF p \in LimitParameters THEN NoLimit ELSE Absent
Defaults(a) == [p \in DOMAIN ShapesOf(a) |-> Unset(p)]
Set(s) == {p \in DOMAIN s : s[p] # Unset(p)}

(***************************************************************************)
(* The conversation.                                                       *)
(***************************************************************************)
\* Both handlers normalise the messages with the same function, each with its copy.
ChatAnswers(messages, s) ==
    LET normal == Normalized(messages)
    IN  [claude |-> ClaudeC!Answer(normal, s), codex |-> CodexC!Answer(normal, s)]
ResponsesAnswers(input, s) ==
    [claude |-> ClaudeR!Answer(input, s), codex |-> CodexR!Answer(input, s)]
Answers(a, conversation, s) ==
    IF a = "chat" THEN ChatAnswers(conversation, s) ELSE ResponsesAnswers(conversation, s)

\* A first request without messages, or without input.
Init ==
    /\ api \in {"chat", "responses"}
    /\ settings = Defaults(api)
    /\ items = <<>>
    /\ answers = Answers(api, items, settings)

\* The client gives one more parameter before it speaks.
SetParameter ==
    /\ items = <<>>
    /\ Cardinality(Set(settings)) + 1 < Len(MaxTurns)
    /\ \E p \in DOMAIN settings \ Set(settings) : \E value \in ShapesOf(api)[p] :
          settings' = [settings EXCEPT ![p] = value]
    /\ answers' = Answers(api, items, settings')
    /\ UNCHANGED <<api, items>>

RoomLeft == Len(items) < MaxTurns[Cardinality(Set(settings)) + 1]

\* One more turn: the handlers of handler.ts and codex-chat.ts.
ChatCompletion ==
    /\ api = "chat"
    /\ RoomLeft
    /\ \E m \in Messages : items' = Append(items, m)
    /\ answers' = ChatAnswers(items', settings)
    /\ UNCHANGED <<api, settings>>

\* One more turn: the handlers of responses.ts and codex-responses.ts.
Response ==
    /\ api = "responses"
    /\ RoomLeft
    /\ \E item \in Items : items' = Append(items, item)
    /\ answers' = ResponsesAnswers(items', settings)
    /\ UNCHANGED <<api, settings>>

Next == SetParameter \/ ChatCompletion \/ Response

Spec == Init /\ [][Next]_vars

-----------------------------------------------------------------------------
(***************************************************************************)
(* What is said.  A saying is a text, a picture, a call or a result, in    *)
(* its place and by its speaker, in whichever form it travels.             *)
(***************************************************************************)
Saying(kind, at, id, by) == [kind |-> kind, at |-> at, id |-> id, by |-> by]
Speaker(role) ==
    CASE role \in {"system", "developer"} -> "developer"
      [] role = "assistant" -> "assistant"
      [] OTHER -> "user"
Written(content, at, role) ==
    LET blocks == ContentOf(content, at)
    IN  [k \in DOMAIN blocks |-> Saying(blocks[k].type, at, NoId, Speaker(role))]
Calls(ids) == [k \in DOMAIN ids |-> Saying("call", 0, ids[k], "assistant")]
Result(at) == Saying("result", at, NoId, "user")

\* The ids of a message's calls: an older function_call has none of its own, and
\* does not count beside tool_calls.
CallIds(m, at) ==
    CASE m.listed -> [k \in DOMAIN m.calls |-> m.calls[k].id]
      [] ~m.listed /\ m.fcall # Absent -> <<Id(at, m.fcall)>>
      [] OTHER -> <<>>
MessageSays(m, at) ==
    CASE m.role \in {"tool", "function"} -> <<Result(at)>>
      [] m.role = "assistant" -> Written(m.content, at, m.role) \o Calls(CallIds(m, at))
      [] OTHER -> Written(m.content, at, m.role)
ItemSays(item, at) ==
    CASE item.type \in {"function_call", "custom_tool_call"} -> Calls(<<item.id>>)
      [] item.type \in {"function_call_output", "custom_tool_call_output"} -> <<Result(at)>>
      [] OTHER -> Written(item.content, at, item.role)
Said ==
    FlattenSeq([at \in DOMAIN items |-> IF api = "chat" THEN MessageSays(items[at], at)
                                        ELSE ItemSays(items[at], at)])

KindOf(block) ==
    CASE block.type \in {"text", "image"} -> block.type
      [] block.type \in {"tool_use", "function_call", "custom_tool_call"} -> "call"
      [] OTHER -> "result"
Reaches(block, role) ==
    CASE KindOf(block) = "call" -> Saying("call", 0, block.id, "assistant")
      [] KindOf(block) = "result" -> Result(block.at)
      [] OTHER -> Saying(block.type, block.at, NoId, Speaker(role))
\* What is sent of a list of [role, content].
Heard(messages) ==
    FlattenSeq([k \in DOMAIN messages |->
                  [j \in DOMAIN messages[k].content |->
                      Reaches(messages[k].content[j], messages[k].role)]])
Blocks(messages) ==
    FlattenSeq([k \in DOMAIN messages |-> messages[k].content])

ClaudeBody == BodyOf(answers.claude)
CodexBody == BodyOf(answers.codex)
HeardByClaude ==
    Heard(<<[role |-> "system", content |-> ClaudeBody.system]>> \o ClaudeBody.messages)

(***************************************************************************)
(* What the translations leave out, known from the code:                   *)
(*   - an assistant's array of parts beside tool calls, even where those   *)
(*     are the empty list (translator.ts);                                 *)
(*   - a function_call beside tool_calls, the empty list again included    *)
(*     (normalizeLegacyChatFunctionMessages);                              *)
(*   - system items after the first that says anything, or beside          *)
(*     instructions, and pictures in them (responsesToClaude);             *)
(*   - a conversation given as "messages" (responsesToClaude).             *)
(***************************************************************************)
BesideCalls(at) ==
    /\ api = "chat" /\ items[at].role = "assistant"
    /\ items[at].listed \/ items[at].fcall # Absent
    /\ items[at].content \in Lists
FirstSystemItem == SelectInSeq(items, ClaudeR!SystemSpeaks)
UnheardSystem(saying) ==
    /\ api = "responses" /\ saying.by = "developer"
    /\ \/ ClaudeR!Instructed(settings)
       \/ saying.at # FirstSystemItem
       \/ saying.kind = "image"
InMessages == api = "responses" /\ settings.messages # Absent
Unheard(saying) ==
    \/ saying.kind \in {"text", "image"} /\ BesideCalls(saying.at)
    \/ UnheardSystem(saying)
    \/ InMessages

\* Those of the sayings that are in some places, in order.
Picked(sayings, places) ==
    LET order == InOrder(places, Len(sayings))
    IN  [k \in DOMAIN order |-> sayings[order[k]]]

\* The system prompt comes first, in Claude's form.
SystemFirst(sayings) ==
    LET system == {k \in DOMAIN sayings : sayings[k].by = "developer"}
    IN  Picked(sayings, system) \o Picked(sayings, DOMAIN sayings \ system)
Invented(saying) == saying.at \in {NoText.at, ClaudeR!InstructionsText.at}
                      /\ saying.kind = "text"
TheClients(sayings) == Picked(sayings, {k \in DOMAIN sayings : ~Invented(sayings[k])})
ToBeHeard(sayings) == Picked(sayings, {k \in DOMAIN sayings : ~Unheard(sayings[k])})

(***************************************************************************)
(* Everything the client said reaches upstream, in the order in which it   *)
(* was said and as said by the same party: texts, pictures, calls and      *)
(* results, of both APIs and for both kinds of models, but for what is     *)
(* listed above.  About openaiToClaude, responsesToClaude,                 *)
(* convertMessagesToInput and normalizeCodexRequestBody.                   *)
(***************************************************************************)
NothingIsLost ==
    /\ Accepted(answers.claude) =>
          TheClients(HeardByClaude) = SystemFirst(ToBeHeard(Said))
    /\ Accepted(answers.codex) =>
          Heard(CodexBody.input) = (IF InMessages THEN <<>> ELSE Said)

-----------------------------------------------------------------------------
(***************************************************************************)
(* Calls and results.  A client keeps the protocol when every call has an  *)
(* id of its own, a result answers an earlier call no other one answers,   *)
(* and a message of role "function" is not mixed with tool_calls.          *)
(***************************************************************************)
AnswerTo(call) ==
    CASE call = "tool_use" -> "tool_result"
      [] call = "function_call" -> "function_call_output"
      [] call = "custom_tool_call" -> "custom_tool_call_output"
      [] OTHER -> Absent
\* An item of the Responses API tells the kind of call it answers.
CallFor(at, result) ==
    IF api = "chat"
    THEN items[at].role = "assistant"
            /\ \E k \in DOMAIN items[at].calls : items[at].calls[k].id = items[result].answers
    ELSE items[at].id = items[result].id /\ AnswerTo(items[at].type) = items[result].type
Answered(at) ==
    CASE api = "chat" /\ items[at].role = "tool" -> items[at].answers
      [] api = "responses" /\ items[at].type \in ClaudeR!OutputTypes -> items[at].id
      [] OTHER -> NoId
OlderCalls(name, upTo) ==
    Cardinality({k \in 1..upTo : items[k].role = "assistant" /\ items[k].fcall = name})
OlderResults(name, upTo) ==
    Cardinality({k \in 1..upTo : items[k].role = "function" /\ items[k].name = name})
OlderFormKept ==
    /\ \A at \in DOMAIN items : items[at].role = "function" =>
          OlderResults(items[at].name, at) <= OlderCalls(items[at].name, at)
    /\ (\E at \in DOMAIN items : items[at].role = "function") =>
          \A at \in DOMAIN items : items[at].calls = <<>>
UniqueCalls ==
    \A i, j \in DOMAIN items :
        IF api = "chat"
        THEN \A k \in DOMAIN items[i].calls, l \in DOMAIN items[j].calls :
                items[i].calls[k].id = items[j].calls[l].id => i = j /\ k = l
        ELSE {items[i].type, items[j].type} \subseteq ClaudeR!CallTypes
                /\ items[i].id = items[j].id => i = j
ProtocolKept ==
    /\ UniqueCalls
    /\ \A at \in DOMAIN items : Answered(at) # NoId =>
          /\ \E k \in 1..(at - 1) : CallFor(k, at)
          /\ \A k \in DOMAIN items : Answered(k) = Answered(at) => k = at
    /\ api = "chat" => OlderFormKept

\* A result of the older form is the answer to a call of its function.
FitsName(result) ==
    api = "chat" /\ items[result.at].role = "function" =>
        result.id[2] = items[result.at].name
Paired(blocks) ==
    \A k \in DOMAIN blocks : KindOf(blocks[k]) = "result" =>
        /\ FitsName(blocks[k])
        /\ \E j \in 1..(k - 1) :
              blocks[j].id = blocks[k].id /\ AnswerTo(blocks[j].type) = blocks[k].type
        /\ \A j \in DOMAIN blocks :
              KindOf(blocks[j]) = "result" /\ blocks[j].id = blocks[k].id => j = k

(***************************************************************************)
(* Where the client keeps the protocol, upstream sees it kept: every       *)
(* result sent answers an earlier call of its kind, and no other result    *)
(* answers that call.  For the older form, whose results name a function   *)
(* and no call, this is the work of                                        *)
(* normalizeLegacyChatFunctionMessages; for custom tools of                *)
(* collectChatToolCallTypes.                                               *)
(***************************************************************************)
ResultsAnswerCalls ==
    ProtocolKept =>
        /\ Accepted(answers.claude) => Paired(Blocks(ClaudeBody.messages))
        /\ Accepted(answers.codex) => Paired(Blocks(CodexBody.input))

(***************************************************************************)
(* Turns.                                                                  *)
(***************************************************************************)
Draws(item) == item.content = "draw"
SameButForPictures(body, later) ==
    later = [body EXCEPT !.input = later.input,
                         !.image_generation = later.image_generation,
                         !.tool_choice = later.tool_choice]
ClaudeTurnExtends ==
    Accepted(answers.claude) /\ Accepted(answers'.claude) =>
        LET body == BodyOf(answers.claude)
            later == BodyOf(answers'.claude)
        IN  /\ IsPrefix(body.system, later.system)
            /\ IsPrefix(body.messages, later.messages)
            /\ later = [body EXCEPT !.system = later.system, !.messages = later.messages]
CodexTurnExtends ==
    Accepted(answers.codex) /\ Accepted(answers'.codex) =>
        LET body == BodyOf(answers.codex)
            later == BodyOf(answers'.codex)
        IN  /\ IsPrefix(body.input, later.input)
            /\ IF api = "chat" /\ Draws(Last(items'))
               THEN SameButForPictures(body, later)
               ELSE later = [body EXCEPT !.input = later.input]

(***************************************************************************)
(* With another turn, what was sent of the earlier ones is sent again as   *)
(* it was, and nothing else of the body changes: upstream answers the      *)
(* conversation it answered before, and finds it in its prompt cache.  The *)
(* ids given to older calls, the pairing of their results, the system      *)
(* prompt and the kind of a custom tool's result depend on the whole       *)
(* conversation and must not move.  A turn that asks for a drawing adds    *)
(* the image tool for Codex (shouldEnableImageGeneration).                 *)
(***************************************************************************)
EarlierTurnsAreKept ==
    [][items' # items /\ items # <<>> /\ ProtocolKept' =>
          ClaudeTurnExtends /\ CodexTurnExtends]_vars

(***************************************************************************)
(* A thinking budget is below the limit it counts against ("budget must be *)
(* < max_tokens", translator.ts:41), whichever limit and effort are asked  *)
(* for and whichever of the two tables and comparisons is used: a limit    *)
(* that leaves the thinking no room is raised.                             *)
(***************************************************************************)
ThinkingFits ==
    Accepted(answers.claude) /\ ClaudeBody.thinking.type = "enabled" =>
        ClaudeBody.thinking.budget < ClaudeBody.max_tokens

(***************************************************************************)
(* Parameters.                                                             *)
(***************************************************************************)
Without(p) == Answers(api, items, [settings EXCEPT ![p] = Unset(p)])

\* Values by which a client asks for what it gets anyway.
Neutral ==
    [stream |-> "false", parallel_tool_calls |-> "true", n |-> "one",
     modalities |-> "text", presence_penalty |-> "zero", frequency_penalty |-> "zero",
     response_format |-> "text", text_format |-> "text", logprobs |-> "false",
     logit_bias |-> "empty", stop |-> "null", function_call |-> "null",
     tool_choice |-> "null", background |-> "false", effort |-> "none",
     instructions |-> "empty", truncation |-> "disabled", include |-> "empty", stream_options |-> "empty",
     model |-> "without_temperature"]
IsNeutral(p) == p \in DOMAIN Neutral /\ settings[p] = Neutral[p]

\* Of two parameters for one thing the newer one counts.
Twins == {{"max_tokens", "max_completion_tokens"}, {"functions", "tools"},
          {"function_call", "tool_choice"}}
HasTwin(p) == \E pair \in Twins : p \in pair /\ pair \subseteq Set(settings)

\* A token limit Claude is not sent: the translations raise it above the budget, or
\* have that default (8192) without it.
BudgetAsked ==
    IF api = "chat" THEN ClaudeC!Budget(settings.reasoning_effort)
    ELSE ClaudeR!Budget(settings.effort)
LimitAside(limit) ==
    \/ limit = 8192
    \/ BudgetAsked > 0 /\ ClaudeBody.max_tokens = BudgetAsked + 4096

\* What the translation for Claude puts aside: a temperature for models that have
\* none, a limit that leaves the thinking no room, an effort where a tool is forced,
\* the wish for a picture, a refusal to store, and a conversation in "messages".
AsideForClaude(p) ==
    CASE p = "temperature" -> settings.model = "without_temperature"
      [] p \in LimitParameters -> LimitAside(settings[p])
      [] p = "reasoning_effort" -> ClaudeC!ForcesTool(ClaudeBody.tool_choice)
      [] p = "modalities" -> settings[p] = "image"
      [] OTHER -> p \in {"messages", "store"}

\* The wish for a picture may come from several sides, and store may ask for what is
\* configured.
AsideForCodex(p) ==
    \/ p = "store" /\ settings[p] = DefaultStore
    \/ /\ api = "chat" /\ p \in {"modalities", "tool_choice"} /\ settings[p] = "image"
       /\ Accepted(Without(p).codex) /\ BodyOf(Without(p).codex).image_generation

(***************************************************************************)
(* No parameter is ignored in silence: without a parameter the client      *)
(* gives, its request would be refused or another body would be sent, for  *)
(* Claude and for Codex, but for the values and cases above.  A validator  *)
(* lets pass only what the translation behind it makes use of.             *)
(***************************************************************************)
SettingsTakeEffect ==
    \A p \in {q \in Set(settings) : ~IsNeutral(q) /\ ~HasTwin(q)} :
        /\ Accepted(answers.claude) /\ Accepted(Without(p).claude) /\ ~AsideForClaude(p) =>
              BodyOf(Without(p).claude) # ClaudeBody
        /\ Accepted(answers.codex) /\ Accepted(Without(p).codex) /\ ~AsideForCodex(p) =>
              BodyOf(Without(p).codex) # CodexBody

(***************************************************************************)
(* A request that is fit for Claude is fit for Codex: what a client may    *)
(* say to the one it may say to the other, although each API is validated  *)
(* by two copies of the same functions, in two files, of which the copy    *)
(* for Claude refuses what Claude does not support.                        *)
(***************************************************************************)
ClaudeAcceptsLess == Accepted(answers.claude) => Accepted(answers.codex)
=============================================================================
