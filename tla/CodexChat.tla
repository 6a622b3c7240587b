------------------------------ MODULE CodexChat ------------------------------
(***************************************************************************)
(* POST /v1/chat/completions for a Codex model, up to the first attempt    *)
(* upstream: the validators of src/providers/codex-chat.ts in the order in *)
(* which createCodexChatCompletionsHandler calls them, and                 *)
(* canonicalizeChatRequest, which makes a request of the Responses API of  *)
(* them.  The validators are that file's own copies of those in            *)
(* src/proxy/handler.ts: they look for the same malformed values and, for  *)
(* the most part, have nothing to refuse of the well-formed ones.          *)
(***************************************************************************)
EXTENDS ChatFields, SequencesExt

CONSTANT DefaultStore   \* codex.store of the configuration

(***************************************************************************)
(* The older form of parameters: that file's copies.                       *)
(***************************************************************************)
CodexLegacyFields(s) == LegacyFields(s)
CodexLegacyReply(s) == LegacyReply(s)

(***************************************************************************)
(* The validators.                                                         *)
(***************************************************************************)
Stream(s) == Form(s.stream)
MaxTokens(s) ==
    /\ 0 \notin {s.max_tokens, s.max_completion_tokens}
    /\ \/ NoLimit \in {s.max_tokens, s.max_completion_tokens}
       \/ s.max_tokens = s.max_completion_tokens
N(s) == Form(s.n)
ReasoningEffort(s) == Form(s.reasoning_effort)
Modalities(s) ==
    Supported(s.modalities, {"audio"}) /\ Supported(s.audio, {"given"})
ParallelToolCalls(s) == Form(s.parallel_tool_calls)
ServiceTier(s) == Form(s.service_tier)
Store(s) == Form(s.store)
StreamOptions(s) ==
    s.stream_options # Absent => s.stream_options # Malformed /\ s.stream = "true"
WebSearchOptions(s) == Supported(s.web_search_options, {"given"})
Verbosity(s) == Form(s.verbosity)
PromptCache(s) == Form(s.prompt_cache_key) /\ Form(s.prompt_cache_retention)
SafetyIdentifier(s) == Form(s.safety_identifier)
User(s) == Form(s.user)
Metadata(s) == Form(s.metadata)
NumberRange(value) == Form(value)     \* a temperature may be above one here
Seed(s) == Supported(s.seed, {"given"})
Penalty(value) == Supported(value, {"given"})
Prediction(s) == Supported(s.prediction, {"given"})
ResponseFormat(s) == Form(s.response_format)
Logprobs(s) ==
    /\ Supported(s.logprobs, {"true"})
    /\ Supported(s.top_logprobs, {"given"})
LogitBias(s) == Supported(s.logit_bias, {"given"})
Stop(s) == Form(s.stop)
Tools(s) == Form(s.tools)
Functions(s) == Form(s.functions)
FunctionCall(s) == Form(s.function_call)
ToolChoice(s) == Form(s.tool_choice)

PartsValid(m) == m.content # Malformed /\ (m.content = "picture" => m.role = "user")
MessageValid(m) ==
    /\ m.role \in {"system", "developer", "user", "assistant", "tool"}
    /\ m.role # "assistant" => m.content \notin {Absent, "scalar"}
    /\ m.role = "tool" => m.answers # NoId
    /\ PartsValid(m)
    /\ m.role = "assistant" => \A k \in DOMAIN m.calls : m.calls[k].kind # Malformed
MessageRoles(messages) == \A i \in DOMAIN messages : MessageValid(messages[i])

Checks(s) ==
    /\ Stream(s) /\ MaxTokens(s) /\ N(s) /\ ReasoningEffort(s) /\ Modalities(s)
    /\ ParallelToolCalls(s) /\ ServiceTier(s) /\ Store(s) /\ StreamOptions(s)
    /\ WebSearchOptions(s) /\ Verbosity(s) /\ PromptCache(s)
    /\ SafetyIdentifier(s) /\ User(s) /\ Metadata(s) /\ NumberRange(s.temperature)
    /\ NumberRange(s.top_p) /\ Seed(s) /\ Penalty(s.presence_penalty)
    /\ Penalty(s.frequency_penalty) /\ Prediction(s) /\ ResponseFormat(s)
    /\ Logprobs(s) /\ LogitBias(s) /\ Stop(s) /\ Tools(s) /\ Functions(s)
    /\ FunctionCall(s) /\ ToolChoice(s)

(***************************************************************************)
(* convertMessagesToInput.  An item is [role, content]; a call or a result *)
(* is an item without a role.                                              *)
(***************************************************************************)
Item(role, content) == [role |-> role, content |-> content]

\* collectChatToolCallTypes: the kind of the last call with that id, anywhere in
\* the conversation.
CallsOf(messages) ==
    FlattenSeq([i \in DOMAIN messages |->
                  IF messages[i].role = "assistant" THEN messages[i].calls ELSE <<>>])
AnswersCustomCall(messages, id) ==
    LET calls == CallsOf(messages)
    IN  \E i \in DOMAIN calls :
            /\ calls[i].id = id /\ calls[i].kind = "custom"
            /\ \A j \in (i + 1)..Len(calls) : calls[j].id # id

CallItem(c) ==
    Item(Absent, <<Block(IF c.kind = "custom" THEN "custom_tool_call" ELSE "function_call",
                         0, c.id)>>)
ResultItem(messages, m, at) ==
    Item(Absent, <<Block(IF AnswersCustomCall(messages, m.answers)
                         THEN "custom_tool_call_output" ELSE "function_call_output",
                         at, m.answers)>>)
\* The text beside calls, if there is any.
TextItem(m, at) ==
    IF m.content \in {Absent, "empty"} THEN <<>> ELSE <<Item("assistant", ContentOf(m.content, at))>>

ToItems(messages, at) ==
    LET m == messages[at]
    IN  CASE m.role = "tool" -> <<ResultItem(messages, m, at)>>
          [] m.role = "assistant" /\ m.calls # <<>> ->
                TextItem(m, at) \o [k \in DOMAIN m.calls |-> CallItem(m.calls[k])]
          [] OTHER -> <<Item(m.role, ContentOf(m.content, at))>>

MessagesToInput(messages) ==
    FlattenSeq([at \in DOMAIN messages |-> ToItems(messages, at)])

(***************************************************************************)
(* canonicalizeChatRequest, with normalizeCodexRequestBody at its end.     *)
(***************************************************************************)
\* shouldEnableImageGeneration: a wish for a picture in any message counts, unless
\* a response_format is given.
WantsPicture(messages, s) ==
    \/ s.tools = "image"
    \/ s.tool_choice \in {"image", "allowed_image"}
    \/ s.modalities = "image"
    \/ /\ s.response_format = Absent
       /\ \E i \in DOMAIN messages : messages[i].content = "draw"

\* convertChatToolChoiceToResponses
CodexToolChoice(s) == IF s.tool_choice = "null" THEN Absent ELSE s.tool_choice

\* normalizeRole and normalizeInputItem
Developer(item) == IF item.role = "system" THEN [item EXCEPT !.role = "developer"] ELSE item

\* normalizeCodexRequestBody
StoreOf(s) == IF s.store = Absent THEN DefaultStore ELSE s.store

WithoutVerbosity ==   \* Fault: a parameter that is validated and left out
    {"temperature", "top_p", "parallel_tool_calls", "response_format",
     "service_tier", "prompt_cache_key", "prompt_cache_retention",
     "safety_identifier", "user", "metadata", "reasoning_effort", "tools"}

\* What goes upstream as it came.
Forwarded ==
    {"temperature", "top_p", "parallel_tool_calls", "response_format", "verbosity",
     "service_tier", "prompt_cache_key", "prompt_cache_retention",
     "safety_identifier", "user", "metadata", "reasoning_effort", "tools"}

Canonical(messages, s) ==
    LET input == MessagesToInput(messages)
        picture == WantsPicture(messages, s)
    IN  [forwarded |-> [p \in Forwarded |-> s[p]],
         max_output_tokens |-> IF s.max_completion_tokens # NoLimit
                               THEN s.max_completion_tokens ELSE s.max_tokens,
         stop |-> IF s.stop = "null" THEN Absent ELSE s.stop,
         obfuscation |-> s.stream_options = "obfuscation",
         store |-> StoreOf(s),
         image_generation |-> picture,
         tool_choice |-> IF picture /\ CodexToolChoice(s) = Absent
                         THEN "image" ELSE CodexToolChoice(s),
         input |-> [k \in DOMAIN input |-> Developer(input[k])],
         reply |-> [stream |-> s.stream = "true", usage |-> s.stream_options = "usage",
                    legacy |-> FALSE]]

(***************************************************************************)
(* The handler, up to the first attempt, of a conversation that            *)
(* normalizeLegacyChatFunctionMessages has normalised.                     *)
(***************************************************************************)
Answer(normal, s) ==
    LET body == Canonical(normal.out, CodexLegacyFields(s))
    IN  IF normal.out # <<>> /\ ~normal.error /\ MessageRoles(normal.out) /\ Checks(s)
        THEN Sent([body EXCEPT !.reply.legacy = CodexLegacyReply(s)])
        ELSE Refused
=============================================================================
