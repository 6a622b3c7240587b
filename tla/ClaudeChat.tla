----------------------------- MODULE ClaudeChat ------------------------------
(***************************************************************************)
(* POST /v1/chat/completions for a Claude model, up to the first attempt   *)
(* upstream: the validators of src/proxy/handler.ts in the order in which  *)
(* createChatCompletionsHandler calls them, and openaiToClaude of          *)
(* src/proxy/translator.ts.  s is the request's parameters.                *)
(***************************************************************************)
EXTENDS ChatFields, ClaudeBody

(***************************************************************************)
(* The validators.                                                         *)
(***************************************************************************)
MaxTokens(s) ==
    /\ 0 \notin {s.max_tokens, s.max_completion_tokens}
    /\ \/ NoLimit \in {s.max_tokens, s.max_completion_tokens}
       \/ s.max_tokens = s.max_completion_tokens
Modalities(s) ==
    Supported(s.modalities, {"audio"}) /\ Supported(s.audio, {"given"})
ParallelToolCalls(s) == Supported(s.parallel_tool_calls, {"false"})
ServiceTier(s) == Supported(s.service_tier, {"given"})
Store(s) == Supported(s.store, {"true"})
StreamOptions(s) ==
    /\ s.stream_options # Absent => s.stream = "true"
    /\ Supported(s.stream_options, {"obfuscation"})
WebSearchOptions(s) == Supported(s.web_search_options, {"given"})
Verbosity(s) == Supported(s.verbosity, {"given"})
PromptCache(s) ==
    /\ Supported(s.prompt_cache_key, {"given"})
    /\ Supported(s.prompt_cache_retention, {"given"})
SafetyIdentifier(s) == Supported(s.safety_identifier, {"given"})
User(s) == Supported(s.user, {"given"})
Metadata(s) == Supported(s.metadata, {"given"})
Temperature(s) == s.temperature \notin {Malformed, "above_one"}
Seed(s) == Supported(s.seed, {"given"})
Penalty(value) == Supported(value, {"given"})
Prediction(s) == Supported(s.prediction, {"given"})
ResponseFormat(s) == Supported(s.response_format, {"json_object", "json_schema"})
Logprobs(s) ==
    /\ Supported(s.logprobs, {"true"})
    /\ Supported(s.top_logprobs, {"given"})
LogitBias(s) == Supported(s.logit_bias, {"given"})
Tools(s) == Supported(s.tools, {"image", "custom"})
Functions(s) == Form(s.functions)
FunctionCall(s) == Form(s.function_call)
ToolChoice(s) == Supported(s.tool_choice, {"image", "allowed", "allowed_image", "custom"})

\* A part of a user's message may be a picture; audio and files are refused as
\* malformed parts are.
ContentValid(m) ==
    /\ m.role \in {"system", "developer", "user", "tool"} =>
          m.content \notin {Absent, "scalar"}
    /\ m.content # Malformed
    /\ m.content = "picture" => m.role = "user"
ToolCallValid(c) == c.kind = "function"
\* One message of the list validateChatMessageRoles goes through.
MessageValid(m) ==
    /\ m.role \in {"system", "developer", "user", "assistant", "tool"}
    /\ m.role = "tool" => m.answers # NoId
    /\ ContentValid(m)
    /\ m.role = "assistant" => \A k \in DOMAIN m.calls : ToolCallValid(m.calls[k])
MessageRoles(messages) == \A i \in DOMAIN messages : MessageValid(messages[i])

\* The validators of createChatCompletionsHandler, in its order.
Checks(s) ==
    /\ Form(s.stream) /\ MaxTokens(s) /\ Form(s.n)
    /\ Form(s.reasoning_effort) /\ Modalities(s) /\ ParallelToolCalls(s)
    /\ ServiceTier(s) /\ Store(s) /\ StreamOptions(s) /\ WebSearchOptions(s)
    /\ Verbosity(s) /\ PromptCache(s) /\ SafetyIdentifier(s) /\ User(s)
    /\ Metadata(s) /\ Temperature(s) /\ Form(s.top_p) /\ Seed(s)
    /\ Penalty(s.presence_penalty) /\ Penalty(s.frequency_penalty)
    /\ Prediction(s) /\ ResponseFormat(s) /\ Logprobs(s) /\ LogitBias(s)
    /\ Form(s.stop) /\ Tools(s) /\ Functions(s) /\ FunctionCall(s)
    /\ ToolChoice(s)

(***************************************************************************)
(* openaiToClaude.                                                         *)
(***************************************************************************)
Limit(s) ==
    CASE s.max_completion_tokens # NoLimit -> s.max_completion_tokens
      [] s.max_completion_tokens = NoLimit /\ s.max_tokens # NoLimit -> s.max_tokens
      [] OTHER -> 8192

\* applyThinking, which also raises the limit above the budget.
Thinking(effort) ==
    IF effort = "none" THEN [type |-> "disabled", budget |-> 0] ELSE Enabled(effort)

\* convertToolChoice, and disableThinkingIfToolChoiceForced after it.
ClaudeToolChoice(choice) ==
    CASE choice = "required" -> "any"
      [] choice = "function" -> "tool"
      [] choice = "null" -> Absent
      [] OTHER -> choice
ForcesTool(toolChoice) == toolChoice \in {"any", "tool"}

ToolUses(calls) == [k \in DOMAIN calls |-> ToolUse(calls[k].id)]

\* The text beside tool calls is sent where it is a string; an array, of whatever
\* parts, becomes an empty text.  [] counts as tool calls here.
TextBeside(m, at) ==
    CASE m.content \in {"string", "draw"} -> <<Text(at)>>
      [] m.content \in Lists -> <<NoText>>
      [] OTHER -> <<>>

IsSystem(m) == m.role \in {"system", "developer"}

TextForgotten(m, at) ==   \* Fault: a call's message loses the text beside it
    CASE m.role = "tool" -> [role |-> "user", content |-> <<ToolResult(m.answers, at)>>]
      [] m.role = "assistant" /\ m.listed ->
            [role |-> "assistant", content |-> ToolUses(m.calls)]
      [] OTHER -> [role |-> IF m.role = "user" THEN "user" ELSE "assistant",
                   content |-> ContentOf(m.content, at)]

\* A message that is not a system message.
ToClaude(m, at) ==
    CASE m.role = "tool" -> [role |-> "user", content |-> <<ToolResult(m.answers, at)>>]
      [] m.role = "assistant" /\ m.listed ->
            [role |-> "assistant", content |-> TextBeside(m, at) \o ToolUses(m.calls)]
      [] OTHER -> [role |-> IF m.role = "user" THEN "user" ELSE "assistant",
                   content |-> ContentOf(m.content, at)]

SystemPlaces(messages) == {i \in DOMAIN messages : IsSystem(messages[i])}
SystemText(m, at) == IF m.content \in Texts THEN Text(at) ELSE NoText
SystemOf(messages) ==
    LET places == InOrder(SystemPlaces(messages), Len(messages))
    IN  [k \in DOMAIN places |-> SystemText(messages[places[k]], places[k])]
MessagesOf(messages) ==
    LET places == InOrder(DOMAIN messages \ SystemPlaces(messages), Len(messages))
    IN  [k \in DOMAIN places |-> ToClaude(messages[places[k]], places[k])]

OpenaiToClaude(messages, s) ==
    LET toolChoice == ClaudeToolChoice(s.tool_choice)
    IN  [model |-> s.model,
         max_tokens |-> RaisedLimit(s.reasoning_effort, Limit(s)),
         thinking |-> IF ForcesTool(toolChoice) THEN NoThinking
                      ELSE Thinking(s.reasoning_effort),
         temperature |-> ForwardedTemperature(s.model, s.temperature),
         top_p |-> s.top_p,
         stop |-> IF s.stop = "null" THEN Absent ELSE s.stop,
         tools |-> ClaudeTools(s.tools),
         tool_choice |-> toolChoice,
         system |-> SystemOf(messages),
         messages |-> MessagesOf(messages),
         reply |-> [stream |-> s.stream = "true", usage |-> s.stream_options = "usage",
                    legacy |-> FALSE]]

(***************************************************************************)
(* The handler, up to the first attempt, of a conversation that            *)
(* normalizeLegacyChatFunctionMessages has normalised.                     *)
(***************************************************************************)
Answer(normal, s) ==
    LET body == OpenaiToClaude(normal.out, LegacyFields(s))
    IN  IF normal.out # <<>> /\ ~normal.error /\ MessageRoles(normal.out) /\ Checks(s)
        THEN Sent([body EXCEPT !.reply.legacy = LegacyReply(s)])
        ELSE Refused
=============================================================================
