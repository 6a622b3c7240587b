--------------------------- MODULE ClaudeResponses ---------------------------
(***************************************************************************)
(* POST /v1/responses for a Claude model, up to the first attempt          *)
(* upstream: the validators of src/proxy/responses.ts in the order in      *)
(* which createResponsesHandler calls them, and responsesToClaude.         *)
(***************************************************************************)
EXTENDS ResponsesInput, ClaudeBody, SequencesExt

(***************************************************************************)
(* The validators.                                                         *)
(***************************************************************************)
InputGiven(items, s) == items # <<>> \/ s.messages # Absent
Tools(s) == Form(s.tools)
ToolChoice(s) == Form(s.tool_choice)
Reasoning(s) == Form(s.effort) /\ Form(s.summary)
Metadata(s) == Form(s.metadata)
TextFormat(s) == Form(s.verbosity) /\ Form(s.text_format)
UnsupportedMetadata(s) == Supported(s.metadata, {"given"})
UnsupportedTextFormat(s) ==
    /\ Supported(s.verbosity, {"given"})
    /\ Supported(s.text_format, {"json_object", "json_schema"})
UnsupportedReasoning(s) == Supported(s.summary, {"given"})
UnsupportedTool(items, s) ==
    /\ Supported(s.tools, {"image", "custom", "hosted"})
    /\ Supported(s.tool_choice, {"image", "custom", "allowed", "hosted"})
    /\ \A k \in DOMAIN items : items[k].type \notin CustomTypes
Stream(s) == Form(s.stream)
BackgroundIgnored(s) == Form(s.background)   \* Fault: as an option without effect
Background(s) == Supported(s.background, {"true"})
Instructions(s) == Form(s.instructions)
Store(s) == Supported(s.store, {"true"})
StreamOptions(s) ==
    /\ s.stream_options # Absent => s.stream = "true"
    /\ Supported(s.stream_options, {"obfuscation"})
MaxOutputTokens(s) == s.max_output_tokens # 0
Temperature(s) == s.temperature \notin {Malformed, "above_one"}
TopP(s) == Form(s.top_p)
TopLogprobs(s) == Supported(s.top_logprobs, {"given"})
ParallelToolCalls(s) == Supported(s.parallel_tool_calls, {"false"})
MaxToolCalls(s) == Supported(s.max_tool_calls, {"given"})
ServiceTier(s) == Supported(s.service_tier, {"given"})
SafetyIdentifier(s) == Supported(s.safety_identifier, {"given"})
User(s) == Supported(s.user, {"given"})
PromptCache(s) ==
    /\ Supported(s.prompt_cache_key, {"given"})
    /\ Supported(s.prompt_cache_retention, {"given"})
Truncation(s) == Supported(s.truncation, {"auto"})
\* Beside a previous_response_id that is no string a conversation passes: the next
\* validator is left to refuse that.
Conversation(s) ==
    /\ Form(s.conversation)
    /\ s.conversation = "given" => s.previous_response_id = Malformed
PreviousResponseId(s) == Supported(s.previous_response_id, {"given"})
ContextManagement(s) == Supported(s.context_management, {"given"})
Prompt(s) == Supported(s.prompt, {"given"})
Include(s) == Supported(s.include, {"given"})

\* The validators of createResponsesHandler, in its order.
Checks(items, s) ==
    /\ InputGiven(items, s) /\ ItemsValid(items) /\ Tools(s)
    /\ ToolChoice(s) /\ Reasoning(s) /\ Metadata(s) /\ TextFormat(s)
    /\ UnsupportedMetadata(s) /\ UnsupportedTextFormat(s)
    /\ UnsupportedReasoning(s) /\ UnsupportedTool(items, s) /\ Stream(s)
    /\ Background(s) /\ Instructions(s) /\ Store(s) /\ StreamOptions(s)
    /\ MaxOutputTokens(s) /\ Temperature(s) /\ TopP(s) /\ TopLogprobs(s)
    /\ ParallelToolCalls(s) /\ MaxToolCalls(s) /\ ServiceTier(s)
    /\ SafetyIdentifier(s) /\ User(s) /\ PromptCache(s) /\ Truncation(s)
    /\ Conversation(s) /\ PreviousResponseId(s) /\ ContextManagement(s)
    /\ Prompt(s) /\ Include(s)

(***************************************************************************)
(* responsesToClaude.                                                      *)
(***************************************************************************)
Limit(s) == IF s.max_output_tokens = NoLimit THEN 8192 ELSE s.max_output_tokens

ClaudeToolChoice(choice) ==
    CASE choice = "required" -> "any"
      [] choice = "function" -> "tool"
      [] choice = "null" -> Absent
      [] OTHER -> choice

\* The instructions are the system text; without them, or with empty ones, the first
\* system item that has a text is, and the later ones go nowhere.
InstructionsText == Text(-1)
IsSystem(item) == item.type = "message" /\ item.role \in {"system", "developer"}
SystemSpeaks(item) == IsSystem(item) /\ item.content \in Texts
Instructed(s) == s.instructions \notin {Absent, "empty"}
LastSystemItem(items, s) ==   \* Fault: each system item takes the place of the one before
    LET last == SelectLastInSeq(items, SystemSpeaks)
    IN  CASE Instructed(s) -> <<InstructionsText>>
          [] ~Instructed(s) /\ last # 0 -> <<Text(last)>>
          [] OTHER -> <<>>
SystemOf(items, s) ==
    LET first == SelectInSeq(items, SystemSpeaks)
    IN  CASE Instructed(s) -> <<InstructionsText>>
          [] ~Instructed(s) /\ first # 0 -> <<Text(first)>>
          [] OTHER -> <<>>

\* convertResponsesPart makes a block of every part of a message.
ToClaude(item, at) ==
    CASE item.type = "function_call" ->
            [role |-> "assistant", content |-> <<ToolUse(item.id)>>]
      [] item.type = "function_call_output" ->
            [role |-> "user", content |-> <<ToolResult(item.id, at)>>]
      [] OTHER -> [role |-> item.role, content |-> ContentOf(item.content, at)]

MessagesOf(items) ==
    LET places == InOrder({k \in DOMAIN items : ~IsSystem(items[k])}, Len(items))
    IN  [k \in DOMAIN places |-> ToClaude(items[places[k]], places[k])]

ResponsesToClaude(items, s) ==
    [model |-> s.model,
     max_tokens |-> RaisedLimit(s.effort, Limit(s)),
     thinking |-> Enabled(s.effort),
     temperature |-> ForwardedTemperature(s.model, s.temperature),
     top_p |-> s.top_p,
     stop |-> Absent,
     tools |-> ClaudeTools(s.tools),
     tool_choice |-> ClaudeToolChoice(s.tool_choice),
     system |-> SystemOf(items, s),
     messages |-> MessagesOf(items),
     reply |-> [stream |-> s.stream = "true", usage |-> TRUE, legacy |-> FALSE]]

(***************************************************************************)
(* The handler, up to the first attempt.                                   *)
(***************************************************************************)
Answer(sent, s) ==
    LET items == InputOf(sent, s)
    IN  IF Checks(items, s) THEN Sent(ResponsesToClaude(items, s)) ELSE Refused
=============================================================================
