--------------------------- MODULE CodexResponses ----------------------------
(***************************************************************************)
(* POST /v1/responses for a Codex model, up to the first attempt upstream: *)
(* the validators of src/providers/codex-responses.ts in the order in      *)
(* which createCodexResponsesHandler calls them.  The body goes upstream   *)
(* as it came, but for what normalizeCodexRequestBody makes of it.         *)
(***************************************************************************)
EXTENDS ResponsesInput

CONSTANT DefaultStore   \* codex.store of the configuration

(***************************************************************************)
(* The validators: that file's copies.                                     *)
(***************************************************************************)
InputItems(items) == ItemsValid(items)
Tools(s) == Form(s.tools)
UnsupportedTool(s) == Supported(s.tools, {"hosted"})
ToolChoice(s) == Form(s.tool_choice)
UnsupportedToolChoice(s) == Supported(s.tool_choice, {"hosted"})
Reasoning(s) == Form(s.effort) /\ Form(s.summary)
Metadata(s) == Form(s.metadata)
TextFormat(s) == Form(s.verbosity) /\ Form(s.text_format)
Stream(s) == Form(s.stream)
Background(s) == Supported(s.background, {"true"})
Instructions(s) == Form(s.instructions)
Store(s) == Form(s.store)
StreamOptions(s) ==
    s.stream_options # Absent => s.stream_options # Malformed /\ s.stream = "true"
MaxOutputTokens(s) == s.max_output_tokens # 0
NumberRange(value) == Form(value)     \* a temperature may be above one here
TopLogprobs(s) == Form(s.top_logprobs)
ParallelToolCalls(s) == Form(s.parallel_tool_calls)
MaxToolCalls(s) == Form(s.max_tool_calls)
ServiceTier(s) == Form(s.service_tier)
SafetyIdentifier(s) == Form(s.safety_identifier)
User(s) == Form(s.user)
PromptCache(s) == Form(s.prompt_cache_key) /\ Form(s.prompt_cache_retention)
Truncation(s) == Form(s.truncation)
PreviousResponseId(s) == Form(s.previous_response_id)
ContextManagement(s) == Form(s.context_management)
Prompt(s) == Form(s.prompt)
Conversation(s) ==
    s.conversation # Absent =>
        s.conversation # Malformed /\ s.previous_response_id = Absent
Include(s) == Form(s.include)

Checks(items, s) ==
    /\ InputItems(items) /\ Tools(s) /\ UnsupportedTool(s) /\ ToolChoice(s)
    /\ UnsupportedToolChoice(s) /\ Reasoning(s) /\ Metadata(s) /\ TextFormat(s)
    /\ Stream(s) /\ Background(s) /\ Instructions(s) /\ Store(s)
    /\ StreamOptions(s) /\ MaxOutputTokens(s) /\ NumberRange(s.temperature)
    /\ NumberRange(s.top_p) /\ TopLogprobs(s) /\ ParallelToolCalls(s)
    /\ MaxToolCalls(s) /\ ServiceTier(s) /\ SafetyIdentifier(s) /\ User(s)
    /\ PromptCache(s) /\ Truncation(s) /\ PreviousResponseId(s)
    /\ ContextManagement(s) /\ Prompt(s) /\ Conversation(s) /\ Include(s)

(***************************************************************************)
(* normalizeCodexRequestBody: a system item's role becomes "developer",    *)
(* store is filled in, and absent instructions are the empty string.       *)
(***************************************************************************)
Item(item, at) ==
    CASE item.type \in CallTypes ->
            [role |-> Absent, content |-> <<Block(item.type, 0, item.id)>>]
      [] item.type \in OutputTypes ->
            [role |-> Absent, content |-> <<Block(item.type, at, item.id)>>]
      [] OTHER -> [role |-> IF item.role = "system" THEN "developer" ELSE item.role,
                   content |-> ContentOf(item.content, at)]

Unchanged ==
    {"instructions", "stream_options", "max_output_tokens", "temperature", "top_p",
     "top_logprobs", "parallel_tool_calls", "max_tool_calls", "service_tier",
     "safety_identifier", "user", "prompt_cache_key", "prompt_cache_retention",
     "truncation", "previous_response_id", "context_management", "prompt",
     "conversation", "include", "metadata", "text_format", "verbosity", "effort",
     "summary", "tools", "tool_choice", "background", "messages"}

Kept(p, value) == IF p = "instructions" /\ value = Absent THEN "empty" ELSE value

Normalized(items, s) ==
    [forwarded |-> [p \in Unchanged |-> Kept(p, s[p])],
     store |-> IF s.store = Absent THEN DefaultStore ELSE s.store,
     input |-> [k \in DOMAIN items |-> Item(items[k], k)],
     reply |-> [stream |-> s.stream = "true", usage |-> TRUE, legacy |-> FALSE]]

(***************************************************************************)
(* The handler, up to the first attempt.                                   *)
(***************************************************************************)
Answer(sent, s) ==
    LET items == InputOf(sent, s)
    IN  IF Checks(items, s) THEN Sent(Normalized(items, s)) ELSE Refused
=============================================================================
