----------------------------- MODULE BodyProofs ------------------------------
(***************************************************************************)
(* Theorems about RequestBodies: for any messages, items, limits and any   *)
(* number of parameters and turns, what Claude's handlers accept Codex's   *)
(* accept too, no parameter is ignored in silence, what is sent to Claude  *)
(* is a body /v1/messages would take, its thinking budget below its limit, *)
(* with another turn what was sent of the earlier ones does not move,      *)
(* results answer the calls they are for, and nothing said is lost.        *)
(***************************************************************************)
EXTENDS BodyTerms, TLAPS, WellFoundedInduction, SequenceTheorems

(***************************************************************************)
(* The validators.  Each of a Codex handler's follows from one or two of   *)
(* the Claude handler's.                                                   *)
(***************************************************************************)
\* Parameters fit for Claude's chat handler are fit for Codex's.
LEMMA ChatChecks == \A s : ClaudeC!Checks(s) => CodexC!Checks(s)
  BY DEF
       ClaudeC!Checks, ClaudeC!Form, ClaudeC!Supported, ClaudeC!MaxTokens,
       ClaudeC!Modalities, ClaudeC!ParallelToolCalls, ClaudeC!ServiceTier,
       ClaudeC!Store, ClaudeC!StreamOptions, ClaudeC!WebSearchOptions,
       ClaudeC!Verbosity, ClaudeC!PromptCache, ClaudeC!SafetyIdentifier,
       ClaudeC!User, ClaudeC!Metadata, ClaudeC!Temperature, ClaudeC!Seed,
       ClaudeC!Penalty, ClaudeC!Prediction, ClaudeC!ResponseFormat,
       ClaudeC!Logprobs, ClaudeC!LogitBias, ClaudeC!Tools,
       ClaudeC!Functions, ClaudeC!FunctionCall, ClaudeC!ToolChoice,
       CodexC!Checks, CodexC!Form, CodexC!Supported, CodexC!Stream,
       CodexC!MaxTokens, CodexC!N, CodexC!ReasoningEffort,
       CodexC!Modalities, CodexC!ParallelToolCalls, CodexC!ServiceTier,
       CodexC!Store, CodexC!StreamOptions, CodexC!WebSearchOptions,
       CodexC!Verbosity, CodexC!PromptCache, CodexC!SafetyIdentifier,
       CodexC!User, CodexC!Metadata, CodexC!NumberRange, CodexC!Seed,
       CodexC!Penalty, CodexC!Prediction, CodexC!ResponseFormat,
       CodexC!Logprobs, CodexC!LogitBias, CodexC!Stop, CodexC!Tools,
       CodexC!Functions, CodexC!FunctionCall, CodexC!ToolChoice,
       ClaudeC!Absent, ClaudeC!Malformed, CodexC!Absent, CodexC!Malformed,
       ClaudeC!NoLimit, CodexC!NoLimit

\* So is a message.
LEMMA ChatMessage == \A m : ClaudeC!MessageValid(m) => CodexC!MessageValid(m)
  BY DEF ClaudeC!MessageValid, ClaudeC!ContentValid, ClaudeC!ToolCallValid,
         CodexC!MessageValid, CodexC!PartsValid, ClaudeC!Absent, CodexC!Absent,
         ClaudeC!Malformed, CodexC!Malformed, ClaudeC!NoId, ClaudeC!Id,
         CodexC!NoId, CodexC!Id

\* An item of the Responses API is judged alike by the two copies.
LEMMA SameItems == \A list : ClaudeR!ItemsValid(list) => CodexR!ItemsValid(list)
  BY DEF ClaudeR!ItemsValid, ClaudeR!ItemValid, ClaudeR!PartsValid, ClaudeR!CallTypes,
         ClaudeR!Roles, ClaudeR!ContentGiven, ClaudeR!Absent, ClaudeR!Malformed,
         ClaudeR!NoId, ClaudeR!Id, CodexR!ItemsValid, CodexR!ItemValid, CodexR!PartsValid,
         CodexR!CallTypes, CodexR!Roles, CodexR!ContentGiven, CodexR!Absent,
         CodexR!Malformed, CodexR!NoId, CodexR!Id

\* Parameters fit for Claude's Responses handler are fit for Codex's, where the
\* parameters that name an earlier conversation are given or not.
Earlier(s) == {s.conversation, s.previous_response_id} \subseteq Given \cup {Absent}
LEMMA ResponsesChecks ==
  \A list, s : Earlier(s) /\ ClaudeR!Checks(list, s) => CodexR!Checks(list, s)
  BY SameItems DEF Earlier, Given, Absent, Malformed,
       ClaudeR!Checks, ClaudeR!Form, ClaudeR!Supported, ClaudeR!InputGiven,
       ClaudeR!Tools, ClaudeR!ToolChoice, ClaudeR!Reasoning,
       ClaudeR!Metadata, ClaudeR!TextFormat, ClaudeR!UnsupportedMetadata,
       ClaudeR!UnsupportedTextFormat, ClaudeR!UnsupportedReasoning,
       ClaudeR!UnsupportedTool, ClaudeR!Stream, ClaudeR!Background,
       ClaudeR!Instructions, ClaudeR!Store, ClaudeR!StreamOptions,
       ClaudeR!MaxOutputTokens, ClaudeR!Temperature, ClaudeR!TopP,
       ClaudeR!TopLogprobs, ClaudeR!ParallelToolCalls, ClaudeR!MaxToolCalls,
       ClaudeR!ServiceTier, ClaudeR!SafetyIdentifier, ClaudeR!User,
       ClaudeR!PromptCache, ClaudeR!Truncation, ClaudeR!Conversation,
       ClaudeR!PreviousResponseId, ClaudeR!ContextManagement,
       ClaudeR!Prompt, ClaudeR!Include, CodexR!Checks, CodexR!Form,
       CodexR!Supported, CodexR!InputItems, CodexR!Tools,
       CodexR!UnsupportedTool, CodexR!ToolChoice,
       CodexR!UnsupportedToolChoice, CodexR!Reasoning, CodexR!Metadata,
       CodexR!TextFormat, CodexR!Stream, CodexR!Background,
       CodexR!Instructions, CodexR!Store, CodexR!StreamOptions,
       CodexR!MaxOutputTokens, CodexR!NumberRange, CodexR!TopLogprobs,
       CodexR!ParallelToolCalls, CodexR!MaxToolCalls, CodexR!ServiceTier,
       CodexR!SafetyIdentifier, CodexR!User, CodexR!PromptCache,
       CodexR!Truncation, CodexR!PreviousResponseId,
       CodexR!ContextManagement, CodexR!Prompt, CodexR!Conversation,
       CodexR!Include, ClaudeR!Absent, ClaudeR!Malformed, CodexR!Absent,
       CodexR!Malformed

(***************************************************************************)
(* The handlers.                                                           *)
(***************************************************************************)
LEMMA ChatVerdict ==
  ASSUME NEW messages, NEW s, Accepted(ChatAnswers(messages, s).claude)
  PROVE  Accepted(ChatAnswers(messages, s).codex)
<1> DEFINE normal == Normalized(messages)
<1>1. ClaudeC!Answer(normal, s) # <<>>
  BY DEF ChatAnswers, Accepted, Refused
<1>2. normal.out # <<>> /\ ~normal.error /\ ClaudeC!MessageRoles(normal.out)
        /\ ClaudeC!Checks(s)
  <2> HIDE DEF normal
  <2> QED BY <1>1 DEF ClaudeC!Answer, ClaudeC!Refused
<1>3. CodexC!MessageRoles(normal.out) /\ CodexC!Checks(s)
  <2> HIDE DEF normal
  <2> QED BY <1>2, ChatChecks, ChatMessage DEF ClaudeC!MessageRoles, CodexC!MessageRoles
<1>4. CodexC!Answer(normal, s) # <<>>
  <2> HIDE DEF normal
  <2> QED BY <1>2, <1>3 DEF CodexC!Answer, CodexC!Sent
<1> QED BY <1>4 DEF ChatAnswers, Accepted, Refused

\* What Claude's Responses handler accepts Codex's accepts.
LEMMA ResponsesVerdict ==
  ASSUME NEW input, NEW s, Earlier(s), Accepted(ResponsesAnswers(input, s).claude)
  PROVE  Accepted(ResponsesAnswers(input, s).codex)
<1>1. ClaudeR!Answer(input, s) # <<>>
  BY DEF ResponsesAnswers, Accepted, Refused
<1>2. ClaudeR!Checks(ClaudeR!InputOf(input, s), s)
  BY <1>1 DEF ClaudeR!Answer, ClaudeR!Refused
<1>3. ClaudeR!InputOf(input, s) = CodexR!InputOf(input, s)
  BY DEF ClaudeR!InputOf, CodexR!InputOf, ClaudeR!Absent, CodexR!Absent
<1>4. CodexR!Answer(input, s) # <<>>
  BY <1>2, <1>3, ResponsesChecks DEF CodexR!Answer, CodexR!Sent
<1> QED BY <1>4 DEF ResponsesAnswers, Accepted, Refused

(***************************************************************************)
(* The parameters of a request are those of its API, each unset or of a    *)
(* shape it has, the conversation is of what its client may say, and the   *)
(* answers are the handlers'.                                              *)
(***************************************************************************)
Known(a, s) ==
    /\ DOMAIN s = DOMAIN ShapesOf(a)
    /\ \A p \in DOMAIN s : s[p] \in ShapesOf(a)[p] \cup {Unset(p)}
Sayable(a) == IF a = "chat" THEN Messages ELSE Items
BodyInv ==
    /\ api \in {"chat", "responses"}
    /\ Known(api, settings)
    /\ items \in Seq(Sayable(api))
    /\ answers = Answers(api, items, settings)

\* The invariant holds at first, and after each step.
LEMMA BodyInit == Init => BodyInv
  BY DEF Init, BodyInv, Known, Defaults

LEMMA BodyStep == BodyInv /\ [Next]_vars => BodyInv'
<1> SUFFICES ASSUME BodyInv, [Next]_vars PROVE BodyInv'
  OBVIOUS
<1>1. CASE SetParameter
  <2>1. PICK p \in DOMAIN settings \ Set(settings) : \E value \in ShapesOf(api)[p] :
           settings' = [settings EXCEPT ![p] = value]
    BY <1>1 DEF SetParameter
  <2>2. PICK value \in ShapesOf(api)[p] : settings' = [settings EXCEPT ![p] = value]
    BY <2>1
  <2>3. Known(api, settings')
    BY <2>1, <2>2 DEF BodyInv, Known
  <2> QED BY <1>1, <2>3 DEF SetParameter, BodyInv
<1>2. CASE ChatCompletion
  BY <1>2 DEF ChatCompletion, BodyInv, Answers, Sayable
<1>3. CASE Response
  BY <1>3 DEF Response, BodyInv, Answers, Sayable
<1>4. CASE UNCHANGED vars
  BY <1>4 DEF vars, BodyInv
<1> QED BY <1>1, <1>2, <1>3, <1>4 DEF Next

\* The invariant holds in every reachable state.
LEMMA BodyInvariant == Spec => []BodyInv
  BY BodyInit, BodyStep, PTL DEF Spec

\* The parameters that name an earlier conversation are given or not.
LEMMA EarlierKnown == \A s : Known("responses", s) => Earlier(s)
<1> DEFINE shapes == ResponsesShapes
<1>1. shapes.conversation = Given /\ shapes.previous_response_id = Given
        /\ {"conversation", "previous_response_id"} \subseteq DOMAIN shapes
  BY DEF ResponsesShapes, CommonShapes, Joined
<1> QED BY <1>1 DEF Known, Earlier, ShapesOf, Unset, LimitParameters

(***************************************************************************)
(* In every reachable state, for any messages, items, limits and any       *)
(* number of turns and parameters: what Claude's handlers accept Codex's   *)
(* accept.                                                                 *)
(***************************************************************************)
THEOREM FitForBoth == Spec => []ClaudeAcceptsLess
<1>1. BodyInv => ClaudeAcceptsLess
  <2> SUFFICES ASSUME BodyInv, Accepted(answers.claude) PROVE Accepted(answers.codex)
    BY DEF ClaudeAcceptsLess
  <2>1. CASE api = "chat"
    BY <2>1, ChatVerdict DEF BodyInv, Answers
  <2>2. CASE api = "responses"
    BY <2>2, ResponsesVerdict, EarlierKnown DEF BodyInv, Answers
  <2> QED BY <2>1, <2>2 DEF BodyInv
<1> QED BY <1>1, BodyInvariant, PTL

(***************************************************************************)
(* Thinking.                                                               *)
(***************************************************************************)
\* A limit is raised above a budget that is not nothing.
LEMMA RaisedAbove ==
  ASSUME NEW effort, NEW limit \in Int
  PROVE  /\ ClaudeC!Budget(effort) # 0 =>
              ClaudeC!Budget(effort) < ClaudeC!RaisedLimit(effort, limit)
         /\ ClaudeR!Budget(effort) # 0 =>
              ClaudeR!Budget(effort) < ClaudeR!RaisedLimit(effort, limit)
<1>1. ClaudeC!Budget(effort) \in Nat /\ ClaudeR!Budget(effort) \in Nat
  BY DEF ClaudeC!Budget, ClaudeR!Budget
<1> QED BY <1>1 DEF ClaudeC!RaisedLimit, ClaudeR!RaisedLimit

\* A token limit is a number, asked for or not.
LEMMA LimitsKnown ==
  /\ \A s : Known("chat", s) => ClaudeC!Limit(ClaudeC!LegacyFields(s)) \in Int
  /\ \A s : Known("responses", s) => ClaudeR!Limit(s) \in Int
<1>1. ASSUME NEW p \in {"max_tokens", "max_completion_tokens", "max_output_tokens"}
      PROVE  Limits \cup {Unset(p)} \subseteq Int
  BY LimitsAssumption DEF Unset, LimitParameters, NoLimit
<1>2. ASSUME NEW s, Known("chat", s)
      PROVE  s.max_tokens \in Int /\ s.max_completion_tokens \in Int
  <2>1. /\ ChatShapes.max_tokens = Limits /\ ChatShapes.max_completion_tokens = Limits
        /\ {"max_tokens", "max_completion_tokens"} \subseteq DOMAIN ChatShapes
    BY DEF ChatShapes, CommonShapes, Joined
  <2>2. /\ s.max_tokens \in Limits \cup {Unset("max_tokens")}
        /\ s.max_completion_tokens \in Limits \cup {Unset("max_completion_tokens")}
    BY <1>2, <2>1 DEF Known, ShapesOf
  <2> QED BY <2>2, <1>1
<1>3. ASSUME NEW s, Known("responses", s)
      PROVE  s.max_output_tokens \in Int
  <2>1. /\ ResponsesShapes.max_output_tokens = Limits
        /\ "max_output_tokens" \in DOMAIN ResponsesShapes
    BY DEF ResponsesShapes, CommonShapes, Joined
  <2>2. s.max_output_tokens \in Limits \cup {Unset("max_output_tokens")}
    BY <1>3, <2>1 DEF Known, ShapesOf
  <2> QED BY <2>2, <1>1
<1> QED BY <1>2, <1>3 DEF ClaudeR!Limit, ClaudeC!Limit, ClaudeC!LegacyFields

\* The thinking budget of a chat is below its limit.
LEMMA ChatThinking ==
  ASSUME NEW messages, NEW s, Known("chat", s), Accepted(ChatAnswers(messages, s).claude),
         NEW body, body = BodyOf(ChatAnswers(messages, s).claude),
         body.thinking.type = "enabled"
  PROVE  body.thinking.budget < body.max_tokens
<1> DEFINE normal == Normalized(messages)
           fields == ClaudeC!LegacyFields(s)
           effort == fields.reasoning_effort
<1>1. body = [ClaudeC!OpenaiToClaude(normal.out, fields)
                EXCEPT !.reply.legacy = ClaudeC!LegacyReply(s)]
  <2> HIDE DEF normal
  <2> QED BY DEF ChatAnswers, Accepted, Refused, BodyOf, ClaudeC!Answer, ClaudeC!Refused,
                 ClaudeC!Sent, normal
<1>2. /\ body.thinking = (IF ClaudeC!ForcesTool(ClaudeC!ClaudeToolChoice(fields.tool_choice))
                          THEN ClaudeC!NoThinking ELSE ClaudeC!Thinking(effort))
      /\ body.max_tokens = ClaudeC!RaisedLimit(effort, ClaudeC!Limit(fields))
  <2> HIDE DEF normal, fields
  <2> QED BY <1>1 DEF ClaudeC!OpenaiToClaude
<1>3. ClaudeC!Budget(effort) # 0 /\ body.thinking.budget = ClaudeC!Budget(effort)
  <2> HIDE DEF fields
  <2> QED BY <1>2 DEF ClaudeC!NoThinking, ClaudeC!Thinking, ClaudeC!Enabled, ClaudeC!Absent
<1>4. ClaudeC!Limit(fields) \in Int
  BY LimitsKnown
<1> QED
  <2> HIDE DEF fields
  <2> QED BY <1>2, <1>3, <1>4, RaisedAbove

\* So is that of a request to the Responses API.
LEMMA ResponsesThinking ==
  ASSUME NEW input, NEW s, Known("responses", s),
         Accepted(ResponsesAnswers(input, s).claude),
         NEW body, body = BodyOf(ResponsesAnswers(input, s).claude),
         body.thinking.type = "enabled"
  PROVE  body.thinking.budget < body.max_tokens
<1> DEFINE given == ClaudeR!InputOf(input, s)
<1>1. body = ClaudeR!ResponsesToClaude(given, s)
  <2> HIDE DEF given
  <2> QED BY DEF ResponsesAnswers, Accepted, Refused, BodyOf, ClaudeR!Answer, ClaudeR!Refused,
                 ClaudeR!Sent, given
<1>2. /\ body.thinking = ClaudeR!Enabled(s.effort)
      /\ body.max_tokens = ClaudeR!RaisedLimit(s.effort, ClaudeR!Limit(s))
  <2> HIDE DEF given
  <2> QED BY <1>1 DEF ClaudeR!ResponsesToClaude
<1>3. ClaudeR!Budget(s.effort) # 0 /\ body.thinking.budget = ClaudeR!Budget(s.effort)
  BY <1>2 DEF ClaudeR!NoThinking, ClaudeR!Enabled, ClaudeR!Absent
<1> QED BY <1>2, <1>3, RaisedAbove, LimitsKnown

(***************************************************************************)
(* Whatever the limit and the effort a client asks for, with any other     *)
(* parameters, a thinking budget sent to Claude is below the limit sent    *)
(* with it.                                                                *)
(***************************************************************************)
THEOREM ThinkingAlwaysFits == Spec => []ThinkingFits
<1>1. BodyInv => ThinkingFits
  <2> SUFFICES ASSUME BodyInv, Accepted(answers.claude), ClaudeBody.thinking.type = "enabled"
               PROVE  ClaudeBody.thinking.budget < ClaudeBody.max_tokens
    BY DEF ThinkingFits
  <2>1. CASE api = "chat"
    BY <2>1, ChatThinking DEF BodyInv, Answers, ClaudeBody
  <2>2. CASE api = "responses"
    BY <2>2, ResponsesThinking DEF BodyInv, Answers, ClaudeBody
  <2> QED BY <2>1, <2>2 DEF BodyInv
<1> QED BY <1>1, BodyInvariant, PTL

(***************************************************************************)
(* Parameters.                                                             *)
(***************************************************************************)
\* The values of the parameters that count, of a chat.
LEMMA ChatValues ==
  ASSUME NEW s, Known("chat", s)
  PROVE  /\ s.stream \in Booleans \cup {Absent} /\ s.store \in Booleans \cup {Absent}
         /\ s.temperature \in {Malformed, "up_to_one", "above_one", Absent}
         /\ s.top_p \in Given \cup {Absent}
         /\ s.max_tokens \in Limits \cup {NoLimit}
         /\ s.max_completion_tokens \in Limits \cup {NoLimit}
         /\ s.model \in {"without_temperature", Absent}
         /\ s.stream_options \in {Malformed, "usage", "obfuscation", Absent}
         /\ s.reasoning_effort \in {Malformed, Absent} \cup Efforts
         /\ s.modalities \in {Malformed, "text", "image", "audio", Absent}
         /\ s.stop \in {Malformed, "null", "given", Absent}
         /\ s.tools \in {Malformed, "functions", "strict", "image", "custom", Absent}
         /\ s.functions \in {Malformed, "functions", Absent}
         /\ s.function_call \in {Malformed, "null", "auto", "none", "named", Absent}
         /\ s.tool_choice \in {Malformed, "null", "auto", "none", "required", "function", "image",
                               "allowed", "allowed_image", "custom", Absent}
<1>1. /\ s.stream \in Booleans \cup {Absent} /\ s.store \in Booleans \cup {Absent}
      /\ s.temperature \in {Malformed, "up_to_one", "above_one", Absent}
      /\ s.top_p \in Given \cup {Absent}
      /\ s.max_tokens \in Limits \cup {NoLimit}
      /\ s.max_completion_tokens \in Limits \cup {NoLimit}
      /\ s.model \in {"without_temperature", Absent}
  BY ZenonT(60) DEF ChatShapes, CommonShapes, Joined, Known, ShapesOf, Unset, LimitParameters
<1>2. /\ s.stream_options \in {Malformed, "usage", "obfuscation", Absent}
      /\ s.reasoning_effort \in {Malformed, Absent} \cup Efforts
      /\ s.modalities \in {Malformed, "text", "image", "audio", Absent}
      /\ s.stop \in {Malformed, "null", "given", Absent}
  BY ZenonT(60) DEF ChatShapes, CommonShapes, Joined, Known, ShapesOf, Unset, LimitParameters
<1>3. /\ s.tools \in {Malformed, "functions", "strict", "image", "custom", Absent}
      /\ s.functions \in {Malformed, "functions", Absent}
      /\ s.function_call \in {Malformed, "null", "auto", "none", "named", Absent}
      /\ s.tool_choice \in {Malformed, "null", "auto", "none", "required", "function", "image",
                            "allowed", "allowed_image", "custom", Absent}
  BY ZenonT(60) DEF ChatShapes, CommonShapes, Joined, Known, ShapesOf, Unset, LimitParameters
<1> QED BY <1>1, <1>2, <1>3

\* And of a request to the Responses API.
LEMMA ResponsesValues ==
  ASSUME NEW s, Known("responses", s)
  PROVE  /\ s.stream \in Booleans \cup {Absent} /\ s.store \in Booleans \cup {Absent}
         /\ s.temperature \in {Malformed, "up_to_one", "above_one", Absent}
         /\ s.top_p \in Given \cup {Absent}
         /\ s.max_output_tokens \in Limits \cup {NoLimit}
         /\ s.model \in {"without_temperature", Absent}
         /\ s.effort \in {Malformed, Absent} \cup Efforts
         /\ s.tools \in {Malformed, "functions", "strict", "image", "custom", "hosted", Absent}
         /\ s.tool_choice \in {Malformed, "null", "auto", "none", "required", "function", "image",
                               "allowed", "custom", "hosted", Absent}
<1>1. /\ s.stream \in Booleans \cup {Absent} /\ s.store \in Booleans \cup {Absent}
      /\ s.temperature \in {Malformed, "up_to_one", "above_one", Absent}
      /\ s.top_p \in Given \cup {Absent}
      /\ s.max_output_tokens \in Limits \cup {NoLimit}
      /\ s.model \in {"without_temperature", Absent}
  BY ZenonT(60) DEF ResponsesShapes, CommonShapes, Joined, Known, ShapesOf, Unset, LimitParameters
<1>2. /\ s.effort \in {Malformed, Absent} \cup Efforts
      /\ s.tools \in {Malformed, "functions", "strict", "image", "custom", "hosted", Absent}
      /\ s.tool_choice \in {Malformed, "null", "auto", "none", "required", "function", "image",
                            "allowed", "custom", "hosted", Absent}
  BY ZenonT(60) DEF ResponsesShapes, CommonShapes, Joined, Known, ShapesOf, Unset, LimitParameters
<1> QED BY <1>1, <1>2

\* The chat parameters that a body may depend on.
ChatEffective ==
    {"stream", "store", "temperature", "top_p", "max_tokens", "max_completion_tokens",
     "stream_options", "reasoning_effort", "modalities", "stop", "tools", "functions",
     "function_call", "tool_choice"}

\* The others Claude's chat handler takes only at their neutral values, or not at all.
LEMMA ChatIneffective ==
  ASSUME NEW s, Known("chat", s), ClaudeC!Checks(s),
         NEW p \in DOMAIN s \ ChatEffective, s[p] # Unset(p)
  PROVE  p \in DOMAIN Neutral /\ s[p] = Neutral[p]
<1>1. /\ s.n \in {Malformed, "one", Absent}
      /\ s.audio \in Given \cup {Absent} /\ s.web_search_options \in Given \cup {Absent}
      /\ s.seed \in Given \cup {Absent} /\ s.prediction \in Given \cup {Absent}
      /\ s.presence_penalty \in {Malformed, "zero", "given", Absent}
      /\ s.frequency_penalty \in {Malformed, "zero", "given", Absent}
      /\ s.response_format \in {Malformed, "text", "json_object", "json_schema", Absent}
      /\ s.logprobs \in Booleans \cup {Absent}
      /\ s.logit_bias \in {Malformed, "empty", "given", Absent}
  BY ZenonT(60) DEF ChatShapes, CommonShapes, Joined, Known, ShapesOf, Unset, LimitParameters
<1>2. /\ s.model \in {"without_temperature", Absent}
      /\ s.parallel_tool_calls \in Booleans \cup {Absent}
      /\ \A q \in {"top_logprobs", "service_tier", "verbosity", "prompt_cache_key",
                   "prompt_cache_retention", "safety_identifier", "user", "metadata"} :
            s[q] \in Given \cup {Absent}
  BY ZenonT(60) DEF ChatShapes, CommonShapes, Joined, Known, ShapesOf, Unset, LimitParameters
<1>3. p \in {"n", "audio", "web_search_options", "seed", "prediction", "presence_penalty",
             "frequency_penalty", "response_format", "logprobs", "logit_bias", "model",
             "parallel_tool_calls", "top_logprobs", "service_tier", "verbosity",
             "prompt_cache_key", "prompt_cache_retention", "safety_identifier", "user",
             "metadata"}
  BY DEF ChatShapes, CommonShapes, Joined, Known, ShapesOf, ChatEffective
<1>4. s[p] # Absent
  BY <1>3 DEF Unset, LimitParameters
<1>5. /\ Form(s.n) /\ s.parallel_tool_calls \notin {Malformed, "false"}
      /\ s.presence_penalty \notin {Malformed, "given"}
      /\ s.frequency_penalty \notin {Malformed, "given"}
      /\ s.response_format \notin {Malformed, "json_object", "json_schema"}
      /\ s.logprobs \notin {Malformed, "true"} /\ s.logit_bias \notin {Malformed, "given"}
      /\ \A q \in {"audio", "web_search_options", "seed", "prediction", "top_logprobs",
                   "service_tier", "verbosity", "prompt_cache_key", "prompt_cache_retention",
                   "safety_identifier", "user", "metadata"} : s[q] \notin Given
  BY DEF ClaudeC!Checks, ClaudeC!Form, ClaudeC!Supported, ClaudeC!Modalities,
         ClaudeC!ParallelToolCalls, ClaudeC!ServiceTier, ClaudeC!WebSearchOptions,
         ClaudeC!Verbosity, ClaudeC!PromptCache, ClaudeC!SafetyIdentifier, ClaudeC!User,
         ClaudeC!Metadata, ClaudeC!Seed, ClaudeC!Penalty, ClaudeC!Prediction,
         ClaudeC!ResponseFormat, ClaudeC!Logprobs, ClaudeC!LogitBias, ClaudeC!Malformed,
         Form, Malformed, Given
<1>6. p \notin {"audio", "web_search_options", "seed", "prediction", "top_logprobs",
                "service_tier", "verbosity", "prompt_cache_key", "prompt_cache_retention",
                "safety_identifier", "user", "metadata"}
  BY <1>1, <1>2, <1>4, <1>5
<1> QED
  BY <1>1, <1>2, <1>3, <1>4, <1>5, <1>6 DEF Neutral, Booleans, Form

(***************************************************************************)
(* What a body for Claude holds of the chat parameters.                    *)
(***************************************************************************)
LEMMA ClaudeChatBody ==
  ASSUME NEW messages, NEW s, Known("chat", s), Accepted(ChatAnswers(messages, s).claude),
         NEW body, body = BodyOf(ChatAnswers(messages, s).claude)
  PROVE  /\ ClaudeC!Checks(s)
         /\ body.max_tokens = ClaudeC!RaisedLimit(s.reasoning_effort, ClaudeC!Limit(s))
         /\ body.tool_choice = ClaudeC!ClaudeToolChoice(ClaudeC!ToolChoiceOf(s))
         /\ body.thinking = (IF ClaudeC!ForcesTool(body.tool_choice) THEN ClaudeC!NoThinking
                             ELSE ClaudeC!Thinking(s.reasoning_effort))
         /\ body.temperature = ClaudeC!ForwardedTemperature(s.model, s.temperature)
         /\ body.top_p = s.top_p
         /\ body.stop = (IF s.stop = "null" THEN Absent ELSE s.stop)
         /\ body.tools = ClaudeC!ClaudeTools(ClaudeC!ToolsOf(s))
         /\ body.reply.stream = (s.stream = "true")
         /\ body.reply.usage = (s.stream_options = "usage")
<1> DEFINE normal == Normalized(messages)
           fields == ClaudeC!LegacyFields(s)
<1>1. /\ ClaudeC!Checks(s)
      /\ body = [ClaudeC!OpenaiToClaude(normal.out, fields)
                   EXCEPT !.reply.legacy = ClaudeC!LegacyReply(s)]
  <2> HIDE DEF normal
  <2> QED BY DEF ChatAnswers, Accepted, Refused, BodyOf, ClaudeC!Answer, ClaudeC!Refused,
                 ClaudeC!Sent, normal
<1>2. /\ body.max_tokens = ClaudeC!RaisedLimit(fields.reasoning_effort, ClaudeC!Limit(fields))
      /\ body.tool_choice = ClaudeC!ClaudeToolChoice(fields.tool_choice)
      /\ body.thinking = (IF ClaudeC!ForcesTool(body.tool_choice) THEN ClaudeC!NoThinking
                          ELSE ClaudeC!Thinking(fields.reasoning_effort))
      /\ body.temperature = ClaudeC!ForwardedTemperature(fields.model, fields.temperature)
      /\ body.top_p = fields.top_p
      /\ body.stop = (IF fields.stop = "null" THEN Absent ELSE fields.stop)
      /\ body.tools = ClaudeC!ClaudeTools(fields.tools)
      /\ body.reply.stream = (fields.stream = "true")
      /\ body.reply.usage = (fields.stream_options = "usage")
  <2> HIDE DEF normal, fields
  <2> QED BY <1>1 DEF ClaudeC!OpenaiToClaude, ClaudeC!Absent, Absent
<1>3. {"tools", "tool_choice"} \subseteq DOMAIN s
  BY DEF ChatShapes, CommonShapes, Joined, Known, ShapesOf
<1>4. /\ \A q \in DOMAIN s : q \notin {"tools", "tool_choice"} => fields[q] = s[q]
      /\ fields.tools = ClaudeC!ToolsOf(s)
      /\ fields.tool_choice = ClaudeC!ToolChoiceOf(s)
  BY <1>3 DEF ClaudeC!LegacyFields
<1>5. /\ fields.reasoning_effort = s.reasoning_effort /\ fields.max_tokens = s.max_tokens
      /\ fields.max_completion_tokens = s.max_completion_tokens
      /\ fields.model = s.model /\ fields.temperature = s.temperature
      /\ fields.top_p = s.top_p /\ fields.stop = s.stop /\ fields.stream = s.stream
      /\ fields.stream_options = s.stream_options
  <2> HIDE DEF fields
  <2> QED BY <1>4 DEF ChatShapes, CommonShapes, Joined, Known, ShapesOf
<1>6. ClaudeC!Limit(fields) = ClaudeC!Limit(s)
  <2> HIDE DEF fields
  <2> QED BY <1>5 DEF ClaudeC!Limit
<1> QED
  <2> HIDE DEF fields
  <2> QED BY <1>1, <1>2, <1>4, <1>5, <1>6

\* Where the request lacks p, the other parameters are as they were.
LEMMA Lacking ==
  ASSUME NEW s, NEW p \in DOMAIN s, NEW t, t = [s EXCEPT ![p] = Unset(p)]
  PROVE  /\ DOMAIN t = DOMAIN s /\ t[p] = Unset(p)
         /\ \A q \in DOMAIN s : q # p => t[q] = s[q]
  OBVIOUS

\* The parameters without p are those of a request too.
LEMMA ChatKnown ==
  ASSUME NEW s, Known("chat", s), NEW p \in DOMAIN s
  PROVE  Known("chat", [s EXCEPT ![p] = Unset(p)])
<1> DEFINE t == [s EXCEPT ![p] = Unset(p)]
<1>1. /\ DOMAIN t = DOMAIN s /\ t[p] = Unset(p)
      /\ \A q \in DOMAIN s : q # p => t[q] = s[q]
  BY Lacking
<1> HIDE DEF t
<1> QED BY <1>1 DEF Known

\* A limit Claude is sent as it came, or raised: another than the default's.
LEMMA LimitCounts ==
  ASSUME NEW effort, NEW limit \in Int, limit # 8192,
         ~(ClaudeC!Budget(effort) > 0
             /\ ClaudeC!RaisedLimit(effort, limit) = ClaudeC!Budget(effort) + 4096)
  PROVE  ClaudeC!RaisedLimit(effort, limit) # ClaudeC!RaisedLimit(effort, 8192)
<1>1. ClaudeC!Budget(effort) \in Nat
  BY DEF ClaudeC!Budget
<1> QED BY <1>1 DEF ClaudeC!RaisedLimit

\* A parameter Claude's chat handler takes counts for Claude, but for what is put aside.
LEMMA ClaudeChatEffect ==
  ASSUME BodyInv, api = "chat", NEW p \in Set(settings), ~IsNeutral(p), ~HasTwin(p),
         Accepted(answers.claude), Accepted(Without(p).claude), ~AsideForClaude(p)
  PROVE  BodyOf(Without(p).claude) # ClaudeBody
<1> DEFINE s == settings
           t == [settings EXCEPT ![p] = Unset(p)]
           body == ClaudeBody
           less == BodyOf(Without(p).claude)
<1>1. /\ Known("chat", s) /\ p \in DOMAIN s /\ s[p] # Unset(p)
  BY DEF BodyInv, Set
<1>2. Known("chat", t)
  BY <1>1, ChatKnown
<1>3. /\ t[p] = Unset(p)
      /\ \A q \in DOMAIN s : q # p => t[q] = s[q]
  BY <1>1, Lacking
<1>4. /\ ClaudeC!Checks(s)
      /\ body.max_tokens = ClaudeC!RaisedLimit(s.reasoning_effort, ClaudeC!Limit(s))
      /\ body.tool_choice = ClaudeC!ClaudeToolChoice(ClaudeC!ToolChoiceOf(s))
      /\ body.thinking = (IF ClaudeC!ForcesTool(body.tool_choice) THEN ClaudeC!NoThinking
                          ELSE ClaudeC!Thinking(s.reasoning_effort))
      /\ body.temperature = ClaudeC!ForwardedTemperature(s.model, s.temperature)
      /\ body.top_p = s.top_p
      /\ body.stop = (IF s.stop = "null" THEN Absent ELSE s.stop)
      /\ body.tools = ClaudeC!ClaudeTools(ClaudeC!ToolsOf(s))
      /\ body.reply.stream = (s.stream = "true")
      /\ body.reply.usage = (s.stream_options = "usage")
  BY <1>1, ClaudeChatBody DEF BodyInv, Answers, ClaudeBody
<1>5. /\ less.max_tokens = ClaudeC!RaisedLimit(t.reasoning_effort, ClaudeC!Limit(t))
      /\ less.tool_choice = ClaudeC!ClaudeToolChoice(ClaudeC!ToolChoiceOf(t))
      /\ less.thinking = (IF ClaudeC!ForcesTool(less.tool_choice) THEN ClaudeC!NoThinking
                          ELSE ClaudeC!Thinking(t.reasoning_effort))
      /\ less.temperature = ClaudeC!ForwardedTemperature(t.model, t.temperature)
      /\ less.top_p = t.top_p
      /\ less.stop = (IF t.stop = "null" THEN Absent ELSE t.stop)
      /\ less.tools = ClaudeC!ClaudeTools(ClaudeC!ToolsOf(t))
      /\ less.reply.stream = (t.stream = "true")
      /\ less.reply.usage = (t.stream_options = "usage")
  <2>1. Accepted(ChatAnswers(items, t).claude) /\ less = BodyOf(ChatAnswers(items, t).claude)
    BY DEF Without, Answers
  <2> HIDE DEF t, less
  <2> QED BY <1>2, <2>1, ClaudeChatBody
<1> SUFFICES ASSUME less = body PROVE FALSE
  OBVIOUS
<1>6. p \in ChatEffective
  BY <1>1, <1>4, ChatIneffective DEF IsNeutral
<1>7. ChatEffective \subseteq DOMAIN s /\ {"functions", "model"} \subseteq DOMAIN s
  BY <1>1 DEF ChatShapes, CommonShapes, Joined, Known, ShapesOf, ChatEffective
<1>8. ASSUME NEW q, NEW r, {q, r} \in Twins, p = q, r \in DOMAIN s PROVE s[r] = Unset(r)
  <2>1. {q, r} \subseteq Set(s) => HasTwin(p)
    BY <1>8 DEF HasTwin
  <2> QED BY <2>1, <1>8, <1>1 DEF Set
<1>20. /\ s.stream \in Booleans \cup {Absent} /\ s.store \in Booleans \cup {Absent}
       /\ s.temperature \in {Malformed, "up_to_one", "above_one", Absent}
       /\ s.top_p \in Given \cup {Absent}
       /\ s.max_tokens \in Limits \cup {NoLimit}
       /\ s.max_completion_tokens \in Limits \cup {NoLimit}
       /\ s.stream_options \in {Malformed, "usage", "obfuscation", Absent}
       /\ s.reasoning_effort \in {Malformed, Absent} \cup Efforts
       /\ s.modalities \in {Malformed, "text", "image", "audio", Absent}
       /\ s.stop \in {Malformed, "null", "given", Absent}
       /\ s.model \in {"without_temperature", Absent}
  BY <1>1, ChatValues
<1>21. /\ s.tools \in {Malformed, "functions", "strict", "image", "custom", Absent}
       /\ s.functions \in {Malformed, "functions", Absent}
       /\ s.function_call \in {Malformed, "null", "auto", "none", "named", Absent}
       /\ s.tool_choice \in {Malformed, "null", "auto", "none", "required", "function", "image",
                             "allowed", "allowed_image", "custom", Absent}
  BY <1>1, ChatValues
<1>22. /\ s.store \notin {Malformed, "true"} /\ s.stream # Malformed
       /\ s.temperature \notin {Malformed, "above_one"}
       /\ s.stream_options \notin {Malformed, "obfuscation"}
       /\ s.reasoning_effort # Malformed
       /\ s.modalities \notin {Malformed, "audio"}
       /\ s.tools \notin {Malformed, "image", "custom"}
       /\ s.functions # Malformed /\ s.function_call # Malformed
       /\ s.tool_choice \notin {Malformed, "image", "allowed", "allowed_image", "custom"}
  BY <1>4 DEF ClaudeC!Checks, ClaudeC!Form, ClaudeC!Supported, ClaudeC!Store,
              ClaudeC!Temperature, ClaudeC!StreamOptions, ClaudeC!Modalities, ClaudeC!Tools,
              ClaudeC!Functions, ClaudeC!FunctionCall, ClaudeC!ToolChoice,
              ClaudeC!Malformed, Malformed
<1>23. p = "temperature" => s.model # "without_temperature"
  BY DEF AsideForClaude, LimitParameters
<1>24. p \in LimitParameters =>
         /\ s[p] # 8192
         /\ ~(ClaudeC!Budget(s.reasoning_effort) > 0
                /\ body.max_tokens = ClaudeC!Budget(s.reasoning_effort) + 4096)
  BY DEF AsideForClaude, LimitAside, BudgetAsked, LimitParameters
<1>25. /\ p = "reasoning_effort" => ~ClaudeC!ForcesTool(body.tool_choice)
       /\ p = "modalities" => s.modalities # "image"
       /\ p # "store"
  BY DEF AsideForClaude, LimitParameters
<1>26. /\ p = "stream" => s.stream # "false"
       /\ p = "modalities" => s.modalities # "text"
       /\ p = "stop" => s.stop # "null"
       /\ p = "function_call" => s.function_call # "null"
       /\ p = "tool_choice" => s.tool_choice # "null"
  BY DEF IsNeutral, Neutral
<1> HIDE DEF s, t, body, less
<1>30. CASE p = "stream"
  BY <1>30, <1>1, <1>3, <1>4, <1>5, <1>20, <1>22, <1>26 DEF Unset, LimitParameters, Booleans
<1>31. CASE p = "temperature"
  BY <1>31, <1>1, <1>3, <1>4, <1>5, <1>7, <1>23 DEF Unset, LimitParameters, ChatEffective,
     ClaudeC!ForwardedTemperature
<1>32. CASE p \in {"top_p", "stop"}
  BY <1>32, <1>1, <1>3, <1>4, <1>5, <1>26 DEF Unset, LimitParameters
<1>33. CASE p \in {"max_tokens", "max_completion_tokens"}
  <2>1. s.max_tokens \in Nat \cup {NoLimit} /\ s.max_completion_tokens \in Nat \cup {NoLimit}
    BY <1>20, LimitsAssumption
  <2>2. s[p] # NoLimit /\ t[p] = NoLimit
    BY <1>33, <1>1, <1>3 DEF Unset, LimitParameters
  <2>3. p = "max_tokens" => s.max_completion_tokens = NoLimit
    BY <1>7, <1>8 DEF Twins, Unset, LimitParameters, ChatEffective
  <2>4. p = "max_completion_tokens" => s.max_tokens = NoLimit
    BY <1>7, <1>8 DEF Twins, Unset, LimitParameters, ChatEffective
  <2>5. ClaudeC!Limit(s) = s[p]
    BY <1>33, <2>2, <2>3, <2>4 DEF ClaudeC!Limit, ClaudeC!NoLimit, NoLimit
  <2>6. ClaudeC!Limit(t) = 8192
    BY <1>33, <1>3, <1>7, <2>2, <2>3, <2>4
    DEF ClaudeC!Limit, ClaudeC!NoLimit, NoLimit, ChatEffective
  <2>7. t.reasoning_effort = s.reasoning_effort
    BY <1>33, <1>3, <1>7 DEF ChatEffective
  <2>8. s[p] \in Int
    BY <1>33, <2>1 DEF NoLimit
  <2>9. p \in LimitParameters
    BY <1>33 DEF LimitParameters
  <2> QED BY <1>4, <1>5, <1>24, <2>5, <2>6, <2>7, <2>8, <2>9, LimitCounts
<1>34. CASE p = "stream_options"
  BY <1>34, <1>1, <1>3, <1>4, <1>5, <1>20, <1>22 DEF Unset, LimitParameters, Absent
<1>35. CASE p = "reasoning_effort"
  BY <1>35, <1>1, <1>3, <1>4, <1>5, <1>20, <1>22, <1>25 DEF Unset, LimitParameters, Efforts, Absent,
     ClaudeC!Thinking, ClaudeC!Enabled, ClaudeC!Budget, ClaudeC!NoThinking, ClaudeC!Absent
<1>36. CASE p = "modalities"
  BY <1>36, <1>1, <1>20, <1>22, <1>25, <1>26 DEF Unset, LimitParameters
<1>37. CASE p \in {"tools", "functions"}
  <2>1. /\ p = "tools" => s.functions = Absent
        /\ p = "functions" => s.tools = Absent
    BY <1>7, <1>8 DEF Twins, Unset, LimitParameters, ChatEffective
  <2>2. t.tools = Absent /\ t.functions = Absent
    BY <1>37, <1>3, <1>7, <2>1 DEF Unset, LimitParameters, ChatEffective
  <2>3. s[p] # Absent
    BY <1>37, <1>1 DEF Unset, LimitParameters
  <2>4. less.tools = Absent
    BY <2>2, <1>5 DEF ClaudeC!ToolsOf, ClaudeC!ClaudeTools, Absent, ClaudeC!Absent
  <2>5. body.tools = "functions"
    BY <1>37, <2>1, <2>3, <1>4, <1>21, <1>22
    DEF ClaudeC!ToolsOf, ClaudeC!ClaudeTools, Absent, ClaudeC!Absent
  <2> QED BY <2>4, <2>5 DEF Absent
<1>38. CASE p \in {"tool_choice", "function_call"}
  <2>1. /\ p = "tool_choice" => s.function_call = Absent
        /\ p = "function_call" => s.tool_choice = Absent
    BY <1>7, <1>8 DEF Twins, Unset, LimitParameters, ChatEffective
  <2>2. t.tool_choice = Absent /\ t.function_call = Absent
    BY <1>38, <1>3, <1>7, <2>1 DEF Unset, LimitParameters, ChatEffective
  <2>3. s[p] # Absent
    BY <1>38, <1>1 DEF Unset, LimitParameters
  <2>4. less.tool_choice = Absent
    BY <2>2, <1>5 DEF ClaudeC!ToolChoiceOf, ClaudeC!ClaudeToolChoice, Absent, ClaudeC!Absent
  <2>5. body.tool_choice # Absent
    BY <1>38, <2>1, <2>3, <1>4, <1>21, <1>22, <1>26
       DEF ClaudeC!ToolChoiceOf, ClaudeC!ClaudeToolChoice, Absent, ClaudeC!Absent
  <2> QED BY <2>4, <2>5
<1> QED
  BY <1>6, <1>25, <1>30, <1>31, <1>32, <1>33, <1>34, <1>35, <1>36, <1>37, <1>38
     DEF ChatEffective

(***************************************************************************)
(* What a body for Codex holds of the chat parameters.                     *)
(***************************************************************************)
LEMMA CodexChatBody ==
  ASSUME NEW messages, NEW s, Known("chat", s), Accepted(ChatAnswers(messages, s).codex),
         NEW body, body = BodyOf(ChatAnswers(messages, s).codex)
  PROVE  /\ CodexC!Checks(s)
         /\ \A q \in CodexC!Forwarded \ {"tools"} : body.forwarded[q] = s[q]
         /\ body.forwarded.tools = CodexC!ToolsOf(s)
         /\ body.max_output_tokens = (IF s.max_completion_tokens # NoLimit
                                      THEN s.max_completion_tokens ELSE s.max_tokens)
         /\ body.stop = (IF s.stop = "null" THEN Absent ELSE s.stop)
         /\ body.obfuscation = (s.stream_options = "obfuscation")
         /\ body.store = (IF s.store = Absent THEN DefaultStore ELSE s.store)
         /\ body.image_generation \in BOOLEAN
         /\ s.modalities = "image" => body.image_generation
         /\ body.tool_choice =
              (IF CodexC!ToolChoiceOf(s) \notin {Absent, "null"} THEN CodexC!ToolChoiceOf(s)
               ELSE IF body.image_generation THEN "image" ELSE Absent)
         /\ body.reply.stream = (s.stream = "true")
         /\ body.reply.usage = (s.stream_options = "usage")
<1> DEFINE normal == Normalized(messages)
           fields == CodexC!LegacyFields(s)
<1>1. /\ CodexC!Checks(s)
      /\ body = [CodexC!Canonical(normal.out, fields)
                   EXCEPT !.reply.legacy = CodexC!LegacyReply(s)]
  <2> HIDE DEF normal
  <2> QED BY DEF ChatAnswers, Accepted, Refused, BodyOf, CodexC!Answer, CodexC!Refused,
                 CodexC!Sent, CodexC!CodexLegacyFields, CodexC!CodexLegacyReply, normal
<1> DEFINE picture == CodexC!WantsPicture(normal.out, fields)
<1>2. /\ body.forwarded = [q \in CodexC!Forwarded |-> fields[q]]
      /\ body.max_output_tokens = (IF fields.max_completion_tokens # NoLimit
                                   THEN fields.max_completion_tokens ELSE fields.max_tokens)
      /\ body.stop = (IF fields.stop = "null" THEN Absent ELSE fields.stop)
      /\ body.obfuscation = (fields.stream_options = "obfuscation")
      /\ body.store = CodexC!StoreOf(fields)
      /\ body.image_generation = picture
      /\ body.tool_choice = (IF picture /\ CodexC!CodexToolChoice(fields) = Absent
                             THEN "image" ELSE CodexC!CodexToolChoice(fields))
      /\ body.reply.stream = (fields.stream = "true")
      /\ body.reply.usage = (fields.stream_options = "usage")
  <2> HIDE DEF normal, fields
  <2> QED BY <1>1 DEF CodexC!Canonical, CodexC!Absent, Absent, CodexC!NoLimit, NoLimit
<1>3. {"tools", "tool_choice"} \subseteq DOMAIN s /\ CodexC!Forwarded \subseteq DOMAIN s
  BY DEF ChatShapes, CommonShapes, Joined, Known, ShapesOf, CodexC!Forwarded
<1>4. /\ \A q \in DOMAIN s : q \notin {"tools", "tool_choice"} => fields[q] = s[q]
      /\ fields.tools = CodexC!ToolsOf(s)
      /\ fields.tool_choice = CodexC!ToolChoiceOf(s)
  BY <1>3 DEF CodexC!LegacyFields
<1>5. /\ fields.max_tokens = s.max_tokens
      /\ fields.max_completion_tokens = s.max_completion_tokens
      /\ fields.stop = s.stop /\ fields.stream = s.stream
      /\ fields.stream_options = s.stream_options /\ fields.store = s.store
      /\ fields.modalities = s.modalities
  <2> HIDE DEF fields
  <2> QED BY <1>4 DEF ChatShapes, CommonShapes, Joined, Known, ShapesOf
<1>6. \A q \in CodexC!Forwarded \ {"tools"} : fields[q] = s[q]
  <2> HIDE DEF fields
  <2> QED BY <1>3, <1>4 DEF CodexC!Forwarded
<1>7. "tools" \in CodexC!Forwarded
  BY DEF CodexC!Forwarded
<1>8. /\ picture \in BOOLEAN
      /\ s.modalities = "image" => picture
  <2> HIDE DEF fields, normal
  <2> QED BY <1>5 DEF CodexC!WantsPicture
<1>9. CodexC!StoreOf(fields) = (IF s.store = Absent THEN DefaultStore ELSE s.store)
  <2> HIDE DEF fields
  <2> QED BY <1>5 DEF CodexC!StoreOf, CodexC!Absent, Absent
<1>10. CodexC!CodexToolChoice(fields) =
         (IF CodexC!ToolChoiceOf(s) = "null" THEN Absent ELSE CodexC!ToolChoiceOf(s))
  <2> HIDE DEF fields
  <2> QED BY <1>4 DEF CodexC!CodexToolChoice, CodexC!Absent, Absent
<1>11. /\ body.forwarded.tools = CodexC!ToolsOf(s)
       /\ \A q \in CodexC!Forwarded \ {"tools"} : body.forwarded[q] = s[q]
  <2> HIDE DEF fields, picture
  <2> QED BY <1>2, <1>4, <1>6, <1>7
<1>12. body.tool_choice =
         (IF CodexC!ToolChoiceOf(s) \notin {Absent, "null"} THEN CodexC!ToolChoiceOf(s)
          ELSE IF body.image_generation THEN "image" ELSE Absent)
  <2> HIDE DEF fields, picture
  <2> QED BY <1>2, <1>8, <1>10
<1> QED
  <2> HIDE DEF fields, picture
  <2> QED BY <1>1, <1>2, <1>5, <1>8, <1>9, <1>11, <1>12

\* Codex's chat handler takes the others only at their neutral values, or not at all.
LEMMA CodexIneffective ==
  ASSUME NEW s, Known("chat", s), CodexC!Checks(s),
         NEW p \in DOMAIN s \ (ChatEffective \cup CodexC!Forwarded), s[p] # Unset(p)
  PROVE  p \in DOMAIN Neutral /\ s[p] = Neutral[p]
<1>1. /\ s.n \in {Malformed, "one", Absent}
      /\ s.audio \in Given \cup {Absent} /\ s.web_search_options \in Given \cup {Absent}
      /\ s.seed \in Given \cup {Absent} /\ s.prediction \in Given \cup {Absent}
      /\ s.presence_penalty \in {Malformed, "zero", "given", Absent}
      /\ s.frequency_penalty \in {Malformed, "zero", "given", Absent}
      /\ s.logprobs \in Booleans \cup {Absent}
      /\ s.logit_bias \in {Malformed, "empty", "given", Absent}
      /\ s.model \in {"without_temperature", Absent}
      /\ s.top_logprobs \in Given \cup {Absent}
  BY ZenonT(60) DEF ChatShapes, CommonShapes, Joined, Known, ShapesOf, Unset, LimitParameters
<1>2. p \in {"n", "audio", "web_search_options", "seed", "prediction", "presence_penalty",
             "frequency_penalty", "logprobs", "logit_bias", "model", "top_logprobs"}
  BY DEF ChatShapes, CommonShapes, Joined, Known, ShapesOf, ChatEffective, CodexC!Forwarded
<1>3. s[p] # Absent
  BY <1>2 DEF Unset, LimitParameters
<1>4. /\ s.n # Malformed
      /\ s.presence_penalty \notin {Malformed, "given"}
      /\ s.frequency_penalty \notin {Malformed, "given"}
      /\ s.logprobs \notin {Malformed, "true"} /\ s.logit_bias \notin {Malformed, "given"}
      /\ \A q \in {"audio", "web_search_options", "seed", "prediction", "top_logprobs"} :
            s[q] \notin Given
  BY DEF CodexC!Checks, CodexC!Form, CodexC!Supported, CodexC!N, CodexC!Modalities,
         CodexC!WebSearchOptions, CodexC!Seed, CodexC!Penalty, CodexC!Prediction,
         CodexC!Logprobs, CodexC!LogitBias, CodexC!Malformed, Malformed, Given
<1> QED
  BY <1>1, <1>2, <1>3, <1>4 DEF Neutral, Booleans

\* A parameter Codex's chat handler takes counts for Codex, but for what is put aside.
LEMMA CodexChatEffect ==
  ASSUME BodyInv, api = "chat", NEW p \in Set(settings), ~IsNeutral(p), ~HasTwin(p),
         Accepted(answers.codex), Accepted(Without(p).codex), ~AsideForCodex(p)
  PROVE  BodyOf(Without(p).codex) # CodexBody
<1> DEFINE s == settings
           t == [settings EXCEPT ![p] = Unset(p)]
           body == CodexBody
           less == BodyOf(Without(p).codex)
<1>1. /\ Known("chat", s) /\ p \in DOMAIN s /\ s[p] # Unset(p)
  BY DEF BodyInv, Set
<1>2. Known("chat", t)
  BY <1>1, ChatKnown
<1>3. /\ t[p] = Unset(p)
      /\ \A q \in DOMAIN s : q # p => t[q] = s[q]
  BY <1>1, Lacking
<1>4. /\ CodexC!Checks(s)
      /\ \A q \in CodexC!Forwarded \ {"tools"} : body.forwarded[q] = s[q]
      /\ body.forwarded.tools = CodexC!ToolsOf(s)
      /\ body.max_output_tokens = (IF s.max_completion_tokens # NoLimit
                                   THEN s.max_completion_tokens ELSE s.max_tokens)
      /\ body.stop = (IF s.stop = "null" THEN Absent ELSE s.stop)
      /\ body.obfuscation = (s.stream_options = "obfuscation")
      /\ body.store = (IF s.store = Absent THEN DefaultStore ELSE s.store)
      /\ body.image_generation \in BOOLEAN
      /\ s.modalities = "image" => body.image_generation
      /\ body.tool_choice =
           (IF CodexC!ToolChoiceOf(s) \notin {Absent, "null"} THEN CodexC!ToolChoiceOf(s)
            ELSE IF body.image_generation THEN "image" ELSE Absent)
      /\ body.reply.stream = (s.stream = "true")
      /\ body.reply.usage = (s.stream_options = "usage")
  BY <1>1, CodexChatBody DEF BodyInv, Answers, CodexBody
<1>5. /\ \A q \in CodexC!Forwarded \ {"tools"} : less.forwarded[q] = t[q]
      /\ less.forwarded.tools = CodexC!ToolsOf(t)
      /\ less.max_output_tokens = (IF t.max_completion_tokens # NoLimit
                                   THEN t.max_completion_tokens ELSE t.max_tokens)
      /\ less.stop = (IF t.stop = "null" THEN Absent ELSE t.stop)
      /\ less.obfuscation = (t.stream_options = "obfuscation")
      /\ less.store = (IF t.store = Absent THEN DefaultStore ELSE t.store)
      /\ less.image_generation \in BOOLEAN
      /\ less.tool_choice =
           (IF CodexC!ToolChoiceOf(t) \notin {Absent, "null"} THEN CodexC!ToolChoiceOf(t)
            ELSE IF less.image_generation THEN "image" ELSE Absent)
      /\ less.reply.stream = (t.stream = "true")
      /\ less.reply.usage = (t.stream_options = "usage")
  <2>1. Accepted(ChatAnswers(items, t).codex) /\ less = BodyOf(ChatAnswers(items, t).codex)
    BY DEF Without, Answers
  <2> HIDE DEF t, less
  <2> QED BY <1>2, <2>1, CodexChatBody
<1> SUFFICES ASSUME less = body PROVE FALSE
  OBVIOUS
<1>6. p \in ChatEffective \cup CodexC!Forwarded
  BY <1>1, <1>4, CodexIneffective DEF IsNeutral
<1>7. ChatEffective \subseteq DOMAIN s
  BY <1>1 DEF ChatShapes, CommonShapes, Joined, Known, ShapesOf, ChatEffective
<1>8. ASSUME NEW q, NEW r, {q, r} \in Twins, p = q, r \in DOMAIN s PROVE s[r] = Unset(r)
  <2>1. {q, r} \subseteq Set(s) => HasTwin(p)
    BY <1>8 DEF HasTwin
  <2> QED BY <2>1, <1>8, <1>1 DEF Set
<1>20. /\ s.stream \in Booleans \cup {Absent} /\ s.store \in Booleans \cup {Absent}
       /\ s.stream_options \in {Malformed, "usage", "obfuscation", Absent}
       /\ s.modalities \in {Malformed, "text", "image", "audio", Absent}
       /\ s.stop \in {Malformed, "null", "given", Absent}
       /\ s.functions \in {Malformed, "functions", Absent}
       /\ s.function_call \in {Malformed, "null", "auto", "none", "named", Absent}
  BY <1>1, ChatValues
<1>22. /\ s.store # Malformed /\ s.stream # Malformed
       /\ s.stream_options # Malformed
       /\ s.modalities \notin {Malformed, "audio"}
       /\ s.functions # Malformed /\ s.function_call # Malformed
  BY <1>4 DEF CodexC!Checks, CodexC!Form, CodexC!Supported, CodexC!Store, CodexC!Stream,
              CodexC!StreamOptions, CodexC!Modalities,
              CodexC!Functions, CodexC!FunctionCall, CodexC!Malformed, CodexC!Absent,
              Malformed, Absent
<1>24. p = "store" => s[p] # DefaultStore
  BY DEF AsideForCodex
<1>25. p \in {"modalities", "tool_choice"} /\ s[p] = "image" => less.image_generation = FALSE
  <2> HIDE DEF less
  <2> QED BY <1>5 DEF AsideForCodex, less
<1>26. /\ p = "stream" => s.stream # "false"
       /\ p = "modalities" => s.modalities # "text"
       /\ p = "stop" => s.stop # "null"
       /\ p = "function_call" => s.function_call # "null"
       /\ p = "tool_choice" => s.tool_choice # "null"
  BY DEF IsNeutral, Neutral
<1> HIDE DEF s, t, body, less
<1>30. CASE p = "stream"
  BY <1>30, <1>1, <1>3, <1>4, <1>5, <1>20, <1>22, <1>26 DEF Unset, LimitParameters, Booleans
<1>31. CASE p \in CodexC!Forwarded \ {"tools"}
  BY <1>31, <1>1, <1>3, <1>4, <1>5
<1>32. CASE p \in {"store", "stop"}
  BY <1>32, <1>1, <1>3, <1>4, <1>5, <1>24, <1>26 DEF Unset, LimitParameters
<1>33. CASE p \in {"max_tokens", "max_completion_tokens"}
  <2>2. s[p] # NoLimit /\ t[p] = NoLimit
    BY <1>33, <1>1, <1>3 DEF Unset, LimitParameters
  <2>3. p = "max_tokens" => s.max_completion_tokens = NoLimit
    BY <1>7, <1>8 DEF Twins, Unset, LimitParameters, ChatEffective
  <2>4. p = "max_completion_tokens" => s.max_tokens = NoLimit
    BY <1>7, <1>8 DEF Twins, Unset, LimitParameters, ChatEffective
  <2>5. body.max_output_tokens = s[p]
    BY <1>33, <2>2, <2>3, <2>4, <1>4
  <2>6. less.max_output_tokens = NoLimit
    BY <1>33, <1>3, <1>7, <2>2, <2>3, <2>4, <1>5 DEF ChatEffective
  <2> QED BY <2>2, <2>5, <2>6
<1>34. CASE p = "stream_options"
  BY <1>34, <1>1, <1>3, <1>4, <1>5, <1>20, <1>22 DEF Unset, LimitParameters, Absent
<1>36. CASE p = "modalities"
  BY <1>36, <1>1, <1>4, <1>20, <1>22, <1>25, <1>26 DEF Unset, LimitParameters
<1>37. CASE p \in {"tools", "functions"}
  <2>1. /\ p = "tools" => s.functions = Absent
        /\ p = "functions" => s.tools = Absent
    BY <1>7, <1>8 DEF Twins, Unset, LimitParameters, ChatEffective
  <2>2. t.tools = Absent /\ t.functions = Absent
    BY <1>37, <1>3, <1>7, <2>1 DEF Unset, LimitParameters, ChatEffective
  <2>3. s[p] # Absent
    BY <1>37, <1>1 DEF Unset, LimitParameters
  <2>4. less.forwarded.tools = Absent
    BY <2>2, <1>5 DEF CodexC!ToolsOf, Absent, CodexC!Absent
  <2>5. body.forwarded.tools # Absent
    BY <1>37, <2>1, <2>3, <1>4 DEF CodexC!ToolsOf, Absent, CodexC!Absent
  <2> QED BY <2>4, <2>5
<1>38. CASE p \in {"tool_choice", "function_call"}
  <2>1. /\ p = "tool_choice" => s.function_call = Absent
        /\ p = "function_call" => s.tool_choice = Absent
    BY <1>7, <1>8 DEF Twins, Unset, LimitParameters, ChatEffective
  <2>2. t.tool_choice = Absent /\ t.function_call = Absent
    BY <1>38, <1>3, <1>7, <2>1 DEF Unset, LimitParameters, ChatEffective
  <2>3. s[p] # Absent
    BY <1>38, <1>1 DEF Unset, LimitParameters
  <2>4. CodexC!ToolChoiceOf(t) = Absent
    BY <2>2 DEF CodexC!ToolChoiceOf, Absent, CodexC!Absent
  <2>5. /\ CodexC!ToolChoiceOf(s) \notin {Absent, "null"}
        /\ p = "function_call" => CodexC!ToolChoiceOf(s) # "image"
        /\ p = "tool_choice" => CodexC!ToolChoiceOf(s) = s[p]
    BY <1>38, <2>1, <2>3, <1>20, <1>22, <1>26
       DEF CodexC!ToolChoiceOf, Absent, CodexC!Absent, Malformed
  <2>6. body.tool_choice = CodexC!ToolChoiceOf(s)
    BY <2>5, <1>4
  <2>7. less.tool_choice = (IF less.image_generation THEN "image" ELSE Absent)
    BY <2>4, <1>5
  <2> QED BY <1>25, <1>38, <2>5, <2>6, <2>7
<1> QED
  BY <1>6, <1>30, <1>31, <1>32, <1>33, <1>34, <1>36, <1>37, <1>38
     DEF ChatEffective, CodexC!Forwarded

(***************************************************************************)
(* The Responses API.                                                      *)
(***************************************************************************)
\* The parameters a body for Claude may depend on.
ResponsesEffective ==
    {"stream", "store", "temperature", "top_p", "max_output_tokens", "effort", "tools",
     "tool_choice", "instructions", "messages"}

\* The others Claude's handler takes only at their neutral values, or not at all.
LEMMA ResponsesIneffective ==
  ASSUME NEW list, NEW s, Known("responses", s), ClaudeR!Checks(list, s),
         NEW p \in DOMAIN s \ ResponsesEffective, s[p] # Unset(p)
  PROVE  p \in DOMAIN Neutral /\ s[p] = Neutral[p]
<1> DEFINE refused == {"summary", "max_tool_calls", "context_management", "prompt",
                       "previous_response_id", "top_logprobs", "service_tier", "verbosity",
                       "prompt_cache_key", "prompt_cache_retention", "safety_identifier",
                       "user", "metadata"}
<1>1. /\ s.background \in Booleans \cup {Absent}
      /\ s.stream_options \in {Malformed, "empty", "obfuscation", Absent}
      /\ s.text_format \in {Malformed, "text", "json_object", "json_schema", Absent}
      /\ s.truncation \in {Malformed, "auto", "disabled", Absent}
      /\ s.include \in {Malformed, "empty", "given", Absent}
      /\ s.model \in {"without_temperature", Absent}
      /\ s.parallel_tool_calls \in Booleans \cup {Absent}
      /\ s.conversation \in Given \cup {Absent}
  BY ZenonT(60) DEF ResponsesShapes, CommonShapes, Joined, Known, ShapesOf, Unset, LimitParameters
<1>2. \A q \in refused : s[q] \in Given \cup {Absent}
  BY ZenonT(60) DEF ResponsesShapes, CommonShapes, Joined, Known, ShapesOf, Unset, LimitParameters
<1>3. p \in refused \cup {"background", "stream_options", "text_format", "truncation",
                          "include", "model", "parallel_tool_calls", "conversation"}
  BY DEF ResponsesShapes, CommonShapes, Joined, Known, ShapesOf, ResponsesEffective
<1>4. s[p] # Absent
  BY <1>3 DEF Unset, LimitParameters
<1>5. /\ s.background \notin {Malformed, "true"}
      /\ s.stream_options \notin {Malformed, "obfuscation"}
      /\ s.text_format \notin {Malformed, "json_object", "json_schema"}
      /\ s.truncation \notin {Malformed, "auto"} /\ s.include \notin {Malformed, "given"}
      /\ s.parallel_tool_calls \notin {Malformed, "false"}
  BY DEF ClaudeR!Checks, ClaudeR!Form, ClaudeR!Supported, ClaudeR!Background,
         ClaudeR!StreamOptions, ClaudeR!TextFormat, ClaudeR!UnsupportedTextFormat,
         ClaudeR!Truncation, ClaudeR!Include, ClaudeR!ParallelToolCalls, ClaudeR!Malformed,
         ClaudeR!Absent, Malformed, Absent
<1>6. \A q \in refused : s[q] \notin Given
  BY DEF ClaudeR!Checks, ClaudeR!Form, ClaudeR!Supported, ClaudeR!UnsupportedMetadata,
         ClaudeR!UnsupportedTextFormat, ClaudeR!UnsupportedReasoning, ClaudeR!TopLogprobs,
         ClaudeR!MaxToolCalls, ClaudeR!ServiceTier, ClaudeR!SafetyIdentifier, ClaudeR!User,
         ClaudeR!PromptCache, ClaudeR!PreviousResponseId, ClaudeR!ContextManagement,
         ClaudeR!Prompt, ClaudeR!Malformed, Malformed, Given
<1>7. s.conversation \notin Given
  BY <1>6 DEF ClaudeR!Checks, ClaudeR!Form, ClaudeR!Conversation, ClaudeR!Malformed, Malformed,
              Given
<1>8. p \notin refused \cup {"conversation"}
  BY <1>1, <1>2, <1>4, <1>6, <1>7
<1> HIDE DEF refused
<1> QED
  BY <1>1, <1>3, <1>4, <1>5, <1>8 DEF Neutral, Booleans

\* A nonempty set of naturals has a least member, which Min chooses.
LEMMA MinIsMember ==
  ASSUME NEW S, S \subseteq Nat, S # {}
  PROVE  Min(S) \in S /\ \A x \in S : Min(S) <= x
<1> DEFINE R == OpToRel(<, Nat)
<1>1. PICK x \in S : \A y \in S : ~ (<<y, x>> \in R)
  BY NatLessThanWellFounded, WFMin, Zenon
<1>2. ASSUME NEW y \in S, y < x PROVE FALSE
  <2>1. <<y, x>> \in R BY <1>2 DEF OpToRel
  <2> QED BY <2>1, <1>1
<1>3. \A y \in S : x <= y
  <2> TAKE y \in S
  <2>1. ~(y < x) BY <1>2
  <2> QED BY <2>1
<1> QED BY <1>3 DEF Min

\* The place of the first system item that speaks is no negative one.
LEMMA FirstPlace ==
  ASSUME NEW list
  PROVE  ClaudeR!SelectInSeq(list, ClaudeR!SystemSpeaks) # -1
<1> DEFINE places == {i \in 1..Len(list) : ClaudeR!SystemSpeaks(list[i])}
<1>1. places \subseteq Nat
  OBVIOUS
<1>2. CASE places = {}
  BY <1>2 DEF ClaudeR!SelectInSeq
<1>3. CASE places # {}
  <2>1. ClaudeR!Min(places) = Min(places)
    BY DEF ClaudeR!Min, Min
  <2>2. Min(places) \in Nat
    <3> HIDE DEF places
    <3> QED BY <1>1, <1>3, MinIsMember
  <2> QED BY <1>3, <2>1, <2>2 DEF ClaudeR!SelectInSeq
<1> QED BY <1>2, <1>3

(***************************************************************************)
(* What a body for Claude holds of the parameters.                         *)
(***************************************************************************)
LEMMA ClaudeResponsesBody ==
  ASSUME NEW input, NEW s, Accepted(ResponsesAnswers(input, s).claude),
         NEW body, body = BodyOf(ResponsesAnswers(input, s).claude)
  PROVE  /\ ClaudeR!Checks(ClaudeR!InputOf(input, s), s)
         /\ body.max_tokens = ClaudeR!RaisedLimit(s.effort, ClaudeR!Limit(s))
         /\ body.thinking = ClaudeR!Enabled(s.effort)
         /\ body.tool_choice = ClaudeR!ClaudeToolChoice(s.tool_choice)
         /\ body.temperature = ClaudeR!ForwardedTemperature(s.model, s.temperature)
         /\ body.top_p = s.top_p
         /\ body.tools = ClaudeR!ClaudeTools(s.tools)
         /\ body.system = ClaudeR!SystemOf(ClaudeR!InputOf(input, s), s)
         /\ body.reply.stream = (s.stream = "true")
<1> DEFINE given == ClaudeR!InputOf(input, s)
<1>1. /\ ClaudeR!Checks(given, s)
      /\ body = ClaudeR!ResponsesToClaude(given, s)
  <2> HIDE DEF given
  <2> QED BY DEF ResponsesAnswers, Accepted, Refused, BodyOf, ClaudeR!Answer, ClaudeR!Refused,
                 ClaudeR!Sent, given
<1> HIDE DEF given
<1>2. /\ body.max_tokens = ClaudeR!RaisedLimit(s.effort, ClaudeR!Limit(s))
      /\ body.thinking = ClaudeR!Enabled(s.effort)
      /\ body.tool_choice = ClaudeR!ClaudeToolChoice(s.tool_choice)
      /\ body.temperature = ClaudeR!ForwardedTemperature(s.model, s.temperature)
      /\ body.top_p = s.top_p
      /\ body.tools = ClaudeR!ClaudeTools(s.tools)
      /\ body.system = ClaudeR!SystemOf(given, s)
      /\ body.reply.stream = (s.stream = "true")
  BY <1>1 DEF ClaudeR!ResponsesToClaude
<1> QED BY <1>1, <1>2 DEF given

\* A parameter Claude's Responses handler takes counts for Claude, but for what is put
\* aside.
LEMMA ClaudeResponsesEffect ==
  ASSUME BodyInv, api = "responses", NEW p \in Set(settings), ~IsNeutral(p),
         Accepted(answers.claude), Accepted(Without(p).claude), ~AsideForClaude(p)
  PROVE  BodyOf(Without(p).claude) # ClaudeBody
<1> DEFINE s == settings
           t == [settings EXCEPT ![p] = Unset(p)]
           body == ClaudeBody
           less == BodyOf(Without(p).claude)
           list == ClaudeR!InputOf(items, s)
<1>1. /\ Known("responses", s) /\ p \in DOMAIN s /\ s[p] # Unset(p)
  BY DEF BodyInv, Set
<1>2. /\ t[p] = Unset(p)
      /\ \A q \in DOMAIN s : q # p => t[q] = s[q]
  BY <1>1, Lacking
<1>3. /\ ClaudeR!Checks(list, s)
      /\ body.max_tokens = ClaudeR!RaisedLimit(s.effort, ClaudeR!Limit(s))
      /\ body.thinking = ClaudeR!Enabled(s.effort)
      /\ body.tool_choice = ClaudeR!ClaudeToolChoice(s.tool_choice)
      /\ body.temperature = ClaudeR!ForwardedTemperature(s.model, s.temperature)
      /\ body.top_p = s.top_p
      /\ body.tools = ClaudeR!ClaudeTools(s.tools)
      /\ body.system = ClaudeR!SystemOf(list, s)
      /\ body.reply.stream = (s.stream = "true")
  BY ClaudeResponsesBody DEF BodyInv, Answers, ClaudeBody
<1>4. /\ less.max_tokens = ClaudeR!RaisedLimit(t.effort, ClaudeR!Limit(t))
      /\ less.thinking = ClaudeR!Enabled(t.effort)
      /\ less.tool_choice = ClaudeR!ClaudeToolChoice(t.tool_choice)
      /\ less.temperature = ClaudeR!ForwardedTemperature(t.model, t.temperature)
      /\ less.top_p = t.top_p
      /\ less.tools = ClaudeR!ClaudeTools(t.tools)
      /\ less.system = ClaudeR!SystemOf(ClaudeR!InputOf(items, t), t)
      /\ less.reply.stream = (t.stream = "true")
  <2>1. /\ Accepted(ResponsesAnswers(items, t).claude)
        /\ less = BodyOf(ResponsesAnswers(items, t).claude)
    BY DEF Without, Answers
  <2> HIDE DEF t, less
  <2> QED BY <2>1, ClaudeResponsesBody
<1> SUFFICES ASSUME less = body PROVE FALSE
  OBVIOUS
<1>5. p \in ResponsesEffective
  <2> HIDE DEF list
  <2> QED BY <1>1, <1>3, ResponsesIneffective DEF IsNeutral
<1>6. ResponsesEffective \cup {"model"} \subseteq DOMAIN s
  BY <1>1 DEF ResponsesShapes, CommonShapes, Joined, Known, ShapesOf, ResponsesEffective
<1>7. /\ s.stream \in Booleans \cup {Absent} /\ s.store \in Booleans \cup {Absent}
      /\ s.temperature \in {Malformed, "up_to_one", "above_one", Absent}
      /\ s.max_output_tokens \in Limits \cup {NoLimit}
      /\ s.effort \in {Malformed, Absent} \cup Efforts
      /\ s.tools \in {Malformed, "functions", "strict", "image", "custom", "hosted", Absent}
      /\ s.tool_choice \in {Malformed, "null", "auto", "none", "required", "function", "image",
                            "allowed", "custom", "hosted", Absent}
  BY <1>1, ResponsesValues
<1>8. /\ s.stream # Malformed /\ s.effort # Malformed
      /\ s.temperature \notin {Malformed, "above_one"}
      /\ s.tools \notin {Malformed, "image", "custom", "hosted"}
      /\ s.tool_choice \notin {Malformed, "image", "allowed", "custom", "hosted"}
  <2> HIDE DEF list
  <2> QED BY <1>3
        DEF ClaudeR!Checks, ClaudeR!Form, ClaudeR!Supported, ClaudeR!Stream,
            ClaudeR!Reasoning, ClaudeR!Temperature, ClaudeR!Tools, ClaudeR!ToolChoice,
            ClaudeR!UnsupportedTool, ClaudeR!Malformed, Malformed
<1>9. /\ p = "temperature" => s.model # "without_temperature"
      /\ p \notin {"messages", "store"}
  BY DEF AsideForClaude, LimitParameters
<1>10. p = "max_output_tokens" =>
         /\ s[p] # 8192
         /\ ~(ClaudeR!Budget(s.effort) > 0
                /\ body.max_tokens = ClaudeR!Budget(s.effort) + 4096)
  BY DEF AsideForClaude, LimitAside, BudgetAsked, LimitParameters
<1>11. /\ p = "stream" => s.stream # "false"
       /\ p = "effort" => s.effort # "none"
       /\ p = "tool_choice" => s.tool_choice # "null"
       /\ p = "instructions" => s.instructions # "empty"
  BY DEF IsNeutral, Neutral
<1>12. p # "messages" => ClaudeR!InputOf(items, t) = list
  BY <1>2, <1>6 DEF ClaudeR!InputOf, ResponsesEffective
<1> HIDE DEF s, t, body, less, list
<1>20. CASE p = "stream"
  BY <1>20, <1>1, <1>2, <1>3, <1>4, <1>7, <1>8, <1>11 DEF Unset, LimitParameters, Booleans
<1>21. CASE p = "temperature"
  BY <1>21, <1>1, <1>2, <1>3, <1>4, <1>6, <1>9
     DEF Unset, LimitParameters, ClaudeR!ForwardedTemperature
<1>22. CASE p = "top_p"
  BY <1>22, <1>1, <1>2, <1>3, <1>4
<1>23. CASE p = "max_output_tokens"
  <2>1. s[p] # NoLimit /\ t[p] = NoLimit
    BY <1>23, <1>1, <1>2 DEF Unset, LimitParameters
  <2>2. ClaudeR!Limit(s) = s[p] /\ ClaudeR!Limit(t) = 8192
    BY <1>23, <2>1 DEF ClaudeR!Limit, ClaudeR!NoLimit, NoLimit
  <2>3. s[p] \in Int
    <3>1. s.max_output_tokens \in Limits \cup {NoLimit}
      BY <1>7
    <3>2. Limits \cup {NoLimit} \subseteq Int
      BY LimitsAssumption DEF NoLimit
    <3>3. s.max_output_tokens \in Int
      BY <3>1, <3>2
    <3> QED BY <1>23, <3>3
  <2>4. t.effort = s.effort
    BY <1>23, <1>2, <1>6 DEF ResponsesEffective
  <2>5. ClaudeR!Budget(s.effort) \in Nat
    BY DEF ClaudeR!Budget
  <2> QED BY <1>23, <1>3, <1>4, <1>10, <2>2, <2>3, <2>4, <2>5 DEF ClaudeR!RaisedLimit
<1>24. CASE p = "effort"
  BY <1>24, <1>1, <1>2, <1>3, <1>4, <1>7, <1>8, <1>11
     DEF Unset, LimitParameters, Efforts, Absent, ClaudeR!Enabled, ClaudeR!Budget,
         ClaudeR!NoThinking, ClaudeR!Absent
<1>25. CASE p = "tools"
  BY <1>25, <1>1, <1>2, <1>3, <1>4, <1>7, <1>8
     DEF Unset, LimitParameters, ClaudeR!ClaudeTools, Absent, ClaudeR!Absent
<1>26. CASE p = "tool_choice"
  BY <1>26, <1>1, <1>2, <1>3, <1>4, <1>7, <1>8, <1>11
     DEF Unset, LimitParameters, ClaudeR!ClaudeToolChoice, Absent, ClaudeR!Absent
<1>27. CASE p = "instructions"
  <2> DEFINE first == ClaudeR!SelectInSeq(list, ClaudeR!SystemSpeaks)
  <2>1. ClaudeR!Instructed(s) /\ ~ClaudeR!Instructed(t)
    BY <1>27, <1>1, <1>2, <1>11
       DEF Unset, LimitParameters, ClaudeR!Instructed, ClaudeR!Absent, Absent
  <2>2. body.system = <<ClaudeR!InstructionsText>>
    BY <1>3, <2>1 DEF ClaudeR!SystemOf
  <2>3. less.system = (IF first # 0 THEN <<ClaudeR!Text(first)>> ELSE <<>>)
    BY <1>4, <1>12, <1>27, <2>1 DEF ClaudeR!SystemOf
  <2>4. first # -1
    BY FirstPlace
  <2> HIDE DEF first
  <2>5. ClaudeR!Text(first) # ClaudeR!InstructionsText
    BY <2>4 DEF ClaudeR!InstructionsText, ClaudeR!Text, ClaudeR!Block
  <2> QED BY <2>2, <2>3, <2>5
<1> QED
  BY <1>5, <1>9, <1>20, <1>21, <1>22, <1>23, <1>24, <1>25, <1>26, <1>27
     DEF ResponsesEffective

(***************************************************************************)
(* What a body for Codex holds of the parameters.                          *)
(***************************************************************************)
LEMMA CodexResponsesBody ==
  ASSUME NEW input, NEW s, Accepted(ResponsesAnswers(input, s).codex),
         NEW body, body = BodyOf(ResponsesAnswers(input, s).codex)
  PROVE  /\ CodexR!Stream(s)
         /\ \A q \in CodexR!Unchanged : body.forwarded[q] = CodexR!Kept(q, s[q])
         /\ body.store = (IF s.store = Absent THEN DefaultStore ELSE s.store)
         /\ body.reply.stream = (s.stream = "true")
<1> DEFINE given == CodexR!InputOf(input, s)
<1>1. /\ CodexR!Checks(given, s)
      /\ body = CodexR!Normalized(given, s)
  <2> HIDE DEF given
  <2> QED BY DEF ResponsesAnswers, Accepted, Refused, BodyOf, CodexR!Answer, CodexR!Refused,
                 CodexR!Sent, given
<1> HIDE DEF given
<1> QED BY <1>1 DEF CodexR!Normalized, CodexR!Checks, CodexR!Absent, Absent

\* A parameter Codex's Responses handler takes counts for Codex, but for a store that
\* is configured.
LEMMA CodexResponsesEffect ==
  ASSUME BodyInv, api = "responses", NEW p \in Set(settings), ~IsNeutral(p),
         Accepted(answers.codex), Accepted(Without(p).codex), ~AsideForCodex(p)
  PROVE  BodyOf(Without(p).codex) # CodexBody
<1> DEFINE s == settings
           t == [settings EXCEPT ![p] = Unset(p)]
           body == CodexBody
           less == BodyOf(Without(p).codex)
<1>1. /\ Known("responses", s) /\ p \in DOMAIN s /\ s[p] # Unset(p)
  BY DEF BodyInv, Set
<1>2. t[p] = Unset(p)
  BY <1>1
<1>3. /\ CodexR!Stream(s)
      /\ \A q \in CodexR!Unchanged : body.forwarded[q] = CodexR!Kept(q, s[q])
      /\ body.store = (IF s.store = Absent THEN DefaultStore ELSE s.store)
      /\ body.reply.stream = (s.stream = "true")
  BY CodexResponsesBody DEF BodyInv, Answers, CodexBody
<1>4. /\ \A q \in CodexR!Unchanged : less.forwarded[q] = CodexR!Kept(q, t[q])
      /\ less.store = (IF t.store = Absent THEN DefaultStore ELSE t.store)
      /\ less.reply.stream = (t.stream = "true")
  <2>1. /\ Accepted(ResponsesAnswers(items, t).codex)
        /\ less = BodyOf(ResponsesAnswers(items, t).codex)
    BY DEF Without, Answers
  <2> HIDE DEF t, less
  <2> QED BY <2>1, CodexResponsesBody
<1> SUFFICES ASSUME less = body PROVE FALSE
  OBVIOUS
<1>5. p \in CodexR!Unchanged \cup {"stream", "store", "model"}
  BY <1>1 DEF ResponsesShapes, CommonShapes, Joined, Known, ShapesOf, CodexR!Unchanged
<1>6. s.stream \in Booleans \cup {Absent} /\ s.model \in {"without_temperature", Absent}
  BY <1>1, ResponsesValues
<1>7. /\ p = "store" => s[p] # DefaultStore
      /\ p = "stream" => s.stream # "false"
      /\ p = "model" => s.model # "without_temperature"
      /\ p = "instructions" => s.instructions # "empty"
  BY DEF AsideForCodex, IsNeutral, Neutral
<1> HIDE DEF s, t, body, less
<1>8. CASE p \in CodexR!Unchanged
  BY <1>8, <1>1, <1>2, <1>3, <1>4, <1>7
     DEF CodexR!Kept, CodexR!Absent, Absent, Unset, LimitParameters
<1>9. CASE p = "stream"
  BY <1>9, <1>1, <1>2, <1>3, <1>4, <1>6, <1>7
     DEF Unset, LimitParameters, Booleans, CodexR!Stream, CodexR!Form, CodexR!Malformed,
         Malformed
<1>10. CASE p = "store"
  BY <1>10, <1>1, <1>2, <1>3, <1>4, <1>7 DEF Unset, LimitParameters
<1>11. CASE p = "model"
  BY <1>11, <1>1, <1>6, <1>7 DEF Unset, LimitParameters
<1> QED BY <1>5, <1>8, <1>9, <1>10, <1>11

(***************************************************************************)
(* Whatever the client says, and however many parameters it gives, of      *)
(* whichever limits: a parameter a handler accepts changes the body it     *)
(* sends, but for the values and cases the model names.                    *)
(***************************************************************************)
THEOREM SettingsAlwaysTakeEffect == Spec => []SettingsTakeEffect
<1>1. BodyInv => SettingsTakeEffect
  <2> SUFFICES ASSUME BodyInv, NEW p \in Set(settings), ~IsNeutral(p), ~HasTwin(p)
               PROVE  /\ Accepted(answers.claude) /\ Accepted(Without(p).claude)
                            /\ ~AsideForClaude(p) =>
                          BodyOf(Without(p).claude) # ClaudeBody
                      /\ Accepted(answers.codex) /\ Accepted(Without(p).codex)
                            /\ ~AsideForCodex(p) =>
                          BodyOf(Without(p).codex) # CodexBody
    BY DEF SettingsTakeEffect
  <2>1. CASE api = "chat"
    BY <2>1, ClaudeChatEffect, CodexChatEffect
  <2>2. CASE api = "responses"
    BY <2>2, ClaudeResponsesEffect, CodexResponsesEffect
  <2> QED BY <2>1, <2>2 DEF BodyInv
<1> QED BY <1>1, BodyInvariant, PTL

(***************************************************************************)
(* Recursive functions.  An induction up to a bound is over the set of the *)
(* numbers for which what is to be shown holds.                            *)
(***************************************************************************)
LEMMA Induction ==
  ASSUME NEW n \in Nat, NEW S, 0 \in S, \A k \in 1..n : k - 1 \in S => k \in S
  PROVE  0..n \subseteq S
<1> DEFINE left == (0..n) \ S
<1>1. ASSUME left # {} PROVE FALSE
  <2>1. left \subseteq Nat
    OBVIOUS
  <2>2. PICK x \in left : \A y \in left : ~ (<<y, x>> \in OpToRel(<, Nat))
    BY <1>1, <2>1, NatLessThanWellFounded, WFMin, Zenon
  <2>3. x \in 1..n /\ x - 1 \in 0..n
    OBVIOUS
  <2>4. x - 1 \notin left
    <3>1. <<x - 1, x>> \in OpToRel(<, Nat)
      BY <2>3 DEF OpToRel
    <3> QED BY <2>2, <3>1
  <2> QED BY <2>3, <2>4
<1> QED BY <1>1

\* upTo is the recursive function of InOrder.
Ordered(upTo, places, n) ==
    upTo = [k \in 0..n |->
               IF k = 0 THEN <<>>
               ELSE IF k \in places THEN Append(upTo[k - 1], k) ELSE upTo[k - 1]]

\* There is such a function.
LEMMA OrderedExists ==
  ASSUME NEW places, NEW n \in Nat
  PROVE  \E upTo : Ordered(upTo, places, n)
<1> DEFINE S == {m \in 0..n : \E upTo : Ordered(upTo, places, m)}
<1>1. 0 \in S
  <2>1. Ordered([k \in 0..0 |-> <<>>], places, 0)
    BY DEF Ordered
  <2> QED BY <2>1
<1>2. ASSUME NEW m \in 1..n, m - 1 \in S PROVE m \in S
  <2>1. PICK f : Ordered(f, places, m - 1)
    BY <1>2
  <2> DEFINE g == [k \in 0..m |->
                      IF k = m THEN IF m \in places THEN Append(f[m - 1], m) ELSE f[m - 1]
                      ELSE f[k]]
             next(k) == IF k = 0 THEN <<>>
                        ELSE IF k \in places THEN Append(g[k - 1], k) ELSE g[k - 1]
  <2>2. ASSUME NEW k \in 0..m PROVE g[k] = next(k)
    <3>1. CASE k = m
      BY <3>1
    <3>2. CASE k # m
      <4>1. k \in 0..(m - 1) /\ g[k] = f[k]
        BY <3>2
      <4>2. f[k] = IF k = 0 THEN <<>>
                   ELSE IF k \in places THEN Append(f[k - 1], k) ELSE f[k - 1]
        BY <2>1, <4>1 DEF Ordered
      <4>3. k # 0 => g[k - 1] = f[k - 1]
        BY <4>1
      <4> QED BY <4>1, <4>2, <4>3
    <3> QED BY <3>1, <3>2
  <2>3. g = [k \in 0..m |-> next(k)]
    <3>1. g = [k \in 0..m |-> g[k]]
      OBVIOUS
    <3> HIDE DEF g, next
    <3> QED BY <2>2, <3>1
  <2>4. Ordered(g, places, m)
    <3> HIDE DEF g
    <3> QED BY <2>3 DEF Ordered
  <2> HIDE DEF g
  <2> QED BY <2>4
<1> HIDE DEF S
<1>3. n \in S
  BY <1>1, <1>2, Induction
<1> QED BY <1>3 DEF S

\* InOrder has places among the given ones and, if there is one, is not empty.
LEMMA InOrderIs ==
  ASSUME NEW places, NEW n \in Nat
  PROVE  /\ InOrder(places, n) \in Seq(places \cap 1..n)
         /\ places \cap 1..n # {} => InOrder(places, n) # <<>>
<1> DEFINE f == CHOOSE upTo : Ordered(upTo, places, n)
<1>1. InOrder(places, n) = f[n]
  BY DEF InOrder, Ordered
<1>2. Ordered(f, places, n)
  BY OrderedExists
<1> HIDE DEF f
<1>3. \A k \in 0..n : f[k] = IF k = 0 THEN <<>>
                             ELSE IF k \in places THEN Append(f[k - 1], k) ELSE f[k - 1]
  BY <1>2 DEF Ordered
<1> DEFINE S == {k \in 0..n : /\ f[k] \in Seq(places \cap 1..n)
                              /\ places \cap 1..k # {} => f[k] # <<>>}
<1>4. 0 \in S
  <2>1. f[0] = <<>>
    BY <1>3
  <2>2. places \cap 1..0 = {} /\ 0 \in 0..n
    OBVIOUS
  <2>3. \A T : <<>> \in Seq(T)
    OBVIOUS
  <2>4. f[0] \in Seq(places \cap 1..n)
    BY <2>1, <2>3
  <2> QED BY <2>2, <2>4
<1>5. ASSUME NEW k \in 1..n, k - 1 \in S PROVE k \in S
  <2>1. f[k] = IF k \in places THEN Append(f[k - 1], k) ELSE f[k - 1]
    BY <1>3
  <2>2. CASE k \in places
    <3>1. f[k - 1] \in Seq(places \cap 1..n) /\ k \in places \cap 1..n
      BY <1>5, <2>2
    <3>2. f[k] = Append(f[k - 1], k)
      BY <2>1, <2>2
    <3>3. f[k] \in Seq(places \cap 1..n) /\ f[k] # <<>>
      <4> DEFINE T == places \cap 1..n
                 before == f[k - 1]
      <4> HIDE DEF T, before
      <4>1. before \in Seq(T) /\ k \in T
        BY <3>1 DEF T, before
      <4>2. Append(before, k) \in Seq(T) /\ Append(before, k) # <<>>
        BY <4>1
      <4> QED BY <3>2, <4>2 DEF T, before
    <3> QED BY <3>3
  <2>3. CASE k \notin places
    <3>1. places \cap 1..k = places \cap 1..(k - 1)
      BY <2>3
    <3> QED BY <1>5, <2>1, <2>3, <3>1
  <2> QED BY <2>2, <2>3
<1> HIDE DEF S
<1>6. n \in S
  BY <1>4, <1>5, Induction
<1> QED BY <1>1, <1>6 DEF S

(***************************************************************************)
(* What normalizeLegacyChatFunctionMessages makes of a message: itself, a  *)
(* tool call of the older form, or a tool result with some call's id.      *)
(***************************************************************************)
\* upTo is the recursive function of Normalized.
Turned(upTo, messages, n) ==
    upTo = [at \in 0..n |->
               IF at = 0 THEN NormalStart ELSE LegacyTurn(upTo[at - 1], messages[at], at)]

\* There is such a function.
LEMMA TurnedExists ==
  ASSUME NEW messages, NEW n \in Nat
  PROVE  \E upTo : Turned(upTo, messages, n)
<1> DEFINE S == {m \in 0..n : \E upTo : Turned(upTo, messages, m)}
<1>1. 0 \in S
  <2>1. Turned([k \in 0..0 |-> NormalStart], messages, 0)
    BY DEF Turned
  <2> QED BY <2>1
<1>2. ASSUME NEW m \in 1..n, m - 1 \in S PROVE m \in S
  <2>1. PICK f : Turned(f, messages, m - 1)
    BY <1>2
  <2> DEFINE g == [k \in 0..m |-> IF k = m THEN LegacyTurn(f[m - 1], messages[m], m)
                                  ELSE f[k]]
             next(k) == IF k = 0 THEN NormalStart ELSE LegacyTurn(g[k - 1], messages[k], k)
  <2>2. ASSUME NEW k \in 0..m PROVE g[k] = next(k)
    <3>1. CASE k = m
      BY <3>1
    <3>2. CASE k # m
      <4>1. k \in 0..(m - 1) /\ g[k] = f[k]
        BY <3>2
      <4>2. f[k] = IF k = 0 THEN NormalStart ELSE LegacyTurn(f[k - 1], messages[k], k)
        BY <2>1, <4>1 DEF Turned
      <4>3. k # 0 => g[k - 1] = f[k - 1]
        BY <4>1
      <4> QED BY <4>1, <4>2, <4>3
    <3> QED BY <3>1, <3>2
  <2>3. g = [k \in 0..m |-> next(k)]
    <3>1. g = [k \in 0..m |-> g[k]]
      OBVIOUS
    <3> HIDE DEF g, next
    <3> QED BY <2>2, <3>1
  <2>4. Turned(g, messages, m)
    <3> HIDE DEF g
    <3> QED BY <2>3 DEF Turned
  <2> HIDE DEF g
  <2> QED BY <2>4
<1> HIDE DEF S
<1>3. n \in S
  BY <1>1, <1>2, Induction
<1> QED BY <1>3 DEF S

\* A turn appends one message.
LEMMA OutGrows ==
  ASSUME NEW messages, NEW at \in Nat \ {0}, NEW state,
         NormalUpTo(state, messages, at - 1), ~state.error,
         NEW o, CameOf(messages[at], at, o),
         NEW later, later.out = Append(state.out, o), later.error = FALSE,
         later = [out |-> later.out, pending |-> later.pending, error |-> later.error]
  PROVE  NormalUpTo(later, messages, at)
<1>1. PICK X : state.out \in Seq(X)
  BY DEF NormalUpTo
<1>2. later.out \in Seq(X \cup {o})
  BY <1>1
<1>3. Len(state.out) = at - 1
  BY DEF NormalUpTo
<1>4. Len(later.out) = at
  BY <1>1, <1>3
<1>5. ASSUME NEW k \in 1..at PROVE CameOf(messages[k], k, later.out[k])
  <2>1. CASE k = at
    BY <1>1, <1>3, <2>1
  <2>2. CASE k # at
    <3>1. k \in 1..(at - 1)
      BY <2>2
    <3>2. later.out[k] = state.out[k]
      BY <1>1, <1>3, <3>1
    <3> QED BY <3>1, <3>2 DEF NormalUpTo
  <2> QED BY <2>1, <2>2
<1> QED BY <1>2, <1>4, <1>5 DEF NormalUpTo

\* So does a turn of the loop, whatever the message.
LEMMA NormalTurn ==
  ASSUME NEW messages, NEW at \in Nat \ {0}, NEW state,
         NormalUpTo(state, messages, at - 1)
  PROVE  NormalUpTo(LegacyTurn(state, messages[at], at), messages, at)
<1> DEFINE m == messages[at]
           later == LegacyTurn(state, m, at)
<1>1. /\ state = [out |-> state.out, pending |-> state.pending, error |-> state.error]
      /\ state.error \in BOOLEAN
  BY DEF NormalUpTo
<1>2. ASSUME NEW s, s = [out |-> s.out, pending |-> s.pending, error |-> s.error],
             s.error = TRUE
      PROVE  NormalUpTo(s, messages, at)
  BY <1>2 DEF NormalUpTo
<1>3. CASE state.error
  <2>1. later = state
    BY <1>3 DEF LegacyTurn
  <2> QED BY <1>1, <1>2, <1>3, <2>1
<1> DEFINE failed == [state EXCEPT !.error = TRUE]
<1>4. NormalUpTo(failed, messages, at)
  <2> DEFINE States == [out : {state.out}, pending : {state.pending}, error : BOOLEAN]
  <2>1. state \in States
    BY <1>1
  <2>2. failed \in States /\ failed.error = TRUE
    BY <2>1
  <2> HIDE DEF failed
  <2>3. failed = [out |-> failed.out, pending |-> failed.pending, error |-> failed.error]
    BY <2>2
  <2> QED BY <1>2, <2>2, <2>3
<1>5. CASE ~state.error /\ LegacyFault(m)
  <2>1. later = failed
    BY <1>5 DEF LegacyTurn
  <2> QED BY <1>4, <2>1
<1>6. CASE ~state.error /\ ~LegacyFault(m) /\ m.role = "assistant"
  <2> DEFINE o == IF Older(m) THEN WithToolCall(m, at) ELSE m
  <2>1. later = FunctionCallTurn(state, m, at)
    BY <1>6 DEF LegacyTurn
  <2>2. later = [state EXCEPT !.out = Append(state.out, o),
                              !.pending = state.pending \o CallRefs(o)]
    BY <1>6, <2>1 DEF FunctionCallTurn, Older
  <2>3. CameOf(m, at, o)
    BY <1>6 DEF CameOf, Older
  <2> HIDE DEF o, later, m
  <2>4. /\ later.out = Append(state.out, o) /\ later.error = FALSE
        /\ later = [out |-> later.out, pending |-> later.pending, error |-> later.error]
    BY <1>1, <1>6, <2>2
  <2>5. NormalUpTo(later, messages, at)
    BY <1>6, <2>3, <2>4, OutGrows DEF m
  <2> QED BY <2>5 DEF later, m
<1>7. CASE ~state.error /\ ~LegacyFault(m) /\ m.role = "function"
  <2> DEFINE index == PendingIndex(state.pending, m.name)
             o == [Message("tool", m.content) EXCEPT !.answers = state.pending[index].callId]
  <2>1. later = FunctionResultTurn(state, m)
    BY <1>7 DEF LegacyTurn
  <2>2. CASE index = 0
    <3>1. later = failed
      BY <2>1, <2>2 DEF FunctionResultTurn
    <3> QED BY <1>4, <3>1
  <2>3. CASE index # 0
    <3>1. later = [state EXCEPT !.out = Append(state.out, o),
                                !.pending = RemoveAt(state.pending, index)]
      BY <2>1, <2>3 DEF FunctionResultTurn
    <3>2. CameOf(m, at, o)
      BY <1>7 DEF CameOf
    <3> HIDE DEF o, later, m, index
    <3>3. /\ later.out = Append(state.out, o) /\ later.error = FALSE
          /\ later = [out |-> later.out, pending |-> later.pending, error |-> later.error]
      BY <1>1, <1>7, <3>1
    <3>4. NormalUpTo(later, messages, at)
      BY <1>7, <3>2, <3>3, OutGrows DEF m
    <3> QED BY <3>4 DEF later, m
  <2> QED BY <2>2, <2>3
<1>8. CASE ~state.error /\ ~LegacyFault(m) /\ m.role \notin {"assistant", "function"}
  <2>1. later = [state EXCEPT !.out = Append(state.out, m)]
    BY <1>8 DEF LegacyTurn
  <2>2. CameOf(m, at, m)
    BY <1>8 DEF CameOf, Older
  <2> HIDE DEF later, m
  <2>3. /\ later.out = Append(state.out, m) /\ later.error = FALSE
        /\ later = [out |-> later.out, pending |-> later.pending, error |-> later.error]
    BY <1>1, <1>8, <2>1
  <2>4. NormalUpTo(later, messages, at)
    BY <1>8, <2>2, <2>3, OutGrows DEF m
  <2> QED BY <2>4 DEF later, m
<1> QED BY <1>1, <1>3, <1>5, <1>6, <1>7, <1>8

\* Normalized holds what came of each message.
LEMMA NormalizedIs ==
  ASSUME NEW messages, Len(messages) \in Nat
  PROVE  NormalUpTo(Normalized(messages), messages, Len(messages))
<1> DEFINE n == Len(messages)
           f == CHOOSE upTo : Turned(upTo, messages, n)
<1>1. Normalized(messages) = f[n]
  BY DEF Normalized, Turned
<1>2. Turned(f, messages, n)
  BY TurnedExists
<1> HIDE DEF f
<1>3. \A at \in 0..n : f[at] = IF at = 0 THEN NormalStart
                               ELSE LegacyTurn(f[at - 1], messages[at], at)
  BY <1>2 DEF Turned
<1> DEFINE S == {at \in 0..n : NormalUpTo(f[at], messages, at)}
<1>4. 0 \in S
  <2>1. NormalUpTo(NormalStart, messages, 0)
    <3>1. <<>> \in Seq({}) /\ Len(<<>>) = 0
      OBVIOUS
    <3> QED BY <3>1 DEF NormalUpTo, NormalStart
  <2> QED BY <1>3, <2>1
<1>5. ASSUME NEW at \in 1..n, at - 1 \in S PROVE at \in S
  <2>1. f[at] = LegacyTurn(f[at - 1], messages[at], at)
    BY <1>3
  <2>2. NormalUpTo(f[at], messages, at)
    BY <1>5, <2>1, NormalTurn
  <2> QED BY <2>2
<1>6. n \in Nat
  OBVIOUS
<1>7. n \in S
  <2> HIDE DEF S, n
  <2>1. 0..n \subseteq S
    BY <1>4, <1>5, <1>6, Induction
  <2> QED BY <1>6, <2>1
<1> QED BY <1>1, <1>7

\* The content of what comes of a client's message is the message's.
LEMMA CameContent ==
  ASSUME NEW m \in ClientMessages, NEW at, NEW o, CameOf(m, at, o)
  PROVE  /\ o.content = m.content
         /\ o.calls # <<>> => o.listed
  BY DEF CameOf, WithToolCall, Message, ClientMessages

(***************************************************************************)
(* The history in a body for Claude.                                       *)
(***************************************************************************)
\* The history of a body for Claude, of an accepted chat request.
LEMMA ClaudeChatHistory ==
  ASSUME NEW messages, NEW s, Accepted(ChatAnswers(messages, s).claude),
         NEW body, body = BodyOf(ChatAnswers(messages, s).claude),
         NEW normal, normal = Normalized(messages)
  PROVE  /\ ~normal.error /\ ClaudeC!MessageRoles(normal.out)
         /\ body.system = ClaudeC!SystemOf(normal.out)
         /\ body.messages = ClaudeC!MessagesOf(normal.out)
<1> DEFINE fields == ClaudeC!LegacyFields(s)
<1>1. /\ ~normal.error /\ ClaudeC!MessageRoles(normal.out)
      /\ body = [ClaudeC!OpenaiToClaude(normal.out, fields)
                   EXCEPT !.reply.legacy = ClaudeC!LegacyReply(s)]
  BY DEF ChatAnswers, Accepted, Refused, BodyOf, ClaudeC!Answer, ClaudeC!Refused, ClaudeC!Sent
<1> HIDE DEF fields
<1> QED BY <1>1 DEF ClaudeC!OpenaiToClaude

\* The instances of InOrder are InOrder.
LEMMA SameOrder ==
  ASSUME NEW places, NEW n
  PROVE  ClaudeC!InOrder(places, n) = InOrder(places, n)
         /\ ClaudeR!InOrder(places, n) = InOrder(places, n)
  BY DEF ClaudeC!InOrder, ClaudeR!InOrder, InOrder

\* The messages of a body for Claude, of an accepted request to the Responses API.
LEMMA ClaudeResponsesHistory ==
  ASSUME NEW input, NEW s, Accepted(ResponsesAnswers(input, s).claude),
         NEW body, body = BodyOf(ResponsesAnswers(input, s).claude),
         NEW given, given = ClaudeR!InputOf(input, s)
  PROVE  /\ ClaudeR!ItemsValid(given) /\ ClaudeR!UnsupportedTool(given, s)
         /\ body.system = ClaudeR!SystemOf(given, s)
         /\ body.messages = ClaudeR!MessagesOf(given)
<1>1. /\ ClaudeR!Checks(given, s)
      /\ body = ClaudeR!ResponsesToClaude(given, s)
  BY DEF ResponsesAnswers, Accepted, Refused, BodyOf, ClaudeR!Answer, ClaudeR!Refused,
         ClaudeR!Sent
<1>2. ClaudeR!ItemsValid(given) /\ ClaudeR!UnsupportedTool(given, s)
  BY <1>1 DEF ClaudeR!Checks
<1>3. body.system = ClaudeR!SystemOf(given, s) /\ body.messages = ClaudeR!MessagesOf(given)
  BY <1>1 DEF ClaudeR!ResponsesToClaude
<1> QED BY <1>2, <1>3

(***************************************************************************)
(* What one more turn adds.                                                *)
(***************************************************************************)
\* Two sequences agree up to the end of the first.
AgreeUpTo(s, t, n, m) ==
    /\ n \in Nat /\ m \in Nat /\ n <= m
    /\ s = [i \in 1..n |-> s[i]] /\ t = [i \in 1..m |-> t[i]]
    /\ \A i \in 1..n : s[i] = t[i]

\* The first is then a prefix of the second.
LEMMA PrefixOf ==
  ASSUME NEW s, NEW t, NEW n, NEW m, AgreeUpTo(s, t, n, m)
  PROVE  IsPrefix(s, t)
<1>0. /\ n \in Nat /\ m \in Nat /\ n <= m
      /\ s = [i \in 1..n |-> s[i]] /\ t = [i \in 1..m |-> t[i]]
      /\ \A i \in 1..n : s[i] = t[i]
  BY DEF AgreeUpTo
<1> DEFINE T == {t[i] : i \in 1..m}
<1>1. \A i \in 1..n : i \in 1..m
  BY <1>0
<1>2. (\A i \in 1..n : s[i] \in T) /\ (\A i \in 1..m : t[i] \in T)
  BY <1>0, <1>1
<1> HIDE DEF T
<1>3. s \in Seq(T) /\ t \in Seq(T)
  <2>1. s \in [1..n -> T] /\ t \in [1..m -> T]
    BY <1>0, <1>2
  <2> QED BY <1>0, <2>1, IsASeq
<1>4. Len(s) = n /\ Len(t) = m
  BY <1>0, <1>3
<1>5. SubSeq(s, 1, n) = SubSeq(t, 1, n)
  <2>1. SubSeq(s, 1, n) = [i \in 1..n |-> s[i]]
    BY <1>0, <1>3, <1>4, SubSeqProperties
  <2>2. SubSeq(t, 1, n) = [i \in 1..n |-> t[i]]
    BY <1>0, <1>3, <1>4, SubSeqProperties
  <2> QED BY <1>0, <2>1, <2>2
<1> QED BY <1>0, <1>4, <1>5 DEF IsPrefix

\* The places up to n + 1 are those up to n, and n + 1 if it is one.
LEMMA InOrderGrows ==
  ASSUME NEW places, NEW before, NEW n \in Nat, places \cap 1..n = before \cap 1..n
  PROVE  InOrder(places, n + 1) = IF n + 1 \in places THEN Append(InOrder(before, n), n + 1)
                                  ELSE InOrder(before, n)
<1> DEFINE f == CHOOSE upTo : Ordered(upTo, before, n)
           g == CHOOSE upTo : Ordered(upTo, places, n + 1)
<1>1. InOrder(before, n) = f[n] /\ InOrder(places, n + 1) = g[n + 1]
  BY DEF InOrder, Ordered
<1>2. Ordered(f, before, n) /\ Ordered(g, places, n + 1)
  <2>1. n + 1 \in Nat
    OBVIOUS
  <2>2. (\E upTo : Ordered(upTo, before, n)) /\ \E upTo : Ordered(upTo, places, n + 1)
    BY <2>1, OrderedExists
  <2> QED BY <2>2
<1> HIDE DEF f, g
<1>3. \A k \in 0..n : f[k] = IF k = 0 THEN <<>>
                             ELSE IF k \in before THEN Append(f[k - 1], k) ELSE f[k - 1]
  BY <1>2 DEF Ordered
<1>4. \A k \in 0..(n + 1) : g[k] = IF k = 0 THEN <<>>
                                   ELSE IF k \in places THEN Append(g[k - 1], k) ELSE g[k - 1]
  BY <1>2 DEF Ordered
<1> DEFINE S == {k \in 0..n : f[k] = g[k]}
<1>5. 0 \in S
  <2>1. f[0] = <<>> /\ g[0] = <<>> /\ 0 \in 0..n
    BY <1>3, <1>4
  <2> QED BY <2>1
<1>6. ASSUME NEW k \in 1..n, k - 1 \in S PROVE k \in S
  <2>1. k \in 0..n /\ k \in 0..(n + 1) /\ k # 0 /\ (k \in before <=> k \in places)
    OBVIOUS
  <2>2. f[k - 1] = g[k - 1]
    BY <1>6
  <2>3. f[k] = (IF k \in before THEN Append(f[k - 1], k) ELSE f[k - 1])
    BY <1>3, <2>1
  <2>4. g[k] = (IF k \in places THEN Append(g[k - 1], k) ELSE g[k - 1])
    BY <1>4, <2>1
  <2> QED BY <2>1, <2>2, <2>3, <2>4
<1> HIDE DEF S
<1>7. n \in S
  BY <1>5, <1>6, Induction
<1>8. f[n] = g[n]
  BY <1>7 DEF S
<1>9. g[n + 1] = (IF n + 1 \in places THEN Append(g[n], n + 1) ELSE g[n])
  <2>1. n + 1 \in 0..(n + 1) /\ n + 1 # 0 /\ (n + 1) - 1 = n
    OBVIOUS
  <2> QED BY <1>4, <2>1
<1> QED BY <1>1, <1>8, <1>9

\* One more message is one more turn of the loop.
LEMMA NormalizedGrows ==
  ASSUME NEW messages, NEW later, NEW n \in Nat, Len(messages) = n, Len(later) = n + 1,
         \A at \in 1..n : later[at] = messages[at]
  PROVE  Normalized(later) = LegacyTurn(Normalized(messages), later[n + 1], n + 1)
<1> DEFINE f == CHOOSE upTo : Turned(upTo, messages, n)
           g == CHOOSE upTo : Turned(upTo, later, n + 1)
<1>1. Normalized(messages) = f[n] /\ Normalized(later) = g[n + 1]
  BY DEF Normalized, Turned
<1>2. Turned(f, messages, n) /\ Turned(g, later, n + 1)
  <2>1. n + 1 \in Nat
    OBVIOUS
  <2>2. (\E upTo : Turned(upTo, messages, n)) /\ \E upTo : Turned(upTo, later, n + 1)
    BY <2>1, TurnedExists
  <2> QED BY <2>2
<1> HIDE DEF f, g
<1>3. \A k \in 0..n :
         f[k] = IF k = 0 THEN NormalStart ELSE LegacyTurn(f[k - 1], messages[k], k)
  BY <1>2 DEF Turned
<1>4. \A k \in 0..(n + 1) :
         g[k] = IF k = 0 THEN NormalStart ELSE LegacyTurn(g[k - 1], later[k], k)
  BY <1>2 DEF Turned
<1> DEFINE S == {k \in 0..n : f[k] = g[k]}
<1>5. 0 \in S
  <2>1. f[0] = NormalStart /\ g[0] = NormalStart /\ 0 \in 0..n
    BY <1>3, <1>4
  <2> QED BY <2>1
<1>6. ASSUME NEW k \in 1..n, k - 1 \in S PROVE k \in S
  <2>1. k \in 0..n /\ k \in 0..(n + 1) /\ k # 0 /\ later[k] = messages[k]
    OBVIOUS
  <2>2. f[k - 1] = g[k - 1]
    BY <1>6
  <2>3. f[k] = LegacyTurn(f[k - 1], messages[k], k)
    BY <1>3, <2>1
  <2>4. g[k] = LegacyTurn(g[k - 1], later[k], k)
    BY <1>4, <2>1
  <2> QED BY <2>1, <2>2, <2>3, <2>4
<1> HIDE DEF S
<1>7. n \in S
  BY <1>5, <1>6, Induction, SMTT(30)
<1>8. f[n] = g[n]
  BY <1>7 DEF S
<1>9. g[n + 1] = LegacyTurn(g[n], later[n + 1], n + 1)
  <2>1. n + 1 \in 0..(n + 1) /\ n + 1 # 0 /\ (n + 1) - 1 = n
    OBVIOUS
  <2> QED BY <1>4, <2>1
<1> QED BY <1>1, <1>8, <1>9

\* upTo is the recursive function of FlattenSeq.
Flattened(upTo, lists, n) ==
    upTo = [i \in 1..n |-> IF i = 1 THEN lists[i] ELSE upTo[i - 1] \o lists[i]]

\* There is such a function.
LEMMA FlattenedExists ==
  ASSUME NEW lists, NEW n \in Nat
  PROVE  \E upTo : Flattened(upTo, lists, n)
<1> DEFINE S == {m \in 0..n : \E upTo : Flattened(upTo, lists, m)}
<1>1. 0 \in S
  <2>1. Flattened([k \in 1..0 |-> <<>>], lists, 0)
    BY DEF Flattened
  <2> QED BY <2>1
<1>2. ASSUME NEW m \in 1..n, m - 1 \in S PROVE m \in S
  <2>1. PICK f : Flattened(f, lists, m - 1)
    BY <1>2
  <2> DEFINE g == [k \in 1..m |->
                      IF k = m THEN IF m = 1 THEN lists[m] ELSE f[m - 1] \o lists[m]
                      ELSE f[k]]
             next(k) == IF k = 1 THEN lists[k] ELSE g[k - 1] \o lists[k]
  <2>2. ASSUME NEW k \in 1..m PROVE g[k] = next(k)
    <3>1. CASE k = m
      BY <3>1
    <3>2. CASE k # m
      <4>1. k \in 1..(m - 1) /\ g[k] = f[k]
        BY <3>2
      <4>2. f[k] = IF k = 1 THEN lists[k] ELSE f[k - 1] \o lists[k]
        BY <2>1, <4>1 DEF Flattened
      <4>3. k # 1 => g[k - 1] = f[k - 1]
        BY <4>1
      <4> QED BY <4>1, <4>2, <4>3
    <3> QED BY <3>1, <3>2
  <2>3. g = [k \in 1..m |-> next(k)]
    <3>1. g = [k \in 1..m |-> g[k]]
      OBVIOUS
    <3> HIDE DEF g, next
    <3> QED BY <2>2, <3>1
  <2>4. Flattened(g, lists, m)
    <3> HIDE DEF g
    <3> QED BY <2>3 DEF Flattened
  <2> HIDE DEF g
  <2> QED BY <2>4
<1> HIDE DEF S
<1>3. n \in S
  BY <1>1, <1>2, Induction
<1> QED BY <1>3 DEF S

\* It is a sequence of what the lists are sequences of.
LEMMA FlattenedIs ==
  ASSUME NEW T, NEW n \in Nat, NEW lists, \A i \in 1..n : lists[i] \in Seq(T),
         NEW f, Flattened(f, lists, n)
  PROVE  \A k \in 1..n : f[k] \in Seq(T)
<1> DEFINE S == {k \in 0..n : k # 0 => f[k] \in Seq(T)}
<1>1. 0 \in S
  OBVIOUS
<1>2. ASSUME NEW k \in 1..n, k - 1 \in S PROVE k \in S
  <2>1. f[k] = (IF k = 1 THEN lists[k] ELSE f[k - 1] \o lists[k])
    BY DEF Flattened
  <2>2. k # 1 => k - 1 # 0 /\ f[k - 1] \in Seq(T)
    BY <1>2
  <2>3. \A a, b : a \in Seq(T) /\ b \in Seq(T) => a \o b \in Seq(T)
    OBVIOUS
  <2>4. lists[k] \in Seq(T) /\ k \in 0..n
    OBVIOUS
  <2> QED BY <2>1, <2>2, <2>3, <2>4
<1> HIDE DEF S
<1>3. 0..n \subseteq S
  BY <1>1, <1>2, Induction
<1> QED BY <1>3 DEF S

\* n lists of what is in T, which make one list of it.
ListsOf(T, lists, n) == lists \in [1..n -> Seq(T)]
LEMMA FlattenIs ==
  ASSUME NEW T, NEW n \in Nat, NEW lists, ListsOf(T, lists, n)
  PROVE  FlattenSeq(lists) \in Seq(T)
<1>0. /\ Len(lists) = n /\ (n = 0 => lists = <<>>)
      /\ \A i \in 1..n : lists[i] \in Seq(T)
  BY IsASeq DEF ListsOf
<1> DEFINE f == CHOOSE upTo : Flattened(upTo, lists, n)
<1>1. CASE n = 0
  <2>1. <<>> \in Seq(T)
    OBVIOUS
  <2> QED BY <1>0, <1>1, <2>1 DEF FlattenSeq
<1>2. CASE n # 0
  <2>1. FlattenSeq(lists) = f[n]
    BY <1>0, <1>2 DEF FlattenSeq, Flattened
  <2>2. Flattened(f, lists, n)
    BY FlattenedExists
  <2> HIDE DEF f
  <2>3. n \in 1..n
    BY <1>2
  <2> QED BY <1>0, <2>1, <2>2, <2>3, FlattenedIs
<1> QED BY <1>1, <1>2

\* One more list is appended.
LEMMA FlattenGrows ==
  ASSUME NEW T, NEW n \in Nat, NEW lists, NEW later, ListsOf(T, lists, n), ListsOf(T, later, n + 1),
         \A i \in 1..n : later[i] = lists[i]
  PROVE  FlattenSeq(later) = FlattenSeq(lists) \o later[n + 1]
<1>0. /\ Len(lists) = n /\ (n = 0 => lists = <<>>)
      /\ Len(later) = n + 1 /\ \A i \in 1..(n + 1) : later[i] \in Seq(T)
  <2>1. n + 1 \in Nat
    OBVIOUS
  <2>2. /\ lists \in Seq(Seq(T)) /\ Len(lists) = n
        /\ later \in Seq(Seq(T)) /\ Len(later) = n + 1
    BY <2>1, IsASeq DEF ListsOf
  <2>3. \A i \in 1..(n + 1) : later[i] \in Seq(T)
    BY DEF ListsOf
  <2> QED BY <2>2, <2>3
<1> DEFINE f == CHOOSE upTo : Flattened(upTo, lists, n)
           g == CHOOSE upTo : Flattened(upTo, later, n + 1)
<1>1. FlattenSeq(later) = g[n + 1]
  <2>1. Len(later) # 0
    BY <1>0
  <2> QED BY <1>0, <2>1 DEF FlattenSeq, Flattened
<1>2. n # 0 => FlattenSeq(lists) = f[n]
  BY <1>0 DEF FlattenSeq, Flattened
<1>3. Flattened(f, lists, n) /\ Flattened(g, later, n + 1)
  <2>1. n + 1 \in Nat
    OBVIOUS
  <2>2. (\E upTo : Flattened(upTo, lists, n)) /\ \E upTo : Flattened(upTo, later, n + 1)
    BY <2>1, FlattenedExists
  <2> QED BY <2>2
<1> HIDE DEF f, g
<1>4. \A k \in 1..n : f[k] = IF k = 1 THEN lists[k] ELSE f[k - 1] \o lists[k]
  BY <1>3 DEF Flattened
<1>5. \A k \in 1..(n + 1) : g[k] = IF k = 1 THEN later[k] ELSE g[k - 1] \o later[k]
  BY <1>3 DEF Flattened
<1> DEFINE S == {k \in 0..n : k # 0 => f[k] = g[k]}
<1>6. 0 \in S
  OBVIOUS
<1>7. ASSUME NEW k \in 1..n, k - 1 \in S PROVE k \in S
  <2>1. k \in 0..n /\ k \in 1..(n + 1) /\ k # 0 /\ later[k] = lists[k]
    OBVIOUS
  <2>2. k # 1 => f[k - 1] = g[k - 1]
    BY <1>7
  <2>3. f[k] = (IF k = 1 THEN lists[k] ELSE f[k - 1] \o lists[k])
    BY <1>4
  <2>4. g[k] = (IF k = 1 THEN later[k] ELSE g[k - 1] \o later[k])
    BY <1>5, <2>1
  <2> QED BY <2>1, <2>2, <2>3, <2>4
<1> HIDE DEF S
<1>8. n \in S
  <2>1. 0..n \subseteq S
    BY <1>6, <1>7, Induction
  <2> QED BY <2>1
<1>9. n # 0 => f[n] = g[n]
  BY <1>8 DEF S
<1>10. n + 1 \in 1..(n + 1) /\ (n + 1) - 1 = n /\ (n # 0 => n + 1 # 1)
  OBVIOUS
<1>11. g[n + 1] = (IF n + 1 = 1 THEN later[n + 1] ELSE g[n] \o later[n + 1])
  BY <1>5, <1>10
<1>12. CASE n = 0
  <2>1. FlattenSeq(lists) = <<>>
    BY <1>0, <1>12 DEF FlattenSeq
  <2>2. <<>> \o later[n + 1] = later[n + 1]
    BY <1>0, <1>10
  <2> QED BY <1>1, <1>11, <1>12, <2>1, <2>2
<1>13. CASE n # 0
  BY <1>1, <1>2, <1>9, <1>10, <1>11, <1>13
<1> QED BY <1>12, <1>13

\* What is made of the places up to n comes first of what is made of those up to n + 1.
LEMMA PickedPrefix ==
  ASSUME NEW n \in Nat, NEW places, NEW before, places \cap 1..n = before \cap 1..n,
         NEW made, NEW s, NEW t,
         s = [k \in DOMAIN InOrder(before, n) |-> made[InOrder(before, n)[k]]],
         t = [k \in DOMAIN InOrder(places, n + 1) |-> made[InOrder(places, n + 1)[k]]]
  PROVE  IsPrefix(s, t)
<1> DEFINE p == InOrder(before, n)
           q == InOrder(places, n + 1)
<1>1. p \in Seq(Nat)
  <2>1. p \in Seq(before \cap 1..n)
    BY InOrderIs
  <2> DEFINE T == before \cap 1..n
  <2>2. T \subseteq Nat
    OBVIOUS
  <2> HIDE DEF T, p
  <2>3. p \in Seq(T)
    BY <2>1 DEF T
  <2> QED BY <2>2, <2>3, SeqMonotonic
<1>2. q = IF n + 1 \in places THEN Append(p, n + 1) ELSE p
  BY InOrderGrows
<1> HIDE DEF p, q
<1>3. /\ Len(p) \in Nat /\ DOMAIN p = 1..Len(p)
      /\ Len(q) \in Nat /\ DOMAIN q = 1..Len(q)
      /\ Len(p) <= Len(q) /\ \A i \in 1..Len(p) : q[i] = p[i]
  <2>1. CASE n + 1 \in places
    <3>1. q = Append(p, n + 1) /\ n + 1 \in Nat
      BY <1>2, <2>1
    <3> QED BY <1>1, <3>1
  <2>2. CASE n + 1 \notin places
    <3>1. q = p
      BY <1>2, <2>2
    <3> QED BY <1>1, <3>1
  <2> QED BY <2>1, <2>2
<1>4. s = [k \in 1..Len(p) |-> made[p[k]]] /\ t = [k \in 1..Len(q) |-> made[q[k]]]
  BY <1>3 DEF p, q
<1>5. \A i \in 1..Len(p) : s[i] = t[i]
  <2>1. \A i \in 1..Len(p) : i \in 1..Len(q)
    BY <1>3
  <2> QED BY <1>3, <1>4, <2>1, SMTT(30)
<1>6. s = [i \in 1..Len(p) |-> s[i]] /\ t = [i \in 1..Len(q) |-> t[i]]
  BY <1>4
<1>7. AgreeUpTo(s, t, Len(p), Len(q))
  BY <1>3, <1>5, <1>6 DEF AgreeUpTo
<1> QED BY <1>7, PrefixOf

\* One more turn of a list.
OneMore(list, later, n) ==
    /\ n \in Nat
    /\ Len(list) = n /\ DOMAIN list = 1..n
    /\ Len(later) = n + 1 /\ DOMAIN later = 1..(n + 1)
    /\ \A at \in 1..n : later[at] = list[at]

\* Appending an item is one more turn.
LEMMA OneMoreIs ==
  ASSUME NEW T, NEW list \in Seq(T), NEW item, NEW later, later = Append(list, item)
  PROVE  OneMore(list, later, Len(list)) /\ later[Len(list) + 1] = item
<1> DEFINE X == T \cup {item}
<1>1. list \in Seq(X) /\ item \in X
  <2>1. T \subseteq X
    OBVIOUS
  <2> HIDE DEF X
  <2> QED BY <2>1, SeqMonotonic DEF X
<1> HIDE DEF X
<1> QED BY <1>1 DEF OneMore

\* The messages and the system prompt for Claude, of a conversation in the Responses API.
LEMMA ClaudeResponsesGrows ==
  ASSUME NEW list, NEW later, NEW n, OneMore(list, later, n), NEW s
  PROVE  /\ IsPrefix(ClaudeR!SystemOf(list, s), ClaudeR!SystemOf(later, s))
         /\ IsPrefix(ClaudeR!MessagesOf(list), ClaudeR!MessagesOf(later))
<1>1. IsPrefix(ClaudeR!MessagesOf(list), ClaudeR!MessagesOf(later))
  <2> DEFINE before == {k \in DOMAIN list : ~ClaudeR!IsSystem(list[k])}
             places == {k \in DOMAIN later : ~ClaudeR!IsSystem(later[k])}
             made == [at \in Nat |-> ClaudeR!ToClaude(later[at], at)]
             p == InOrder(before, n)
             q == InOrder(places, n + 1)
  <2>1. places \cap 1..n = before \cap 1..n /\ n \in Nat
    BY DEF OneMore
  <2>2. ClaudeR!MessagesOf(list) = [k \in DOMAIN p |-> ClaudeR!ToClaude(list[p[k]], p[k])]
    BY SameOrder DEF ClaudeR!MessagesOf, OneMore
  <2>3. ClaudeR!MessagesOf(later) = [k \in DOMAIN q |-> ClaudeR!ToClaude(later[q[k]], q[k])]
    BY SameOrder DEF ClaudeR!MessagesOf, OneMore
  <2>4. \A k \in DOMAIN p : p[k] \in 1..n
    <3>1. p \in Seq(before \cap 1..n)
      BY <2>1, InOrderIs
    <3> DEFINE T == before \cap 1..n
    <3> HIDE DEF T, p
    <3>2. p \in Seq(T)
      BY <3>1 DEF T
    <3>3. \A k \in DOMAIN p : p[k] \in T
      BY <3>2
    <3> QED BY <3>3 DEF T
  <2>5. \A k \in DOMAIN q : q[k] \in Nat
    <3>1. q \in Seq(places \cap 1..(n + 1))
      <4>1. n + 1 \in Nat
        BY <2>1
      <4> QED BY <4>1, InOrderIs
    <3> DEFINE T == places \cap 1..(n + 1)
    <3> HIDE DEF T, q
    <3>2. q \in Seq(T)
      BY <3>1 DEF T
    <3>3. \A k \in DOMAIN q : q[k] \in T
      BY <3>2
    <3> QED BY <3>3, <2>1 DEF T
  <2> HIDE DEF p, q
  <2>6. ClaudeR!MessagesOf(list) = [k \in DOMAIN p |-> made[p[k]]]
    <3>1. \A k \in DOMAIN p : ClaudeR!ToClaude(list[p[k]], p[k]) = made[p[k]]
      BY <2>4 DEF OneMore
    <3> HIDE DEF made
    <3> QED BY <2>2, <3>1
  <2>7. ClaudeR!MessagesOf(later) = [k \in DOMAIN q |-> made[q[k]]]
    <3>1. \A k \in DOMAIN q : ClaudeR!ToClaude(later[q[k]], q[k]) = made[q[k]]
      BY <2>5
    <3> HIDE DEF made
    <3> QED BY <2>3, <3>1
  <2> HIDE DEF made, before, places
  <2> QED BY <2>1, <2>6, <2>7, PickedPrefix DEF p, q
<1>2. IsPrefix(ClaudeR!SystemOf(list, s), ClaudeR!SystemOf(later, s))
  <2> DEFINE P == {i \in 1..Len(list) : ClaudeR!SystemSpeaks(list[i])}
             Q == {i \in 1..Len(later) : ClaudeR!SystemSpeaks(later[i])}
             first == ClaudeR!SelectInSeq(list, ClaudeR!SystemSpeaks)
             laterFirst == ClaudeR!SelectInSeq(later, ClaudeR!SystemSpeaks)
  <2>1. \A x : IsPrefix(<<x>>, <<x>>) /\ IsPrefix(<<>>, <<x>>) /\ IsPrefix(<<>>, <<>>)
    <3> TAKE x
    <3>1. Len(<<x>>) = 1 /\ Len(<<>>) = 0 /\ 0 <= 0 /\ 0 <= 1 /\ 1 <= 1
      OBVIOUS
    <3>2. IsPrefix(<<x>>, <<x>>)
      BY <3>1 DEF IsPrefix
    <3>3. IsPrefix(<<>>, <<>>)
      BY <3>1 DEF IsPrefix
    <3>4. SubSeq(<<>>, 1, 0) = SubSeq(<<x>>, 1, 0)
      BY SubSeqEmpty
    <3>5. IsPrefix(<<>>, <<x>>)
      BY <3>1, <3>4 DEF IsPrefix
    <3> QED BY <3>2, <3>3, <3>5
  <2>2. first # 0 => laterFirst = first
    <3> SUFFICES ASSUME first # 0 PROVE laterFirst = first
      OBVIOUS
    <3>1. P # {}
      BY DEF ClaudeR!SelectInSeq
    <3>2. first = ClaudeR!Min(P)
      BY <3>1 DEF ClaudeR!SelectInSeq
    <3>3. (Q = P) \/ (Q = P \cup {n + 1})
      BY DEF OneMore
    <3>4. laterFirst = ClaudeR!Min(Q)
      BY <3>1, <3>3 DEF ClaudeR!SelectInSeq
    <3>5. ClaudeR!Min(P) = Min(P) /\ ClaudeR!Min(Q) = Min(Q)
      BY DEF ClaudeR!Min, Min
    <3>6. P \subseteq 1..n /\ n \in Nat
      BY DEF OneMore
    <3> HIDE DEF P, Q, first, laterFirst
    <3>7. /\ Min(P) \in P /\ \A x \in P : Min(P) <= x
          /\ Min(Q) \in Q /\ \A x \in Q : Min(Q) <= x
      <4>1. P \subseteq Nat
        BY <3>6
      <4>2. Q \subseteq Nat
        <5>1. P \cup {n + 1} \subseteq Nat
          BY <3>6, <4>1
        <5> QED BY <3>3, <4>1, <5>1
      <4>3. Q # {}
        BY <3>1, <3>3
      <4>4. Min(P) \in P /\ \A x \in P : Min(P) <= x
        BY <3>1, <4>1, MinIsMember
      <4>5. Min(Q) \in Q /\ \A x \in Q : Min(Q) <= x
        BY <4>2, <4>3, MinIsMember
      <4> QED BY <4>4, <4>5
    <3>8. Min(P) = Min(Q)
      <4> DEFINE a == Min(P)
                 b == Min(Q)
      <4>1. a \in P /\ b \in Q /\ (\A x \in P : a <= x) /\ \A x \in Q : b <= x
        BY <3>7
      <4> HIDE DEF a, b
      <4>2. a \in 1..n /\ a \in Q /\ n \in Nat
        BY <3>3, <3>6, <4>1
      <4>3. b \in 1..(n + 1) /\ b <= a
        BY <3>3, <3>6, <4>1, <4>2
      <4>4. b \in P
        BY <3>3, <4>1, <4>2, <4>3
      <4>5. a = b
        BY <4>1, <4>2, <4>3, <4>4
      <4> QED BY <4>5 DEF a, b
    <3> QED BY <3>2, <3>4, <3>5, <3>8
  <2> HIDE DEF first, laterFirst
  <2>3. CASE ClaudeR!Instructed(s)
    BY <2>1, <2>3 DEF ClaudeR!SystemOf
  <2>4. CASE ~ClaudeR!Instructed(s)
    <3>1. ClaudeR!SystemOf(list, s) = IF first # 0 THEN <<ClaudeR!Text(first)>> ELSE <<>>
      BY <2>4 DEF ClaudeR!SystemOf, first
    <3>2. ClaudeR!SystemOf(later, s) =
            IF laterFirst # 0 THEN <<ClaudeR!Text(laterFirst)>> ELSE <<>>
      BY <2>4 DEF ClaudeR!SystemOf, laterFirst
    <3> QED BY <2>1, <2>2, <3>1, <3>2
  <2> QED BY <2>3, <2>4
<1> QED BY <1>1, <1>2
\* A body for Claude: what the conversation makes of it, and the rest.
ClaudeBodyOf(rest, system, messages) ==
    [model |-> rest.model, max_tokens |-> rest.max_tokens, thinking |-> rest.thinking,
     temperature |-> rest.temperature, top_p |-> rest.top_p, stop |-> rest.stop,
     tools |-> rest.tools, tool_choice |-> rest.tool_choice, system |-> system,
     messages |-> messages, reply |-> rest.reply]

IsClaudeBody(body, rest, system, messages) == body = ClaudeBodyOf(rest, system, messages)

\* A later body for Claude extends an earlier one.
ClaudeExtends(body, next) ==
    /\ IsPrefix(body.system, next.system)
    /\ IsPrefix(body.messages, next.messages)
    /\ next = [body EXCEPT !.system = next.system, !.messages = next.messages]

\* With a longer conversation nothing but the system prompt and the messages change.
LEMMA ClaudeBodyGrows ==
  ASSUME NEW rest, NEW i, NEW j, NEW x, NEW y, IsPrefix(i, x), IsPrefix(j, y),
         NEW w, IsClaudeBody(w, rest, i, j), NEW next, IsClaudeBody(next, rest, x, y)
  PROVE  ClaudeExtends(w, next)
<1>1. w.system = i /\ w.messages = j /\ next.system = x /\ next.messages = y
  BY DEF IsClaudeBody, ClaudeBodyOf
<1> DEFINE W == [model : {rest.model}, max_tokens : {rest.max_tokens},
                 thinking : {rest.thinking}, temperature : {rest.temperature},
                 top_p : {rest.top_p}, stop : {rest.stop}, tools : {rest.tools},
                 tool_choice : {rest.tool_choice}, system : {i, x}, messages : {j, y},
                 reply : {rest.reply}]
           v == [w EXCEPT !.system = x, !.messages = y]
<1>2. w \in W
  BY DEF IsClaudeBody, ClaudeBodyOf
<1>3. v \in W /\ v.system = x /\ v.messages = y
  BY <1>2
<1>4. v = ClaudeBodyOf(rest, x, y)
  <2> HIDE DEF v
  <2> QED BY <1>3 DEF ClaudeBodyOf
<1>5. next = [w EXCEPT !.system = next.system, !.messages = next.messages]
  BY <1>1, <1>4 DEF IsClaudeBody
<1> QED BY <1>1, <1>5 DEF ClaudeExtends

ClaudeChatSends(x, fields, legacy) ==
    [ClaudeC!OpenaiToClaude(x, fields) EXCEPT !.reply.legacy = legacy]
\* A chat decides no more of the body than the system prompt and the messages.
LEMMA ClaudeChatBodyOf ==
  ASSUME NEW fields, NEW legacy
  PROVE  \E rest : \A x : IsClaudeBody(ClaudeChatSends(x, fields, legacy), rest,
                                      ClaudeC!SystemOf(x), ClaudeC!MessagesOf(x))
<1> DEFINE R(x) == [ClaudeC!OpenaiToClaude(x, fields) EXCEPT !.reply.legacy = legacy]
           rest == R(<<>>)
<1>1. \A x : R(x) = ClaudeBodyOf(rest, ClaudeC!SystemOf(x), ClaudeC!MessagesOf(x))
  <2> TAKE x
  <2> DEFINE W == [model : {rest.model}, max_tokens : {rest.max_tokens},
                   thinking : {rest.thinking}, temperature : {rest.temperature},
                   top_p : {rest.top_p}, stop : {rest.stop}, tools : {rest.tools},
                   tool_choice : {rest.tool_choice}, system : {ClaudeC!SystemOf(x)},
                   messages : {ClaudeC!MessagesOf(x)}, reply : {rest.reply}]
  <2>1. R(x) \in W
    BY DEF ClaudeC!OpenaiToClaude
  <2> HIDE DEF R, rest
  <2> QED BY <2>1 DEF ClaudeBodyOf
<1> QED BY <1>1 DEF IsClaudeBody, ClaudeChatSends

\* It is so in the Responses API too.
LEMMA ClaudeResponsesBodyOf ==
  ASSUME NEW s
  PROVE  \E rest : \A x : IsClaudeBody(ClaudeR!ResponsesToClaude(x, s), rest,
                                      ClaudeR!SystemOf(x, s), ClaudeR!MessagesOf(x))
<1> DEFINE rest == ClaudeR!ResponsesToClaude(<<>>, s)
<1>1. \A x : ClaudeR!ResponsesToClaude(x, s)
               = ClaudeBodyOf(rest, ClaudeR!SystemOf(x, s), ClaudeR!MessagesOf(x))
  BY DEF ClaudeR!ResponsesToClaude, ClaudeBodyOf
<1> QED BY <1>1 DEF IsClaudeBody

\* What is made of the messages up to n is made of one more turn.
LEMMA OutOneMore ==
  ASSUME NEW messages, NEW later, NEW n, OneMore(messages, later, n),
         ~Normalized(messages).error, ~Normalized(later).error
  PROVE  OneMore(Normalized(messages).out, Normalized(later).out, n)
<1> DEFINE state == Normalized(messages)
           next == Normalized(later)
           m == later[n + 1]
<1>1. next = LegacyTurn(state, m, n + 1)
  BY NormalizedGrows DEF OneMore
<1>2. /\ NormalUpTo(state, messages, n) /\ NormalUpTo(next, later, n + 1)
      /\ n \in Nat
  <2>1. Len(messages) = n /\ Len(later) = n + 1 /\ n \in Nat /\ n + 1 \in Nat
    BY DEF OneMore
  <2> QED BY <2>1, NormalizedIs
<1>3. ~state.error /\ ~next.error
  OBVIOUS
<1> HIDE DEF state, next, m
<1>4. state = [out |-> state.out, pending |-> state.pending, error |-> state.error]
  BY <1>2 DEF NormalUpTo
<1>5. \E o : next.out = Append(state.out, o)
  <2> DEFINE failed == [state EXCEPT !.error = TRUE]
  <2>1. failed.error = TRUE
    BY <1>4
  <2> HIDE DEF failed
  <2>2. CASE LegacyFault(m)
    <3>1. next = failed
      BY <1>1, <1>3, <2>2 DEF LegacyTurn, failed
    <3> QED BY <1>3, <2>1, <3>1
  <2>3. CASE ~LegacyFault(m) /\ m.role = "assistant"
    <3> DEFINE normal == IF m.fcall # Absent /\ ~m.listed THEN WithToolCall(m, n + 1)
                         ELSE m
               refs == CallRefs(normal)
    <3>1. next = FunctionCallTurn(state, m, n + 1)
      BY <1>1, <1>3, <2>3 DEF LegacyTurn
    <3>2. next = [state EXCEPT !.out = Append(state.out, normal),
                               !.pending = state.pending \o refs]
      BY <3>1 DEF FunctionCallTurn
    <3> HIDE DEF normal, refs
    <3> QED BY <1>4, <3>2
  <2>4. CASE ~LegacyFault(m) /\ m.role = "function"
    <3> DEFINE index == PendingIndex(state.pending, m.name)
               o == [Message("tool", m.content) EXCEPT !.answers = state.pending[index].callId]
    <3>1. next = FunctionResultTurn(state, m)
      BY <1>1, <1>3, <2>4 DEF LegacyTurn
    <3>2. CASE index = 0
      <4>1. next = failed
        BY <3>1, <3>2 DEF FunctionResultTurn, failed
      <4> QED BY <1>3, <2>1, <4>1
    <3>3. CASE index # 0
      <4>1. next = [state EXCEPT !.out = Append(state.out, o),
                                 !.pending = RemoveAt(state.pending, index)]
        BY <3>1, <3>3 DEF FunctionResultTurn
      <4> HIDE DEF o, index
      <4> QED BY <1>4, <4>1
    <3> QED BY <3>2, <3>3
  <2>5. CASE ~LegacyFault(m) /\ m.role \notin {"assistant", "function"}
    <3>1. next = [state EXCEPT !.out = Append(state.out, m)]
      BY <1>1, <1>3, <2>5 DEF LegacyTurn
    <3> QED BY <1>4, <3>1
  <2> QED BY <2>2, <2>3, <2>4, <2>5
<1>6. PICK o : next.out = Append(state.out, o)
  BY <1>5
<1>7. PICK X : state.out \in Seq(X)
  BY <1>2, <1>3 DEF NormalUpTo
<1>8. Len(state.out) = n
  BY <1>2, <1>3 DEF NormalUpTo
<1>9. OneMore(state.out, next.out, n)
  BY <1>6, <1>7, <1>8, OneMoreIs
<1> QED BY <1>9 DEF state, next

\* The system prompt and the messages for Claude, of a chat.
LEMMA ClaudeChatGrows ==
  ASSUME NEW list, NEW later, NEW n, OneMore(list, later, n)
  PROVE  /\ IsPrefix(ClaudeC!SystemOf(list), ClaudeC!SystemOf(later))
         /\ IsPrefix(ClaudeC!MessagesOf(list), ClaudeC!MessagesOf(later))
<1>1. \A at \in 1..n : later[at] = list[at]
  BY DEF OneMore
<1>2. IsPrefix(ClaudeC!SystemOf(list), ClaudeC!SystemOf(later))
  <2> DEFINE before == ClaudeC!SystemPlaces(list)
             places == ClaudeC!SystemPlaces(later)
             made == [at \in Int |-> ClaudeC!SystemText(later[at], at)]
             p == InOrder(before, n)
             q == InOrder(places, n + 1)
  <2>1. /\ places \cap 1..n = before \cap 1..n /\ before \subseteq 1..n
        /\ places \subseteq 1..(n + 1) /\ n \in Nat
    BY DEF OneMore, ClaudeC!SystemPlaces
  <2>2. ClaudeC!SystemOf(list) = [k \in DOMAIN p |-> ClaudeC!SystemText(list[p[k]], p[k])]
    BY SameOrder DEF ClaudeC!SystemOf, OneMore
  <2>3. ClaudeC!SystemOf(later) = [k \in DOMAIN q |-> ClaudeC!SystemText(later[q[k]], q[k])]
    BY SameOrder DEF ClaudeC!SystemOf, OneMore
  <2>4. (\A k \in DOMAIN p : p[k] \in 1..n) /\ \A k \in DOMAIN q : q[k] \in Int
    <3>1. (p \in Seq(before \cap 1..n)) /\ (q \in Seq(places \cap 1..(n + 1)))
      <4>1. n + 1 \in Nat
        BY <2>1
      <4> QED BY <2>1, <4>1, InOrderIs
    <3>2. before \cap 1..n \subseteq 1..n /\ places \cap 1..(n + 1) \subseteq Int
      OBVIOUS
    <3> DEFINE T == before \cap 1..n
               U == places \cap 1..(n + 1)
    <3> HIDE DEF p, q, T, U
    <3>3. (p \in Seq(T)) /\ (q \in Seq(U)) /\ T \subseteq 1..n /\ U \subseteq Int
      BY <3>1, <3>2 DEF T, U
    <3>4. (\A k \in DOMAIN p : p[k] \in T) /\ \A k \in DOMAIN q : q[k] \in U
      BY <3>3
    <3> QED BY <3>3, <3>4
  <2> HIDE DEF p, q
  <2>5. ClaudeC!SystemOf(list) = [k \in DOMAIN p |-> made[p[k]]]
    <3>1. \A k \in DOMAIN p : ClaudeC!SystemText(list[p[k]], p[k]) = made[p[k]]
      BY <2>4, <1>1
    <3> HIDE DEF made
    <3> QED BY <2>2, <3>1
  <2>6. ClaudeC!SystemOf(later) = [k \in DOMAIN q |-> made[q[k]]]
    <3>1. \A k \in DOMAIN q : ClaudeC!SystemText(later[q[k]], q[k]) = made[q[k]]
      BY <2>4
    <3> HIDE DEF made
    <3> QED BY <2>3, <3>1
  <2> HIDE DEF made, before, places
  <2>7. places \cap 1..n = before \cap 1..n /\ n \in Nat
    BY <2>1
  <2> DEFINE s == ClaudeC!SystemOf(list)
             t == ClaudeC!SystemOf(later)
  <2>8. /\ s = [k \in DOMAIN InOrder(before, n) |-> made[InOrder(before, n)[k]]]
        /\ t = [k \in DOMAIN InOrder(places, n + 1) |-> made[InOrder(places, n + 1)[k]]]
    BY <2>5, <2>6 DEF p, q
  <2> HIDE DEF s, t
  <2>9. IsPrefix(s, t)
    BY <2>7, <2>8, PickedPrefix
  <2> QED BY <2>9 DEF s, t
<1>3. IsPrefix(ClaudeC!MessagesOf(list), ClaudeC!MessagesOf(later))
  <2> DEFINE before == DOMAIN list \ ClaudeC!SystemPlaces(list)
             places == DOMAIN later \ ClaudeC!SystemPlaces(later)
             made == [at \in Int |-> ClaudeC!ToClaude(later[at], at)]
             p == InOrder(before, n)
             q == InOrder(places, n + 1)
  <2>1. /\ places \cap 1..n = before \cap 1..n /\ before \subseteq 1..n
        /\ places \subseteq 1..(n + 1) /\ n \in Nat
    BY DEF OneMore, ClaudeC!SystemPlaces
  <2>2. ClaudeC!MessagesOf(list) = [k \in DOMAIN p |-> ClaudeC!ToClaude(list[p[k]], p[k])]
    BY SameOrder DEF ClaudeC!MessagesOf, OneMore
  <2>3. ClaudeC!MessagesOf(later) = [k \in DOMAIN q |-> ClaudeC!ToClaude(later[q[k]], q[k])]
    BY SameOrder DEF ClaudeC!MessagesOf, OneMore
  <2>4. (\A k \in DOMAIN p : p[k] \in 1..n) /\ \A k \in DOMAIN q : q[k] \in Int
    <3>1. (p \in Seq(before \cap 1..n)) /\ (q \in Seq(places \cap 1..(n + 1)))
      <4>1. n + 1 \in Nat
        BY <2>1
      <4> QED BY <2>1, <4>1, InOrderIs
    <3>2. before \cap 1..n \subseteq 1..n /\ places \cap 1..(n + 1) \subseteq Int
      OBVIOUS
    <3> DEFINE T == before \cap 1..n
               U == places \cap 1..(n + 1)
    <3> HIDE DEF p, q, T, U
    <3>3. (p \in Seq(T)) /\ (q \in Seq(U)) /\ T \subseteq 1..n /\ U \subseteq Int
      BY <3>1, <3>2 DEF T, U
    <3>4. (\A k \in DOMAIN p : p[k] \in T) /\ \A k \in DOMAIN q : q[k] \in U
      BY <3>3
    <3> QED BY <3>3, <3>4
  <2> HIDE DEF p, q
  <2>5. ClaudeC!MessagesOf(list) = [k \in DOMAIN p |-> made[p[k]]]
    <3>1. \A k \in DOMAIN p : ClaudeC!ToClaude(list[p[k]], p[k]) = made[p[k]]
      BY <2>4, <1>1
    <3> HIDE DEF made
    <3> QED BY <2>2, <3>1
  <2>6. ClaudeC!MessagesOf(later) = [k \in DOMAIN q |-> made[q[k]]]
    <3>1. \A k \in DOMAIN q : ClaudeC!ToClaude(later[q[k]], q[k]) = made[q[k]]
      BY <2>4
    <3> HIDE DEF made
    <3> QED BY <2>3, <3>1
  <2> HIDE DEF made, before, places
  <2>7. places \cap 1..n = before \cap 1..n /\ n \in Nat
    BY <2>1
  <2> DEFINE s == ClaudeC!MessagesOf(list)
             t == ClaudeC!MessagesOf(later)
  <2>8. /\ s = [k \in DOMAIN InOrder(before, n) |-> made[InOrder(before, n)[k]]]
        /\ t = [k \in DOMAIN InOrder(places, n + 1) |-> made[InOrder(places, n + 1)[k]]]
    BY <2>5, <2>6 DEF p, q
  <2> HIDE DEF s, t
  <2>9. IsPrefix(s, t)
    BY <2>7, <2>8, PickedPrefix
  <2> QED BY <2>9 DEF s, t
<1> QED BY <1>2, <1>3

\* One more turn of a chat, for Claude.
LEMMA ClaudeChatTurn ==
  ASSUME NEW messages, NEW later, NEW n, OneMore(messages, later, n), NEW s,
         Accepted(ChatAnswers(messages, s).claude), Accepted(ChatAnswers(later, s).claude)
  PROVE  ClaudeExtends(BodyOf(ChatAnswers(messages, s).claude),
                       BodyOf(ChatAnswers(later, s).claude))
<1> DEFINE body == BodyOf(ChatAnswers(messages, s).claude)
           next == BodyOf(ChatAnswers(later, s).claude)
           out == Normalized(messages).out
           laterOut == Normalized(later).out
           fields == ClaudeC!LegacyFields(s)
           legacy == ClaudeC!LegacyReply(s)
           system == ClaudeC!SystemOf(out)
           laterSystem == ClaudeC!SystemOf(laterOut)
           sent == ClaudeC!MessagesOf(out)
           laterSent == ClaudeC!MessagesOf(laterOut)
<1>1. ~Normalized(messages).error /\ ~Normalized(later).error
  BY ClaudeChatHistory
<1>2. /\ body = ClaudeChatSends(out, fields, legacy)
      /\ next = ClaudeChatSends(laterOut, fields, legacy)
  BY DEF ClaudeChatSends, ChatAnswers, Accepted, Refused, BodyOf, ClaudeC!Answer,
         ClaudeC!Refused, ClaudeC!Sent
<1>3. OneMore(out, laterOut, n)
  BY <1>1, OutOneMore
<1> HIDE DEF body, next, out, laterOut, fields, legacy
<1>4. IsPrefix(system, laterSystem) /\ IsPrefix(sent, laterSent)
  BY <1>3, ClaudeChatGrows
<1>5. PICK rest : \A x : IsClaudeBody(ClaudeChatSends(x, fields, legacy), rest,
                                      ClaudeC!SystemOf(x), ClaudeC!MessagesOf(x))
  BY ClaudeChatBodyOf
<1>6. IsClaudeBody(body, rest, system, sent) /\ IsClaudeBody(next, rest, laterSystem, laterSent)
  BY <1>2, <1>5
<1> HIDE DEF system, laterSystem, sent, laterSent
<1>7. ClaudeExtends(body, next)
  BY <1>4, <1>6, ClaudeBodyGrows
<1> QED BY <1>7 DEF body, next

\* One more turn of a conversation in the Responses API, for Claude.
LEMMA ClaudeResponsesTurn ==
  ASSUME NEW list, NEW later, NEW n, OneMore(list, later, n), NEW s,
         Accepted(ResponsesAnswers(list, s).claude), Accepted(ResponsesAnswers(later, s).claude)
  PROVE  ClaudeExtends(BodyOf(ResponsesAnswers(list, s).claude),
                       BodyOf(ResponsesAnswers(later, s).claude))
<1> DEFINE body == BodyOf(ResponsesAnswers(list, s).claude)
           next == BodyOf(ResponsesAnswers(later, s).claude)
           given == ClaudeR!InputOf(list, s)
           laterGiven == ClaudeR!InputOf(later, s)
           system == ClaudeR!SystemOf(given, s)
           laterSystem == ClaudeR!SystemOf(laterGiven, s)
           sent == ClaudeR!MessagesOf(given)
           laterSent == ClaudeR!MessagesOf(laterGiven)
<1>1. /\ body = ClaudeR!ResponsesToClaude(given, s)
      /\ next = ClaudeR!ResponsesToClaude(laterGiven, s)
  BY DEF ResponsesAnswers, Accepted, Refused, BodyOf, ClaudeR!Answer, ClaudeR!Refused,
         ClaudeR!Sent
<1> HIDE DEF body, next
<1>2. IsPrefix(system, laterSystem) /\ IsPrefix(sent, laterSent)
  <2>1. CASE s.messages = ClaudeR!Absent
    <3>1. given = list /\ laterGiven = later
      BY <2>1 DEF ClaudeR!InputOf
    <3> HIDE DEF given, laterGiven
    <3> QED BY <3>1, ClaudeResponsesGrows
  <2>2. CASE s.messages # ClaudeR!Absent
    <3>1. given = <<>> /\ laterGiven = <<>>
      BY <2>2 DEF ClaudeR!InputOf
    <3>2. Len(<<>>) = 0 /\ DOMAIN <<>> = 1..0 /\ IsPrefix(<<>>, <<>>)
      <4>1. Len(<<>>) = 0 /\ DOMAIN <<>> = 1..0 /\ 0 <= 0
        OBVIOUS
      <4> QED BY <4>1 DEF IsPrefix
    <3>3. \A x : IsPrefix(<<x>>, <<x>>)
      <4> TAKE x
      <4>1. Len(<<x>>) = 1 /\ 1 <= 1
        OBVIOUS
      <4> QED BY <4>1 DEF IsPrefix
    <3> HIDE DEF given, laterGiven
    <3>4. IsPrefix(sent, laterSent)
      <4> DEFINE places == {k \in DOMAIN <<>> : ~ClaudeR!IsSystem(<<>>[k])}
      <4>1. places = {}
        BY <3>2
      <4>2. sent = [k \in DOMAIN ClaudeR!InOrder({}, 0) |->
                      ClaudeR!ToClaude(<<>>[ClaudeR!InOrder({}, 0)[k]], ClaudeR!InOrder({}, 0)[k])]
        BY <3>1, <3>2, <4>1 DEF ClaudeR!MessagesOf
      <4>3. InOrder({}, 0) = <<>>
        <5>1. InOrder({}, 0) \in Seq({} \cap 1..0)
          BY InOrderIs
        <5>2. {} \cap 1..0 = {}
          OBVIOUS
        <5> DEFINE p == InOrder({}, 0)
        <5> HIDE DEF p
        <5>3. p \in Seq({})
          BY <5>1, <5>2 DEF p
        <5>4. p = <<>>
          BY <5>3
        <5> QED BY <5>4 DEF p
      <4>4. sent = <<>> /\ laterSent = sent
        BY <3>1, <3>2, <4>2, <4>3, SameOrder
      <4> QED BY <3>2, <4>4
    <3>5. IsPrefix(system, laterSystem)
      <4>1. system = laterSystem
        BY <3>1
      <4>2. (system = <<>>) \/ (\E x : system = <<x>>)
        BY DEF ClaudeR!SystemOf
      <4> QED BY <3>2, <3>3, <4>1, <4>2
    <3> QED BY <3>4, <3>5
  <2> QED BY <2>1, <2>2
<1>3. PICK rest : \A x : IsClaudeBody(ClaudeR!ResponsesToClaude(x, s), rest,
                                      ClaudeR!SystemOf(x, s), ClaudeR!MessagesOf(x))
  BY ClaudeResponsesBodyOf
<1>4. IsClaudeBody(body, rest, system, sent) /\ IsClaudeBody(next, rest, laterSystem, laterSent)
  BY <1>1, <1>3
<1> HIDE DEF system, laterSystem, sent, laterSent
<1>5. ClaudeExtends(body, next)
  BY <1>2, <1>4, ClaudeBodyGrows
<1> QED BY <1>5 DEF body, next

\* One more turn of a conversation in the Responses API, for Codex.
LEMMA CodexResponsesTurn ==
  ASSUME NEW list, NEW later, NEW n, OneMore(list, later, n), NEW s,
         Accepted(ResponsesAnswers(list, s).codex), Accepted(ResponsesAnswers(later, s).codex),
         NEW body, body = BodyOf(ResponsesAnswers(list, s).codex),
         NEW next, next = BodyOf(ResponsesAnswers(later, s).codex)
  PROVE  IsPrefix(body.input, next.input) /\ next = [body EXCEPT !.input = next.input]
<1> DEFINE given == CodexR!InputOf(list, s)
           laterGiven == CodexR!InputOf(later, s)
<1>1. body = CodexR!Normalized(given, s) /\ next = CodexR!Normalized(laterGiven, s)
  BY DEF ResponsesAnswers, Accepted, Refused, BodyOf, CodexR!Answer, CodexR!Refused,
         CodexR!Sent
<1> HIDE DEF given, laterGiven
<1>2. /\ body.input = [k \in DOMAIN given |-> CodexR!Item(given[k], k)]
      /\ next.input = [k \in DOMAIN laterGiven |-> CodexR!Item(laterGiven[k], k)]
  BY <1>1 DEF CodexR!Normalized
<1>3. IsPrefix(body.input, next.input)
  <2> DEFINE x == body.input
             y == next.input
  <2>1. \E i, j \in Nat :
          /\ i <= j /\ DOMAIN given = 1..i /\ DOMAIN laterGiven = 1..j
          /\ \A k \in 1..i : laterGiven[k] = given[k]
    <3>1. CASE s.messages = CodexR!Absent
      <4>1. given = list /\ laterGiven = later
        BY <3>1 DEF CodexR!InputOf, given, laterGiven
      <4>2. /\ n \in Nat /\ n + 1 \in Nat /\ n <= n + 1
            /\ DOMAIN given = 1..n /\ DOMAIN laterGiven = 1..(n + 1)
            /\ \A k \in 1..n : laterGiven[k] = given[k]
        BY <4>1 DEF OneMore
      <4> QED BY <4>2
    <3>2. CASE s.messages # CodexR!Absent
      <4>1. given = <<>> /\ laterGiven = <<>>
        BY <3>2 DEF CodexR!InputOf, given, laterGiven
      <4>2. /\ 0 \in Nat /\ 0 <= 0 /\ DOMAIN given = 1..0 /\ DOMAIN laterGiven = 1..0
            /\ \A k \in 1..0 : laterGiven[k] = given[k]
        BY <4>1
      <4> QED BY <4>2
    <3> QED BY <3>1, <3>2
  <2>2. PICK i \in Nat, j \in Nat :
          /\ i <= j /\ DOMAIN given = 1..i /\ DOMAIN laterGiven = 1..j
          /\ \A k \in 1..i : laterGiven[k] = given[k]
    BY <2>1
  <2>3. /\ x = [k \in 1..i |-> CodexR!Item(given[k], k)]
        /\ y = [k \in 1..j |-> CodexR!Item(laterGiven[k], k)]
    BY <1>2, <2>2
  <2>4. \A k \in 1..i : k \in 1..j
    BY <2>2
  <2> HIDE DEF x, y
  <2>5. x = [k \in 1..i |-> x[k]] /\ y = [k \in 1..j |-> y[k]]
    BY <2>3
  <2>6. \A k \in 1..i : x[k] = y[k]
    BY <2>2, <2>3, <2>4
  <2>7. AgreeUpTo(x, y, i, j)
    BY <2>2, <2>5, <2>6 DEF AgreeUpTo
  <2>8. IsPrefix(x, y)
    BY <2>7, PrefixOf
  <2> QED BY <2>8 DEF x, y
<1>4. next = [body EXCEPT !.input = next.input]
  <2> DEFINE W == [forwarded : {body.forwarded}, store : {body.store},
                   input : {body.input, next.input}, reply : {body.reply}]
  <2>1. body \in W /\ next \in W
    BY <1>1 DEF CodexR!Normalized
  <2> HIDE DEF W
  <2>2. [body EXCEPT !.input = next.input] \in W
    BY <2>1 DEF W
  <2> QED BY <2>1, <2>2 DEF W
<1> QED BY <1>3, <1>4
(***************************************************************************)
(* The kind of a tool's result is that of the call it answers, and stays.  *)
(***************************************************************************)
\* The flattening of CodexChat is that of this module.
LEMMA SameFlatten == \A lists : CodexC!FlattenSeq(lists) = FlattenSeq(lists)
  BY DEF CodexC!FlattenSeq, FlattenSeq

\* The calls of a message, and those of all messages.
LEMMA CallsOfIs ==
  ASSUME NEW T, NEW n \in Nat, NEW list, DOMAIN list = 1..n,
         \A i \in 1..n : CallsIn(list[i]) \in Seq(T)
  PROVE  CodexC!CallsOf(list) \in Seq(T)
<1> DEFINE lists == [i \in 1..n |-> CallsIn(list[i])]
<1>1. CodexC!CallsOf(list) = FlattenSeq(lists)
  BY SameFlatten DEF CodexC!CallsOf, CallsIn
<1>2. ListsOf(T, lists, n)
  BY DEF ListsOf
<1> HIDE DEF lists
<1>3. FlattenSeq(lists) \in Seq(T)
  BY <1>2, FlattenIs
<1> QED BY <1>1, <1>3

\* The calls of one more message come after those of the messages before it.
LEMMA CallsGrow ==
  ASSUME NEW T, NEW n, NEW list, NEW later, OneMore(list, later, n),
         \A i \in 1..(n + 1) : CallsIn(later[i]) \in Seq(T)
  PROVE  CodexC!CallsOf(later) = CodexC!CallsOf(list) \o CallsIn(later[n + 1])
<1>0. n \in Nat /\ n + 1 \in Nat /\ DOMAIN list = 1..n /\ DOMAIN later = 1..(n + 1)
  BY DEF OneMore
<1> DEFINE lists == [i \in 1..n |-> CallsIn(list[i])]
           longer == [i \in 1..(n + 1) |-> CallsIn(later[i])]
<1>1. CodexC!CallsOf(list) = FlattenSeq(lists)
  BY <1>0, SameFlatten DEF CodexC!CallsOf, CallsIn
<1>2. CodexC!CallsOf(later) = FlattenSeq(longer)
  BY <1>0, SameFlatten DEF CodexC!CallsOf, CallsIn
<1>3. \A i \in 1..n : i \in 1..(n + 1) /\ later[i] = list[i]
  BY <1>0 DEF OneMore
<1>4. \A i \in 1..n : lists[i] \in Seq(T) /\ longer[i] = lists[i]
  BY <1>3
<1>5. (\A i \in 1..(n + 1) : longer[i] \in Seq(T)) /\ longer[n + 1] = CallsIn(later[n + 1])
  BY <1>0
<1>6. ListsOf(T, lists, n) /\ ListsOf(T, longer, n + 1)
  BY <1>4, <1>5 DEF ListsOf
<1>7. \A i \in 1..n : longer[i] = lists[i]
  BY <1>4
<1> HIDE DEF lists, longer
<1>8. FlattenSeq(longer) = FlattenSeq(lists) \o longer[n + 1]
  BY <1>0, <1>6, <1>7, FlattenGrows, ZenonT(30)
<1> QED BY <1>1, <1>2, <1>5, <1>8

\* Calls with other ids do not change the kind of what an id answers.
LEMMA KindStays ==
  ASSUME NEW T, NEW list, NEW later, NEW id, NEW a \in Seq(T), NEW b \in Seq(T),
         CodexC!CallsOf(list) = a, CodexC!CallsOf(later) = a \o b,
         \A k \in 1..Len(b) : b[k].id # id
  PROVE  CodexC!AnswersCustomCall(later, id) <=> CodexC!AnswersCustomCall(list, id)
<1> DEFINE c == a \o b
<1>1. /\ c \in Seq(T) /\ Len(c) = Len(a) + Len(b) /\ Len(a) \in Nat /\ Len(b) \in Nat
      /\ \A k \in 1..Len(a) : c[k] = a[k]
      /\ \A k \in (Len(a) + 1)..Len(c) : c[k] = b[k - Len(a)]
  OBVIOUS
<1> HIDE DEF c
<1>2. \A k \in (Len(a) + 1)..Len(c) : c[k].id # id
  <2> TAKE k \in (Len(a) + 1)..Len(c)
  <2>1. k - Len(a) \in 1..Len(b)
    BY <1>1
  <2> QED BY <1>1, <2>1
<1>3. DOMAIN a = 1..Len(a) /\ DOMAIN c = 1..Len(c)
  BY <1>1
<1>4. CodexC!AnswersCustomCall(list, id) <=>
        \E i \in 1..Len(a) : /\ a[i].id = id /\ a[i].kind = "custom"
                             /\ \A j \in (i + 1)..Len(a) : a[j].id # id
  BY <1>3 DEF CodexC!AnswersCustomCall
<1>5. CodexC!AnswersCustomCall(later, id) <=>
        \E i \in 1..Len(c) : /\ c[i].id = id /\ c[i].kind = "custom"
                             /\ \A j \in (i + 1)..Len(c) : c[j].id # id
  BY <1>3 DEF CodexC!AnswersCustomCall, c
<1>6. ASSUME NEW i \in 1..Len(a), a[i].id = id, a[i].kind = "custom",
             \A j \in (i + 1)..Len(a) : a[j].id # id
      PROVE  /\ i \in 1..Len(c) /\ c[i].id = id /\ c[i].kind = "custom"
             /\ \A j \in (i + 1)..Len(c) : c[j].id # id
  <2>1. i \in 1..Len(c) /\ c[i] = a[i]
    BY <1>1
  <2>2. ASSUME NEW j \in (i + 1)..Len(c) PROVE c[j].id # id
    <3>1. CASE j \in (i + 1)..Len(a)
      <4>1. j \in 1..Len(a)
        BY <1>1, <3>1
      <4> QED BY <1>1, <1>6, <3>1, <4>1
    <3>2. CASE j \notin (i + 1)..Len(a)
      <4>1. j \in (Len(a) + 1)..Len(c)
        BY <1>1, <3>2
      <4> QED BY <1>2, <4>1
    <3> QED BY <3>1, <3>2
  <2> QED BY <1>6, <2>1, <2>2
<1>7. ASSUME NEW i \in 1..Len(c), c[i].id = id, c[i].kind = "custom",
             \A j \in (i + 1)..Len(c) : c[j].id # id
      PROVE  /\ i \in 1..Len(a) /\ a[i].id = id /\ a[i].kind = "custom"
             /\ \A j \in (i + 1)..Len(a) : a[j].id # id
  <2>1. i \in 1..Len(a)
    <3>1. i \notin (Len(a) + 1)..Len(c)
      BY <1>2, <1>7
    <3> QED BY <1>1, <3>1
  <2>2. a[i] = c[i]
    BY <1>1, <2>1
  <2>3. ASSUME NEW j \in (i + 1)..Len(a) PROVE a[j].id # id
    <3>1. j \in 1..Len(a) /\ j \in (i + 1)..Len(c)
      BY <1>1, <2>1
    <3>2. a[j] = c[j]
      BY <1>1, <3>1
    <3> QED BY <1>7, <3>1, <3>2
  <2> QED BY <1>7, <2>1, <2>2, <2>3
<1>8. CodexC!AnswersCustomCall(list, id) => CodexC!AnswersCustomCall(later, id)
  BY <1>4, <1>5, <1>6
<1>9. CodexC!AnswersCustomCall(later, id) => CodexC!AnswersCustomCall(list, id)
  BY <1>4, <1>5, <1>7
<1> QED BY <1>8, <1>9

\* Where no call is a custom one, no result answers one.
LEMMA NoneCustom ==
  ASSUME NEW T, \A c \in T : c.kind # "custom", NEW list, CodexC!CallsOf(list) \in Seq(T), NEW id
  PROVE  ~CodexC!AnswersCustomCall(list, id)
<1> DEFINE calls == CodexC!CallsOf(list)
<1> HIDE DEF calls
<1>1. calls \in Seq(T)
  BY DEF calls
<1>2. \A i \in DOMAIN calls : calls[i].kind # "custom"
  BY <1>1
<1> QED BY <1>2 DEF CodexC!AnswersCustomCall, calls
(***************************************************************************)
(* What a client that keeps the protocol says of its calls.                *)
(***************************************************************************)
ChatKept(list) ==
    /\ \A i, j \in DOMAIN list :
          \A k \in DOMAIN list[i].calls, l \in DOMAIN list[j].calls :
             list[i].calls[k].id = list[j].calls[l].id => i = j
    /\ \A at \in DOMAIN list : list[at].role = "tool" /\ list[at].answers # NoId =>
          \E i \in 1..(at - 1) : \E k \in DOMAIN list[i].calls :
             list[i].calls[k].id = list[at].answers
    /\ (\E at \in DOMAIN list : list[at].role = "function") =>
          \A at \in DOMAIN list : list[at].calls = <<>>

\* The calls of the older form: they are of functions, their ids of the proxy.
OlderOnes == {Call(Id(i, x), "function", x) : i \in Nat, x \in STRING}

\* The calls that come of a message are its own, or one of the older form.
LEMMA CameCalls ==
  ASSUME NEW m \in ClientMessages, NEW at \in Nat, NEW o, CameOf(m, at, o)
  PROVE  /\ CallsIn(o) \in Seq(ClientCalls \cup OlderOnes)
         /\ m.calls = <<>> => CallsIn(o) \in Seq(OlderOnes)
         /\ \A k \in 1..Len(CallsIn(o)) :
              \/ k \in DOMAIN m.calls /\ CallsIn(o)[k] = m.calls[k]
              \/ \E x : CallsIn(o)[k].id = Id(at, x)
<1> DEFINE T == ClientCalls \cup OlderOnes
<1>1. m.calls \in Seq(ClientCalls) /\ m.fcall \in STRING
  BY DEF ClientMessages
<1>2. m.calls \in Seq(T) /\ OlderOnes \subseteq T
  <2>1. ClientCalls \subseteq T /\ OlderOnes \subseteq T
    OBVIOUS
  <2> HIDE DEF T
  <2> QED BY <1>1, <2>1, SeqMonotonic
<1>3. <<>> \in Seq(T) /\ <<>> \in Seq(OlderOnes) /\ Len(<<>>) = 0
  OBVIOUS
<1> HIDE DEF T
<1>4. CASE o = m
  <2>1. (CallsIn(o) = <<>>) \/ (CallsIn(o) = m.calls)
    BY <1>4 DEF CallsIn
  <2>2. DOMAIN m.calls = 1..Len(m.calls)
    BY <1>1
  <2>3. CallsIn(o) \in Seq(T) /\ (m.calls = <<>> => CallsIn(o) \in Seq(OlderOnes))
    BY <1>2, <1>3, <2>1
  <2>4. \A k \in 1..Len(CallsIn(o)) : k \in DOMAIN m.calls /\ CallsIn(o)[k] = m.calls[k]
    BY <1>3, <2>1, <2>2
  <2> QED BY <2>3, <2>4 DEF T
<1>5. CASE Older(m) /\ o = WithToolCall(m, at)
  <2> DEFINE c == Call(Id(at, m.fcall), "function", m.fcall)
  <2>1. m = [role |-> m.role, content |-> m.content, calls |-> m.calls, listed |-> m.listed,
             fcall |-> m.fcall, name |-> m.name, answers |-> m.answers]
    BY DEF ClientMessages
  <2>2. o.role = "assistant" /\ o.calls = <<c>>
    BY <1>5, <2>1 DEF WithToolCall, Older
  <2>3. c \in OlderOnes /\ c.id = Id(at, m.fcall)
    <3>1. c.id = Id(at, m.fcall)
      BY DEF Call
    <3>2. c \in OlderOnes
      <4> DEFINE x == m.fcall
      <4>1. x \in STRING /\ at \in Nat /\ c = Call(Id(at, x), "function", x)
        BY <1>1
      <4> HIDE DEF x, c
      <4> QED BY <4>1 DEF OlderOnes
    <3> QED BY <3>1, <3>2
  <2> HIDE DEF c
  <2>4. CallsIn(o) = <<c>>
    BY <2>2 DEF CallsIn
  <2>5. c \in T
    BY <1>2, <2>3
  <2>6. <<c>> \in Seq(T) /\ <<c>> \in Seq(OlderOnes) /\ Len(<<c>>) = 1
    BY <2>3, <2>5
  <2>7. \A k \in 1..Len(CallsIn(o)) : CallsIn(o)[k].id = Id(at, m.fcall)
    BY <2>3, <2>4, <2>6
  <2> QED BY <2>4, <2>6, <2>7 DEF T
<1>6. CASE \E id : o = [Message("tool", m.content) EXCEPT !.answers = id]
  <2>1. o.role = "tool"
    BY <1>6 DEF Message
  <2>2. CallsIn(o) = <<>>
    BY <2>1 DEF CallsIn
  <2> QED BY <1>3, <2>2 DEF T
<1> QED BY <1>4, <1>5, <1>6 DEF CameOf

\* Each of out comes of the message in its place.
Came(list, out, n) ==
    /\ n \in Nat /\ DOMAIN list = 1..n /\ DOMAIN out = 1..n
    /\ \A i \in 1..n : list[i] \in ClientMessages /\ CameOf(list[i], i, out[i])

\* One more turn does not change the kind of an earlier result.
LEMMA KindsStay ==
  ASSUME NEW list, NEW longer, NEW n, OneMore(list, longer, n), ChatKept(longer),
         NEW out, NEW later, OneMore(out, later, n), Came(list, out, n),
         Came(longer, later, n + 1), NEW at \in 1..n, out[at].role = "tool",
         out[at].answers # NoId
  PROVE  CodexC!AnswersCustomCall(later, out[at].answers)
           <=> CodexC!AnswersCustomCall(out, out[at].answers)
<1> DEFINE id == out[at].answers
           T == ClientCalls \cup OlderOnes
<1>1. /\ n \in Nat /\ n + 1 \in Nat /\ at \in 1..(n + 1) /\ n + 1 \in 1..(n + 1)
      /\ list[at] = longer[at] /\ out[at] = later[at]
      /\ DOMAIN list = 1..n /\ DOMAIN longer = 1..(n + 1)
      /\ DOMAIN out = 1..n /\ DOMAIN later = 1..(n + 1)
  BY DEF OneMore
<1>2. /\ \A i \in 1..(n + 1) : longer[i] \in ClientMessages /\ CameOf(longer[i], i, later[i])
      /\ \A i \in 1..n : list[i] \in ClientMessages /\ CameOf(list[i], i, out[i])
  BY DEF Came
<1>3. (\A i \in 1..n : i \in Nat) /\ \A i \in 1..(n + 1) : i \in Nat
  BY <1>1
<1> HIDE DEF id, T
<1>4. longer[at].role = "function" \/ (longer[at].role = "tool" /\ longer[at] = out[at])
  <2>1. CameOf(longer[at], at, out[at]) /\ longer[at] \in ClientMessages
    BY <1>1, <1>2
  <2>2. CASE Older(longer[at]) /\ out[at] = WithToolCall(longer[at], at)
    <3>1. out[at].role = "assistant"
      BY <2>1, <2>2 DEF WithToolCall, Older, ClientMessages
    <3> QED BY <3>1
  <2> QED BY <2>1, <2>2 DEF CameOf
<1>5. CASE longer[at].role = "function"
  <2>1. (\A i \in 1..(n + 1) : longer[i].calls = <<>>) /\ \A i \in 1..n : list[i].calls = <<>>
    <3>1. \A i \in 1..(n + 1) : longer[i].calls = <<>>
      BY <1>1, <1>5 DEF ChatKept
    <3> QED BY <3>1 DEF OneMore
  <2>2. /\ \A i \in 1..(n + 1) : CallsIn(later[i]) \in Seq(OlderOnes)
        /\ \A i \in 1..n : CallsIn(out[i]) \in Seq(OlderOnes)
    BY <1>2, <1>3, <2>1, CameCalls
  <2>3. CodexC!CallsOf(out) \in Seq(OlderOnes) /\ CodexC!CallsOf(later) \in Seq(OlderOnes)
    BY <1>1, <2>2, CallsOfIs
  <2>4. \A c \in OlderOnes : c.kind # "custom"
    BY DEF OlderOnes, Call
  <2> QED BY <2>3, <2>4, NoneCustom
<1>6. CASE longer[at].role = "tool" /\ longer[at] = out[at]
  <2>1. longer[at].answers = id /\ id # NoId /\ id \in ClientIds
    BY <1>1, <1>2, <1>6 DEF id, ClientMessages
  <2>2. PICK i \in 1..(at - 1) : \E k \in DOMAIN longer[i].calls : longer[i].calls[k].id = id
    BY <1>1, <1>6, <2>1 DEF ChatKept
  <2>3. i \in 1..(n + 1) /\ i # n + 1
    BY <1>1, <2>2
  <2> DEFINE b == CallsIn(later[n + 1])
  <2>4. /\ \A j \in 1..(n + 1) : CallsIn(later[j]) \in Seq(T)
        /\ \A j \in 1..n : CallsIn(out[j]) \in Seq(T)
    BY <1>2, <1>3, CameCalls DEF T
  <2>5. ASSUME NEW j \in 1..Len(b) PROVE b[j].id # id
    <3>1. CASE j \in DOMAIN longer[n + 1].calls /\ b[j] = longer[n + 1].calls[j]
      BY <1>1, <2>2, <2>3, <3>1 DEF ChatKept
    <3>2. CASE \E x : b[j].id = Id(n + 1, x)
      <4>1. PICK x : b[j].id = Id(n + 1, x)
        BY <3>2
      <4>2. id[1] = 0 /\ Id(n + 1, x)[1] = n + 1 /\ n + 1 # 0
        BY <1>1, <2>1 DEF ClientIds, Id
      <4> QED BY <4>1, <4>2
    <3>3. longer[n + 1] \in ClientMessages /\ CameOf(longer[n + 1], n + 1, later[n + 1])
      BY <1>1, <1>2
    <3> QED BY <1>1, <3>1, <3>2, <3>3, CameCalls
  <2>6. b \in Seq(T)
    BY <1>1, <2>4
  <2>7. CodexC!CallsOf(out) \in Seq(T)
    BY <1>1, <2>4, CallsOfIs
  <2>8. CodexC!CallsOf(later) = CodexC!CallsOf(out) \o b
    BY <2>4, CallsGrow
  <2> HIDE DEF b
  <2>9. CodexC!AnswersCustomCall(later, id) <=> CodexC!AnswersCustomCall(out, id)
    BY <2>5, <2>6, <2>7, <2>8, KindStays
  <2> QED BY <2>9 DEF id
<1> QED BY <1>4, <1>5, <1>6
(***************************************************************************)
(* The input for Codex.                                                    *)
(***************************************************************************)
\* The items made of a message are a list of them.
LEMMA ToItemsIs ==
  ASSUME NEW list, NEW at, NEW T, Entries(list, at) \subseteq T,
         list[at].role = "assistant" => \E C : list[at].calls \in Seq(C)
  PROVE  CodexC!ToItems(list, at) \in Seq(T)
<1> DEFINE m == list[at]
           result == CodexC!ResultItem(list, m, at)
           beside == CodexC!Item("assistant", CodexC!ContentOf(m.content, at))
           plain == CodexC!Item(m.role, CodexC!ContentOf(m.content, at))
           calls == [k \in DOMAIN m.calls |-> CodexC!CallItem(m.calls[k])]
           text == CodexC!TextItem(m, at)
<1>1. result \in T /\ beside \in T /\ plain \in T
  BY DEF Entries
<1>2. \A k \in DOMAIN m.calls : CodexC!CallItem(m.calls[k]) \in T
  BY DEF Entries
<1>3. (text = <<>>) \/ (text = <<beside>>)
  BY DEF CodexC!TextItem
<1>4. CodexC!ToItems(list, at) =
        CASE m.role = "tool" -> <<result>>
          [] m.role = "assistant" /\ m.calls # <<>> -> text \o calls
          [] OTHER -> <<plain>>
  BY DEF CodexC!ToItems
<1>5. m.role = "assistant" => calls \in Seq(T)
  <2> SUFFICES ASSUME m.role = "assistant" PROVE calls \in Seq(T)
    OBVIOUS
  <2>1. PICK C : m.calls \in Seq(C)
    OBVIOUS
  <2>2. DOMAIN m.calls = 1..Len(m.calls) /\ Len(m.calls) \in Nat
    BY <2>1
  <2>3. calls \in [1..Len(m.calls) -> T]
    BY <1>2, <2>2
  <2> HIDE DEF calls
  <2> QED BY <2>2, <2>3, IsASeq
<1> HIDE DEF m, result, beside, plain, calls, text
<1>6. text \in Seq(T)
  <2>1. <<beside>> \in Seq(T) /\ <<>> \in Seq(T)
    BY <1>1
  <2> QED BY <1>3, <2>1
<1>7. <<result>> \in Seq(T) /\ <<plain>> \in Seq(T)
  BY <1>1
<1>8. CASE m.role = "assistant"
  <2>1. text \o calls \in Seq(T)
    BY <1>5, <1>6, <1>8
  <2> QED BY <1>4, <1>7, <1>8, <2>1
<1>9. CASE m.role # "assistant"
  BY <1>4, <1>7, <1>9
<1> QED BY <1>8, <1>9

\* One more turn appends items to the input.
LEMMA InputGrows ==
  ASSUME NEW list, NEW longer, NEW n, OneMore(list, longer, n), ChatKept(longer),
         NEW out, NEW later, OneMore(out, later, n), Came(list, out, n),
         Came(longer, later, n + 1), CodexC!MessageRoles(out)
  PROVE  \E T, more : /\ CodexC!MessagesToInput(out) \in Seq(T) /\ more \in Seq(T)
                      /\ CodexC!MessagesToInput(later) = CodexC!MessagesToInput(out) \o more
<1>0. /\ n \in Nat /\ n + 1 \in Nat /\ n + 1 \in 1..(n + 1)
      /\ DOMAIN out = 1..n /\ DOMAIN later = 1..(n + 1)
      /\ \A at \in 1..n : at \in 1..(n + 1) /\ later[at] = out[at]
  BY DEF OneMore
<1> DEFINE lists == [at \in 1..n |-> CodexC!ToItems(out, at)]
           more == [at \in 1..(n + 1) |-> CodexC!ToItems(later, at)]
           T == UNION {Entries(later, at) : at \in 1..(n + 1)}
<1>1. ASSUME NEW at \in 1..n PROVE CodexC!ToItems(later, at) = CodexC!ToItems(out, at)
  <2>1. later[at] = out[at]
    BY <1>0
  <2>2. out[at].role = "tool" =>
          CodexC!ResultItem(later, later[at], at) = CodexC!ResultItem(out, out[at], at)
    <3> SUFFICES ASSUME out[at].role = "tool"
                 PROVE  CodexC!ResultItem(later, later[at], at)
                          = CodexC!ResultItem(out, out[at], at)
      OBVIOUS
    <3>1. out[at].answers # NoId
      BY <1>0 DEF CodexC!MessageRoles, CodexC!MessageValid, CodexC!NoId, CodexC!Id, NoId, Id
    <3>2. CodexC!AnswersCustomCall(later, out[at].answers)
            <=> CodexC!AnswersCustomCall(out, out[at].answers)
      BY <3>1, KindsStay
    <3> QED BY <2>1, <3>2 DEF CodexC!ResultItem
  <2>3. CASE out[at].role = "tool"
    BY <2>1, <2>2, <2>3 DEF CodexC!ToItems
  <2>4. CASE out[at].role # "tool"
    BY <2>1, <2>4 DEF CodexC!ToItems
  <2> QED BY <2>3, <2>4
<1>2. ASSUME NEW at \in 1..(n + 1) PROVE CodexC!ToItems(later, at) \in Seq(T)
  <2>1. Entries(later, at) \subseteq T
    OBVIOUS
  <2>2. longer[at] \in ClientMessages /\ CameOf(longer[at], at, later[at]) /\ at \in Nat
    BY <1>0 DEF Came
  <2>3. later[at].role = "assistant" => \E C : later[at].calls \in Seq(C)
    <3>1. CallsIn(later[at]) \in Seq(ClientCalls \cup OlderOnes)
      BY <2>2, CameCalls
    <3> QED BY <3>1 DEF CallsIn
  <2> HIDE DEF T
  <2> QED BY <2>1, <2>3, ToItemsIs
<1> HIDE DEF T
<1>3. ListsOf(T, lists, n) /\ ListsOf(T, more, n + 1)
  <2>1. \A at \in 1..n : CodexC!ToItems(out, at) \in Seq(T)
    BY <1>0, <1>1, <1>2
  <2> QED BY <1>2, <2>1 DEF ListsOf
<1>4. \A at \in 1..n : more[at] = lists[at]
  BY <1>0, <1>1
<1>5. /\ CodexC!MessagesToInput(out) = FlattenSeq(lists)
      /\ CodexC!MessagesToInput(later) = FlattenSeq(more)
  BY <1>0, SameFlatten DEF CodexC!MessagesToInput
<1>6. more[n + 1] \in Seq(T)
  BY <1>0, <1>2
<1> HIDE DEF lists, more
<1>7. FlattenSeq(more) = FlattenSeq(lists) \o more[n + 1]
  <2>1. n \in Nat
    BY <1>0
  <2> QED BY ONLY <1>3, <1>4, <2>1, FlattenGrows, ZenonT(30)
<1>8. FlattenSeq(lists) \in Seq(T)
  BY <1>0, <1>3, FlattenIs
<1> QED BY <1>5, <1>6, <1>7, <1>8
(***************************************************************************)
(* The body for Codex.                                                     *)
(***************************************************************************)
CodexBodyOf(rest, picture, choice, input) ==
    [forwarded |-> rest.forwarded, max_output_tokens |-> rest.max_output_tokens,
     stop |-> rest.stop, obfuscation |-> rest.obfuscation, store |-> rest.store,
     image_generation |-> picture, tool_choice |-> choice, input |-> input,
     reply |-> rest.reply]
IsCodexBody(body, rest, picture, choice, input) ==
    body = CodexBodyOf(rest, picture, choice, input)

\* A later body for Codex extends an earlier one, but for pictures.
CodexExtends(body, next, draws) ==
    /\ IsPrefix(body.input, next.input)
    /\ IF draws THEN SameButForPictures(body, next)
       ELSE next = [body EXCEPT !.input = next.input]

\* With a longer conversation nothing but the input changes, and the wish for a picture.
LEMMA CodexBodyGrows ==
  ASSUME NEW rest, NEW p, NEW q, NEW c, NEW d, NEW i, NEW j, IsPrefix(i, j),
         NEW w, IsCodexBody(w, rest, p, c, i), NEW next, IsCodexBody(next, rest, q, d, j),
         NEW draws \in BOOLEAN, ~draws => p = q /\ c = d
  PROVE  CodexExtends(w, next, draws)
<1>1. /\ w.input = i /\ next.input = j
      /\ next.image_generation = q /\ next.tool_choice = d
  BY DEF IsCodexBody, CodexBodyOf
<1> DEFINE W == [forwarded : {rest.forwarded}, max_output_tokens : {rest.max_output_tokens},
                 stop : {rest.stop}, obfuscation : {rest.obfuscation}, store : {rest.store},
                 image_generation : {p, q}, tool_choice : {c, d}, input : {i, j},
                 reply : {rest.reply}]
           v == [w EXCEPT !.input = j, !.image_generation = q, !.tool_choice = d]
           u == [w EXCEPT !.input = j]
<1>2. w \in W
  BY DEF IsCodexBody, CodexBodyOf
<1>3. v \in W /\ v.input = j /\ v.image_generation = q /\ v.tool_choice = d
  BY <1>2
<1>4. v = next
  <2> HIDE DEF v
  <2> QED BY <1>3 DEF IsCodexBody, CodexBodyOf
<1>5. SameButForPictures(w, next)
  BY <1>1, <1>4 DEF SameButForPictures
<1>6. p = q /\ c = d => next = [w EXCEPT !.input = next.input]
  <2>1. w.image_generation = p /\ w.tool_choice = c
    BY DEF IsCodexBody, CodexBodyOf
  <2>2. u \in W /\ u.input = j /\ u.image_generation = p /\ u.tool_choice = c
    BY <1>2, <2>1
  <2>3. u = CodexBodyOf(rest, p, c, j)
    <3> HIDE DEF u
    <3> QED BY <2>2 DEF CodexBodyOf
  <2> QED BY <1>1, <2>3 DEF IsCodexBody
<1> QED BY <1>1, <1>5, <1>6 DEF CodexExtends

\* What a chat decides of the body: the input, and the wish for a picture.
CodexChatSends(x, fields, legacy) ==
    [CodexC!Canonical(x, fields) EXCEPT !.reply.legacy = legacy]
CodexChatPicture(x, fields) == CodexC!WantsPicture(x, fields)
CodexChatChoice(x, fields) ==
    IF CodexC!WantsPicture(x, fields) /\ CodexC!CodexToolChoice(fields) = CodexC!Absent
    THEN "image" ELSE CodexC!CodexToolChoice(fields)
CodexChatInput(x) ==
    [k \in DOMAIN CodexC!MessagesToInput(x) |-> CodexC!Developer(CodexC!MessagesToInput(x)[k])]
LEMMA CodexChatBodyOf ==
  ASSUME NEW fields, NEW legacy
  PROVE  \E rest : \A x : IsCodexBody(CodexChatSends(x, fields, legacy), rest,
                                      CodexChatPicture(x, fields), CodexChatChoice(x, fields),
                                      CodexChatInput(x))
<1> DEFINE R(x) == [CodexC!Canonical(x, fields) EXCEPT !.reply.legacy = legacy]
           rest == R(<<>>)
<1>1. \A x : R(x) = CodexBodyOf(rest, CodexChatPicture(x, fields), CodexChatChoice(x, fields),
                                CodexChatInput(x))
  <2> TAKE x
  <2> DEFINE W == [forwarded : {rest.forwarded}, max_output_tokens : {rest.max_output_tokens},
                   stop : {rest.stop}, obfuscation : {rest.obfuscation}, store : {rest.store},
                   image_generation : {CodexChatPicture(x, fields)},
                   tool_choice : {CodexChatChoice(x, fields)}, input : {CodexChatInput(x)},
                   reply : {rest.reply}]
  <2> DEFINE input == CodexChatInput(x)
             picture == CodexChatPicture(x, fields)
             choice == CodexChatChoice(x, fields)
             z == CodexC!Canonical(<<>>, fields)
             y == CodexC!Canonical(x, fields)
  <2>1. /\ y = [forwarded |-> y.forwarded, max_output_tokens |-> y.max_output_tokens,
                stop |-> y.stop, obfuscation |-> y.obfuscation, store |-> y.store,
                image_generation |-> y.image_generation, tool_choice |-> y.tool_choice,
                input |-> y.input, reply |-> y.reply]
        /\ z = [forwarded |-> z.forwarded, max_output_tokens |-> z.max_output_tokens,
                stop |-> z.stop, obfuscation |-> z.obfuscation, store |-> z.store,
                image_generation |-> z.image_generation, tool_choice |-> z.tool_choice,
                input |-> z.input, reply |-> z.reply]
    BY DEF CodexC!Canonical
  <2>2. y.input = input /\ y.image_generation = picture /\ y.tool_choice = choice
    <3>1. y.input = input
      BY DEF CodexC!Canonical, CodexChatInput
    <3>2. y.image_generation = picture
      BY DEF CodexC!Canonical, CodexChatPicture
    <3>3. y.tool_choice = choice
      BY DEF CodexC!Canonical, CodexChatChoice
    <3> QED BY <3>1, <3>2, <3>3
  <2>3. /\ y.forwarded = z.forwarded /\ y.max_output_tokens = z.max_output_tokens
        /\ y.stop = z.stop /\ y.obfuscation = z.obfuscation /\ y.store = z.store
        /\ y.reply = z.reply
    BY DEF CodexC!Canonical
  <2> HIDE DEF input, picture, choice, y, z
  <2>4. R(x) = [y EXCEPT !.reply.legacy = legacy] /\ rest = [z EXCEPT !.reply.legacy = legacy]
    BY DEF y, z
  <2>5. R(x) \in W
    BY <2>1, <2>2, <2>3, <2>4 DEF input, picture, choice
  <2> HIDE DEF R, rest
  <2> QED BY <2>5 DEF CodexBodyOf
<1> QED BY <1>1 DEF IsCodexBody, CodexChatSends

\* What the Codex handler of a chat sends, and what it has found in order.
LEMMA CodexChatHistory ==
  ASSUME NEW messages, NEW s, Accepted(ChatAnswers(messages, s).codex)
  PROVE  /\ ~Normalized(messages).error /\ CodexC!MessageRoles(Normalized(messages).out)
         /\ BodyOf(ChatAnswers(messages, s).codex)
              = CodexChatSends(Normalized(messages).out, CodexC!CodexLegacyFields(s),
                               CodexC!CodexLegacyReply(s))
  BY DEF CodexChatSends, ChatAnswers, Accepted, Refused, BodyOf, CodexC!Answer,
         CodexC!Refused, CodexC!Sent

\* Each of the messages normalised comes of the client's in its place.
LEMMA NormalizedCame ==
  ASSUME NEW messages \in Seq(ClientMessages), ~Normalized(messages).error
  PROVE  Came(messages, Normalized(messages).out, Len(messages))
<1> DEFINE out == Normalized(messages).out
           n == Len(messages)
<1>1. n \in Nat /\ DOMAIN messages = 1..n /\ \A i \in 1..n : messages[i] \in ClientMessages
  OBVIOUS
<1>2. NormalUpTo(Normalized(messages), messages, n)
  BY <1>1, NormalizedIs
<1>3. /\ \E X : out \in Seq(X)
      /\ Len(out) = n /\ \A k \in 1..n : CameOf(messages[k], k, out[k])
  BY <1>2 DEF NormalUpTo
<1> HIDE DEF out, n
<1>4. DOMAIN out = 1..n
  BY <1>3
<1>5. Came(messages, out, n)
  BY <1>1, <1>3, <1>4 DEF Came
<1> QED BY <1>5 DEF out, n

\* One more turn of a chat, for Codex.
LEMMA CodexChatTurn ==
  ASSUME NEW messages \in Seq(ClientMessages), NEW later \in Seq(ClientMessages), NEW n,
         OneMore(messages, later, n), ChatKept(later), NEW s,
         Accepted(ChatAnswers(messages, s).codex), Accepted(ChatAnswers(later, s).codex)
  PROVE  CodexExtends(BodyOf(ChatAnswers(messages, s).codex),
                      BodyOf(ChatAnswers(later, s).codex), later[n + 1].content = "draw")
<1> DEFINE body == BodyOf(ChatAnswers(messages, s).codex)
           next == BodyOf(ChatAnswers(later, s).codex)
           out == Normalized(messages).out
           laterOut == Normalized(later).out
           fields == CodexC!CodexLegacyFields(s)
           legacy == CodexC!CodexLegacyReply(s)
           picture == CodexChatPicture(out, fields)
           laterPicture == CodexChatPicture(laterOut, fields)
           choice == CodexChatChoice(out, fields)
           laterChoice == CodexChatChoice(laterOut, fields)
           input == CodexChatInput(out)
           laterInput == CodexChatInput(laterOut)
           draws == later[n + 1].content = "draw"
<1>1. /\ ~Normalized(messages).error /\ ~Normalized(later).error
      /\ CodexC!MessageRoles(out)
      /\ body = CodexChatSends(out, fields, legacy)
      /\ next = CodexChatSends(laterOut, fields, legacy)
  BY CodexChatHistory
<1>2. OneMore(out, laterOut, n)
  BY <1>1, OutOneMore
<1>3. Came(messages, out, n) /\ Came(later, laterOut, n + 1)
  <2>1. Len(messages) = n /\ Len(later) = n + 1
    BY DEF OneMore
  <2>2. Came(messages, out, Len(messages)) /\ Came(later, laterOut, Len(later))
    BY <1>1, NormalizedCame
  <2> QED BY <2>1, <2>2
<1> HIDE DEF body, next, out, laterOut, fields, legacy
<1>4. IsPrefix(input, laterInput)
  <2> DEFINE a == CodexC!MessagesToInput(out)
             b == CodexC!MessagesToInput(laterOut)
  <2>1. PICK T, more : a \in Seq(T) /\ more \in Seq(T) /\ b = a \o more
    BY <1>1, <1>2, <1>3, InputGrows
  <2> HIDE DEF a, b
  <2>2. /\ Len(a) \in Nat /\ Len(b) \in Nat /\ Len(a) <= Len(b)
        /\ DOMAIN a = 1..Len(a) /\ DOMAIN b = 1..Len(b)
        /\ \A k \in 1..Len(a) : k \in 1..Len(b) /\ b[k] = a[k]
    BY <2>1
  <2>3. /\ input = [k \in 1..Len(a) |-> CodexC!Developer(a[k])]
        /\ laterInput = [k \in 1..Len(b) |-> CodexC!Developer(b[k])]
    BY <2>2 DEF CodexChatInput, a, b
  <2> HIDE DEF input, laterInput
  <2>4. /\ input = [k \in 1..Len(a) |-> input[k]]
        /\ laterInput = [k \in 1..Len(b) |-> laterInput[k]]
    BY <2>3
  <2>5. \A k \in 1..Len(a) : input[k] = laterInput[k]
    BY <2>2, <2>3
  <2>6. AgreeUpTo(input, laterInput, Len(a), Len(b))
    BY <2>2, <2>4, <2>5 DEF AgreeUpTo
  <2> QED BY <2>6, PrefixOf
<1>5. ~draws => picture = laterPicture /\ choice = laterChoice
  <2> SUFFICES ASSUME ~draws PROVE picture = laterPicture /\ choice = laterChoice
    OBVIOUS
  <2>1. laterOut[n + 1].content # "draw"
    <3>1. /\ n + 1 \in Nat \ {0} /\ later[n + 1] \in ClientMessages
          /\ CameOf(later[n + 1], n + 1, laterOut[n + 1])
      BY <1>3 DEF Came, OneMore
    <3> QED BY <3>1, CameContent
  <2>2. (\E i \in DOMAIN out : out[i].content = "draw")
          <=> \E i \in DOMAIN laterOut : laterOut[i].content = "draw"
    <3>1. /\ n \in Nat /\ DOMAIN out = 1..n /\ DOMAIN laterOut = 1..(n + 1)
          /\ \A i \in 1..n : i \in 1..(n + 1) /\ laterOut[i] = out[i]
          /\ \A i \in 1..(n + 1) : i \in 1..n \/ i = n + 1
      BY <1>2 DEF OneMore
    <3> QED BY <2>1, <3>1
  <2>3. CodexC!WantsPicture(out, fields) <=> CodexC!WantsPicture(laterOut, fields)
    BY <2>2 DEF CodexC!WantsPicture
  <2>4. /\ CodexC!WantsPicture(out, fields) \in BOOLEAN
        /\ CodexC!WantsPicture(laterOut, fields) \in BOOLEAN
    BY DEF CodexC!WantsPicture
  <2>5. CodexC!WantsPicture(out, fields) = CodexC!WantsPicture(laterOut, fields)
    BY <2>3, <2>4
  <2> QED BY <2>5 DEF CodexChatPicture, CodexChatChoice
<1>6. PICK rest : \A x : IsCodexBody(CodexChatSends(x, fields, legacy), rest,
                                     CodexChatPicture(x, fields), CodexChatChoice(x, fields),
                                     CodexChatInput(x))
  BY CodexChatBodyOf
<1>7. /\ IsCodexBody(body, rest, picture, choice, input)
      /\ IsCodexBody(next, rest, laterPicture, laterChoice, laterInput)
  BY <1>1, <1>6
<1>8. draws \in BOOLEAN
  OBVIOUS
<1> HIDE DEF picture, laterPicture, choice, laterChoice, input, laterInput, draws
<1>9. CodexExtends(body, next, draws)
  BY <1>4, <1>5, <1>7, <1>8, CodexBodyGrows
<1> QED BY <1>9 DEF body, next, draws
(***************************************************************************)
(* A step that adds a turn.                                                *)
(***************************************************************************)
\* The client's protocol, as far as one more turn of a chat depends on it.
LEMMA ProtocolOfChat ==
  ASSUME api = "chat", items \in Seq(ClientMessages), ProtocolKept
  PROVE  ChatKept(items)
<1>1. \A i, j \in DOMAIN items :
        \A k \in DOMAIN items[i].calls, l \in DOMAIN items[j].calls :
           items[i].calls[k].id = items[j].calls[l].id => i = j
  BY DEF ProtocolKept, UniqueCalls
<1>2. ASSUME NEW at \in DOMAIN items, items[at].role = "tool", items[at].answers # NoId
      PROVE  \E i \in 1..(at - 1) : \E k \in DOMAIN items[i].calls :
                items[i].calls[k].id = items[at].answers
  <2>1. Answered(at) = items[at].answers
    BY <1>2 DEF Answered
  <2>2. \E i \in 1..(at - 1) : CallFor(i, at)
    BY <1>2, <2>1 DEF ProtocolKept
  <2> QED BY <2>2 DEF CallFor
<1>3. (\E at \in DOMAIN items : items[at].role = "function") =>
        \A at \in DOMAIN items : items[at].calls = <<>>
  BY DEF ProtocolKept, OlderFormKept
<1> QED BY <1>1, <1>2, <1>3 DEF ChatKept

\* A step that changes the conversation adds one turn to it, and nothing else.
LEMMA TurnAdds ==
  ASSUME BodyInv, [Next]_vars, items' # items
  PROVE  /\ api' = api /\ settings' = settings
         /\ \E item \in Sayable(api) : items' = Append(items, item)
<1>1. CASE SetParameter
  BY <1>1 DEF SetParameter
<1>2. CASE ChatCompletion
  BY <1>2 DEF ChatCompletion, Sayable
<1>3. CASE Response
  BY <1>3 DEF Response, Sayable
<1>4. CASE UNCHANGED vars
  BY <1>4 DEF vars
<1> QED BY <1>1, <1>2, <1>3, <1>4 DEF Next

\* What is sent of the conversation with one more turn extends what was sent of it.
LEMMA TurnsExtend ==
  ASSUME BodyInv, BodyInv', [Next]_vars, items' # items, ProtocolKept'
  PROVE  ClaudeTurnExtends /\ CodexTurnExtends
<1> DEFINE n == Len(items)
<1>1. /\ api' = api /\ settings' = settings
      /\ \E item \in Sayable(api) : items' = Append(items, item)
  BY TurnAdds
<1>2. PICK item \in Sayable(api) : items' = Append(items, item)
  BY <1>1
<1>3. /\ items \in Seq(Sayable(api)) /\ items' \in Seq(Sayable(api))
      /\ api \in {"chat", "responses"}
  BY <1>1 DEF BodyInv
<1>4. OneMore(items, items', n) /\ items'[n + 1] = item
  BY <1>2, <1>3, OneMoreIs
<1>5. Last(items') = items'[n + 1]
  BY <1>4 DEF OneMore, Last
<1>6. CASE api = "chat"
  <2>1. /\ answers = ChatAnswers(items, settings)
        /\ answers' = ChatAnswers(items', settings)
    BY <1>1, <1>6 DEF BodyInv, Answers
  <2>2. items \in Seq(ClientMessages) /\ items' \in Seq(ClientMessages)
    <3>1. Sayable(api) \subseteq ClientMessages
      BY <1>6, MessagesAssumption DEF Sayable
    <3> QED BY <1>3, <3>1, SeqMonotonic
  <2>3. ChatKept(items')
    <3>1. (api = "chat" /\ items \in Seq(ClientMessages) /\ ProtocolKept => ChatKept(items))'
      BY ProtocolOfChat, PTL
    <3> QED BY <1>1, <1>6, <2>2, <3>1
  <2>4. ClaudeTurnExtends
    <3> SUFFICES ASSUME Accepted(answers.claude), Accepted(answers'.claude)
                 PROVE  ClaudeExtends(BodyOf(answers.claude), BodyOf(answers'.claude))
      BY DEF ClaudeTurnExtends, ClaudeExtends
    <3> QED BY <1>4, <2>1, ClaudeChatTurn
  <2>5. CodexTurnExtends
    <3> SUFFICES ASSUME Accepted(answers.codex), Accepted(answers'.codex)
                 PROVE  CodexExtends(BodyOf(answers.codex), BodyOf(answers'.codex),
                                     items'[n + 1].content = "draw")
      BY <1>5, <1>6 DEF CodexTurnExtends, CodexExtends, Draws
    <3> QED BY <1>4, <2>1, <2>2, <2>3, CodexChatTurn
  <2> QED BY <2>4, <2>5
<1>7. CASE api = "responses"
  <2>1. /\ answers = ResponsesAnswers(items, settings)
        /\ answers' = ResponsesAnswers(items', settings)
    BY <1>1, <1>7 DEF BodyInv, Answers
  <2>2. ClaudeTurnExtends
    <3> SUFFICES ASSUME Accepted(answers.claude), Accepted(answers'.claude)
                 PROVE  ClaudeExtends(BodyOf(answers.claude), BodyOf(answers'.claude))
      BY DEF ClaudeTurnExtends, ClaudeExtends
    <3> QED BY <1>4, <2>1, ClaudeResponsesTurn
  <2>3. CodexTurnExtends
    <3> SUFFICES ASSUME Accepted(answers.codex), Accepted(answers'.codex)
                 PROVE  LET body == BodyOf(answers.codex)
                            next == BodyOf(answers'.codex)
                        IN  /\ IsPrefix(body.input, next.input)
                            /\ next = [body EXCEPT !.input = next.input]
      BY <1>7 DEF CodexTurnExtends
    <3> QED BY <1>4, <2>1, CodexResponsesTurn
  <2> QED BY <2>2, <2>3
<1> QED BY <1>3, <1>6, <1>7

(***************************************************************************)
(* With another turn, whatever the messages, items, limits and parameters, *)
(* and however long the conversation, what was sent of the earlier ones is *)
(* sent again as it was: the ids of older calls, the pairing of results,   *)
(* the system prompt and the kinds of results do not move.                 *)
(***************************************************************************)
THEOREM EarlierTurnsAlwaysKept == Spec => EarlierTurnsAreKept
<1>1. BodyInv /\ BodyInv' /\ [Next]_vars =>
        [items' # items /\ items # <<>> /\ ProtocolKept' =>
            ClaudeTurnExtends /\ CodexTurnExtends]_vars
  BY TurnsExtend
<1> QED BY <1>1, BodyInvariant, PTL DEF Spec, EarlierTurnsAreKept

(***************************************************************************)
(* Lists of lists, and the one list they make.                             *)
(***************************************************************************)
\* A list has a length, and is the function of its places.
LEMMA ListIs ==
  ASSUME NEW s, IsList(s)
  PROVE  /\ Len(s) \in Nat /\ DOMAIN s = 1..Len(s)
         /\ s = [k \in 1..Len(s) |-> s[k]]
<1>1. PICK T : s \in Seq(T)
  BY DEF IsList
<1> QED BY <1>1

\* A function of the first n numbers is a list, of what it holds.
LEMMA AList ==
  ASSUME NEW s, NEW n \in Nat, s = [k \in 1..n |-> s[k]]
  PROVE  /\ IsList(s) /\ Len(s) = n
         /\ \A T : (\A k \in 1..n : s[k] \in T) => s \in Seq(T)
<1>1. ASSUME NEW T, \A k \in 1..n : s[k] \in T PROVE s \in Seq(T) /\ Len(s) = n
  <2>1. s \in [1..n -> T]
    BY <1>1
  <2> QED BY <2>1, IsASeq
<1> DEFINE T == {s[k] : k \in 1..n}
<1>2. \A k \in 1..n : s[k] \in T
  OBVIOUS
<1> HIDE DEF T
<1> QED BY <1>1, <1>2 DEF IsList

\* Two lists are lists of one set.
LEMMA TwoLists ==
  ASSUME NEW a, NEW b, IsList(a), IsList(b)
  PROVE  \E T : a \in Seq(T) /\ b \in Seq(T)
<1>1. PICK X, Y : a \in Seq(X) /\ b \in Seq(Y)
  BY DEF IsList
<1> DEFINE T == X \cup Y
<1>2. X \subseteq T /\ Y \subseteq T
  OBVIOUS
<1> HIDE DEF T
<1>3. a \in Seq(T) /\ b \in Seq(T)
  BY <1>1, <1>2, SeqMonotonic
<1> QED BY <1>3

\* Two lists, one after the other.
LEMMA Joined2 ==
  ASSUME NEW a, NEW b, IsList(a), IsList(b)
  PROVE  /\ IsList(a \o b) /\ Len(a \o b) = Len(a) + Len(b)
         /\ \A k \in 1..Len(a) : (a \o b)[k] = a[k]
         /\ \A k \in 1..Len(b) : (a \o b)[Len(a) + k] = b[k]
<1>1. PICK T : a \in Seq(T) /\ b \in Seq(T)
  BY TwoLists
<1>2. /\ a \o b \in Seq(T) /\ Len(a \o b) = Len(a) + Len(b)
      /\ Len(a) \in Nat /\ Len(b) \in Nat
      /\ \A i \in 1 .. Len(a) + Len(b) :
            (a \o b)[i] = IF i <= Len(a) THEN a[i] ELSE b[i - Len(a)]
  BY <1>1, ConcatProperties
<1> DEFINE c == a \o b
<1>3. IsList(c)
  BY <1>2 DEF IsList
<1> HIDE DEF c
<1>4. \A k \in 1..Len(a) : k \in 1..Len(a) + Len(b) /\ k <= Len(a)
  BY <1>2
<1>5. \A k \in 1..Len(b) : /\ Len(a) + k \in 1..Len(a) + Len(b) /\ ~(Len(a) + k <= Len(a))
                           /\ (Len(a) + k) - Len(a) = k
  BY <1>2
<1> QED BY <1>2, <1>3, <1>4, <1>5 DEF c

\* Joining is associative, and the empty list adds nothing.
LEMMA JoinLaws ==
  ASSUME NEW a, IsList(a)
  PROVE  /\ a \o <<>> = a /\ <<>> \o a = a
         /\ \A b, c : IsList(b) /\ IsList(c) => (a \o b) \o c = a \o (b \o c)
<1>1. a \o <<>> = a /\ <<>> \o a = a
  BY DEF IsList
<1>2. ASSUME NEW b, NEW c, IsList(b), IsList(c) PROVE (a \o b) \o c = a \o (b \o c)
  <2>1. PICK T : a \in Seq(T) /\ b \in Seq(T)
    BY <1>2, TwoLists
  <2>2. PICK U : c \in Seq(U)
    BY <1>2 DEF IsList
  <2> DEFINE X == T \cup U
  <2>3. T \subseteq X /\ U \subseteq X
    OBVIOUS
  <2> HIDE DEF X
  <2>4. a \in Seq(X) /\ b \in Seq(X) /\ c \in Seq(X)
    BY <2>1, <2>2, <2>3, SeqMonotonic
  <2> QED BY <2>4, ConcatAssociative
<1> QED BY <1>1, <1>2

\* The empty list and a list of one.
LEMMA ShortLists ==
  ASSUME NEW x
  PROVE  /\ IsList(<<>>) /\ Len(<<>>) = 0 /\ DOMAIN <<>> = {}
         /\ IsList(<<x>>) /\ Len(<<x>>) = 1 /\ <<x>>[1] = x /\ DOMAIN <<x>> = {1}
<1>1. <<>> \in Seq({x}) /\ <<x>> \in Seq({x})
  OBVIOUS
<1>2. IsList(<<>>) /\ IsList(<<x>>)
  BY <1>1 DEF IsList
<1>3. DOMAIN <<x>> = {1} /\ DOMAIN <<>> = {}
  OBVIOUS
<1> QED BY <1>2, <1>3

\* n lists are lists of one set.
LEMMA OfOneSet ==
  ASSUME NEW n \in Nat, NEW f, AreLists(f, n)
  PROVE  \E T : ListsOf(T, f, n)
<1> DEFINE R(i) == {f[i][k] : k \in 1..Len(f[i])}
           T == UNION {R(i) : i \in 1..n}
<1>1. f = [i \in 1..n |-> f[i]] /\ \A i \in 1..n : IsList(f[i])
  BY DEF AreLists
<1>2. ASSUME NEW i \in 1..n PROVE f[i] \in Seq(T)
  <2>1. Len(f[i]) \in Nat /\ f[i] = [k \in 1..Len(f[i]) |-> f[i][k]]
    BY <1>1, ListIs
  <2>2. \A k \in 1..Len(f[i]) : f[i][k] \in R(i)
    OBVIOUS
  <2>3. R(i) \subseteq T
    OBVIOUS
  <2>4. \A k \in 1..Len(f[i]) : f[i][k] \in T
    BY <2>2, <2>3
  <2> HIDE DEF T
  <2> DEFINE s == f[i]
  <2>5. s = [k \in 1..Len(s) |-> s[k]] /\ Len(s) \in Nat /\ \A k \in 1..Len(s) : s[k] \in T
    BY <2>1, <2>4
  <2> HIDE DEF s
  <2>6. s \in Seq(T)
    BY <2>5, AList
  <2> QED BY <2>6 DEF s
<1> HIDE DEF T
<1>3. ListsOf(T, f, n)
  BY <1>1, <1>2 DEF ListsOf
<1> QED BY <1>3

\* It grows with each list.
LEMMA FlatEquations ==
  ASSUME NEW n \in Nat, NEW f, AreLists(f, n)
  PROVE  /\ FlatUpTo(f, 0) = <<>> /\ FlatUpTo(f, n) = FlattenSeq(f)
         /\ \A k \in 1..n : FlatUpTo(f, k) = FlatUpTo(f, k - 1) \o f[k]
         /\ \A k \in 0..n : IsList(FlatUpTo(f, k))
<1>1. PICK T : ListsOf(T, f, n)
  BY OfOneSet
<1>2. f = [i \in 1..n |-> f[i]] /\ \A i \in 1..n : f[i] \in Seq(T)
  BY <1>1 DEF ListsOf
<1>3. ASSUME NEW k \in 0..n PROVE ListsOf(T, First(f, k), k)
  <2>1. \A i \in 1..k : i \in 1..n
    OBVIOUS
  <2> QED BY <1>2, <2>1 DEF ListsOf, First
<1>4. \A k \in 0..n : IsList(FlatUpTo(f, k))
  <2> TAKE k \in 0..n
  <2>1. k \in Nat
    OBVIOUS
  <2>2. FlattenSeq(First(f, k)) \in Seq(T)
    BY <1>3, <2>1, FlattenIs
  <2> QED BY <2>2 DEF IsList, FlatUpTo
<1>5. FlatUpTo(f, 0) = <<>>
  <2>1. Len(First(f, 0)) = 0 /\ First(f, 0) = <<>>
    BY DEF First
  <2> QED BY <2>1 DEF FlatUpTo, FlattenSeq
<1>6. FlatUpTo(f, n) = FlattenSeq(f)
  BY <1>2 DEF FlatUpTo, First
<1>7. ASSUME NEW k \in 1..n PROVE FlatUpTo(f, k) = FlatUpTo(f, k - 1) \o f[k]
  <2> DEFINE m == k - 1
  <2>1. m \in Nat /\ m + 1 = k /\ m \in 0..n /\ k \in 0..n
    OBVIOUS
  <2>2. ListsOf(T, First(f, m), m) /\ ListsOf(T, First(f, k), m + 1)
    BY <1>3, <2>1
  <2>3. \A i \in 1..m : First(f, k)[i] = First(f, m)[i]
    <3>1. \A i \in 1..m : i \in 1..k
      OBVIOUS
    <3> QED BY <3>1 DEF First
  <2>4. First(f, k)[m + 1] = f[k]
    BY DEF First
  <2> DEFINE before == First(f, m)
             later == First(f, k)
  <2> HIDE DEF m, before, later
  <2>5. FlattenSeq(later) = FlattenSeq(before) \o later[m + 1]
    <3>1. /\ ListsOf(T, before, m) /\ ListsOf(T, later, m + 1)
          /\ \A i \in 1..m : later[i] = before[i]
      BY <2>2, <2>3 DEF before, later
    <3> QED BY ONLY <2>1, <3>1, FlattenGrows, ZenonT(60)
  <2> QED BY <2>4, <2>5 DEF FlatUpTo, m, before, later
<1> QED BY <1>4, <1>5, <1>6, <1>7

\* What lists make is a list, empty if there are none.
LEMMA FlatIs ==
  ASSUME NEW n \in Nat, NEW f, AreLists(f, n)
  PROVE  IsList(FlattenSeq(f)) /\ (n = 0 => FlattenSeq(f) = <<>>)
<1>1. n \in 0..n
  OBVIOUS
<1> QED BY <1>1, FlatEquations

\* The lists of two lists, one after the other.
LEMMA FlatAppend ==
  ASSUME NEW n \in Nat, NEW m \in Nat, NEW a, NEW b, AreLists(a, n), AreLists(b, m)
  PROVE  AreLists(a \o b, n + m) /\ FlattenSeq(a \o b) = FlattenSeq(a) \o FlattenSeq(b)
<1> DEFINE c == a \o b
<1>1. /\ a = [i \in 1..n |-> a[i]] /\ \A i \in 1..n : IsList(a[i])
      /\ b = [i \in 1..m |-> b[i]] /\ \A i \in 1..m : IsList(b[i])
  BY DEF AreLists
<1>2. IsList(a) /\ Len(a) = n /\ IsList(b) /\ Len(b) = m
  BY <1>1, AList
<1>3. /\ IsList(c) /\ Len(c) = n + m
      /\ \A k \in 1..n : c[k] = a[k]
      /\ \A k \in 1..m : c[n + k] = b[k]
  BY <1>2, Joined2
<1> HIDE DEF c
<1>4. c = [k \in 1..(n + m) |-> c[k]]
  BY <1>3, ListIs
<1>5. \A k \in 1..(n + m) : IsList(c[k])
  <2> TAKE k \in 1..(n + m)
  <2>1. CASE k \in 1..n
    BY <1>1, <1>3, <2>1
  <2>2. CASE k \notin 1..n
    <3>1. k - n \in 1..m /\ n + (k - n) = k
      BY <2>2
    <3> QED BY <1>1, <1>3, <3>1
  <2> QED BY <2>1, <2>2
<1>6. AreLists(c, n + m) /\ n + m \in Nat
  BY <1>4, <1>5 DEF AreLists
<1>7. /\ \A k \in 1..(n + m) : FlatUpTo(c, k) = FlatUpTo(c, k - 1) \o c[k]
      /\ FlatUpTo(c, n + m) = FlattenSeq(c)
  BY <1>6, FlatEquations
<1>8. /\ FlatUpTo(b, 0) = <<>> /\ FlatUpTo(b, m) = FlattenSeq(b)
      /\ \A k \in 1..m : FlatUpTo(b, k) = FlatUpTo(b, k - 1) \o b[k]
      /\ \A k \in 0..m : IsList(FlatUpTo(b, k))
  BY FlatEquations
<1>9. IsList(FlattenSeq(a))
  BY FlatIs
<1> DEFINE S == {k \in 0..m : FlatUpTo(c, n + k) = FlattenSeq(a) \o FlatUpTo(b, k)}
<1>10. 0 \in S
  <2>1. First(c, n) = a
    BY <1>1, <1>3 DEF First
  <2>2. FlatUpTo(c, n + 0) = FlattenSeq(a)
    BY <2>1 DEF FlatUpTo
  <2>3. FlattenSeq(a) \o <<>> = FlattenSeq(a)
    BY <1>9, JoinLaws
  <2>4. FlatUpTo(c, n + 0) = FlattenSeq(a) \o FlatUpTo(b, 0)
    BY <1>8, <2>2, <2>3
  <2> QED BY <2>4
<1>11. ASSUME NEW k \in 1..m, k - 1 \in S PROVE k \in S
  <2>1. n + k \in 1..(n + m) /\ (n + k) - 1 = n + (k - 1) /\ k \in 0..m /\ k - 1 \in 0..m
    OBVIOUS
  <2>2. FlatUpTo(c, n + k) = FlatUpTo(c, n + (k - 1)) \o c[n + k]
    BY <1>7, <2>1
  <2>3. FlatUpTo(c, n + (k - 1)) = FlattenSeq(a) \o FlatUpTo(b, k - 1)
    BY <1>11
  <2>4. (FlattenSeq(a) \o FlatUpTo(b, k - 1)) \o b[k]
            = FlattenSeq(a) \o (FlatUpTo(b, k - 1) \o b[k])
    <3> DEFINE x == FlattenSeq(a)
               y == FlatUpTo(b, k - 1)
               z == b[k]
    <3>1. IsList(x) /\ IsList(y) /\ IsList(z)
      BY <1>1, <1>8, <1>9, <2>1
    <3> HIDE DEF x, y, z
    <3>2. (x \o y) \o z = x \o (y \o z)
      BY <3>1, JoinLaws, SMTT(30)
    <3> QED BY <3>2 DEF x, y, z
  <2>5. FlatUpTo(b, k) = FlatUpTo(b, k - 1) \o b[k] /\ c[n + k] = b[k]
    BY <1>3, <1>8
  <2>6. FlatUpTo(c, n + k) = FlattenSeq(a) \o FlatUpTo(b, k)
    BY <2>2, <2>3, <2>4, <2>5
  <2> QED BY <2>1, <2>6
<1> HIDE DEF S
<1>12. m \in S
  <2>1. 0..m \subseteq S
    BY <1>10, <1>11, Induction
  <2> QED BY <2>1
<1>13. FlattenSeq(c) = FlattenSeq(a) \o FlattenSeq(b)
  BY <1>7, <1>8, <1>12 DEF S
<1> QED BY <1>6, <1>13 DEF c

\* Lists of one make the list of those.
LEMMA FlatOnes ==
  ASSUME NEW n \in Nat, NEW s, s = [k \in 1..n |-> s[k]], NEW f, f = [k \in 1..n |-> <<s[k]>>]
  PROVE  AreLists(f, n) /\ FlattenSeq(f) = s
<1>1. f = [k \in 1..n |-> f[k]] /\ \A k \in 1..n : f[k] = <<s[k]>>
  OBVIOUS
<1>2. AreLists(f, n)
  BY <1>1, ShortLists DEF AreLists
<1>3. /\ FlatUpTo(f, 0) = <<>> /\ FlatUpTo(f, n) = FlattenSeq(f)
      /\ \A k \in 1..n : FlatUpTo(f, k) = FlatUpTo(f, k - 1) \o f[k]
  BY <1>2, FlatEquations
<1> DEFINE S == {k \in 0..n : FlatUpTo(f, k) = First(s, k)}
<1>4. 0 \in S
  BY <1>3 DEF First
<1>5. ASSUME NEW k \in 1..n, k - 1 \in S PROVE k \in S
  <2> DEFINE a == First(s, k - 1)
             b == <<s[k]>>
             c == a \o b
  <2>1. IsList(a) /\ Len(a) = k - 1
    <3>1. a = [i \in 1..(k - 1) |-> a[i]] /\ k - 1 \in Nat
      BY DEF First
    <3> HIDE DEF a
    <3> QED BY <3>1, AList
  <2>2. IsList(b) /\ Len(b) = 1 /\ b[1] = s[k]
    BY ShortLists
  <2> HIDE DEF a, b
  <2>3. /\ IsList(c) /\ Len(c) = (k - 1) + 1 /\ (\A i \in 1..(k - 1) : c[i] = a[i])
        /\ \A i \in 1..1 : c[(k - 1) + i] = b[i]
    <3>1. /\ IsList(a \o b) /\ Len(a \o b) = Len(a) + Len(b)
          /\ \A i \in 1..Len(a) : (a \o b)[i] = a[i]
          /\ \A i \in 1..Len(b) : (a \o b)[Len(a) + i] = b[i]
      <4>1. IsList(a) /\ IsList(b)
        BY <2>1, <2>2
      <4> QED BY ONLY <4>1, Joined2
    <3> QED BY <2>1, <2>2, <3>1
  <2> HIDE DEF c
  <2>4. Len(c) = k /\ c[k] = s[k] /\ \A i \in 1..(k - 1) : c[i] = s[i]
    <3>1. \A i \in 1..(k - 1) : a[i] = s[i]
      BY DEF a, First
    <3>2. 1 \in 1..1 /\ (k - 1) + 1 = k
      OBVIOUS
    <3> QED BY <2>2, <2>3, <3>1, <3>2
  <2>5. c = [i \in 1..k |-> s[i]]
    <3>1. \A i \in 1..k : c[i] = s[i]
      <4> TAKE i \in 1..k
      <4>1. i = k \/ i \in 1..(k - 1)
        OBVIOUS
      <4> QED BY <2>4, <4>1
    <3>2. c = [i \in 1..k |-> c[i]]
      BY <2>3, <2>4, ListIs
    <3> QED BY <3>1, <3>2
  <2>6. FlatUpTo(f, k) = c
    BY <1>1, <1>3, <1>5 DEF a, b, c
  <2> QED BY <2>5, <2>6 DEF First
<1> HIDE DEF S
<1>6. n \in S
  <2>1. 0..n \subseteq S
    BY <1>4, <1>5, Induction
  <2> QED BY <2>1
<1>7. FlattenSeq(f) = s
  <2>1. FlatUpTo(f, n) = First(s, n)
    BY <1>6 DEF S
  <2> QED BY <1>3, <2>1 DEF First
<1> QED BY <1>2, <1>7

\* They are lists.
LEMMA MapIs ==
  ASSUME NEW s, NEW h, Maps(s, h), NEW f, f = [k \in DOMAIN s |-> h[s[k]]]
  PROVE  /\ Len(s) \in Nat /\ AreLists(f, Len(s)) /\ FlatMap(s, h) = FlattenSeq(f)
         /\ IsList(FlatMap(s, h)) /\ (s = <<>> => FlatMap(s, h) = <<>>)
<1>1. Len(s) \in Nat /\ DOMAIN s = 1..Len(s)
  BY ListIs DEF Maps
<1>2. AreLists(f, Len(s))
  BY <1>1 DEF Maps, AreLists
<1>3. FlatMap(s, h) = FlattenSeq(f)
  BY DEF FlatMap
<1>4. s = <<>> => Len(s) = 0
  OBVIOUS
<1>5. IsList(FlattenSeq(f)) /\ (Len(s) = 0 => FlattenSeq(f) = <<>>)
  BY ONLY <1>1, <1>2, FlatIs
<1> QED BY <1>1, <1>2, <1>3, <1>4, <1>5

\* Of one thing it is its list.
LEMMA MapOne ==
  ASSUME NEW x, NEW h, IsList(h[x])
  PROVE  Maps(<<x>>, h) /\ FlatMap(<<x>>, h) = h[x]
<1> DEFINE f == [k \in DOMAIN <<x>> |-> h[<<x>>[k]]]
<1>1. Maps(<<x>>, h)
  BY ShortLists DEF Maps
<1>2. DOMAIN <<x>> = 1..1 /\ <<x>>[1] = x
  OBVIOUS
<1>3. f = [k \in 1..1 |-> f[k]] /\ f[1] = h[x] /\ \A k \in 1..1 : k = 1
  BY <1>2
<1>4. AreLists(f, 1)
  <2> HIDE DEF f
  <2> QED BY <1>3 DEF AreLists
<1>5. FlatMap(<<x>>, h) = FlattenSeq(f)
  BY DEF FlatMap
<1> HIDE DEF f
<1>6. 1 \in Nat /\ 1 \in 1..1 /\ 1 - 1 = 0
  OBVIOUS
<1>7. /\ FlatUpTo(f, 0) = <<>> /\ FlatUpTo(f, 1) = FlattenSeq(f)
      /\ \A k \in 1..1 : FlatUpTo(f, k) = FlatUpTo(f, k - 1) \o f[k]
  BY ONLY <1>4, <1>6, FlatEquations
<1>8. FlatUpTo(f, 1) = <<>> \o f[1]
  BY <1>6, <1>7
<1>9. <<>> \o h[x] = h[x]
  BY JoinLaws
<1> QED BY <1>1, <1>3, <1>5, <1>7, <1>8, <1>9

\* Of two lists it is that of the one and that of the other.
LEMMA MapJoined ==
  ASSUME NEW a, NEW b, NEW h, Maps(a, h), Maps(b, h)
  PROVE  Maps(a \o b, h) /\ FlatMap(a \o b, h) = FlatMap(a, h) \o FlatMap(b, h)
<1> DEFINE c == a \o b
           f == [k \in DOMAIN a |-> h[a[k]]]
           g == [k \in DOMAIN b |-> h[b[k]]]
           e == [k \in DOMAIN c |-> h[c[k]]]
           n == Len(a)
           m == Len(b)
<1>1. /\ n \in Nat /\ AreLists(f, n) /\ FlatMap(a, h) = FlattenSeq(f)
      /\ m \in Nat /\ AreLists(g, m) /\ FlatMap(b, h) = FlattenSeq(g)
  BY MapIs
<1>2. DOMAIN a = 1..n /\ DOMAIN b = 1..m
  BY ListIs DEF Maps
<1>3. /\ IsList(c) /\ Len(c) = n + m
      /\ \A k \in 1..n : c[k] = a[k]
      /\ \A k \in 1..m : c[n + k] = b[k]
  <2>1. IsList(a) /\ IsList(b)
    BY DEF Maps
  <2> QED BY ONLY <2>1, Joined2
<1>4. (\A k \in 1..n : f[k] = h[a[k]]) /\ \A k \in 1..m : g[k] = h[b[k]]
  BY <1>2
<1> HIDE DEF c, n, m
<1>5. DOMAIN c = 1..(n + m)
  BY <1>3, ListIs
<1>6. /\ AreLists(f \o g, n + m) /\ FlattenSeq(f \o g) = FlattenSeq(f) \o FlattenSeq(g)
  <2> HIDE DEF f, g
  <2>1. n \in Nat /\ m \in Nat /\ AreLists(f, n) /\ AreLists(g, m)
    BY <1>1
  <2> QED BY ONLY <2>1, FlatAppend
<1>7. /\ IsList(f \o g) /\ Len(f \o g) = n + m
      /\ \A k \in 1..n : (f \o g)[k] = f[k]
      /\ \A k \in 1..m : (f \o g)[n + k] = g[k]
  <2>1. f = [k \in 1..n |-> f[k]] /\ g = [k \in 1..m |-> g[k]]
    BY <1>1 DEF AreLists
  <2> HIDE DEF f, g
  <2>2. IsList(f) /\ Len(f) = n /\ IsList(g) /\ Len(g) = m
    BY <1>1, <2>1, AList
  <2>3. /\ IsList(f \o g) /\ Len(f \o g) = Len(f) + Len(g)
        /\ \A k \in 1..Len(f) : (f \o g)[k] = f[k]
        /\ \A k \in 1..Len(g) : (f \o g)[Len(f) + k] = g[k]
    BY ONLY <2>2, Joined2
  <2> QED BY <2>2, <2>3
<1>8. ASSUME NEW k \in 1..(n + m) PROVE (f \o g)[k] = h[c[k]]
  <2> DEFINE l == f \o g
  <2> HIDE DEF f, g, l
  <2>1. CASE k \in 1..n
    BY <1>3, <1>4, <1>7, <2>1 DEF l
  <2>2. CASE k \notin 1..n
    <3>1. k - n \in 1..m /\ n + (k - n) = k
      BY <1>1, <2>2
    <3>2. c[k] = b[k - n] /\ l[k] = g[k - n]
      BY <1>3, <1>7, <3>1 DEF l
    <3> QED BY <1>4, <3>1, <3>2 DEF l
  <2> QED BY <2>1, <2>2
<1>9. e = f \o g
  <2>1. f \o g = [k \in 1..(n + m) |-> (f \o g)[k]]
    <3> DEFINE l == f \o g
    <3> HIDE DEF f, g, l
    <3>1. IsList(l) /\ Len(l) = n + m
      BY <1>7 DEF l
    <3>2. l = [k \in 1..(n + m) |-> l[k]]
      BY <3>1, ListIs
    <3> QED BY <3>2 DEF l
  <2> DEFINE l == f \o g
  <2>2. l = [k \in 1..(n + m) |-> l[k]] /\ \A k \in 1..(n + m) : l[k] = h[c[k]]
    BY <1>8, <2>1
  <2> HIDE DEF l
  <2>3. e = l
    BY <1>5, <2>2
  <2> QED BY <2>3 DEF l
<1>10. FlatMap(c, h) = FlattenSeq(f) \o FlattenSeq(g)
  <2>1. FlatMap(c, h) = FlattenSeq(e)
    BY DEF FlatMap
  <2> HIDE DEF e, f, g
  <2> QED BY <1>6, <1>9, <2>1
<1>11. Maps(c, h)
  <2>1. \A k \in 1..(n + m) : IsList((f \o g)[k])
    BY <1>6 DEF AreLists
  <2>2. \A k \in 1..(n + m) : IsList(h[c[k]])
    BY <1>8, <2>1
  <2> QED BY <1>3, <1>5, <2>2 DEF Maps
<1>12. FlatMap(c, h) = FlatMap(a, h) \o FlatMap(b, h)
  BY <1>1, <1>10
<1> QED BY <1>11, <1>12 DEF c

\* Of what lists make, it is what the lists for each of them make.
LEMMA MapFlat ==
  ASSUME NEW n \in Nat, NEW f, AreLists(f, n), NEW h, \A i \in 1..n : Maps(f[i], h),
         NEW g, g = [i \in 1..n |-> FlatMap(f[i], h)]
  PROVE  /\ Maps(FlattenSeq(f), h) /\ AreLists(g, n)
         /\ FlatMap(FlattenSeq(f), h) = FlattenSeq(g)
<1>1. /\ g = [i \in 1..n |-> g[i]]
      /\ \A i \in 1..n : g[i] = FlatMap(f[i], h)
  OBVIOUS
<1>2. AreLists(g, n)
  BY <1>1, MapIs DEF AreLists
<1>3. /\ FlatUpTo(f, 0) = <<>> /\ FlatUpTo(f, n) = FlattenSeq(f)
      /\ \A k \in 1..n : FlatUpTo(f, k) = FlatUpTo(f, k - 1) \o f[k]
  BY FlatEquations
<1>4. /\ FlatUpTo(g, 0) = <<>> /\ FlatUpTo(g, n) = FlattenSeq(g)
      /\ \A k \in 1..n : FlatUpTo(g, k) = FlatUpTo(g, k - 1) \o g[k]
  BY <1>2, FlatEquations
<1> DEFINE S == {k \in 0..n : /\ Maps(FlatUpTo(f, k), h)
                              /\ FlatMap(FlatUpTo(f, k), h) = FlatUpTo(g, k)}
<1>5. 0 \in S
  <2>1. Maps(<<>>, h)
    BY ShortLists DEF Maps
  <2>2. FlatMap(<<>>, h) = <<>>
    BY <2>1, MapIs
  <2> QED BY <1>3, <1>4, <2>1, <2>2
<1>6. ASSUME NEW k \in 1..n, k - 1 \in S PROVE k \in S
  <2> DEFINE a == FlatUpTo(f, k - 1)
             b == f[k]
  <2>1. Maps(a, h) /\ Maps(b, h) /\ FlatMap(a, h) = FlatUpTo(g, k - 1)
    BY <1>6
  <2>2. FlatUpTo(f, k) = a \o b /\ FlatUpTo(g, k) = FlatUpTo(g, k - 1) \o g[k]
    BY <1>3, <1>4
  <2> HIDE DEF a, b
  <2>3. Maps(a \o b, h) /\ FlatMap(a \o b, h) = FlatMap(a, h) \o FlatMap(b, h)
    <3>1. Maps(a, h) /\ Maps(b, h)
      BY <2>1
    <3> QED BY ONLY <3>1, MapJoined
  <2>4. g[k] = FlatMap(b, h)
    BY <1>1 DEF b
  <2>5. Maps(FlatUpTo(f, k), h) /\ FlatMap(FlatUpTo(f, k), h) = FlatUpTo(g, k)
    BY ONLY <2>1, <2>2, <2>3, <2>4
  <2>6. k \in 0..n
    OBVIOUS
  <2> QED BY <2>5, <2>6
<1> HIDE DEF S
<1>7. n \in S
  <2>1. 0..n \subseteq S
    BY <1>5, <1>6, Induction
  <2> QED BY <2>1
<1>8. Maps(FlatUpTo(f, n), h) /\ FlatMap(FlatUpTo(f, n), h) = FlatUpTo(g, n)
  BY <1>7 DEF S
<1> QED BY <1>2, <1>3, <1>4, <1>8

\* Of some places in order, it is what the lists of those places make.
LEMMA MapInOrder ==
  ASSUME NEW n \in Nat, NEW places, NEW f, \A at \in places \cap 1..n : IsList(f[at]),
         NEW g, g = [at \in 1..n |-> IF at \in places THEN f[at] ELSE <<>>]
  PROVE  /\ AreLists(g, n) /\ Maps(InOrder(places, n), f)
         /\ FlatMap(InOrder(places, n), f) = FlattenSeq(g)
<1>1. /\ g = [at \in 1..n |-> g[at]]
      /\ \A at \in 1..n : g[at] = IF at \in places THEN f[at] ELSE <<>>
  OBVIOUS
<1>2. AreLists(g, n)
  BY <1>1, ShortLists DEF AreLists
<1>3. /\ FlatUpTo(g, 0) = <<>> /\ FlatUpTo(g, n) = FlattenSeq(g)
      /\ \A k \in 1..n : FlatUpTo(g, k) = FlatUpTo(g, k - 1) \o g[k]
      /\ \A k \in 0..n : IsList(FlatUpTo(g, k))
  BY <1>2, FlatEquations
<1> DEFINE S == {k \in 0..n : /\ Maps(InOrder(places, k), f)
                              /\ FlatMap(InOrder(places, k), f) = FlatUpTo(g, k)}
<1>4. 0 \in S
  <2>1. InOrder(places, 0) = <<>>
    <3>1. InOrder(places, 0) \in Seq(places \cap 1..0)
      BY InOrderIs
    <3> DEFINE s == InOrder(places, 0)
    <3>2. s \in Seq({})
      BY <3>1
    <3> HIDE DEF s
    <3>3. s = <<>>
      BY <3>2
    <3> QED BY <3>3 DEF s
  <2>2. Maps(<<>>, f)
    BY ShortLists DEF Maps
  <2>3. FlatMap(<<>>, f) = <<>>
    BY <2>2, MapIs
  <2> QED BY <1>3, <2>1, <2>2, <2>3
<1>5. ASSUME NEW k \in 1..n, k - 1 \in S PROVE k \in S
  <2> DEFINE a == InOrder(places, k - 1)
             m == k - 1
  <2>0. m \in Nat /\ m + 1 = k
    OBVIOUS
  <2>1. Maps(a, f) /\ FlatMap(a, f) = FlatUpTo(g, m)
    BY <1>5
  <2>2. FlatUpTo(g, k) = FlatUpTo(g, m) \o g[k]
    BY <1>3
  <2>3. InOrder(places, k) = IF k \in places THEN Append(a, k) ELSE a
    <3> HIDE DEF m
    <3>1. places \cap 1..m = places \cap 1..m
      OBVIOUS
    <3>2. InOrder(places, m + 1) = IF m + 1 \in places THEN Append(InOrder(places, m), m + 1)
                                   ELSE InOrder(places, m)
      BY ONLY <2>0, <3>1, InOrderGrows
    <3> QED BY <2>0, <3>2 DEF m
  <2>4. CASE k \in places
    <3>1. IsList(f[k]) /\ g[k] = f[k]
      BY <1>1, <2>4
    <3>2. Maps(<<k>>, f) /\ FlatMap(<<k>>, f) = f[k]
      BY <3>1, MapOne
    <3> HIDE DEF a
    <3>3. Maps(a \o <<k>>, f) /\ FlatMap(a \o <<k>>, f) = FlatMap(a, f) \o FlatMap(<<k>>, f)
      <4>1. Maps(a, f) /\ Maps(<<k>>, f)
        BY <2>1, <3>2
      <4> QED BY ONLY <4>1, MapJoined
    <3>4. Append(a, k) = a \o <<k>>
      <4>1. PICK T : a \in Seq(T)
        BY <2>1 DEF Maps, IsList
      <4> DEFINE X == T \cup {k}
      <4>2. T \subseteq X /\ k \in X
        OBVIOUS
      <4> HIDE DEF X
      <4>3. a \in Seq(X)
        BY <4>1, <4>2, SeqMonotonic
      <4> QED BY <4>2, <4>3, AppendIsConcat
    <3>5. /\ Maps(InOrder(places, k), f)
          /\ FlatMap(InOrder(places, k), f) = FlatUpTo(g, k)
      BY ONLY <2>1, <2>2, <2>3, <2>4, <3>1, <3>2, <3>3, <3>4
    <3>6. k \in 0..n
      OBVIOUS
    <3> QED BY <3>5, <3>6
  <2>5. CASE k \notin places
    <3>1. g[k] = <<>>
      BY <1>1, <2>5
    <3>2. FlatUpTo(g, m) \o <<>> = FlatUpTo(g, m)
      <4>1. m \in 0..n
        OBVIOUS
      <4> QED BY <1>3, <4>1, JoinLaws
    <3> HIDE DEF a, m
    <3>3. /\ Maps(InOrder(places, k), f)
          /\ FlatMap(InOrder(places, k), f) = FlatUpTo(g, k)
      BY ONLY <2>1, <2>2, <2>3, <2>5, <3>1, <3>2
    <3>4. k \in 0..n
      OBVIOUS
    <3> QED BY <3>3, <3>4
  <2> QED BY <2>4, <2>5
<1> HIDE DEF S
<1>6. n \in S
  <2>1. 0..n \subseteq S
    BY <1>4, <1>5, Induction
  <2> QED BY <2>1
<1>7. Maps(InOrder(places, n), f) /\ FlatMap(InOrder(places, n), f) = FlatUpTo(g, n)
  BY <1>6 DEF S
<1> QED BY <1>2, <1>3, <1>7

\* What is picked is the list those make.
LEMMA PickedIs ==
  ASSUME NEW n \in Nat, NEW s, s = [k \in 1..n |-> s[k]], NEW places
  PROVE  /\ AreLists(PickedLists(s, places, n), n)
         /\ Picked(s, places) = FlattenSeq(PickedLists(s, places, n))
<1> DEFINE g == PickedLists(s, places, n)
           f == [k \in 1..n |-> <<s[k]>>]
           order == InOrder(places, n)
           picked == [k \in DOMAIN order |-> s[order[k]]]
<1>1. \A k \in 1..n : f[k] = <<s[k]>>
  OBVIOUS
<1>2. \A at \in places \cap 1..n : IsList(f[at])
  BY <1>1, ShortLists
<1>3. g = [at \in 1..n |-> IF at \in places THEN f[at] ELSE <<>>]
  BY <1>1 DEF PickedLists
<1> HIDE DEF g
<1>4. order \in Seq(1..n)
  <2>1. order \in Seq(places \cap 1..n)
    BY InOrderIs
  <2>2. places \cap 1..n \subseteq 1..n
    OBVIOUS
  <2> HIDE DEF order
  <2> QED BY <2>1, <2>2, SeqMonotonic
<1>5. /\ AreLists(g, n) /\ FlatMap(order, f) = FlattenSeq(g)
  <2> HIDE DEF f
  <2> QED BY <1>2, <1>3, MapInOrder
<1> HIDE DEF order
<1>6. Len(order) \in Nat /\ DOMAIN order = 1..Len(order)
        /\ \A k \in 1..Len(order) : order[k] \in 1..n
  BY <1>4
<1> DEFINE m == Len(order)
           ones == [k \in 1..m |-> f[order[k]]]
<1>7. FlatMap(order, f) = FlattenSeq(ones)
  <2> HIDE DEF f
  <2> QED BY <1>6 DEF FlatMap
<1>8. picked = [k \in 1..m |-> picked[k]] /\ ones = [k \in 1..m |-> <<picked[k]>>] /\ m \in Nat
  <2>1. \A k \in 1..m : f[order[k]] = <<s[order[k]]>> /\ picked[k] = s[order[k]]
    BY <1>1, <1>6
  <2>2. picked = [k \in 1..m |-> s[order[k]]]
    BY <1>6
  <2> HIDE DEF f, picked
  <2> QED BY <1>6, <2>1, <2>2
<1>9. FlattenSeq(ones) = picked
  <2> HIDE DEF ones, picked, m
  <2> QED BY ONLY <1>8, FlatOnes
<1>10. Len(s) = n
  BY AList
<1>11. Picked(s, places) = picked
  BY <1>10 DEF Picked, order
<1> HIDE DEF picked, ones
<1> QED BY <1>5, <1>7, <1>9, <1>11 DEF g

\* One more list.
LEMMA TraceGrows ==
  ASSUME NEW n \in Nat, NEW F, NEW f, NEW at, Traced(F, f, n, at), IsList(F),
         IsList(f[n + 1])
  PROVE  \E w : Traced(F \o f[n + 1], f, n + 1, w)
<1> DEFINE b == f[n + 1]
           G == F \o b
           w == [i \in 1..Len(G) |-> IF i <= Len(F) THEN at[i] ELSE n + 1]
<1>0. Len(F) \in Nat /\ Len(b) \in Nat
  BY ListIs
<1>1. /\ IsList(G) /\ Len(G) = Len(F) + Len(b)
      /\ \A k \in 1..Len(F) : G[k] = F[k]
      /\ \A k \in 1..Len(b) : G[Len(F) + k] = b[k]
  <2>1. IsList(F) /\ IsList(b)
    OBVIOUS
  <2> QED BY ONLY <2>1, Joined2
<1> HIDE DEF G, b
<1>2. /\ at \in [1..Len(F) -> 1..n]
      /\ \A i, j \in 1..Len(F) : i <= j => at[i] <= at[j]
      /\ \A i \in 1..Len(F) : \E k \in 1..Len(f[at[i]]) : F[i] = f[at[i]][k]
      /\ \A l \in 1..n : \A k \in 1..Len(f[l]) :
            \E i \in 1..Len(F) : at[i] = l /\ F[i] = f[l][k]
      /\ \A i, j \in 1..Len(F) : at[i] = at[j] /\ Len(f[at[i]]) = 1 => i = j
  BY DEF Traced
<1>3. ASSUME NEW i \in 1..Len(G)
      PROVE  \/ i \in 1..Len(F) /\ w[i] = at[i] /\ w[i] \in 1..n /\ G[i] = F[i]
             \/ i > Len(F) /\ i - Len(F) \in 1..Len(b) /\ w[i] = n + 1 /\ G[i] = b[i - Len(F)]
  <2>1. CASE i <= Len(F)
    <3>1. i \in 1..Len(F)
      BY <1>0, <1>1, <2>1
    <3> QED BY <1>1, <1>2, <2>1, <3>1
  <2>2. CASE ~(i <= Len(F))
    <3>1. i - Len(F) \in 1..Len(b) /\ Len(F) + (i - Len(F)) = i /\ i > Len(F)
      BY <1>0, <1>1, <2>2
    <3>2. G[i] = b[i - Len(F)]
      BY <1>1, <3>1
    <3> QED BY <2>2, <3>1, <3>2
  <2> QED BY <2>1, <2>2
<1>4. /\ \A i \in 1..Len(F) : i \in 1..Len(G) /\ w[i] = at[i]
      /\ \A k \in 1..Len(b) : Len(F) + k \in 1..Len(G) /\ w[Len(F) + k] = n + 1
  <2>1. \A i \in 1..Len(F) : i \in 1..Len(G) /\ i <= Len(F)
    BY <1>0, <1>1
  <2>2. \A k \in 1..Len(b) : Len(F) + k \in 1..Len(G) /\ ~(Len(F) + k <= Len(F))
    BY <1>0, <1>1
  <2> QED BY <2>1, <2>2
<1>5. w \in [1..Len(G) -> 1..(n + 1)]
  <2>1. \A i \in 1..Len(G) : w[i] \in 1..(n + 1)
    BY <1>3
  <2>2. w = [i \in 1..Len(G) |-> w[i]]
    OBVIOUS
  <2> HIDE DEF w
  <2> QED BY <2>1, <2>2
<1> HIDE DEF w
<1>6. ASSUME NEW i \in 1..Len(G), NEW j \in 1..Len(G), i <= j PROVE w[i] <= w[j]
  <2>1. i \in 1..Len(F) /\ j \in 1..Len(F) => w[i] <= w[j]
    BY <1>2, <1>4, <1>6
  <2>2. w[i] \in 1..(n + 1) /\ (w[j] = n + 1 => w[i] <= w[j])
    BY <1>5
  <2>3. i > Len(F) => j > Len(F)
    BY <1>0, <1>6
  <2> QED BY <1>0, <1>3, <2>1, <2>2, <2>3
<1>7. ASSUME NEW i \in 1..Len(G) PROVE \E k \in 1..Len(f[w[i]]) : G[i] = f[w[i]][k]
  <2>1. CASE i \in 1..Len(F) /\ w[i] = at[i] /\ G[i] = F[i]
    <3>1. PICK k \in 1..Len(f[at[i]]) : F[i] = f[at[i]][k]
      BY <1>2, <2>1
    <3>2. k \in 1..Len(f[w[i]]) /\ G[i] = f[w[i]][k]
      BY <2>1, <3>1
    <3> QED BY <3>2
  <2>2. CASE i - Len(F) \in 1..Len(b) /\ w[i] = n + 1 /\ G[i] = b[i - Len(F)]
    <3>1. f[w[i]] = b
      BY <2>2 DEF b
    <3> QED BY <2>2, <3>1
  <2> QED BY <1>3, <2>1, <2>2
<1>8. ASSUME NEW l \in 1..(n + 1), NEW k \in 1..Len(f[l])
      PROVE  \E i \in 1..Len(G) : w[i] = l /\ G[i] = f[l][k]
  <2>1. CASE l = n + 1
    <3>1. k \in 1..Len(b) /\ f[l] = b
      BY <2>1 DEF b
    <3> QED BY <1>1, <1>4, <2>1, <3>1
  <2>2. CASE l # n + 1
    <3>1. l \in 1..n
      BY <2>2
    <3>2. PICK i \in 1..Len(F) : at[i] = l /\ F[i] = f[l][k]
      BY <1>2, <3>1
    <3> QED BY <1>1, <1>4, <3>2
  <2> QED BY <2>1, <2>2
<1>9. ASSUME NEW i \in 1..Len(G), NEW j \in 1..Len(G), w[i] = w[j], Len(f[w[i]]) = 1
      PROVE  i = j
  <2>1. CASE w[i] = n + 1
    <3>1. n + 1 \notin 1..n /\ w[j] = n + 1
      BY <1>9, <2>1
    <3>2. i - Len(F) \in 1..Len(b) /\ j - Len(F) \in 1..Len(b)
      BY <1>3, <2>1, <3>1
    <3>3. Len(b) = 1
      BY <1>9, <2>1 DEF b
    <3> QED BY <1>0, <3>2, <3>3
  <2>2. CASE w[i] # n + 1
    <3>1. i \in 1..Len(F) /\ w[i] = at[i]
      BY <1>3, <2>2
    <3>2. j \in 1..Len(F) /\ w[j] = at[j]
      <4>1. w[j] # n + 1
        BY <1>9, <2>2
      <4> QED BY <1>3, <4>1
    <3>3. at[i] = at[j] /\ Len(f[at[i]]) = 1
      BY <1>9, <3>1, <3>2
    <3> QED BY <1>2, <3>1, <3>2, <3>3
  <2> QED BY <2>1, <2>2
<1>10. Traced(G, f, n + 1, w)
  BY <1>5, <1>6, <1>7, <1>8, <1>9 DEF Traced
<1> QED BY <1>10 DEF G, b

\* What lists make has such a trace.
LEMMA TraceExists ==
  ASSUME NEW n \in Nat, NEW f, AreLists(f, n)
  PROVE  \E at : Traced(FlattenSeq(f), f, n, at)
<1>1. /\ FlatUpTo(f, 0) = <<>> /\ FlatUpTo(f, n) = FlattenSeq(f)
      /\ \A k \in 1..n : FlatUpTo(f, k) = FlatUpTo(f, k - 1) \o f[k]
      /\ \A k \in 0..n : IsList(FlatUpTo(f, k))
  BY FlatEquations
<1> DEFINE S == {k \in 0..n : \E at : Traced(FlatUpTo(f, k), f, k, at)}
<1>2. 0 \in S
  <2>1. Traced(<<>>, f, 0, [i \in 1..0 |-> 1])
    <3>1. Len(<<>>) = 0 /\ 1..0 = {}
      OBVIOUS
    <3> QED BY <3>1 DEF Traced
  <2> QED BY <1>1, <2>1
<1>3. ASSUME NEW k \in 1..n, k - 1 \in S PROVE k \in S
  <2> DEFINE m == k - 1
             F == FlatUpTo(f, m)
  <2>1. m \in Nat /\ m + 1 = k /\ m \in 0..n
    OBVIOUS
  <2>2. PICK at : Traced(F, f, m, at)
    BY <1>3
  <2>3. IsList(F) /\ IsList(f[m + 1])
    BY <1>1, <2>1 DEF AreLists
  <2>4. FlatUpTo(f, k) = F \o f[m + 1]
    BY <1>1, <2>1
  <2> HIDE DEF m, F
  <2>5. \E w : Traced(F \o f[m + 1], f, m + 1, w)
    BY ONLY <2>1, <2>2, <2>3, TraceGrows
  <2>6. k \in 0..n
    OBVIOUS
  <2> QED BY <2>1, <2>4, <2>5, <2>6
<1> HIDE DEF S
<1>4. n \in S
  <2>1. 0..n \subseteq S
    BY <1>2, <1>3, Induction
  <2> QED BY <2>1
<1>5. \E at : Traced(FlatUpTo(f, n), f, n, at)
  BY <1>4 DEF S
<1> QED BY <1>1, <1>5

(***************************************************************************)
(* Calls and results.                                                      *)
(***************************************************************************)
\* Then calls and results are paired in what the lists make.
LEMMA PairedFlat ==
  ASSUME NEW n \in Nat, NEW f, AreLists(f, n), ListsPaired(f, n)
  PROVE  Paired(FlattenSeq(f))
<1> DEFINE F == FlattenSeq(f)
<1>1. PICK at : Traced(F, f, n, at)
  BY TraceExists
<1>2. DOMAIN F = 1..Len(F)
  <2>1. IsList(F)
    BY FlatIs
  <2> HIDE DEF F
  <2> QED BY <2>1, ListIs
<1> HIDE DEF F
<1>3. /\ \A i \in 1..Len(F) : at[i] \in 1..n
      /\ \A i, j \in 1..Len(F) : i <= j => at[i] <= at[j]
      /\ \A i \in 1..Len(F) : \E k \in 1..Len(f[at[i]]) : F[i] = f[at[i]][k]
      /\ \A l \in 1..n : \A k \in 1..Len(f[l]) :
            \E i \in 1..Len(F) : at[i] = l /\ F[i] = f[l][k]
      /\ \A i, j \in 1..Len(F) : at[i] = at[j] /\ Len(f[at[i]]) = 1 => i = j
  BY <1>1 DEF Traced
<1>4. ASSUME NEW i \in 1..Len(F), KindOf(F[i]) = "result"
      PROVE  /\ FitsName(F[i])
             /\ \E j \in 1..(i - 1) : F[j].id = F[i].id /\ AnswerTo(F[j].type) = F[i].type
             /\ \A j \in 1..Len(F) : KindOf(F[j]) = "result" /\ F[j].id = F[i].id => j = i
  <2>1. at[i] \in 1..n
    BY <1>3
  <2>2. PICK k \in 1..Len(f[at[i]]) : F[i] = f[at[i]][k]
    BY <1>3
  <2>3. /\ FitsName(F[i])
        /\ Len(f[at[i]]) = 1
        /\ \E a \in 1..(at[i] - 1) : \E l \in 1..Len(f[a]) :
              f[a][l].id = F[i].id /\ AnswerTo(f[a][l].type) = F[i].type
        /\ \A a \in 1..n : \A l \in 1..Len(f[a]) :
              KindOf(f[a][l]) = "result" /\ f[a][l].id = F[i].id => a = at[i]
    <3>1. PairedAt(f, n, at[i], f[at[i]][k])
      BY <1>4, <2>1, <2>2 DEF ListsPaired
    <3>2. PairedAt(f, n, at[i], F[i])
      BY <2>2, <3>1
    <3> QED BY ONLY <3>2 DEF PairedAt
  <2>4. PICK a \in 1..(at[i] - 1) : \E l \in 1..Len(f[a]) :
              f[a][l].id = F[i].id /\ AnswerTo(f[a][l].type) = F[i].type
    BY <2>3
  <2>5. PICK l \in 1..Len(f[a]) : f[a][l].id = F[i].id /\ AnswerTo(f[a][l].type) = F[i].type
    BY <2>4
  <2>6. a \in 1..n /\ a < at[i]
    BY <2>1
  <2>7. PICK j \in 1..Len(F) : at[j] = a /\ F[j] = f[a][l]
    BY <1>3, <2>6
  <2>8. j \in 1..(i - 1)
    <3>1. ~(i <= j)
      <4>1. i <= j => at[i] <= at[j]
        BY <1>3
      <4> QED BY <2>1, <2>6, <2>7, <4>1
    <3> QED BY <3>1
  <2>9. F[j].id = F[i].id /\ AnswerTo(F[j].type) = F[i].type
    BY <2>5, <2>7
  <2>10. ASSUME NEW x \in 1..Len(F), KindOf(F[x]) = "result", F[x].id = F[i].id PROVE x = i
    <3>1. PICK y \in 1..Len(f[at[x]]) : F[x] = f[at[x]][y]
      BY <1>3
    <3>2. at[x] \in 1..n
      BY <1>3
    <3>3. at[x] = at[i]
      BY <2>3, <2>10, <3>1, <3>2
    <3> QED BY <1>3, <2>3, <3>3
  <2> QED BY <2>3, <2>8, <2>9, <2>10
<1>5. Paired(F)
  BY <1>2, <1>4 DEF Paired
<1> QED BY <1>5 DEF F

\* The latest of some places is one of them, and none is later.
LEMMA LastIsMember ==
  ASSUME NEW n \in Nat, NEW S, S \subseteq 1..n, S # {}
  PROVE  Max(S) \in S /\ \A x \in S : x <= Max(S)
<1> DEFINE R == {n - x : x \in S}
           y == n - Min(R)
<1>1. R \subseteq Nat /\ R # {}
  <2>1. \A x \in S : n - x \in Nat
    OBVIOUS
  <2>2. \E x : x \in S
    OBVIOUS
  <2> QED BY <2>1, <2>2
<1>2. Min(R) \in R /\ \A x \in R : Min(R) <= x
  BY <1>1, MinIsMember
<1>3. y \in S
  BY <1>2
<1>4. \A x \in S : y >= x
  <2> TAKE x \in S
  <2>1. n - x \in R
    OBVIOUS
  <2>2. Min(R) <= n - x
    BY <1>2, <2>1
  <2>3. Min(R) \in Nat /\ x \in Nat
    BY <1>1, <1>2
  <2> HIDE DEF R
  <2> QED BY <2>2, <2>3
<1> HIDE DEF y
<1>5. Max(S) \in S /\ \A x \in S : Max(S) >= x
  BY <1>3, <1>4 DEF Max
<1> QED BY <1>5

\* A pending call that is found has the name that was looked for.
LEMMA PendingIs ==
  ASSUME NEW pending, NEW name, Len(pending) \in Nat, PendingIndex(pending, name) # 0
  PROVE  /\ PendingIndex(pending, name) \in 1..Len(pending)
         /\ pending[PendingIndex(pending, name)].name = name
<1> DEFINE S == {i \in 1..Len(pending) : pending[i].name = name}
<1>1. PendingIndex(pending, name) = IF S # {} THEN Max(S) ELSE 0
  BY DEF PendingIndex, SelectLastInSeq
<1>2. S # {} => Max(S) \in S
  BY LastIsMember
<1> QED BY <1>1, <1>2

\* A list without one of its places.
LEMMA RemoveAtIs ==
  ASSUME NEW p, IsList(p), NEW k \in 1..Len(p)
  PROVE  /\ IsList(RemoveAt(p, k)) /\ Len(RemoveAt(p, k)) = Len(p) - 1
         /\ \A j \in 1..(Len(p) - 1) :
              RemoveAt(p, k)[j] = IF j < k THEN p[j] ELSE p[j + 1]
<1>1. PICK T : p \in Seq(T)
  BY DEF IsList
<1>2. /\ RemoveAt(p, k) \in Seq(T) /\ Len(RemoveAt(p, k)) = Len(p) - 1
      /\ \A j \in 1..(Len(p) - 1) :
           RemoveAt(p, k)[j] = IF j < k THEN p[j] ELSE p[j + 1]
  <2> DEFINE a == SubSeq(p, 1, k - 1)
             b == SubSeq(p, k + 1, Len(p))
  <2>1. a \in Seq(T) /\ Len(a) = k - 1 /\ \A j \in 1..(k - 1) : a[j] = p[j]
    BY <1>1
  <2>2. b \in Seq(T) /\ Len(b) = Len(p) - k /\ \A j \in 1..(Len(p) - k) : b[j] = p[k + j]
    BY <1>1
  <2>3. RemoveAt(p, k) = a \o b
    BY DEF RemoveAt
  <2>4. Len(p) \in Nat
    BY <1>1
  <2> HIDE DEF a, b
  <2>5. a \o b \in Seq(T) /\ Len(a \o b) = Len(a) + Len(b)
    <3>1. a \in Seq(T) /\ b \in Seq(T)
      BY <2>1, <2>2
    <3> QED BY ONLY <3>1
  <2>6. /\ \A j \in 1..Len(a) : (a \o b)[j] = a[j]
        /\ \A j \in 1..Len(b) : (a \o b)[Len(a) + j] = b[j]
    <3>1. IsList(a) /\ IsList(b)
      BY <2>1, <2>2 DEF IsList
    <3> QED BY ONLY <3>1, Joined2
  <2>7. ASSUME NEW j \in 1..(Len(p) - 1)
        PROVE  (a \o b)[j] = IF j < k THEN p[j] ELSE p[j + 1]
    <3>1. CASE j < k
      <4>1. j \in 1..(k - 1)
        BY <2>4, <3>1
      <4> QED BY <2>1, <2>6, <3>1, <4>1
    <3>2. CASE ~(j < k)
      <4>1. j - k + 1 \in 1..(Len(p) - k)
        BY <2>4, <3>2
      <4>2. (a \o b)[Len(a) + (j - k + 1)] = b[j - k + 1]
        BY <2>2, <2>6, <4>1
      <4>3. b[j - k + 1] = p[k + (j - k + 1)]
        BY <2>2, <4>1
      <4>4. Len(a) + (j - k + 1) = j /\ k + (j - k + 1) = j + 1
        BY <2>1, <2>4
      <4> QED BY <3>2, <4>2, <4>3, <4>4
    <3> QED BY <3>1, <3>2
  <2> QED BY <2>1, <2>2, <2>3, <2>4, <2>5, <2>7
<1> QED BY <1>2 DEF IsList

\* The calls of a message that has none, and of one of the older form.
LEMMA CallRefsAre ==
  ASSUME NEW m
  PROVE  /\ m.calls = <<>> => CallRefs(m) = <<>>
         /\ \A id, name : m.calls = <<Call(id, "function", name)>> =>
              CallRefs(m) = <<[name |-> name, callId |-> id]>>
<1>1. \A places : InOrder(places, 0) = <<>>
  <2> TAKE places
  <2>1. InOrder(places, 0) \in Seq(places \cap 1..0)
    BY InOrderIs
  <2>2. places \cap 1..0 = {}
    OBVIOUS
  <2> QED BY <2>1, <2>2
<1>2. ASSUME m.calls = <<>> PROVE CallRefs(m) = <<>>
  <2> DEFINE places == {k \in DOMAIN m.calls : m.calls[k].kind = "function"}
             order == InOrder(places, 0)
  <2>1. CallRefs(m) = [k \in DOMAIN order |->
                         [name |-> m.calls[order[k]].name, callId |-> m.calls[order[k]].id]]
    BY <1>2 DEF CallRefs
  <2>2. order = <<>>
    BY <1>1
  <2> HIDE DEF order
  <2> QED BY <2>1, <2>2
<1>3. ASSUME NEW id, NEW name, m.calls = <<Call(id, "function", name)>>
      PROVE  CallRefs(m) = <<[name |-> name, callId |-> id]>>
  <2> DEFINE places == {k \in DOMAIN m.calls : m.calls[k].kind = "function"}
             order == InOrder(places, 1)
  <2>1. CallRefs(m) = [k \in DOMAIN order |->
                         [name |-> m.calls[order[k]].name, callId |-> m.calls[order[k]].id]]
    BY <1>3 DEF CallRefs
  <2>2. 1 \in places /\ m.calls[1].name = name /\ m.calls[1].id = id
    BY <1>3 DEF Call
  <2>3. order = <<1>>
    <3> HIDE DEF places
    <3> DEFINE none == 0
    <3>1. none \in Nat /\ none + 1 = 1 /\ InOrder(places, none) = <<>>
      BY <1>1
    <3> HIDE DEF none
    <3>2. InOrder(places, none + 1) = IF none + 1 \in places
                                      THEN Append(InOrder(places, none), none + 1)
                                      ELSE InOrder(places, none)
      <4>1. places \cap 1..none = places \cap 1..none
        OBVIOUS
      <4>2. none \in Nat
        BY <3>1
      <4> QED BY ONLY <4>1, <4>2, InOrderGrows
    <3>4. InOrder(places, 1) = Append(<<>>, 1)
      BY <2>2, <3>1, <3>2
    <3> QED BY <3>4
  <2> HIDE DEF order, places
  <2> QED BY <2>1, <2>2, <2>3
<1> QED BY <1>2, <1>3

\* A message that is no call leaves the waiting calls as they are.
LEMMA WaitingStays ==
  ASSUME NEW messages, NEW at \in Nat \ {0}, NEW pending, Waiting(pending, messages, at - 1)
  PROVE  Waiting(pending, messages, at)
<1>1. \A i \in 1..(at - 1) : i \in 1..at
  OBVIOUS
<1> QED BY <1>1 DEF Waiting

\* A call waits with those before it.
LEMMA WaitingGrows ==
  ASSUME NEW messages, NEW at \in Nat \ {0}, NEW pending, Waiting(pending, messages, at - 1),
         Older(messages[at]), NEW later, later = pending \o <<Ref(at, messages[at].fcall)>>
  PROVE  Waiting(later, messages, at) /\ Joins(later, pending, Ref(at, messages[at].fcall))
<1> DEFINE ref == Ref(at, messages[at].fcall)
<1>1. /\ IsList(pending)
      /\ \A k \in 1..Len(pending) : \E i \in 1..(at - 1) :
            Older(messages[i]) /\ pending[k] = Ref(i, messages[i].fcall)
      /\ \A k, l \in 1..Len(pending) : pending[k].callId = pending[l].callId => k = l
  BY DEF Waiting
<1>2. Len(pending) \in Nat
  BY <1>1, ListIs
<1>3. /\ IsList(later) /\ Len(later) = Len(pending) + 1
      /\ \A k \in 1..Len(pending) : later[k] = pending[k]
      /\ later[Len(pending) + 1] = ref
  <2> HIDE DEF ref
  <2>1. IsList(<<ref>>) /\ Len(<<ref>>) = 1 /\ <<ref>>[1] = ref
    BY ShortLists
  <2> DEFINE one == <<ref>>
  <2> HIDE DEF one
  <2>2. IsList(pending) /\ IsList(one)
    BY <1>1, <2>1 DEF one
  <2>3. /\ IsList(pending \o one) /\ Len(pending \o one) = Len(pending) + Len(one)
        /\ \A k \in 1..Len(pending) : (pending \o one)[k] = pending[k]
        /\ \A k \in 1..Len(one) : (pending \o one)[Len(pending) + k] = one[k]
    BY ONLY <2>2, Joined2
  <2>4. later = pending \o one /\ Len(one) = 1 /\ one[1] = ref
    BY <2>1 DEF one, ref
  <2>5. 1 \in 1..1
    OBVIOUS
  <2>6. (pending \o one)[Len(pending) + 1] = one[1]
    BY <2>3, <2>4, <2>5
  <2> QED BY ONLY <2>3, <2>4, <2>6
<1>4. \A k \in 1..Len(later) : k \in 1..Len(pending) \/ k = Len(pending) + 1
  BY <1>2, <1>3
<1>5. \A k \in 1..Len(pending) : pending[k].callId[1] < at
  <2> TAKE k \in 1..Len(pending)
  <2>1. PICK i \in 1..(at - 1) : pending[k] = Ref(i, messages[i].fcall)
    BY <1>1
  <2>2. pending[k].callId = <<i, messages[i].fcall>>
    BY <2>1 DEF Ref, Id
  <2> QED BY <2>2
<1>6. ref.callId[1] = at
  BY DEF Ref, Id
<1>7. ASSUME NEW k \in 1..Len(later)
      PROVE  \E i \in 1..at : Older(messages[i]) /\ later[k] = Ref(i, messages[i].fcall)
  <2>1. CASE k \in 1..Len(pending)
    <3>1. PICK i \in 1..(at - 1) : Older(messages[i]) /\ pending[k] = Ref(i, messages[i].fcall)
      BY <1>1, <2>1
    <3>2. i \in 1..at
      OBVIOUS
    <3> QED BY <1>3, <2>1, <3>1, <3>2
  <2>2. CASE k = Len(pending) + 1
    <3>1. at \in 1..at
      OBVIOUS
    <3> QED BY <1>3, <2>2, <3>1
  <2> QED BY <1>4, <2>1, <2>2
<1>8. ASSUME NEW k \in 1..Len(later), NEW l \in 1..Len(later), later[k].callId = later[l].callId
      PROVE  k = l
  <2> HIDE DEF ref
  <2>1. CASE k \in 1..Len(pending) /\ l \in 1..Len(pending)
    BY <1>1, <1>3, <1>8, <2>1
  <2>2. CASE k \in 1..Len(pending) /\ l = Len(pending) + 1
    <3>1. pending[k].callId[1] < at /\ pending[k].callId = ref.callId
      BY <1>3, <1>5, <1>8, <2>2
    <3> QED BY <1>6, <3>1
  <2>3. CASE k = Len(pending) + 1 /\ l \in 1..Len(pending)
    <3>1. pending[l].callId[1] < at /\ pending[l].callId = ref.callId
      BY <1>3, <1>5, <1>8, <2>3
    <3> QED BY <1>6, <3>1
  <2> QED BY <1>4, <2>1, <2>2, <2>3
<1>9. Waiting(later, messages, at)
  BY <1>3, <1>7, <1>8 DEF Waiting
<1> QED BY <1>3, <1>4, <1>9 DEF Joins

\* A call that is answered waits no longer.
LEMMA WaitingEnds ==
  ASSUME NEW messages, NEW n, NEW pending, Waiting(pending, messages, n),
         NEW k \in 1..Len(pending), NEW later, later = RemoveAt(pending, k)
  PROVE  /\ Waiting(later, messages, n)
         /\ \A j \in 1..Len(later) : \E l \in 1..Len(pending) :
              l # k /\ later[j] = pending[l]
<1>1. /\ IsList(pending)
      /\ \A j \in 1..Len(pending) : \E i \in 1..n :
            Older(messages[i]) /\ pending[j] = Ref(i, messages[i].fcall)
      /\ \A j, l \in 1..Len(pending) : pending[j].callId = pending[l].callId => j = l
  BY DEF Waiting
<1>2. Len(pending) \in Nat
  BY <1>1, ListIs
<1>3. /\ IsList(later) /\ Len(later) = Len(pending) - 1
      /\ \A j \in 1..(Len(pending) - 1) :
           later[j] = IF j < k THEN pending[j] ELSE pending[j + 1]
  <2>1. /\ IsList(RemoveAt(pending, k)) /\ Len(RemoveAt(pending, k)) = Len(pending) - 1
        /\ \A j \in 1..(Len(pending) - 1) :
             RemoveAt(pending, k)[j] = IF j < k THEN pending[j] ELSE pending[j + 1]
    BY <1>1, RemoveAtIs
  <2> QED BY <2>1
<1> DEFINE Old(j) == IF j < k THEN j ELSE j + 1
<1>4. \A j \in 1..Len(later) :
         Old(j) \in 1..Len(pending) /\ Old(j) # k /\ later[j] = pending[Old(j)]
  <2> TAKE j \in 1..Len(later)
  <2>1. j \in 1..(Len(pending) - 1)
    BY <1>3
  <2>2. later[j] = IF j < k THEN pending[j] ELSE pending[j + 1]
    BY <1>3, <2>1
  <2> QED BY <1>2, <2>1, <2>2
<1>5. \A j, l \in 1..Len(later) : Old(j) = Old(l) => j = l
  BY <1>2, <1>3
<1> HIDE DEF Old
<1>6. Waiting(later, messages, n)
  <2>1. \A j \in 1..Len(later) : \E i \in 1..n :
           Older(messages[i]) /\ later[j] = Ref(i, messages[i].fcall)
    BY <1>1, <1>4, SMTT(30)
  <2>2. \A j, l \in 1..Len(later) : later[j].callId = later[l].callId => j = l
    <3> TAKE j, l \in 1..Len(later)
    <3>1. /\ Old(j) \in 1..Len(pending) /\ later[j] = pending[Old(j)]
          /\ Old(l) \in 1..Len(pending) /\ later[l] = pending[Old(l)]
      BY <1>4
    <3>2. pending[Old(j)].callId = pending[Old(l)].callId => Old(j) = Old(l)
      BY <1>1, <3>1
    <3> QED BY <1>5, <3>1, <3>2
  <2> QED BY <1>3, <2>1, <2>2 DEF Waiting
<1> QED BY <1>4, <1>6

\* What is matched stays so with a message that is no result, whether or not it is a call.
LEMMA MatchedStays ==
  ASSUME NEW messages, NEW at \in Nat \ {0}, NEW out, NEW pending,
         OlderMatched(out, pending, messages, at - 1), messages[at].role # "function",
         NEW more, Holds(more, out, at - 1),
         NEW later, Joins(later, pending, Ref(at, messages[at].fcall))
  PROVE  OlderMatched(more, later, messages, at)
<1> SUFFICES ASSUME NEW k \in 1..at, messages[k].role = "function"
             PROVE  /\ GetsOlderId(more, messages, k)
                    /\ \A l \in 1..at : messages[l].role = "function"
                         /\ more[l].answers = more[k].answers => l = k
                    /\ \A l \in 1..Len(later) : later[l].callId # more[k].answers
  BY DEF OlderMatched
<1>1. k \in 1..(at - 1) /\ more[k] = out[k]
  <2>1. k # at
    OBVIOUS
  <2>2. k \in 1..(at - 1)
    BY <2>1
  <2> QED BY <2>2 DEF Holds
<1>2. /\ GetsOlderId(out, messages, k)
      /\ \A l \in 1..(at - 1) :
            messages[l].role = "function" /\ out[l].answers = out[k].answers => l = k
      /\ \A l \in 1..Len(pending) : pending[l].callId # out[k].answers
  BY <1>1 DEF OlderMatched
<1>3. GetsOlderId(more, messages, k)
  BY <1>1, <1>2 DEF GetsOlderId
<1>4. ASSUME NEW l \in 1..at, messages[l].role = "function", more[l].answers = more[k].answers
      PROVE  l = k
  <2>1. l # at
    BY <1>4
  <2>2. l \in 1..(at - 1)
    BY <2>1
  <2>3. more[l] = out[l]
    BY <2>2 DEF Holds
  <2> QED BY <1>1, <1>2, <1>4, <2>2, <2>3
<1>5. ASSUME NEW l \in 1..Len(later) PROVE later[l].callId # more[k].answers
  <2>0. \/ l \in 1..Len(pending) /\ later[l] = pending[l]
        \/ later[l] = Ref(at, messages[at].fcall)
    BY DEF Joins
  <2>1. CASE l \in 1..Len(pending) /\ later[l] = pending[l]
    BY <1>1, <1>2, <2>1
  <2>2. CASE later[l] = Ref(at, messages[at].fcall)
    <3>1. later[l].callId = <<at, messages[at].fcall>>
      BY <2>2 DEF Ref, Id
    <3>2. PICK i \in 1..(k - 1) : out[k].answers = Id(i, messages[k].name)
      BY <1>2 DEF GetsOlderId
    <3>3. more[k].answers = <<i, messages[k].name>>
      BY <1>1, <3>2 DEF Id
    <3>4. i < at
      BY <1>1
    <3> QED BY <3>1, <3>3, <3>4
  <2> QED BY <2>0, <2>1, <2>2
<1> QED BY <1>3, <1>4, <1>5

\* A result gets the id of a call that waits, which then waits no longer.
LEMMA MatchedGrows ==
  ASSUME NEW messages, NEW at \in Nat \ {0}, NEW out, NEW pending,
         Waiting(pending, messages, at - 1), OlderMatched(out, pending, messages, at - 1),
         NEW index \in 1..Len(pending), pending[index].name = messages[at].name,
         NEW more, Holds(more, out, at - 1),
         more[at].answers = pending[index].callId,
         NEW later, later = RemoveAt(pending, index)
  PROVE  OlderMatched(more, later, messages, at)
<1>1. /\ \A k \in 1..Len(pending) : \E i \in 1..(at - 1) :
            Older(messages[i]) /\ pending[k] = Ref(i, messages[i].fcall)
      /\ \A k, l \in 1..Len(pending) : pending[k].callId = pending[l].callId => k = l
  BY DEF Waiting
<1>2. \A j \in 1..Len(later) : \E l \in 1..Len(pending) : l # index /\ later[j] = pending[l]
  <2> DEFINE n == at - 1
  <2>1. Waiting(pending, messages, n) /\ index \in 1..Len(pending)
    OBVIOUS
  <2>2. later = RemoveAt(pending, index)
    OBVIOUS
  <2> HIDE DEF n
  <2> QED BY ONLY <2>1, <2>2, WaitingEnds
<1>3. GetsOlderId(more, messages, at)
  <2>1. PICK i \in 1..(at - 1) :
           Older(messages[i]) /\ pending[index] = Ref(i, messages[i].fcall)
    BY <1>1
  <2>2. messages[i].fcall = messages[at].name /\ more[at].answers = Id(i, messages[at].name)
    BY <2>1 DEF Ref
  <2> QED BY <2>1, <2>2 DEF GetsOlderId
<1>4. \A l \in 1..Len(later) : later[l].callId # more[at].answers
  <2> TAKE l \in 1..Len(later)
  <2>1. PICK j \in 1..Len(pending) : j # index /\ later[l] = pending[j]
    BY <1>2
  <2> QED BY <1>1, <2>1
<1>5. ASSUME NEW k \in 1..(at - 1), messages[k].role = "function"
      PROVE  /\ GetsOlderId(more, messages, k)
             /\ \A l \in 1..(at - 1) :
                   messages[l].role = "function" /\ more[l].answers = more[k].answers => l = k
             /\ more[at].answers # more[k].answers
             /\ \A l \in 1..Len(later) : later[l].callId # more[k].answers
  <2>1. /\ GetsOlderId(out, messages, k)
        /\ \A l \in 1..(at - 1) :
              messages[l].role = "function" /\ out[l].answers = out[k].answers => l = k
        /\ \A l \in 1..Len(pending) : pending[l].callId # out[k].answers
    BY <1>5 DEF OlderMatched
  <2>2. more[k] = out[k]
    BY DEF Holds
  <2>3. GetsOlderId(more, messages, k)
    BY <2>1, <2>2 DEF GetsOlderId
  <2>4. \A l \in 1..(at - 1) :
           messages[l].role = "function" /\ more[l].answers = more[k].answers => l = k
    <3> TAKE l \in 1..(at - 1)
    <3>1. more[l] = out[l]
      BY DEF Holds
    <3> QED BY <2>1, <2>2, <3>1
  <2>5. \A l \in 1..Len(later) : later[l].callId # more[k].answers
    <3> TAKE l \in 1..Len(later)
    <3>1. PICK j \in 1..Len(pending) : j # index /\ later[l] = pending[j]
      BY <1>2
    <3> QED BY <2>1, <2>2, <3>1
  <2> QED BY <2>1, <2>2, <2>3, <2>4, <2>5
<1>6. \A k \in 1..at : k = at \/ k \in 1..(at - 1)
  OBVIOUS
<1> QED BY <1>3, <1>4, <1>5, <1>6 DEF OlderMatched

\* A turn of the loop treats the next message so, where no message has calls of its own.
LEMMA MatchingTurn ==
  ASSUME NEW messages, NEW at \in Nat \ {0}, NEW state, Matching(state, messages, at - 1),
         messages[at].calls = <<>>
  PROVE  Matching(LegacyTurn(state, messages[at], at), messages, at)
<1> DEFINE m == messages[at]
           later == LegacyTurn(state, m, at)
<1>1. NormalUpTo(state, messages, at - 1)
  BY DEF Matching
<1>2. NormalUpTo(later, messages, at)
  BY <1>1, NormalTurn
<1>3. /\ state = [out |-> state.out, pending |-> state.pending, error |-> state.error]
      /\ state.error \in BOOLEAN
  BY <1>1 DEF NormalUpTo
<1>4. CASE state.error \/ LegacyFault(m)
  <2>1. later.error
    <3>1. CASE state.error
      BY <3>1 DEF LegacyTurn
    <3>2. CASE ~state.error
      <4>1. later = [state EXCEPT !.error = TRUE]
        BY <1>4, <3>2 DEF LegacyTurn
      <4> HIDE DEF later
      <4> QED BY <1>3, <4>1
    <3> QED BY <3>1, <3>2
  <2> QED BY <1>2, <2>1 DEF Matching
<1>5. CASE ~state.error /\ ~LegacyFault(m)
  <2>1. /\ Waiting(state.pending, messages, at - 1)
        /\ OlderMatched(state.out, state.pending, messages, at - 1)
    BY <1>5 DEF Matching
  <2>2. ASSUME NEW o
        PROVE  /\ Append(state.out, o)[at] = o
               /\ Holds(Append(state.out, o), state.out, at - 1)
    <3>1. PICK X : state.out \in Seq(X)
      BY <1>1, <1>5 DEF NormalUpTo
    <3>2. Len(state.out) = at - 1
      BY <1>1, <1>5 DEF NormalUpTo
    <3> QED BY <3>1, <3>2 DEF Holds
  <2>3. IsList(state.pending)
    BY <2>1 DEF Waiting
  <2>4. Len(state.pending) \in Nat
    BY <2>3, ListIs
  <2>5. ASSUME NEW o, NEW waiting, m.role # "function", later.out = Append(state.out, o),
               later.pending = waiting, Waiting(waiting, messages, at),
               Joins(waiting, state.pending, Ref(at, messages[at].fcall))
        PROVE  Matching(later, messages, at)
    <3> DEFINE more == Append(state.out, o)
               out == state.out
               pending == state.pending
    <3> HIDE DEF later
    <3>1. Holds(more, out, at - 1) /\ OlderMatched(out, pending, messages, at - 1)
      BY <2>1, <2>2
    <3>2. Joins(waiting, pending, Ref(at, messages[at].fcall)) /\ messages[at].role # "function"
      BY <2>5
    <3>3. at \in Nat \ {0}
      OBVIOUS
    <3> HIDE DEF more, out, pending, m
    <3>4. OlderMatched(more, waiting, messages, at)
      BY ONLY <3>1, <3>2, <3>3, MatchedStays
    <3> QED BY <1>2, <2>5, <3>4 DEF Matching, more
  <2>6. CASE m.role = "assistant" /\ Older(m)
    <3> DEFINE o == WithToolCall(m, at)
               ref == Ref(at, messages[at].fcall)
               waiting == state.pending \o <<ref>>
    <3>1. later = FunctionCallTurn(state, m, at)
      BY <1>5, <2>6 DEF LegacyTurn
    <3>2. later = [state EXCEPT !.out = Append(state.out, o),
                                !.pending = state.pending \o CallRefs(o)]
      BY <2>6, <3>1 DEF FunctionCallTurn, Older
    <3>3. CallRefs(o) = <<ref>>
      <4>1. o.calls = <<Call(Id(at, m.fcall), "function", m.fcall)>>
        BY DEF WithToolCall
      <4> HIDE DEF o
      <4> QED BY <4>1, CallRefsAre DEF Ref
    <3> HIDE DEF o, later, m, ref
    <3>4. later.out = Append(state.out, o) /\ later.pending = waiting
      BY <1>3, <3>2, <3>3
    <3>5. Older(messages[at])
      BY <2>6 DEF m
    <3>6. Waiting(waiting, messages, at) /\ Joins(waiting, state.pending, ref)
      <4> DEFINE pending == state.pending
      <4>1. Waiting(pending, messages, at - 1) /\ Older(messages[at]) /\ at \in Nat \ {0}
        BY <2>1, <3>5
      <4>2. waiting = pending \o <<Ref(at, messages[at].fcall)>>
        BY DEF ref
      <4> HIDE DEF pending, waiting
      <4>3. Waiting(waiting, messages, at)
              /\ Joins(waiting, pending, Ref(at, messages[at].fcall))
        BY ONLY <4>1, <4>2, WaitingGrows
      <4> QED BY <4>3 DEF pending, ref
    <3>7. m.role # "function"
      BY <2>6
    <3> HIDE DEF waiting
    <3>8. Joins(waiting, state.pending, Ref(at, messages[at].fcall))
      BY <3>6 DEF ref
    <3> QED BY <2>5, <3>4, <3>6, <3>7, <3>8 DEF later, m
  <2>7. CASE m.role # "function" /\ ~(m.role = "assistant" /\ Older(m))
    <3>1. later.out = Append(state.out, m) /\ later.pending = state.pending
      <4>1. CASE m.role = "assistant"
        <5>1. later = FunctionCallTurn(state, m, at)
          BY <1>5, <4>1 DEF LegacyTurn
        <5>2. later = [state EXCEPT !.out = Append(state.out, m),
                                    !.pending = state.pending \o CallRefs(m)]
          BY <2>7, <4>1, <5>1 DEF FunctionCallTurn, Older
        <5>3. CallRefs(m) = <<>>
          BY CallRefsAre
        <5>4. state.pending \o <<>> = state.pending
          BY <2>3, JoinLaws
        <5> HIDE DEF later, m
        <5> QED BY <1>3, <5>2, <5>3, <5>4
      <4>2. CASE m.role # "assistant"
        <5>1. later = [state EXCEPT !.out = Append(state.out, m)]
          BY <1>5, <2>7, <4>2 DEF LegacyTurn
        <5> HIDE DEF later, m
        <5> QED BY <1>3, <5>1
      <4> QED BY <4>1, <4>2
    <3> DEFINE waiting == state.pending
    <3>2. Waiting(waiting, messages, at)
      BY <2>1, WaitingStays
    <3>3. Joins(waiting, state.pending, Ref(at, messages[at].fcall))
      BY DEF Joins
    <3>4. later.pending = waiting /\ later.out = Append(state.out, m)
      BY <3>1
    <3>5. m.role # "function"
      BY <2>7
    <3> HIDE DEF waiting, later
    <3> QED BY <2>5, <3>2, <3>3, <3>4, <3>5 DEF later
  <2>8. CASE m.role = "function"
    <3> DEFINE index == PendingIndex(state.pending, m.name)
               o == [Message("tool", m.content) EXCEPT !.answers = state.pending[index].callId]
    <3>1. later = FunctionResultTurn(state, m)
      BY <1>5, <2>8 DEF LegacyTurn
    <3>2. CASE index = 0
      <4>1. later = [state EXCEPT !.error = TRUE]
        BY <3>1, <3>2 DEF FunctionResultTurn
      <4>2. later.error
        <5> HIDE DEF later
        <5> QED BY <1>3, <4>1
      <4> QED BY <1>2, <4>2 DEF Matching
    <3>3. CASE index # 0
      <4>1. later = [state EXCEPT !.out = Append(state.out, o),
                                  !.pending = RemoveAt(state.pending, index)]
        BY <3>1, <3>3 DEF FunctionResultTurn
      <4>2. index \in 1..Len(state.pending) /\ state.pending[index].name = m.name
        BY <2>4, <3>3, PendingIs
      <4>3. o.answers = state.pending[index].callId
        BY DEF Message
      <4> DEFINE more == Append(state.out, o)
                 waiting == RemoveAt(state.pending, index)
                 out == state.out
                 pending == state.pending
      <4>4. Holds(more, out, at - 1)
        <5> HIDE DEF o
        <5> QED BY <2>2
      <4>5. more[at].answers = pending[index].callId
        BY <2>2, <4>3
      <4>6. waiting = RemoveAt(pending, index)
        OBVIOUS
      <4> HIDE DEF o, later, index
      <4>7. later.out = more /\ later.pending = waiting
        BY <1>3, <4>1
      <4>8. /\ Waiting(pending, messages, at - 1)
            /\ OlderMatched(out, pending, messages, at - 1)
        BY <2>1
      <4>9. index \in 1..Len(pending) /\ pending[index].name = messages[at].name
        BY <4>2
      <4> HIDE DEF more, waiting, out, pending, m
      <4>10. OlderMatched(more, waiting, messages, at)
        BY ONLY <4>4, <4>5, <4>6, <4>8, <4>9, at \in Nat \ {0}, MatchedGrows
      <4>11. Waiting(waiting, messages, at)
        <5>1. Waiting(waiting, messages, at - 1)
          BY ONLY <4>6, <4>8, <4>9, WaitingEnds
        <5> QED BY <5>1, WaitingStays
      <4> QED BY <1>2, <4>7, <4>10, <4>11 DEF Matching, later, m
    <3> QED BY <3>2, <3>3
  <2> QED BY <2>6, <2>7, <2>8
<1> QED BY <1>3, <1>4, <1>5

\* So do all turns: the results of the older form are matched.
LEMMA NormalizedMatches ==
  ASSUME NEW messages, Len(messages) \in Nat,
         \A at \in 1..Len(messages) : messages[at].calls = <<>>
  PROVE  Matching(Normalized(messages), messages, Len(messages))
<1> DEFINE n == Len(messages)
           f == CHOOSE upTo : Turned(upTo, messages, n)
<1>1. Normalized(messages) = f[n]
  BY DEF Normalized, Turned
<1>2. Turned(f, messages, n)
  BY TurnedExists
<1> HIDE DEF f
<1>3. \A at \in 0..n : f[at] = IF at = 0 THEN NormalStart
                               ELSE LegacyTurn(f[at - 1], messages[at], at)
  BY <1>2 DEF Turned
<1> DEFINE S == {at \in 0..n : Matching(f[at], messages, at)}
<1>4. 0 \in S
  <2>1. Matching(NormalStart, messages, 0)
    <3>1. <<>> \in Seq({}) /\ Len(<<>>) = 0
      OBVIOUS
    <3>2. NormalUpTo(NormalStart, messages, 0)
      BY <3>1 DEF NormalUpTo, NormalStart
    <3>3. Waiting(<<>>, messages, 0)
      BY <3>1 DEF Waiting, IsList
    <3>4. OlderMatched(<<>>, <<>>, messages, 0)
      BY DEF OlderMatched
    <3> QED BY <3>2, <3>3, <3>4 DEF Matching, NormalStart
  <2> QED BY <1>3, <2>1
<1>5. ASSUME NEW at \in 1..n, at - 1 \in S PROVE at \in S
  <2>1. f[at] = LegacyTurn(f[at - 1], messages[at], at)
    BY <1>3
  <2>2. Matching(f[at], messages, at)
    BY <1>5, <2>1, MatchingTurn
  <2> QED BY <2>2
<1>6. n \in Nat
  OBVIOUS
<1>7. n \in S
  <2> HIDE DEF S, n
  <2>1. 0..n \subseteq S
    BY <1>4, <1>5, <1>6, Induction
  <2> QED BY <1>6, <2>1
<1> QED BY <1>1, <1>7

\* A call is the client's, or the proxy has given it an id with its message's place.
LEMMA CallComes ==
  ASSUME NEW m \in ClientMessages, NEW at, NEW o, CameOf(m, at, o),
         NEW k \in DOMAIN CallsIn(o), NEW c, c = CallsIn(o)[k]
  PROVE  \/ k \in DOMAIN m.calls /\ c = m.calls[k] /\ c.id[1] = 0
         \/ c.id[1] = at /\ c.kind = "function"
<1>1. /\ m.calls \in Seq(ClientCalls) /\ DOMAIN m.calls = 1..Len(m.calls)
      /\ Len(m.calls) \in Nat
  BY DEF ClientMessages
<1>2. CASE o = m
  <2>1. CallsIn(o) = m.calls \/ CallsIn(o) = <<>>
    BY <1>2 DEF CallsIn
  <2>2. CallsIn(o) = m.calls
    BY <2>1
  <2>3. k \in DOMAIN m.calls /\ c = m.calls[k]
    BY <2>2
  <2>4. c \in ClientCalls
    BY <1>1, <2>3
  <2>5. c.id[1] = 0
    BY <2>4 DEF ClientCalls, ClientIds
  <2> QED BY <2>3, <2>5
<1>3. CASE Older(m) /\ o = WithToolCall(m, at)
  <2> DEFINE call == Call(Id(at, m.fcall), "function", m.fcall)
  <2>1. m \in [role : STRING, content : Contents, calls : Seq(ClientCalls), listed : BOOLEAN, fcall : STRING,
               name : STRING, answers : ClientIds]
    BY DEF ClientMessages
  <2>2. o.calls = <<call>> /\ o.role = m.role
    BY <1>3, <2>1 DEF WithToolCall
  <2>3. CallsIn(o) = <<call>>
    BY <1>3, <2>2 DEF CallsIn, Older
  <2>4. c = call
    <3> HIDE DEF call
    <3> QED BY <2>3
  <2> QED BY <2>4 DEF Call, Id
<1>4. CASE m.role = "function" /\ \E id : o = [Message("tool", m.content) EXCEPT !.answers = id]
  <2>1. o.role = "tool"
    BY <1>4 DEF Message
  <2>2. CallsIn(o) = <<>>
    BY <2>1 DEF CallsIn
  <2> QED BY <2>2
<1> QED BY <1>2, <1>3, <1>4 DEF CameOf

\* Where the client keeps the protocol, an id stands for calls of one kind.
LEMMA KindsAreOne ==
  ASSUME api = "chat", ProtocolKept, NEW out, Came(items, out, Len(items))
  PROVE  OneKind(out, Len(items))
<1> DEFINE n == Len(items)
<1>1. /\ n \in Nat /\ DOMAIN items = 1..n
      /\ \A i \in 1..n : items[i] \in ClientMessages /\ CameOf(items[i], i, out[i])
  BY DEF Came
<1> SUFFICES ASSUME NEW i \in 1..n, NEW j \in 1..n,
                    NEW k \in DOMAIN CallsIn(out[i]), NEW l \in DOMAIN CallsIn(out[j]),
                    CallsIn(out[i])[k].id = CallsIn(out[j])[l].id
             PROVE  CallsIn(out[i])[k].kind = CallsIn(out[j])[l].kind
  BY DEF OneKind
<1> DEFINE c == CallsIn(out[i])[k]
           d == CallsIn(out[j])[l]
<1>2. \/ k \in DOMAIN items[i].calls /\ c = items[i].calls[k] /\ c.id[1] = 0
      \/ c.id[1] = i /\ c.kind = "function"
  BY <1>1, CallComes
<1>3. \/ l \in DOMAIN items[j].calls /\ d = items[j].calls[l] /\ d.id[1] = 0
      \/ d.id[1] = j /\ d.kind = "function"
  BY <1>1, CallComes
<1>4. ASSUME NEW x \in DOMAIN items[i].calls, NEW y \in DOMAIN items[j].calls,
             items[i].calls[x].id = items[j].calls[y].id
      PROVE  i = j /\ x = y
  BY <1>1, <1>4 DEF ProtocolKept, UniqueCalls
<1>5. c.id = d.id
  OBVIOUS
<1> HIDE DEF c, d
<1>6. c.kind = d.kind
  <2>1. i # 0 /\ j # 0
    BY <1>1
  <2> QED BY <1>2, <1>3, <1>4, <1>5, <2>1
<1> QED BY <1>6 DEF c, d

\* Where the client keeps the protocol, each result of the normalised conversation
\* answers a call.
LEMMA ChatAnswered ==
  ASSUME api = "chat", ProtocolKept, items \in Seq(ClientMessages),
         ~Normalized(items).error, NEW out, out = Normalized(items).out,
         \A at \in 1..Len(items) : out[at].role = "tool" => out[at].answers # NoId
  PROVE  CallsAnswered(items, out, Len(items))
<1> DEFINE n == Len(items)
<1>1. Came(items, out, n)
  BY NormalizedCame
<1>2. /\ n \in Nat /\ DOMAIN items = 1..n
      /\ \A i \in 1..n : items[i] \in ClientMessages /\ CameOf(items[i], i, out[i])
  BY <1>1 DEF Came
<1>3. CASE \E i \in 1..n : items[i].role = "function"
  <2>1. \A i \in 1..n : items[i].calls = <<>>
    BY <1>2, <1>3 DEF ProtocolKept, OlderFormKept
  <2>2. OlderMatched(out, Normalized(items).pending, items, n)
    <3>1. Matching(Normalized(items), items, n)
      BY <1>2, <2>1, NormalizedMatches
    <3> QED BY <3>1 DEF Matching
  <2>3. ASSUME NEW at \in 1..n, out[at].role = "tool" PROVE items[at].role = "function"
    <3> SUFFICES ASSUME items[at].role # "function" PROVE FALSE
      OBVIOUS
    <3>1. items[at].role = "tool" /\ out[at] = items[at]
      <4>1. CASE out[at] = items[at]
        BY <2>3, <4>1
      <4>2. CASE Older(items[at]) /\ out[at] = WithToolCall(items[at], at)
        <5>1. items[at].role = "assistant"
          BY <4>2 DEF Older
        <5>2. out[at].role = items[at].role
          <6>1. items[at] \in [role : STRING, content : Contents, calls : Seq(ClientCalls),
                               listed : BOOLEAN, fcall : STRING, name : STRING, answers : ClientIds]
            BY <1>2 DEF ClientMessages
          <6> QED BY <4>2, <6>1 DEF WithToolCall
        <5> QED BY <2>3, <5>1, <5>2
      <4> QED BY <1>2, <4>1, <4>2 DEF CameOf
    <3>2. Answered(at) = items[at].answers /\ items[at].answers # NoId
      BY <2>3, <3>1 DEF Answered
    <3>3. PICK i \in 1..(at - 1) : CallFor(i, at)
      BY <1>2, <3>2 DEF ProtocolKept
    <3>4. i \in 1..n
      BY <1>2
    <3> QED BY <2>1, <3>3, <3>4 DEF CallFor
  <2>4. ASSUME NEW at \in 1..n, out[at].role = "tool"
        PROVE  /\ \E i \in 1..(at - 1) : \E k \in DOMAIN CallsIn(out[i]) :
                     CallsIn(out[i])[k].id = out[at].answers
               /\ \A j \in 1..n :
                     out[j].role = "tool" /\ out[j].answers = out[at].answers => j = at
               /\ items[at].role = "function" => out[at].answers[2] = items[at].name
    <3>1. /\ GetsOlderId(out, items, at)
          /\ \A l \in 1..n :
                items[l].role = "function" /\ out[l].answers = out[at].answers => l = at
      BY <2>2, <2>3, <2>4 DEF OlderMatched
    <3>2. PICK i \in 1..(at - 1) : /\ Older(items[i]) /\ items[i].fcall = items[at].name
                                   /\ out[at].answers = Id(i, items[at].name)
      BY <3>1 DEF GetsOlderId
    <3>3. i \in 1..n
      BY <1>2
    <3>4. 1 \in DOMAIN CallsIn(out[i]) /\ CallsIn(out[i])[1].id = out[at].answers
      <4>1. out[i] = WithToolCall(items[i], i)
        BY <1>2, <3>2, <3>3 DEF CameOf, Older
      <4>2. items[i] \in [role : STRING, content : Contents, calls : Seq(ClientCalls),
                          listed : BOOLEAN, fcall : STRING, name : STRING, answers : ClientIds]
        BY <1>2, <3>3 DEF ClientMessages
      <4> DEFINE call == Call(Id(i, items[i].fcall), "function", items[i].fcall)
      <4>3. out[i].calls = <<call>> /\ out[i].role = "assistant"
        BY <3>2, <4>1, <4>2 DEF WithToolCall, Older
      <4>4. CallsIn(out[i]) = <<call>>
        BY <4>3 DEF CallsIn
      <4>5. call.id = out[at].answers
        BY <3>2 DEF Call
      <4> HIDE DEF call
      <4> QED BY <4>4, <4>5
    <3>5. out[at].answers[2] = items[at].name
      BY <3>2 DEF Id
    <3> QED BY <2>3, <3>1, <3>4, <3>5
  <2> QED BY <2>4 DEF CallsAnswered
<1>4. CASE \A i \in 1..n : items[i].role # "function"
  <2>1. ASSUME NEW at \in 1..n, out[at].role = "tool"
        PROVE  /\ out[at] = items[at] /\ Answered(at) = out[at].answers
               /\ Answered(at) # NoId
    <3>1. out[at] = items[at]
      <4>1. CASE Older(items[at]) /\ out[at] = WithToolCall(items[at], at)
        <5>1. items[at].role = "assistant"
          BY <4>1 DEF Older
        <5>2. out[at].role = items[at].role
          <6>1. items[at] \in [role : STRING, content : Contents, calls : Seq(ClientCalls),
                               listed : BOOLEAN, fcall : STRING, name : STRING, answers : ClientIds]
            BY <1>2 DEF ClientMessages
          <6> QED BY <4>1, <6>1 DEF WithToolCall
        <5> QED BY <2>1, <5>1, <5>2
      <4> QED BY <1>2, <1>4, <4>1 DEF CameOf
    <3> QED BY <2>1, <3>1 DEF Answered
  <2>2. ASSUME NEW at \in 1..n, out[at].role = "tool"
        PROVE  /\ \E i \in 1..(at - 1) : \E k \in DOMAIN CallsIn(out[i]) :
                     CallsIn(out[i])[k].id = out[at].answers
               /\ \A j \in 1..n :
                     out[j].role = "tool" /\ out[j].answers = out[at].answers => j = at
               /\ items[at].role = "function" => out[at].answers[2] = items[at].name
    <3>1. /\ \E k \in 1..(at - 1) : CallFor(k, at)
          /\ \A k \in DOMAIN items : Answered(k) = Answered(at) => k = at
      BY <1>2, <2>1, <2>2 DEF ProtocolKept
    <3>2. PICK i \in 1..(at - 1) : CallFor(i, at)
      BY <3>1
    <3>3. i \in 1..n
      BY <1>2
    <3>4. items[i].role = "assistant"
            /\ \E k \in DOMAIN items[i].calls : items[i].calls[k].id = items[at].answers
      BY <3>2 DEF CallFor
    <3>5. PICK k \in DOMAIN items[i].calls : items[i].calls[k].id = items[at].answers
      BY <3>4
    <3>6. items[i].calls # <<>>
      BY <3>5
    <3>7. out[i] = items[i]
      BY <1>2, <1>4, <3>3, <3>6 DEF CameOf, Older, ClientMessages
    <3>8. CallsIn(out[i]) = items[i].calls
      BY <3>4, <3>7 DEF CallsIn
    <3>9. k \in DOMAIN CallsIn(out[i]) /\ CallsIn(out[i])[k].id = out[at].answers
      BY <2>1, <2>2, <3>5, <3>8
    <3>10. ASSUME NEW j \in 1..n, out[j].role = "tool", out[j].answers = out[at].answers
           PROVE  j = at
      BY <1>2, <2>1, <2>2, <3>1, <3>10
    <3> QED BY <1>4, <3>9, <3>10
  <2> QED BY <2>2 DEF CallsAnswered
<1> QED BY <1>3, <1>4

\* The handlers write the same blocks.
LEMMA SameContents ==
  ASSUME NEW content, NEW at
  PROVE  /\ ClaudeC!ContentOf(content, at) = ContentOf(content, at)
         /\ CodexC!ContentOf(content, at) = ContentOf(content, at)
         /\ ClaudeR!ContentOf(content, at) = ContentOf(content, at)
         /\ CodexR!ContentOf(content, at) = ContentOf(content, at)
<1> USE DEF ContentOf, Texts, Text, Picture, Block, NoId, Id
<1>1. ClaudeC!ContentOf(content, at) = ContentOf(content, at)
  BY DEF ClaudeC!ContentOf, ClaudeC!Texts, ClaudeC!Text, ClaudeC!Picture, ClaudeC!Block,
         ClaudeC!NoId, ClaudeC!Id
<1>2. CodexC!ContentOf(content, at) = ContentOf(content, at)
  BY DEF CodexC!ContentOf, CodexC!Texts, CodexC!Text, CodexC!Picture, CodexC!Block,
         CodexC!NoId, CodexC!Id
<1>3. ClaudeR!ContentOf(content, at) = ContentOf(content, at)
  BY DEF ClaudeR!ContentOf, ClaudeR!Texts, ClaudeR!Text, ClaudeR!Picture, ClaudeR!Block,
         ClaudeR!NoId, ClaudeR!Id
<1>4. CodexR!ContentOf(content, at) = ContentOf(content, at)
  BY DEF CodexR!ContentOf, CodexR!Texts, CodexR!Text, CodexR!Picture, CodexR!Block,
         CodexR!NoId, CodexR!Id
<1> QED BY <1>1, <1>2, <1>3, <1>4

\* What is written is a list of texts and pictures.
LEMMA WrittenIs ==
  ASSUME NEW content, NEW at
  PROVE  NoResults(ContentOf(content, at))
<1> DEFINE a == Text(at)
           b == Picture(at)
<1>1. KindOf(a) = "text" /\ KindOf(b) = "image"
  BY DEF KindOf, Text, Picture, Block
<1>2. ContentOf(content, at) \in {<<>>, <<a>>, <<a, b>>}
  BY DEF ContentOf
<1> HIDE DEF a, b
<1>3. NoResults(<<>>)
  <2>1. <<>> \in Seq({}) /\ Len(<<>>) = 0
    OBVIOUS
  <2> QED BY <2>1 DEF NoResults, IsList
<1>4. NoResults(<<a>>)
  <2> DEFINE s == <<a>>
  <2>1. s \in Seq({a}) /\ Len(s) = 1 /\ s[1] = a
    OBVIOUS
  <2> HIDE DEF s
  <2>2. \A k \in 1..Len(s) : s[k] = a
    BY <2>1
  <2>3. NoResults(s)
    BY <1>1, <2>1, <2>2 DEF NoResults, IsList
  <2> QED BY <2>3 DEF s
<1>5. NoResults(<<a, b>>)
  <2> DEFINE s == <<a, b>>
  <2>1. s \in Seq({a, b}) /\ Len(s) = 2 /\ s[1] = a /\ s[2] = b
    OBVIOUS
  <2> HIDE DEF s
  <2>2. \A k \in 1..Len(s) : s[k] = a \/ s[k] = b
    BY <2>1
  <2>3. NoResults(s)
    BY <1>1, <2>1, <2>2 DEF NoResults, IsList
  <2> QED BY <2>3 DEF s
<1> QED BY <1>2, <1>3, <1>4, <1>5

\* Results are in a tool's message, and calls in those of an assistant.
LEMMA ClaudeContent ==
  ASSUME NEW o, NEW at, IsList(CallsIn(o)), o.calls # <<>> => o.listed,
         NEW content, content = ClaudeC!ToClaude(o, at).content
  PROVE  /\ IsList(content) /\ UsesIn(o, content)
         /\ o.role = "tool" => AnswersIn(o, at, content)
         /\ o.role # "tool" => NoResults(content)
<1>1. CASE o.role = "tool"
  <2>1. content = <<ClaudeC!ToolResult(o.answers, at)>>
    BY <1>1 DEF ClaudeC!ToClaude
  <2>2. CallsIn(o) = <<>>
    BY <1>1 DEF CallsIn
  <2> DEFINE block == ClaudeC!ToolResult(o.answers, at)
  <2> HIDE DEF block
  <2>3. IsList(<<block>>)
    BY ShortLists
  <2>4. content = <<block>>
    BY <2>1 DEF block
  <2>5. DOMAIN <<>> = {}
    OBVIOUS
  <2> QED BY <1>1, <2>1, <2>2, <2>3, <2>4, <2>5 DEF AnswersIn, UsesIn
<1>2. CASE o.role = "assistant" /\ o.listed
  <2> DEFINE a == ClaudeC!TextBeside(o, at)
             calls == CallsIn(o)
             b == ClaudeC!ToolUses(calls)
             n == Len(calls)
  <2>1. content = a \o b
    BY <1>2 DEF ClaudeC!ToClaude, CallsIn
  <2>2. NoResults(a)
    <3> DEFINE x == ClaudeC!Text(at)
               y == ClaudeC!NoText
    <3>1. KindOf(x) = "text" /\ KindOf(y) = "text"
      BY DEF KindOf, ClaudeC!Text, ClaudeC!NoText, ClaudeC!Block
    <3>2. a \in {<<>>, <<x>>, <<y>>}
      BY DEF ClaudeC!TextBeside
    <3> HIDE DEF x, y, a
    <3>3. ASSUME NEW z, KindOf(z) = "text" PROVE NoResults(<<z>>)
      <4> DEFINE s == <<z>>
      <4>1. s \in Seq({z}) /\ Len(s) = 1 /\ s[1] = z
        OBVIOUS
      <4> HIDE DEF s
      <4>2. \A k \in 1..Len(s) : s[k] = z
        BY <4>1
      <4>3. NoResults(s)
        BY <3>3, <4>1, <4>2 DEF NoResults, IsList
      <4> QED BY <4>3 DEF s
    <3>4. NoResults(<<>>)
      <4>1. <<>> \in Seq({}) /\ Len(<<>>) = 0
        OBVIOUS
      <4> QED BY <4>1 DEF NoResults, IsList
    <3> QED BY <3>1, <3>2, <3>3, <3>4
  <2>3. n \in Nat /\ DOMAIN calls = 1..n
    BY ListIs
  <2>4. b = [k \in 1..n |-> ClaudeC!ToolUse(calls[k].id)]
    BY <2>3 DEF ClaudeC!ToolUses
  <2> HIDE DEF a, b, calls, n
  <2>5. b = [k \in 1..n |-> b[k]] /\ \A k \in 1..n : b[k] = ClaudeC!ToolUse(calls[k].id)
    BY <2>4
  <2>6. IsList(b) /\ Len(b) = n
    <3>1. n \in Nat
      BY <2>3
    <3>2. b = [k \in 1..n |-> b[k]]
      BY <2>5
    <3> QED BY ONLY <3>1, <3>2, AList
  <2>7. IsList(a) /\ IsList(b)
    BY <2>2, <2>6 DEF NoResults
  <2>8. /\ IsList(a \o b) /\ Len(a \o b) = Len(a) + Len(b)
        /\ \A k \in 1..Len(a) : (a \o b)[k] = a[k]
        /\ \A k \in 1..Len(b) : (a \o b)[Len(a) + k] = b[k]
    BY ONLY <2>7, Joined2
  <2>9. Len(a) \in Nat /\ Len(b) \in Nat
    BY <2>7, ListIs
  <2>10. \A k \in 1..n : KindOf(b[k]) = "call"
    BY <2>5 DEF KindOf, ClaudeC!ToolUse, ClaudeC!Block
  <2>11. ASSUME NEW k \in 1..Len(content) PROVE KindOf(content[k]) # "result"
    <3>1. CASE k \in 1..Len(a)
      BY <2>1, <2>2, <2>8, <3>1 DEF NoResults
    <3>2. CASE k \notin 1..Len(a)
      <4>1. k - Len(a) \in 1..Len(b) /\ Len(a) + (k - Len(a)) = k
        BY <2>1, <2>8, <2>9, <3>2
      <4>2. content[k] = b[k - Len(a)]
        BY <2>1, <2>8, <4>1
      <4> QED BY <2>6, <2>10, <4>1, <4>2
    <3> QED BY <3>1, <3>2
  <2>12. ASSUME NEW k \in DOMAIN CallsIn(o)
         PROVE  \E l \in 1..Len(content) : content[l] = ClaudeC!ToolUse(CallsIn(o)[k].id)
    <3>1. k \in 1..n
      BY <2>3 DEF calls
    <3>2. Len(a) + k \in 1..Len(content)
      BY <2>1, <2>3, <2>6, <2>8, <2>9, <3>1
    <3>3. content[Len(a) + k] = ClaudeC!ToolUse(CallsIn(o)[k].id)
      BY <2>1, <2>5, <2>6, <2>8, <3>1 DEF calls
    <3> QED BY <3>2, <3>3
  <2> QED BY <1>2, <2>1, <2>8, <2>11, <2>12 DEF UsesIn, NoResults
<1>3. CASE o.role # "tool" /\ ~(o.role = "assistant" /\ o.listed)
  <2>1. content = ContentOf(o.content, at)
    BY <1>3, SameContents DEF ClaudeC!ToClaude
  <2>2. NoResults(content)
    BY <2>1, WrittenIs
  <2>3. CallsIn(o) = <<>>
    BY <1>3 DEF CallsIn
  <2>4. DOMAIN <<>> = {}
    OBVIOUS
  <2> QED BY <1>3, <2>2, <2>3, <2>4 DEF NoResults, UsesIn
<1> QED BY <1>1, <1>2, <1>3

\* What a block of a result and of its call are for FitsName and Paired.
LEMMA ClaudeBlocks ==
  ASSUME NEW id, NEW at
  PROVE  /\ KindOf(ClaudeC!ToolResult(id, at)) = "result" /\ ClaudeC!ToolResult(id, at).id = id
         /\ ClaudeC!ToolResult(id, at).at = at
         /\ ClaudeC!ToolUse(id).id = id
         /\ AnswerTo(ClaudeC!ToolUse(id).type) = ClaudeC!ToolResult(id, at).type
BY DEF KindOf, AnswerTo, ClaudeC!ToolResult, ClaudeC!ToolUse, ClaudeC!Block

\* The normalised conversation, as the handler for Claude finds it.
LEMMA ClaudeChatOut ==
  ASSUME BodyInv, api = "chat", Accepted(answers.claude), NEW n, n = Len(items),
         NEW out, out = Normalized(items).out
  PROVE  /\ n \in Nat /\ items \in Seq(ClientMessages) /\ ~Normalized(items).error
         /\ Came(items, out, n)
         /\ \A at \in 1..n : ClaudeC!MessageValid(out[at])
         /\ ClaudeBody.system = ClaudeC!SystemOf(out)
         /\ ClaudeBody.messages = ClaudeC!MessagesOf(out)
<1> DEFINE normal == Normalized(items)
<1>1. items \in Seq(ClientMessages)
  <2>1. items \in Seq(Messages)
    BY DEF BodyInv, Sayable
  <2> QED BY <2>1, MessagesAssumption
<1>2. /\ ~normal.error /\ ClaudeC!MessageRoles(normal.out)
      /\ ClaudeBody.system = ClaudeC!SystemOf(normal.out)
      /\ ClaudeBody.messages = ClaudeC!MessagesOf(normal.out)
  <2>1. /\ Accepted(ChatAnswers(items, settings).claude)
        /\ ClaudeBody = BodyOf(ChatAnswers(items, settings).claude)
    BY DEF BodyInv, Answers, ClaudeBody
  <2> HIDE DEF normal
  <2> QED BY <2>1, ClaudeChatHistory DEF normal
<1>3. n \in Nat
  BY <1>1
<1>4. Came(items, out, n)
  BY <1>1, <1>2, NormalizedCame
<1>5. \A at \in 1..n : ClaudeC!MessageValid(out[at])
  <2>1. DOMAIN out = 1..n
    BY <1>4 DEF Came
  <2> QED BY <1>2, <2>1 DEF ClaudeC!MessageRoles
<1> QED BY <1>1, <1>2, <1>3, <1>4, <1>5

\* Calls and results are paired for Claude, in a chat.
LEMMA ClaudeChatPaired ==
  ASSUME BodyInv, api = "chat", ProtocolKept, Accepted(answers.claude)
  PROVE  Paired(Blocks(ClaudeBody.messages))
<1> DEFINE n == Len(items)
           out == Normalized(items).out
           places == (DOMAIN out) \ ClaudeC!SystemPlaces(out)
           f == [at \in 1..n |-> ClaudeC!ToClaude(out[at], at).content]
           g == [at \in 1..n |-> IF at \in places THEN f[at] ELSE <<>>]
<1>1. /\ n \in Nat /\ items \in Seq(ClientMessages) /\ ~Normalized(items).error
      /\ Came(items, out, n)
      /\ \A at \in 1..n : ClaudeC!MessageValid(out[at])
      /\ ClaudeBody.messages = ClaudeC!MessagesOf(out)
  BY ClaudeChatOut
<1>2. \A at \in 1..n : out[at].role = "tool" => out[at].answers # NoId
  BY <1>1 DEF ClaudeC!MessageValid, ClaudeC!NoId, ClaudeC!Id, NoId, Id
<1>3. CallsAnswered(items, out, n)
  BY <1>1, <1>2, ChatAnswered
<1>4. /\ DOMAIN out = 1..n
      /\ \A at \in 1..n : items[at] \in ClientMessages /\ CameOf(items[at], at, out[at])
  BY <1>1 DEF Came
<1>5. ASSUME NEW at \in 1..n
      PROVE  /\ IsList(f[at]) /\ UsesIn(out[at], f[at])
             /\ out[at].role = "tool" => AnswersIn(out[at], at, f[at])
             /\ out[at].role # "tool" => NoResults(f[at])
  <2>1. IsList(CallsIn(out[at]))
    <3>1. CallsIn(out[at]) \in Seq(ClientCalls \cup OlderOnes)
      BY <1>4, CameCalls
    <3> QED BY <3>1 DEF IsList
  <2>2. f[at] = ClaudeC!ToClaude(out[at], at).content
    OBVIOUS
  <2>3. out[at].calls # <<>> => out[at].listed
    BY <1>4, CameContent
  <2> HIDE DEF f, out
  <2> QED BY <2>1, <2>2, <2>3, ClaudeContent
<1>6. Blocks(ClaudeBody.messages) = FlattenSeq(g) /\ AreLists(g, n)
  <2> DEFINE order == InOrder(places, n)
  <2>1. ClaudeBody.messages = [k \in DOMAIN order |-> ClaudeC!ToClaude(out[order[k]], order[k])]
    BY <1>1, <1>4, SameOrder DEF ClaudeC!MessagesOf
  <2>2. \A k \in DOMAIN order : order[k] \in 1..n
    <3>1. order \in Seq(places \cap 1..n)
      BY <1>1, InOrderIs
    <3> DEFINE T == places \cap 1..n
    <3> HIDE DEF T, order
    <3>2. order \in Seq(T)
      BY <3>1 DEF T
    <3>3. \A k \in DOMAIN order : order[k] \in T
      BY <3>2
    <3> QED BY <3>3 DEF T
  <2>3. Blocks(ClaudeBody.messages) = FlatMap(order, f)
    <3> HIDE DEF order, out
    <3>1. [k \in DOMAIN ClaudeBody.messages |-> ClaudeBody.messages[k].content]
            = [k \in DOMAIN order |-> f[order[k]]]
      BY <2>1, <2>2
    <3> QED BY <3>1 DEF Blocks, FlatMap
  <2>4. AreLists(g, n) /\ FlatMap(InOrder(places, n), f) = FlattenSeq(g)
    <3>1. g = [at \in 1..n |-> IF at \in places THEN f[at] ELSE <<>>]
      OBVIOUS
    <3>2. \A at \in places \cap 1..n : IsList(f[at])
      BY <1>5
    <3>3. n \in Nat
      BY <1>1
    <3> HIDE DEF g, places, f, n
    <3> QED BY ONLY <3>1, <3>2, <3>3, MapInOrder
  <2> QED BY <2>3, <2>4
<1>7. \A at \in 1..n : g[at] = IF at \in places THEN f[at] ELSE <<>>
  OBVIOUS
<1>8. \A at \in 1..n : CallsIn(out[at]) # <<>> \/ out[at].role = "tool" => at \in places
  BY <1>4 DEF CallsIn, ClaudeC!SystemPlaces, ClaudeC!IsSystem
<1> HIDE DEF f, g, places, out, n
<1>9. Len(<<>>) = 0
  OBVIOUS
<1>10. ASSUME NEW at \in 1..n, NEW k \in 1..Len(g[at]), KindOf(g[at][k]) = "result"
       PROVE  /\ out[at].role = "tool" /\ Len(g[at]) = 1
              /\ g[at][k] = ClaudeC!ToolResult(out[at].answers, at)
  <2>1. g[at] = f[at]
    BY <1>7, <1>9
  <2>2. out[at].role = "tool"
    BY <1>5, <1>10, <2>1 DEF NoResults
  <2> DEFINE block == ClaudeC!ToolResult(out[at].answers, at)
  <2>3. g[at] = <<block>>
    BY <1>5, <2>1, <2>2 DEF AnswersIn
  <2> HIDE DEF block
  <2>4. Len(<<block>>) = 1 /\ <<block>>[1] = block
    OBVIOUS
  <2>5. k = 1
    BY <2>3, <2>4
  <2> QED BY <2>2, <2>3, <2>4, <2>5 DEF block
<1>11. ASSUME NEW at \in 1..n, NEW k \in 1..Len(g[at]), KindOf(g[at][k]) = "result"
       PROVE  PairedAt(g, n, at, g[at][k])
  <2> DEFINE block == ClaudeC!ToolResult(out[at].answers, at)
  <2>1. out[at].role = "tool" /\ Len(g[at]) = 1 /\ g[at][k] = block
    BY <1>10, <1>11
  <2>2. block.id = out[at].answers /\ block.at = at
    BY ClaudeBlocks
  <2>3. FitsName(block)
    <3> HIDE DEF block
    <3> QED BY <1>3, <2>1, <2>2 DEF FitsName, CallsAnswered
  <2>4. \E i \in 1..(at - 1) : \E l \in 1..Len(g[i]) :
           g[i][l].id = block.id /\ AnswerTo(g[i][l].type) = block.type
    <3>1. PICK i \in 1..(at - 1) : \E c \in DOMAIN CallsIn(out[i]) :
             CallsIn(out[i])[c].id = out[at].answers
      BY <1>3, <2>1 DEF CallsAnswered
    <3>2. PICK c \in DOMAIN CallsIn(out[i]) : CallsIn(out[i])[c].id = out[at].answers
      BY <3>1
    <3>3. i \in 1..n
      BY <1>1
    <3>4. g[i] = f[i]
      <4>1. CallsIn(out[i]) # <<>>
        <5>1. DOMAIN <<>> = {}
          OBVIOUS
        <5> QED BY <3>2, <5>1
      <4> QED BY <1>7, <1>8, <3>3, <4>1
    <3>5. PICK l \in 1..Len(g[i]) : g[i][l] = ClaudeC!ToolUse(CallsIn(out[i])[c].id)
      BY <1>5, <3>3, <3>4 DEF UsesIn
    <3>6. g[i][l].id = block.id /\ AnswerTo(g[i][l].type) = block.type
      BY <2>2, <3>2, <3>5, ClaudeBlocks
    <3> QED BY <3>6
  <2>5. ASSUME NEW i \in 1..n, NEW l \in 1..Len(g[i]),
               KindOf(g[i][l]) = "result", g[i][l].id = block.id
        PROVE  i = at
    <3>1. out[i].role = "tool" /\ g[i][l] = ClaudeC!ToolResult(out[i].answers, i)
      BY <1>10, <2>5
    <3>2. out[i].answers = out[at].answers
      BY <2>2, <2>5, <3>1, ClaudeBlocks
    <3> QED BY <1>3, <2>1, <3>1, <3>2 DEF CallsAnswered
  <2> QED BY <2>1, <2>3, <2>4, <2>5 DEF PairedAt
<1>12. ListsPaired(g, n)
  BY <1>11 DEF ListsPaired
<1>13. n \in Nat /\ AreLists(g, n)
  BY <1>1, <1>6
<1>14. Paired(FlattenSeq(g))
  BY ONLY <1>12, <1>13, PairedFlat
<1> QED BY <1>6, <1>14

\* It makes these lists of the items of a message.
LEMMA ItemsMap ==
  ASSUME NEW out, NEW at, NEW h, ItemLists(out, at, h), IsList(CallsIn(out[at]))
  PROVE  /\ Maps(CodexC!ToItems(out, at), h)
         /\ OfItems(out, at, h, FlatMap(CodexC!ToItems(out, at), h))
<1> DEFINE m == out[at]
           content == CodexC!ContentOf(m.content, at)
           result == CodexC!ResultItem(out, m, at)
           text == CodexC!Item("assistant", content)
           said == CodexC!Item(m.role, content)
           made == CodexC!ToItems(out, at)
<1>1. /\ IsList(h[result]) /\ IsList(h[text]) /\ IsList(h[said])
      /\ \A k \in DOMAIN m.calls : IsList(h[CodexC!CallItem(m.calls[k])])
  <2>1. /\ result \in Entries(out, at) /\ text \in Entries(out, at) /\ said \in Entries(out, at)
        /\ \A k \in DOMAIN m.calls : CodexC!CallItem(m.calls[k]) \in Entries(out, at)
    BY DEF Entries
  <2> HIDE DEF result, text, said
  <2> QED BY <2>1 DEF ItemLists
<1>2. CASE m.role = "tool"
  <2>1. made = <<result>>
    BY <1>2 DEF CodexC!ToItems
  <2> HIDE DEF result, made
  <2>2. Maps(made, h) /\ FlatMap(made, h) = h[result]
    BY <1>1, <2>1, MapOne, SMTT(30)
  <2> QED BY <1>2, <2>2 DEF OfItems, result, made
<1>3. CASE m.role = "assistant" /\ m.calls # <<>>
  <2> DEFINE before == CodexC!TextItem(m, at)
             n == Len(m.calls)
             calls == [k \in DOMAIN m.calls |-> CodexC!CallItem(m.calls[k])]
             first == IF m.content \in {Absent, "empty"} THEN <<>> ELSE h[text]
             second == FlattenSeq([k \in DOMAIN m.calls |-> h[CodexC!CallItem(m.calls[k])]])
  <2>1. made = before \o calls
    BY <1>3 DEF CodexC!ToItems
  <2>2. n \in Nat /\ DOMAIN m.calls = 1..n
    BY <1>3, ListIs DEF CallsIn
  <2>3. Maps(before, h) /\ FlatMap(before, h) = first
    <3>1. CASE m.content \in {Absent, "empty"}
      <4>1. before = <<>>
        BY <3>1 DEF CodexC!TextItem, CodexC!Absent, Absent
      <4>2. IsList(<<>>) /\ DOMAIN <<>> = {}
        BY ShortLists
      <4> DEFINE none == <<>>
                 f == [k \in DOMAIN none |-> h[none[k]]]
      <4>3. Maps(none, h)
        BY <4>2 DEF Maps
      <4>4. none = <<>> /\ f = [k \in DOMAIN none |-> h[none[k]]]
        OBVIOUS
      <4> HIDE DEF none, f
      <4>5. FlatMap(none, h) = <<>>
        BY ONLY <4>3, <4>4, MapIs
      <4> QED BY <3>1, <4>1, <4>3, <4>4, <4>5
    <3>2. CASE m.content \notin {Absent, "empty"}
      <4>1. before = <<text>>
        BY <3>2 DEF CodexC!TextItem, CodexC!Absent, Absent
      <4> HIDE DEF text, before
      <4> QED BY <1>1, <3>2, <4>1, MapOne
    <3> QED BY <3>1, <3>2
  <2>4. Maps(calls, h) /\ FlatMap(calls, h) = second
    <3>1. calls = [k \in 1..n |-> calls[k]] /\ DOMAIN calls = 1..n
      BY <2>2
    <3>2. \A k \in 1..n : calls[k] = CodexC!CallItem(m.calls[k])
      BY <2>2
    <3>3. [k \in DOMAIN m.calls |-> h[CodexC!CallItem(m.calls[k])]]
            = [k \in DOMAIN calls |-> h[calls[k]]]
      BY <2>2
    <3> HIDE DEF calls, n, m
    <3>4. IsList(calls)
      BY <2>2, <3>1, AList
    <3>5. \A k \in DOMAIN calls : IsList(h[calls[k]])
      BY <1>1, <2>2, <3>1, <3>2
    <3> QED BY <3>3, <3>4, <3>5 DEF Maps, FlatMap
  <2> HIDE DEF before, calls, first, second, made
  <2>5. Maps(before \o calls, h)
          /\ FlatMap(before \o calls, h) = FlatMap(before, h) \o FlatMap(calls, h)
    BY <2>3, <2>4, MapJoined, SMTT(30)
  <2>6. Maps(made, h) /\ FlatMap(made, h) = first \o second
    BY <2>1, <2>3, <2>4, <2>5
  <2> QED BY <1>3, <2>6 DEF OfItems, made, first, second
<1>4. CASE m.role # "tool" /\ ~(m.role = "assistant" /\ m.calls # <<>>)
  <2>1. made = <<said>>
    BY <1>4 DEF CodexC!ToItems
  <2> HIDE DEF said, made
  <2>2. Maps(made, h) /\ FlatMap(made, h) = h[said]
    BY <1>1, <2>1, MapOne
  <2> QED BY <1>4, <2>2 DEF OfItems, said, made
<1> QED BY <1>2, <1>3, <1>4

\* Of the whole conversation h makes what it makes of its messages, one after the other.
LEMMA InputMap ==
  ASSUME NEW n \in Nat, NEW out, NEW h, Itemized(out, h, n),
         NEW g, g = [at \in 1..n |-> FlatMap(CodexC!ToItems(out, at), h)]
  PROVE  /\ AreLists(g, n) /\ FlatMap(CodexC!MessagesToInput(out), h) = FlattenSeq(g)
         /\ \A at \in 1..n : OfItems(out, at, h, g[at])
<1> DEFINE f == [at \in 1..n |-> CodexC!ToItems(out, at)]
<1>1. \A at \in 1..n : /\ Maps(CodexC!ToItems(out, at), h)
                       /\ OfItems(out, at, h, FlatMap(CodexC!ToItems(out, at), h))
  BY ItemsMap DEF Itemized
<1>2. CodexC!MessagesToInput(out) = FlattenSeq(f)
  BY SameFlatten DEF CodexC!MessagesToInput, Itemized
<1>3. f = [at \in 1..n |-> f[at]] /\ \A at \in 1..n : f[at] = CodexC!ToItems(out, at)
  OBVIOUS
<1> HIDE DEF f
<1>4. \A at \in 1..n : Maps(f[at], h)
  BY <1>1, <1>3
<1>5. AreLists(f, n)
  BY <1>3, <1>4 DEF AreLists, Maps
<1>6. g = [at \in 1..n |-> FlatMap(f[at], h)]
  BY <1>3
<1>7. /\ Maps(FlattenSeq(f), h) /\ AreLists(g, n)
      /\ FlatMap(FlattenSeq(f), h) = FlattenSeq(g)
  <2>1. n \in Nat
    OBVIOUS
  <2> QED BY ONLY <1>4, <1>5, <1>6, <2>1, MapFlat
<1>8. \A at \in 1..n : OfItems(out, at, h, g[at])
  BY <1>1
<1> QED BY <1>2, <1>7, <1>8

\* A result is taken for the answer to a custom call just where its call is one.
LEMMA AnswersItsKind ==
  ASSUME NEW n \in Nat, NEW out, DOMAIN out = 1..n, OneKind(out, n),
         \A at \in 1..n : IsList(CallsIn(out[at])),
         NEW i \in 1..n, NEW k \in DOMAIN CallsIn(out[i]), NEW c, c = CallsIn(out[i])[k]
  PROVE  CodexC!AnswersCustomCall(out, c.id) <=> c.kind = "custom"
<1> DEFINE L == [at \in 1..n |-> CallsIn(out[at])]
           F == FlattenSeq(L)
<1>1. CodexC!CallsOf(out) = F
  BY SameFlatten DEF CodexC!CallsOf, CallsIn
<1>2. AreLists(L, n) /\ \A at \in 1..n : L[at] = CallsIn(out[at])
  BY DEF AreLists
<1> HIDE DEF L
<1>3. IsList(F)
  BY <1>2, FlatIs
<1>4. PICK at : Traced(F, L, n, at)
  BY <1>2, TraceExists
<1> HIDE DEF F
<1>5. Len(F) \in Nat /\ DOMAIN F = 1..Len(F)
  BY <1>3, ListIs
<1>6. /\ \A x \in 1..Len(F) : at[x] \in 1..n
      /\ \A x \in 1..Len(F) : \E y \in 1..Len(L[at[x]]) : F[x] = L[at[x]][y]
      /\ \A l \in 1..n : \A y \in 1..Len(L[l]) : \E x \in 1..Len(F) : F[x] = L[l][y]
  BY <1>4, ZenonT(30) DEF Traced
<1>7. \A l \in 1..n : DOMAIN L[l] = 1..Len(L[l])
  BY <1>2, ListIs
<1>8. ASSUME NEW x \in 1..Len(F), F[x].id = c.id PROVE F[x].kind = c.kind
  <2>1. PICK y \in 1..Len(L[at[x]]) : F[x] = L[at[x]][y]
    BY <1>6
  <2>2. at[x] \in 1..n
    BY <1>6
  <2>3. y \in DOMAIN CallsIn(out[at[x]]) /\ F[x] = CallsIn(out[at[x]])[y]
    BY <1>2, <1>7, <2>1, <2>2
  <2> QED BY <1>8, <2>2, <2>3 DEF OneKind
<1> DEFINE S == {x \in 1..Len(F) : F[x].id = c.id}
<1>9. S # {}
  <2>1. k \in 1..Len(L[i]) /\ c = L[i][k]
    BY <1>2, <1>7
  <2>2. PICK x \in 1..Len(F) : F[x] = L[i][k]
    BY <1>6, <2>1
  <2> QED BY <2>1, <2>2
<1> DEFINE last == Max(S)
<1>10. last \in S /\ \A x \in S : x <= last
  BY <1>5, <1>9, LastIsMember
<1> HIDE DEF last
<1>11. /\ last \in 1..Len(F) /\ F[last].id = c.id
       /\ \A x \in (last + 1)..Len(F) : F[x].id # c.id
  <2>1. ASSUME NEW x \in (last + 1)..Len(F), F[x].id = c.id PROVE FALSE
    <3>1. last \in 1..Len(F)
      BY <1>10
    <3>2. x \in 1..Len(F) /\ x > last
      BY <1>5, <3>1
    <3>3. x \in S
      BY <2>1, <3>2
    <3> QED BY <1>5, <1>10, <3>1, <3>2, <3>3
  <2> QED BY <1>10, <2>1
<1>12. CodexC!AnswersCustomCall(out, c.id)
         <=> \E x \in 1..Len(F) : /\ F[x].id = c.id /\ F[x].kind = "custom"
                                  /\ \A y \in (x + 1)..Len(F) : F[y].id # c.id
  BY <1>1, <1>5 DEF CodexC!AnswersCustomCall
<1>13. CASE c.kind = "custom"
  <2>1. F[last].kind = "custom"
    BY <1>8, <1>11, <1>13
  <2> QED BY <1>11, <1>12, <1>13, <2>1
<1>14. CASE c.kind # "custom"
  BY <1>8, <1>12, <1>14
<1> QED BY <1>13, <1>14

\* The normalised conversation, as the handler for Codex finds it.
LEMMA CodexChatOut ==
  ASSUME BodyInv, api = "chat", Accepted(answers.codex), NEW n, n = Len(items),
         NEW out, out = Normalized(items).out
  PROVE  /\ n \in Nat /\ items \in Seq(ClientMessages) /\ ~Normalized(items).error
         /\ Came(items, out, n) /\ DOMAIN out = 1..n
         /\ \A at \in 1..n : CodexC!MessageValid(out[at]) /\ IsList(CallsIn(out[at]))
         /\ CodexBody.input = CodexChatInput(out)
<1> DEFINE normal == Normalized(items)
<1>1. items \in Seq(ClientMessages)
  <2>1. items \in Seq(Messages)
    BY DEF BodyInv, Sayable
  <2> QED BY <2>1, MessagesAssumption
<1>2. /\ ~normal.error /\ CodexC!MessageRoles(normal.out)
      /\ CodexBody = CodexChatSends(normal.out, CodexC!CodexLegacyFields(settings),
                                    CodexC!CodexLegacyReply(settings))
  <2>1. /\ Accepted(ChatAnswers(items, settings).codex)
        /\ CodexBody = BodyOf(ChatAnswers(items, settings).codex)
    BY DEF BodyInv, Answers, CodexBody
  <2> HIDE DEF normal
  <2> QED BY <2>1, CodexChatHistory DEF normal
<1>3. n \in Nat
  BY <1>1
<1>4. Came(items, out, n)
  BY <1>1, <1>2, NormalizedCame
<1>5. DOMAIN out = 1..n
  BY <1>4 DEF Came
<1>6. \A at \in 1..n : CodexC!MessageValid(out[at])
  BY <1>2, <1>5 DEF CodexC!MessageRoles
<1>7. ASSUME NEW at \in 1..n PROVE IsList(CallsIn(out[at]))
  <2>1. items[at] \in ClientMessages /\ CameOf(items[at], at, out[at]) /\ at \in Nat
    BY <1>3, <1>4 DEF Came
  <2>2. CallsIn(out[at]) \in Seq(ClientCalls \cup OlderOnes)
    BY <2>1, CameCalls
  <2> QED BY <2>2 DEF IsList
<1>8. CodexBody.input = CodexChatInput(out)
  <2> DEFINE fields == CodexC!CodexLegacyFields(settings)
             legacy == CodexC!CodexLegacyReply(settings)
  <2> HIDE DEF fields, legacy
  <2>1. PICK rest : \A x : IsCodexBody(CodexChatSends(x, fields, legacy), rest,
                                       CodexChatPicture(x, fields), CodexChatChoice(x, fields),
                                       CodexChatInput(x))
    BY CodexChatBodyOf
  <2>2. CodexBody = CodexBodyOf(rest, CodexChatPicture(out, fields),
                                CodexChatChoice(out, fields), CodexChatInput(out))
    BY <1>2, <2>1 DEF IsCodexBody, fields, legacy
  <2> QED BY <2>2 DEF CodexBodyOf
<1> QED BY <1>1, <1>2, <1>3, <1>4, <1>5, <1>6, <1>7, <1>8

\* An item keeps its content, and its role but for a system message's.
LEMMA DeveloperIs ==
  ASSUME NEW role, NEW content, NEW made, made = CodexC!Developer(CodexC!Item(role, content))
  PROVE  /\ made.content = content
         /\ made.role = IF role = "system" THEN "developer" ELSE role
BY DEF CodexC!Developer, CodexC!Item

\* What is made of each item sent is made of those the messages become.
LEMMA InputIs ==
  ASSUME NEW n \in Nat, NEW out, DOMAIN out = 1..n, \A at \in 1..n : IsList(CallsIn(out[at]))
  PROVE  /\ IsList(CodexC!MessagesToInput(out))
         /\ \A k \in DOMAIN CodexC!MessagesToInput(out) : \E at \in 1..n :
               CodexC!MessagesToInput(out)[k] \in Entries(out, at)
<1> DEFINE T == UNION {Entries(out, at) : at \in 1..n}
           lists == [at \in 1..n |-> CodexC!ToItems(out, at)]
<1>1. ASSUME NEW at \in 1..n PROVE CodexC!ToItems(out, at) \in Seq(T)
  <2>1. Entries(out, at) \subseteq T
    OBVIOUS
  <2>2. out[at].role = "assistant" => \E C : out[at].calls \in Seq(C)
    BY DEF IsList, CallsIn
  <2> HIDE DEF T
  <2> QED BY <2>1, <2>2, ToItemsIs
<1>2. CodexC!MessagesToInput(out) = FlattenSeq(lists)
  BY SameFlatten DEF CodexC!MessagesToInput
<1> HIDE DEF T
<1>3. ListsOf(T, lists, n)
  BY <1>1 DEF ListsOf
<1> DEFINE input == CodexC!MessagesToInput(out)
<1>4. input \in Seq(T)
  BY <1>2, <1>3, FlattenIs
<1> HIDE DEF input
<1>5. \A k \in DOMAIN input : input[k] \in T
  BY <1>4
<1>6. IsList(input)
  BY <1>4 DEF IsList
<1> QED BY <1>5, <1>6 DEF T, input

\* Two lists without results make one, which holds what the second holds.
LEMMA NoResultsJoined ==
  ASSUME NEW a, NEW b, NoResults(a), NoResults(b)
  PROVE  NoResults(a \o b) /\ HasAll(a \o b, b)
<1>1. IsList(a) /\ IsList(b)
  BY DEF NoResults
<1>2. /\ IsList(a \o b) /\ Len(a \o b) = Len(a) + Len(b)
      /\ \A k \in 1..Len(a) : (a \o b)[k] = a[k]
      /\ \A k \in 1..Len(b) : (a \o b)[Len(a) + k] = b[k]
  BY ONLY <1>1, Joined2
<1>3. Len(a) \in Nat /\ Len(b) \in Nat
  BY <1>1, ListIs
<1> DEFINE c == a \o b
<1> HIDE DEF c
<1>4. ASSUME NEW k \in 1..Len(c) PROVE KindOf(c[k]) # "result"
  <2>1. CASE k \in 1..Len(a)
    BY <1>2, <2>1 DEF NoResults, c
  <2>2. CASE k \notin 1..Len(a)
    <3>1. k - Len(a) \in 1..Len(b) /\ Len(a) + (k - Len(a)) = k
      BY <1>2, <1>3, <2>2 DEF c
    <3>2. c[k] = b[k - Len(a)]
      BY <1>2, <3>1 DEF c
    <3> QED BY <3>1, <3>2 DEF NoResults
  <2> QED BY <2>1, <2>2
<1>5. ASSUME NEW k \in 1..Len(b) PROVE \E l \in 1..Len(c) : c[l] = b[k]
  <2>1. Len(a) + k \in 1..Len(c)
    BY <1>2, <1>3 DEF c
  <2>2. c[Len(a) + k] = b[k]
    BY <1>2 DEF c
  <2> QED BY <2>1, <2>2
<1> QED BY <1>2, <1>4, <1>5 DEF NoResults, HasAll, c

\* The contents of the items messages may become.
LEMMA ContentsAre ==
  ASSUME NEW n, NEW out, NEW at \in 1..n, NEW h, h = ContentsOf(out, n)
  PROVE  EntryContents(out, at, h) /\ ItemLists(out, at, h)
<1> DEFINE m == out[at]
           content == CodexC!ContentOf(m.content, at)
           result == CodexC!ResultItem(out, m, at)
<1>1. \A x \in Entries(out, at) : h[x] = CodexC!Developer(x).content
  BY DEF ContentsOf
<1>2. \A role \in {"assistant", m.role} : CodexC!Item(role, content) \in Entries(out, at)
  BY DEF Entries
<1>3. result \in Entries(out, at)
  BY DEF Entries
<1>4. \A k \in DOMAIN m.calls : CodexC!CallItem(m.calls[k]) \in Entries(out, at)
  BY DEF Entries
<1>5. h[result] = <<ResultBlock(out, at)>>
  <2>1. result = CodexC!Item(CodexC!Absent, <<ResultBlock(out, at)>>)
    BY DEF CodexC!ResultItem, ResultBlock
  <2> HIDE DEF result
  <2>2. CodexC!Developer(result).content = <<ResultBlock(out, at)>>
    BY <2>1, DeveloperIs
  <2> QED BY <1>1, <1>3, <2>2
<1>6. ASSUME NEW k \in DOMAIN m.calls
      PROVE  h[CodexC!CallItem(m.calls[k])] = <<CallBlock(m.calls[k])>>
  <2> DEFINE item == CodexC!CallItem(m.calls[k])
  <2>1. item = CodexC!Item(CodexC!Absent, <<CallBlock(m.calls[k])>>)
    BY DEF CodexC!CallItem, CallBlock
  <2>2. item \in Entries(out, at)
    BY <1>4
  <2> HIDE DEF item
  <2>3. CodexC!Developer(item).content = <<CallBlock(m.calls[k])>>
    BY <2>1, DeveloperIs
  <2> QED BY <1>1, <2>2, <2>3 DEF item
<1>7. ASSUME NEW role \in {"assistant", m.role}
      PROVE  h[CodexC!Item(role, content)] = ContentOf(m.content, at)
  <2>1. CodexC!Developer(CodexC!Item(role, content)).content = content
    BY DeveloperIs
  <2>2. content = ContentOf(m.content, at)
    BY SameContents
  <2> QED BY <1>1, <1>2, <2>1, <2>2
<1>8. ItemLists(out, at, h)
  <2>1. IsList(h[result])
    BY <1>5, ShortLists
  <2>2. \A k \in DOMAIN m.calls : IsList(h[CodexC!CallItem(m.calls[k])])
    BY <1>6, ShortLists
  <2>3. \A role \in {"assistant", m.role} : IsList(h[CodexC!Item(role, content)])
    BY <1>7, WrittenIs DEF NoResults
  <2> QED BY <2>1, <2>2, <2>3 DEF ItemLists, Entries
<1> QED BY <1>5, <1>6, <1>7, <1>8 DEF EntryContents

\* Results are in the blocks of a tool's message, and calls in those of their message.
LEMMA CodexContent ==
  ASSUME NEW n, NEW out, NEW at \in 1..n, IsList(CallsIn(out[at])), NEW h, h = ContentsOf(out, n),
         NEW list, OfItems(out, at, h, list)
  PROVE  SentOf(out, at, list)
<1> DEFINE m == out[at]
           written == ContentOf(m.content, at)
<1>1. /\ h[CodexC!ResultItem(out, m, at)] = <<ResultBlock(out, at)>>
      /\ \A k \in DOMAIN m.calls : h[CodexC!CallItem(m.calls[k])] = <<CallBlock(m.calls[k])>>
      /\ \A role \in {"assistant", m.role} :
            h[CodexC!Item(role, CodexC!ContentOf(m.content, at))] = written
  <2>1. EntryContents(out, at, h)
    BY ContentsAre
  <2> QED BY <2>1 DEF EntryContents
<1>2. NoResults(written) /\ NoResults(<<>>)
  <2>1. <<>> \in Seq({}) /\ Len(<<>>) = 0
    OBVIOUS
  <2>2. NoResults(<<>>)
    BY <2>1 DEF NoResults, IsList
  <2> QED BY <2>2, WrittenIs
<1>3. DOMAIN <<>> = {}
  OBVIOUS
<1>4. CASE m.role = "tool"
  <2>1. list = <<ResultBlock(out, at)>>
    BY <1>1, <1>4 DEF OfItems
  <2>2. CallsIn(m) = <<>>
    BY <1>4 DEF CallsIn
  <2>3. IsList(list)
    BY <2>1, ShortLists
  <2> QED BY <1>3, <1>4, <2>1, <2>2, <2>3 DEF SentOf
<1>5. CASE m.role = "assistant" /\ m.calls # <<>>
  <2> DEFINE c == Len(m.calls)
             a == IF m.content \in {Absent, "empty"} THEN <<>> ELSE written
             b == [k \in 1..c |-> CallBlock(m.calls[k])]
             e == [k \in DOMAIN m.calls |-> h[CodexC!CallItem(m.calls[k])]]
  <2>1. c \in Nat /\ DOMAIN m.calls = 1..c /\ CallsIn(m) = m.calls
    BY <1>5, ListIs DEF CallsIn
  <2>2. list = a \o FlattenSeq(e)
    <3>1. h[CodexC!Item("assistant", CodexC!ContentOf(m.content, at))] = written
      BY <1>1
    <3>2. list = (IF m.content \in {Absent, "empty"} THEN <<>>
                  ELSE h[CodexC!Item("assistant", CodexC!ContentOf(m.content, at))])
                   \o FlattenSeq(e)
      BY <1>5 DEF OfItems
    <3> HIDE DEF e, written
    <3> QED BY <3>1, <3>2
  <2>3. b = [k \in 1..c |-> b[k]] /\ \A k \in 1..c : b[k] = CallBlock(m.calls[k])
    OBVIOUS
  <2>4. e = [k \in 1..c |-> <<b[k]>>]
    BY <1>1, <2>1
  <2> HIDE DEF a, b, c, e
  <2>5. FlattenSeq(e) = b
    <3>1. c \in Nat
      BY <2>1
    <3>2. b = [k \in 1..c |-> b[k]]
      BY <2>3
    <3> QED BY ONLY <2>4, <3>1, <3>2, FlatOnes
  <2>6. IsList(b) /\ Len(b) = c
    <3>1. c \in Nat
      BY <2>1
    <3>2. b = [k \in 1..c |-> b[k]]
      BY <2>3
    <3> QED BY ONLY <3>1, <3>2, AList
  <2>7. NoResults(b)
    <3>1. \A k \in 1..c : KindOf(b[k]) = "call"
      <4>1. \A x : KindOf(CallBlock(x)) = "call"
        BY DEF KindOf, CallBlock, CodexC!Block
      <4> QED BY <2>3, <4>1
    <3> QED BY <2>6, <3>1 DEF NoResults
  <2>8. NoResults(a)
    BY <1>2 DEF a
  <2>9. NoResults(a \o b) /\ HasAll(a \o b, b)
    BY ONLY <2>7, <2>8, NoResultsJoined
  <2>10. NoResults(list) /\ \A k \in 1..c : \E l \in 1..Len(list) : list[l] = b[k]
    BY <2>2, <2>5, <2>6, <2>9 DEF HasAll
  <2>11. \A k \in DOMAIN CallsIn(m) : \E l \in 1..Len(list) : list[l] = CallBlock(CallsIn(m)[k])
    BY <2>1, <2>3, <2>10
  <2> QED BY <1>5, <2>10, <2>11 DEF SentOf, NoResults
<1>6. CASE m.role # "tool" /\ ~(m.role = "assistant" /\ m.calls # <<>>)
  <2>1. list = written
    BY <1>1, <1>6 DEF OfItems
  <2>2. CallsIn(m) = <<>>
    BY <1>6 DEF CallsIn
  <2> QED BY <1>2, <1>3, <1>6, <2>1, <2>2 DEF SentOf, NoResults
<1> QED BY <1>4, <1>5, <1>6

\* The blocks Codex is sent are those of the messages.
LEMMA CodexBlocks ==
  ASSUME NEW n \in Nat, NEW out, DOMAIN out = 1..n, \A at \in 1..n : IsList(CallsIn(out[at])),
         NEW h, h = ContentsOf(out, n)
  PROVE  Blocks(CodexChatInput(out)) = FlatMap(CodexC!MessagesToInput(out), h)
<1> DEFINE input == CodexC!MessagesToInput(out)
<1>1. \A k \in DOMAIN input : \E at \in 1..n : input[k] \in Entries(out, at)
  BY InputIs
<1>2. CodexChatInput(out) = [k \in DOMAIN input |-> CodexC!Developer(input[k])]
  BY DEF CodexChatInput
<1> HIDE DEF input
<1>3. \A k \in DOMAIN input : h[input[k]] = CodexC!Developer(input[k]).content
  <2> TAKE k \in DOMAIN input
  <2>1. input[k] \in UNION {Entries(out, at) : at \in 1..n}
    BY <1>1
  <2> QED BY <2>1 DEF ContentsOf
<1>4. [k \in DOMAIN CodexChatInput(out) |-> CodexChatInput(out)[k].content]
        = [k \in DOMAIN input |-> h[input[k]]]
  BY <1>2, <1>3
<1> QED BY <1>4 DEF Blocks, FlatMap, input

\* Calls and results are paired for Codex, in a chat.
LEMMA CodexChatPaired ==
  ASSUME BodyInv, api = "chat", ProtocolKept, Accepted(answers.codex)
  PROVE  Paired(Blocks(CodexBody.input))
<1> DEFINE n == Len(items)
           out == Normalized(items).out
           h == ContentsOf(out, n)
           g == [at \in 1..n |-> FlatMap(CodexC!ToItems(out, at), h)]
<1>1. /\ n \in Nat /\ items \in Seq(ClientMessages) /\ ~Normalized(items).error
      /\ Came(items, out, n) /\ DOMAIN out = 1..n
      /\ \A at \in 1..n : CodexC!MessageValid(out[at]) /\ IsList(CallsIn(out[at]))
      /\ CodexBody.input = CodexChatInput(out)
  BY CodexChatOut
<1>2. \A at \in 1..n : out[at].role = "tool" => out[at].answers # NoId
  BY <1>1 DEF CodexC!MessageValid, CodexC!NoId, CodexC!Id, NoId, Id
<1>3. CallsAnswered(items, out, n)
  BY <1>1, <1>2, ChatAnswered
<1>4. OneKind(out, n)
  BY <1>1, KindsAreOne
<1> HIDE DEF h, g, n, out
<1>5. Itemized(out, h, n)
  BY <1>1, ContentsAre DEF h, Itemized
<1>6. /\ AreLists(g, n) /\ FlatMap(CodexC!MessagesToInput(out), h) = FlattenSeq(g)
      /\ \A at \in 1..n : OfItems(out, at, h, g[at])
  <2>1. n \in Nat
    BY <1>1
  <2>2. g = [at \in 1..n |-> FlatMap(CodexC!ToItems(out, at), h)]
    BY DEF g
  <2> QED BY ONLY <1>5, <2>1, <2>2, InputMap
<1>7. Blocks(CodexBody.input) = FlattenSeq(g)
  <2>1. n \in Nat /\ DOMAIN out = 1..n /\ \A at \in 1..n : IsList(CallsIn(out[at]))
    BY <1>1
  <2>2. h = ContentsOf(out, n)
    BY DEF h
  <2>3. Blocks(CodexChatInput(out)) = FlatMap(CodexC!MessagesToInput(out), h)
    BY ONLY <2>1, <2>2, CodexBlocks
  <2> QED BY <1>1, <1>6, <2>3
<1>8. ASSUME NEW at \in 1..n PROVE SentOf(out, at, g[at])
  <2>1. IsList(CallsIn(out[at])) /\ OfItems(out, at, h, g[at])
    BY <1>1, <1>6
  <2>2. h = ContentsOf(out, n)
    BY DEF h
  <2> DEFINE list == g[at]
  <2> HIDE DEF list
  <2>3. IsList(CallsIn(out[at])) /\ OfItems(out, at, h, list)
    BY <2>1 DEF list
  <2>4. SentOf(out, at, list)
    BY <2>2, <2>3, CodexContent
  <2> QED BY <2>4 DEF list
<1>9. ASSUME NEW at \in 1..n, NEW k \in 1..Len(g[at]), KindOf(g[at][k]) = "result"
      PROVE  /\ out[at].role = "tool" /\ Len(g[at]) = 1
             /\ g[at][k] = ResultBlock(out, at)
  <2>1. out[at].role = "tool"
    BY <1>8, <1>9 DEF SentOf, NoResults
  <2> DEFINE block == ResultBlock(out, at)
  <2>2. g[at] = <<block>>
    BY <1>8, <2>1 DEF SentOf
  <2> HIDE DEF block
  <2>3. Len(<<block>>) = 1 /\ <<block>>[1] = block
    OBVIOUS
  <2>4. k = 1
    BY <2>2, <2>3
  <2> QED BY <2>1, <2>2, <2>3, <2>4 DEF block
<1>10. \A at : ResultBlock(out, at).id = out[at].answers /\ ResultBlock(out, at).at = at
  BY DEF ResultBlock, CodexC!Block
<1>11. ASSUME NEW at \in 1..n, NEW k \in 1..Len(g[at]), KindOf(g[at][k]) = "result"
       PROVE  PairedAt(g, n, at, g[at][k])
  <2> DEFINE block == ResultBlock(out, at)
  <2>1. out[at].role = "tool" /\ Len(g[at]) = 1 /\ g[at][k] = block
    BY <1>9, <1>11
  <2>2. block.id = out[at].answers /\ block.at = at
    BY <1>10
  <2>3. FitsName(block)
    <3> HIDE DEF block
    <3> QED BY <1>3, <2>1, <2>2 DEF FitsName, CallsAnswered
  <2>4. \E i \in 1..(at - 1) : \E l \in 1..Len(g[i]) :
           g[i][l].id = block.id /\ AnswerTo(g[i][l].type) = block.type
    <3>1. PICK i \in 1..(at - 1) : \E y \in DOMAIN CallsIn(out[i]) :
             CallsIn(out[i])[y].id = out[at].answers
      BY <1>3, <2>1 DEF CallsAnswered
    <3>2. PICK y \in DOMAIN CallsIn(out[i]) : CallsIn(out[i])[y].id = out[at].answers
      BY <3>1
    <3>3. i \in 1..n
      BY <1>1
    <3> DEFINE c == CallsIn(out[i])[y]
    <3>4. PICK l \in 1..Len(g[i]) : g[i][l] = CallBlock(c)
      BY <1>8, <3>2, <3>3 DEF SentOf
    <3>5. CodexC!AnswersCustomCall(out, c.id) <=> c.kind = "custom"
      <4>1. n \in Nat /\ DOMAIN out = 1..n /\ \A x \in 1..n : IsList(CallsIn(out[x]))
        BY <1>1
      <4>2. c = CallsIn(out[i])[y]
        OBVIOUS
      <4>3. y \in DOMAIN CallsIn(out[i])
        OBVIOUS
      <4> HIDE DEF c
      <4> QED BY <1>4, <3>3, <4>1, <4>2, <4>3, AnswersItsKind
    <3>6. c.id = out[at].answers
      BY <3>2
    <3> HIDE DEF c
    <3>7. CallBlock(c).id = block.id /\ AnswerTo(CallBlock(c).type) = block.type
      BY <3>5, <3>6 DEF CallBlock, ResultBlock, CodexC!Block, AnswerTo
    <3> HIDE DEF block
    <3> QED BY <3>4, <3>7
  <2>5. ASSUME NEW i \in 1..n, NEW l \in 1..Len(g[i]),
               KindOf(g[i][l]) = "result", g[i][l].id = block.id
        PROVE  i = at
    <3>1. out[i].role = "tool" /\ g[i][l] = ResultBlock(out, i)
      BY <1>9, <2>5
    <3>2. out[i].answers = out[at].answers
      BY <1>10, <2>2, <2>5, <3>1
    <3> QED BY <1>3, <2>1, <3>1, <3>2 DEF CallsAnswered
  <2> HIDE DEF block
  <2> QED BY <2>1, <2>3, <2>4, <2>5 DEF PairedAt
<1>12. ListsPaired(g, n)
  BY <1>11 DEF ListsPaired
<1>13. n \in Nat /\ AreLists(g, n)
  BY <1>1, <1>6
<1>14. Paired(FlattenSeq(g))
  BY ONLY <1>12, <1>13, PairedFlat
<1> QED BY <1>7, <1>14

\* The input is the items, for both handlers.
LEMMA GivenIs ==
  ASSUME BodyInv, api = "responses", NEW given, given = ClaudeR!InputOf(items, settings)
  PROVE  /\ GivenOf(given, Len(given))
         /\ CodexR!InputOf(items, settings) = given
<1>1. items \in Seq(ClientItems)
  <2>1. items \in Seq(Items)
    BY DEF BodyInv, Sayable
  <2> QED BY <2>1, ItemsAssumption
<1>2. given = (IF InMessages THEN <<>> ELSE items) /\ CodexR!InputOf(items, settings) = given
  BY DEF ClaudeR!InputOf, CodexR!InputOf, ClaudeR!Absent, CodexR!Absent, Absent, InMessages
<1>3. CASE InMessages
  <2>1. given = <<>>
    BY <1>2, <1>3
  <2>2. Len(<<>>) = 0 /\ DOMAIN <<>> = 1..0
    OBVIOUS
  <2>3. \A at \in 1..0 : FALSE
    OBVIOUS
  <2>4. Len(given) = 0 /\ DOMAIN given = 1..0
    BY <2>1, <2>2
  <2> QED BY <1>2, <2>3, <2>4 DEF GivenOf
<1>4. CASE ~InMessages
  <2>1. given = items
    BY <1>2, <1>4
  <2>2. /\ Len(items) \in Nat /\ DOMAIN items = 1..Len(items)
        /\ \A at \in 1..Len(items) : items[at] \in ClientItems
    BY <1>1
  <2> QED BY <1>2, <2>1, <2>2 DEF GivenOf
<1> QED BY <1>3, <1>4

\* An item that answers a call, and that call.
LEMMA ItemAnswers ==
  ASSUME api = "responses", ProtocolKept, NEW at \in DOMAIN items,
         items[at].type \in ClaudeR!OutputTypes, items[at].id # NoId
  PROVE  /\ \E i \in 1..(at - 1) :
              items[i].id = items[at].id /\ AnswerTo(items[i].type) = items[at].type
         /\ \A i \in DOMAIN items :
              items[i].type \in ClaudeR!OutputTypes /\ items[i].id = items[at].id => i = at
<1>1. Answered(at) = items[at].id
  BY DEF Answered
<1>2. /\ \E k \in 1..(at - 1) : CallFor(k, at)
      /\ \A k \in DOMAIN items : Answered(k) = Answered(at) => k = at
  BY <1>1 DEF ProtocolKept
<1>3. \E i \in 1..(at - 1) :
         items[i].id = items[at].id /\ AnswerTo(items[i].type) = items[at].type
  BY <1>2 DEF CallFor
<1>4. \A i \in DOMAIN items :
         items[i].type \in ClaudeR!OutputTypes /\ items[i].id = items[at].id => i = at
  BY <1>1, <1>2 DEF Answered
<1> QED BY <1>3, <1>4

\* The blocks of an item for Claude.
LEMMA ClaudeItem ==
  ASSUME NEW item, NEW at, item.type \notin ClaudeR!CustomTypes,
         NEW list, list = ClaudeR!ToClaude(item, at).content
  PROVE  /\ IsList(list)
         /\ item.type = "function_call" => list = <<ClaudeR!ToolUse(item.id)>>
         /\ item.type = "function_call_output" => list = <<ClaudeR!ToolResult(item.id, at)>>
         /\ item.type # "function_call_output" => NoResults(list)
<1>1. CASE item.type = "function_call"
  <2> DEFINE block == ClaudeR!ToolUse(item.id)
  <2>1. list = <<block>>
    BY <1>1 DEF ClaudeR!ToClaude
  <2>2. KindOf(block) = "call"
    BY DEF KindOf, ClaudeR!ToolUse, ClaudeR!Block
  <2> HIDE DEF block
  <2>3. list \in Seq({block}) /\ Len(list) = 1 /\ list[1] = block
    BY <2>1
  <2>4. \A k \in 1..Len(list) : list[k] = block
    BY <2>3
  <2>5. NoResults(list)
    BY <2>2, <2>3, <2>4 DEF NoResults, IsList
  <2> QED BY <1>1, <2>1, <2>5 DEF NoResults, block
<1>2. CASE item.type = "function_call_output"
  <2> DEFINE block == ClaudeR!ToolResult(item.id, at)
  <2>1. list = <<block>>
    BY <1>2 DEF ClaudeR!ToClaude
  <2> HIDE DEF block
  <2>2. IsList(list)
    BY <2>1, ShortLists
  <2> QED BY <1>2, <2>1, <2>2 DEF block
<1>3. CASE item.type \notin {"function_call", "function_call_output"}
  <2>1. list = ContentOf(item.content, at)
    BY <1>3, SameContents DEF ClaudeR!ToClaude
  <2> QED BY <1>3, <2>1, WrittenIs DEF NoResults
<1> QED BY <1>1, <1>2, <1>3

\* What the blocks of a call and of its result have in common.
LEMMA ClaudeItemBlocks ==
  ASSUME NEW id, NEW at
  PROVE  /\ KindOf(ClaudeR!ToolResult(id, at)) = "result" /\ ClaudeR!ToolResult(id, at).id = id
         /\ ClaudeR!ToolUse(id).id = id
         /\ AnswerTo(ClaudeR!ToolUse(id).type) = ClaudeR!ToolResult(id, at).type
BY DEF KindOf, AnswerTo, ClaudeR!ToolResult, ClaudeR!ToolUse, ClaudeR!Block

\* Claude is sent the items that are no system items, in order.
LEMMA ClaudeItemsSent ==
  ASSUME NEW n \in Nat, NEW given, DOMAIN given = 1..n, Len(given) = n,
         \A at \in 1..n : given[at].type \notin ClaudeR!CustomTypes,
         NEW g, g = ClaudeItemLists(given, n)
  PROVE  AreLists(g, n) /\ Blocks(ClaudeR!MessagesOf(given)) = FlattenSeq(g)
<1> DEFINE places == {k \in DOMAIN given : ~ClaudeR!IsSystem(given[k])}
           order == InOrder(places, n)
           f == [at \in 1..n |-> ClaudeR!ToClaude(given[at], at).content]
           sent == ClaudeR!MessagesOf(given)
<1>1. sent = [k \in DOMAIN order |-> ClaudeR!ToClaude(given[order[k]], order[k])]
  BY SameOrder DEF ClaudeR!MessagesOf
<1>2. \A k \in DOMAIN order : order[k] \in 1..n
  <2>1. order \in Seq(places \cap 1..n)
    BY InOrderIs
  <2> DEFINE T == places \cap 1..n
  <2> HIDE DEF T, order
  <2>2. order \in Seq(T)
    BY <2>1 DEF T
  <2>3. \A k \in DOMAIN order : order[k] \in T
    BY <2>2
  <2> QED BY <2>3 DEF T
<1>3. Blocks(sent) = FlatMap(order, f)
  <2> HIDE DEF order, sent
  <2>1. [k \in DOMAIN sent |-> sent[k].content] = [k \in DOMAIN order |-> f[order[k]]]
    BY <1>1, <1>2
  <2> QED BY <2>1 DEF Blocks, FlatMap
<1>4. g = [at \in 1..n |-> IF at \in places THEN f[at] ELSE <<>>]
  BY DEF ClaudeItemLists
<1>5. \A at \in places \cap 1..n : IsList(f[at])
  <2> TAKE at \in places \cap 1..n
  <2>1. f[at] = ClaudeR!ToClaude(given[at], at).content
    OBVIOUS
  <2> HIDE DEF f
  <2> QED BY <2>1, ClaudeItem
<1>6. n \in Nat
  OBVIOUS
<1> HIDE DEF places, f
<1>7. AreLists(g, n) /\ FlatMap(InOrder(places, n), f) = FlattenSeq(g)
  BY ONLY <1>4, <1>5, <1>6, MapInOrder
<1> QED BY <1>3, <1>7

\* Calls and results are paired for Claude, over the Responses API.
LEMMA ClaudeResponsesPaired ==
  ASSUME BodyInv, api = "responses", ProtocolKept, Accepted(answers.claude)
  PROVE  Paired(Blocks(ClaudeBody.messages))
<1> DEFINE given == ClaudeR!InputOf(items, settings)
           n == Len(given)
           g == ClaudeItemLists(given, n)
<1>1. GivenOf(given, n)
  BY GivenIs
<1>2. /\ ClaudeR!ItemsValid(given) /\ ClaudeR!UnsupportedTool(given, settings)
      /\ ClaudeBody.messages = ClaudeR!MessagesOf(given)
  <2>1. /\ Accepted(ResponsesAnswers(items, settings).claude)
        /\ ClaudeBody = BodyOf(ResponsesAnswers(items, settings).claude)
    BY DEF BodyInv, Answers, ClaudeBody
  <2> QED BY <2>1, ClaudeResponsesHistory
<1> HIDE DEF given
<1>3. /\ n \in Nat /\ DOMAIN given = 1..n
      /\ \A at \in 1..n : at \in DOMAIN items /\ given[at] = items[at]
  BY <1>1 DEF GivenOf
<1>4. \A at \in 1..n : given[at].type \notin ClaudeR!CustomTypes /\ ClaudeR!ItemValid(given[at])
  BY <1>2, <1>3 DEF ClaudeR!ItemsValid, ClaudeR!UnsupportedTool
<1>5. AreLists(g, n) /\ Blocks(ClaudeR!MessagesOf(given)) = FlattenSeq(g)
  <2>1. n \in Nat /\ \A at \in 1..n : given[at].type \notin ClaudeR!CustomTypes
    BY <1>3, <1>4
  <2>2. DOMAIN given = 1..n /\ Len(given) = n
    BY <1>3
  <2> QED BY <2>1, <2>2, ClaudeItemsSent
<1>6. \A at \in 1..n : g[at] = IF ~ClaudeR!IsSystem(given[at])
                              THEN ClaudeR!ToClaude(given[at], at).content ELSE <<>>
  BY DEF ClaudeItemLists
<1> HIDE DEF g, n
<1>7. ASSUME NEW at \in 1..n
      PROVE  /\ given[at].type = "function_call" => g[at] = <<ClaudeR!ToolUse(given[at].id)>>
             /\ given[at].type = "function_call_output" =>
                   g[at] = <<ClaudeR!ToolResult(given[at].id, at)>>
             /\ given[at].type # "function_call_output" => NoResults(g[at])
  <2> DEFINE list == ClaudeR!ToClaude(given[at], at).content
  <2>1. /\ given[at].type = "function_call" => list = <<ClaudeR!ToolUse(given[at].id)>>
        /\ given[at].type = "function_call_output" =>
              list = <<ClaudeR!ToolResult(given[at].id, at)>>
        /\ given[at].type # "function_call_output" => NoResults(list)
    BY <1>4, ClaudeItem
  <2>2. g[at] = IF ~ClaudeR!IsSystem(given[at]) THEN list ELSE <<>>
    BY <1>6
  <2>3. ClaudeR!IsSystem(given[at]) => given[at].type = "message"
    BY DEF ClaudeR!IsSystem
  <2>4. NoResults(<<>>)
    <3>1. <<>> \in Seq({}) /\ Len(<<>>) = 0
      OBVIOUS
    <3> QED BY <3>1 DEF NoResults, IsList
  <2> HIDE DEF list
  <2> QED BY <2>1, <2>2, <2>3, <2>4
<1>8. ASSUME NEW at \in 1..n, NEW k \in 1..Len(g[at]), KindOf(g[at][k]) = "result"
      PROVE  /\ given[at].type = "function_call_output" /\ Len(g[at]) = 1
             /\ g[at][k] = ClaudeR!ToolResult(given[at].id, at)
  <2>1. given[at].type = "function_call_output"
    BY <1>7, <1>8 DEF NoResults
  <2> DEFINE block == ClaudeR!ToolResult(given[at].id, at)
  <2>2. g[at] = <<block>>
    BY <1>7, <2>1
  <2> HIDE DEF block
  <2>3. Len(<<block>>) = 1 /\ <<block>>[1] = block
    OBVIOUS
  <2>4. k = 1
    BY <2>2, <2>3
  <2> QED BY <2>1, <2>2, <2>3, <2>4 DEF block
<1>9. ASSUME NEW at \in 1..n, NEW k \in 1..Len(g[at]), KindOf(g[at][k]) = "result"
      PROVE  PairedAt(g, n, at, g[at][k])
  <2> DEFINE block == ClaudeR!ToolResult(given[at].id, at)
  <2>1. given[at].type = "function_call_output" /\ Len(g[at]) = 1 /\ g[at][k] = block
    BY <1>8, <1>9
  <2>2. block.id = given[at].id
    BY ClaudeItemBlocks
  <2>3. FitsName(block)
    BY DEF FitsName
  <2>4. /\ \E i \in 1..(at - 1) :
             items[i].id = items[at].id /\ AnswerTo(items[i].type) = items[at].type
        /\ \A i \in DOMAIN items :
             items[i].type \in ClaudeR!OutputTypes /\ items[i].id = items[at].id => i = at
    <3>1. at \in DOMAIN items /\ given[at] = items[at]
      BY <1>3
    <3>2. items[at].type \in ClaudeR!OutputTypes
      BY <2>1, <3>1 DEF ClaudeR!OutputTypes
    <3>3. items[at].id # NoId
      BY <1>4, <2>1, <3>1 DEF ClaudeR!ItemValid, ClaudeR!CallTypes, ClaudeR!NoId, ClaudeR!Id,
         NoId, Id
    <3> QED BY <3>1, <3>2, <3>3, ItemAnswers
  <2>5. \E i \in 1..(at - 1) : \E l \in 1..Len(g[i]) :
           g[i][l].id = block.id /\ AnswerTo(g[i][l].type) = block.type
    <3>1. PICK i \in 1..(at - 1) :
             items[i].id = items[at].id /\ AnswerTo(items[i].type) = items[at].type
      BY <2>4
    <3>2. i \in 1..n /\ given[i] = items[i] /\ given[at] = items[at]
      BY <1>3
    <3>3. given[i].type = "function_call"
      BY <2>1, <3>1, <3>2 DEF AnswerTo, Absent
    <3> DEFINE call == ClaudeR!ToolUse(given[i].id)
    <3>4. g[i] = <<call>>
      BY <1>7, <3>2, <3>3
    <3>5. call.id = block.id /\ AnswerTo(call.type) = block.type
      BY <2>2, <3>1, <3>2, ClaudeItemBlocks
    <3> HIDE DEF call, block
    <3>6. 1 \in 1..Len(g[i]) /\ g[i][1] = call
      BY <3>4
    <3> QED BY <3>5, <3>6
  <2>6. ASSUME NEW i \in 1..n, NEW l \in 1..Len(g[i]),
               KindOf(g[i][l]) = "result", g[i][l].id = block.id
        PROVE  i = at
    <3>1. given[i].type = "function_call_output" /\ g[i][l] = ClaudeR!ToolResult(given[i].id, i)
      BY <1>8, <2>6
    <3>2. given[i].id = given[at].id
      BY <2>2, <2>6, <3>1, ClaudeItemBlocks
    <3>3. i \in DOMAIN items /\ given[i] = items[i] /\ given[at] = items[at]
      BY <1>3
    <3> QED BY <2>4, <3>1, <3>2, <3>3 DEF ClaudeR!OutputTypes
  <2> HIDE DEF block
  <2> QED BY <2>1, <2>3, <2>5, <2>6 DEF PairedAt
<1>10. ListsPaired(g, n)
  BY <1>9 DEF ListsPaired
<1>11. n \in Nat /\ AreLists(g, n)
  BY <1>3, <1>5
<1>12. Paired(FlattenSeq(g))
  BY ONLY <1>10, <1>11, PairedFlat
<1> QED BY <1>2, <1>5, <1>12

\* A call's and a result's item holds that one, the others no result.
LEMMA CodexItem ==
  ASSUME NEW item, NEW at, NEW list, list = CodexR!Item(item, at).content
  PROVE  /\ IsList(list)
         /\ item.type \in ClaudeR!CallTypes => list = <<CodexR!Block(item.type, 0, item.id)>>
         /\ item.type \in ClaudeR!OutputTypes => list = <<CodexR!Block(item.type, at, item.id)>>
         /\ item.type \notin ClaudeR!OutputTypes => NoResults(list)
<1>1. /\ CodexR!CallTypes = ClaudeR!CallTypes /\ CodexR!OutputTypes = ClaudeR!OutputTypes
      /\ \A type \in ClaudeR!CallTypes : type \notin ClaudeR!OutputTypes
  BY DEF CodexR!CallTypes, ClaudeR!CallTypes, CodexR!OutputTypes, ClaudeR!OutputTypes
<1>2. CASE item.type \in ClaudeR!CallTypes
  <2> DEFINE block == CodexR!Block(item.type, 0, item.id)
  <2>1. list = <<block>>
    BY <1>1, <1>2 DEF CodexR!Item
  <2>2. KindOf(block) = "call"
    BY <1>2 DEF KindOf, CodexR!Block, ClaudeR!CallTypes
  <2> HIDE DEF block
  <2>3. list \in Seq({block}) /\ Len(list) = 1 /\ list[1] = block
    BY <2>1
  <2>4. \A k \in 1..Len(list) : list[k] = block
    BY <2>3
  <2>5. NoResults(list)
    BY <2>2, <2>3, <2>4 DEF NoResults, IsList
  <2> QED BY <1>1, <1>2, <2>1, <2>5 DEF NoResults, block
<1>3. CASE item.type \in ClaudeR!OutputTypes
  <2> DEFINE block == CodexR!Block(item.type, at, item.id)
  <2>1. list = <<block>>
    BY <1>1, <1>3 DEF CodexR!Item
  <2> HIDE DEF block
  <2>2. IsList(list)
    BY <2>1, ShortLists
  <2> QED BY <1>1, <1>3, <2>1, <2>2 DEF block
<1>4. CASE item.type \notin ClaudeR!CallTypes \cup ClaudeR!OutputTypes
  <2>1. list = ContentOf(item.content, at)
    BY <1>1, <1>4, SameContents DEF CodexR!Item
  <2> QED BY <1>4, <2>1, WrittenIs DEF NoResults
<1> QED BY <1>2, <1>3, <1>4

\* What Codex is sent over the Responses API.
LEMMA CodexResponsesOut ==
  ASSUME BodyInv, api = "responses", Accepted(answers.codex),
         NEW given, given = ClaudeR!InputOf(items, settings),
         NEW n, n = Len(given)
  PROVE  /\ GivenOf(given, n)
         /\ CodexBody.input = [k \in 1..n |-> CodexR!Item(given[k], k)]
         /\ \A at \in 1..n : CodexR!ItemValid(given[at])
<1>1. GivenOf(given, n) /\ CodexR!InputOf(items, settings) = given
  BY GivenIs
<1>2. DOMAIN given = 1..n
  BY <1>1 DEF GivenOf
<1>3. /\ CodexR!Checks(given, settings)
      /\ CodexBody = CodexR!Normalized(given, settings)
  BY <1>1 DEF BodyInv, Answers, CodexBody, ResponsesAnswers, Accepted, Refused, BodyOf,
     CodexR!Answer, CodexR!Refused, CodexR!Sent
<1>4. CodexBody.input = [k \in DOMAIN given |-> CodexR!Item(given[k], k)]
  BY <1>3 DEF CodexR!Normalized
<1>5. \A at \in DOMAIN given : CodexR!ItemValid(given[at])
  BY <1>3 DEF CodexR!Checks, CodexR!InputItems, CodexR!ItemsValid
<1> QED BY <1>1, <1>2, <1>4, <1>5

\* Calls and results are paired for Codex, over the Responses API.
LEMMA CodexResponsesPaired ==
  ASSUME BodyInv, api = "responses", ProtocolKept, Accepted(answers.codex)
  PROVE  Paired(Blocks(CodexBody.input))
<1> DEFINE given == ClaudeR!InputOf(items, settings)
           n == Len(given)
           g == CodexItemLists(given, n)
           input == CodexBody.input
<1>1. /\ GivenOf(given, n)
      /\ input = [k \in 1..n |-> CodexR!Item(given[k], k)]
      /\ \A at \in 1..n : CodexR!ItemValid(given[at])
  BY CodexResponsesOut
<1> HIDE DEF given, n
<1>3. /\ n \in Nat /\ DOMAIN given = 1..n
      /\ \A at \in 1..n : at \in DOMAIN items /\ given[at] = items[at]
  BY <1>1 DEF GivenOf
<1>4. \A at \in 1..n : g[at] = CodexR!Item(given[at], at).content
  BY DEF CodexItemLists
<1>5. g = [at \in 1..n |-> g[at]]
  BY DEF CodexItemLists
<1>6. Blocks(input) = FlattenSeq(g)
  BY <1>1 DEF Blocks, CodexItemLists
<1> HIDE DEF g, input
<1>7. ASSUME NEW at \in 1..n
      PROVE  /\ IsList(g[at])
             /\ given[at].type \in ClaudeR!CallTypes =>
                   g[at] = <<CodexR!Block(given[at].type, 0, given[at].id)>>
             /\ given[at].type \in ClaudeR!OutputTypes =>
                   g[at] = <<CodexR!Block(given[at].type, at, given[at].id)>>
             /\ given[at].type \notin ClaudeR!OutputTypes => NoResults(g[at])
  BY <1>4, CodexItem
<1>8. AreLists(g, n)
  BY <1>5, <1>7 DEF AreLists
<1>9. \A type, at, id : /\ CodexR!Block(type, at, id).id = id /\ CodexR!Block(type, at, id).at = at
                        /\ CodexR!Block(type, at, id).type = type
  BY DEF CodexR!Block
<1>10. ASSUME NEW at \in 1..n, NEW k \in 1..Len(g[at]), KindOf(g[at][k]) = "result"
       PROVE  /\ given[at].type \in ClaudeR!OutputTypes /\ Len(g[at]) = 1
              /\ g[at][k] = CodexR!Block(given[at].type, at, given[at].id)
  <2>1. given[at].type \in ClaudeR!OutputTypes
    BY <1>7, <1>10 DEF NoResults
  <2> DEFINE block == CodexR!Block(given[at].type, at, given[at].id)
  <2>2. g[at] = <<block>>
    BY <1>7, <2>1
  <2> HIDE DEF block
  <2>3. Len(<<block>>) = 1 /\ <<block>>[1] = block
    OBVIOUS
  <2>4. k = 1
    BY <2>2, <2>3
  <2> QED BY <2>1, <2>2, <2>3, <2>4 DEF block
<1>11. ASSUME NEW at \in 1..n, NEW k \in 1..Len(g[at]), KindOf(g[at][k]) = "result"
       PROVE  PairedAt(g, n, at, g[at][k])
  <2> DEFINE block == CodexR!Block(given[at].type, at, given[at].id)
  <2>1. given[at].type \in ClaudeR!OutputTypes /\ Len(g[at]) = 1 /\ g[at][k] = block
    BY <1>10, <1>11
  <2>2. block.id = given[at].id /\ block.type = given[at].type
    BY <1>9
  <2>3. FitsName(block)
    BY DEF FitsName
  <2>4. /\ \E i \in 1..(at - 1) :
             items[i].id = items[at].id /\ AnswerTo(items[i].type) = items[at].type
        /\ \A i \in DOMAIN items :
             items[i].type \in ClaudeR!OutputTypes /\ items[i].id = items[at].id => i = at
    <3>1. at \in DOMAIN items /\ given[at] = items[at]
      BY <1>3
    <3>2. items[at].type \in ClaudeR!OutputTypes
      BY <2>1, <3>1
    <3>3. items[at].id # NoId
      BY <1>1, <2>1, <3>1 DEF CodexR!ItemValid, CodexR!CallTypes, CodexR!NoId, CodexR!Id,
         ClaudeR!OutputTypes, NoId, Id
    <3> QED BY <3>1, <3>2, <3>3, ItemAnswers
  <2>5. \E i \in 1..(at - 1) : \E l \in 1..Len(g[i]) :
           g[i][l].id = block.id /\ AnswerTo(g[i][l].type) = block.type
    <3>1. PICK i \in 1..(at - 1) :
             items[i].id = items[at].id /\ AnswerTo(items[i].type) = items[at].type
      BY <2>4
    <3>2. i \in 1..n /\ given[i] = items[i] /\ given[at] = items[at]
      BY <1>3
    <3> DEFINE call == CodexR!Block(given[i].type, 0, given[i].id)
    <3>3. given[i].type \in ClaudeR!CallTypes
      <4>1. given[i].type \in {"message"} \cup ClaudeR!CallTypes \cup ClaudeR!OutputTypes
        BY <1>1, <3>2 DEF GivenOf, ClientItems
      <4>2. AnswerTo(given[i].type) \in ClaudeR!OutputTypes
        BY <2>1, <3>1, <3>2
      <4> QED BY <4>1, <4>2 DEF AnswerTo, Absent, ClaudeR!CallTypes, ClaudeR!OutputTypes
    <3>4. g[i] = <<call>>
      BY <1>7, <3>2, <3>3
    <3>5. call.id = given[i].id /\ call.type = given[i].type
      BY <1>9
    <3>6. call.id = block.id /\ AnswerTo(call.type) = block.type
      BY <2>2, <3>1, <3>2, <3>5
    <3> HIDE DEF call, block
    <3>7. 1 \in 1..Len(g[i]) /\ g[i][1] = call
      BY <3>4
    <3> QED BY <3>6, <3>7
  <2>6. ASSUME NEW i \in 1..n, NEW l \in 1..Len(g[i]),
               KindOf(g[i][l]) = "result", g[i][l].id = block.id
        PROVE  i = at
    <3>1. /\ given[i].type \in ClaudeR!OutputTypes
          /\ g[i][l] = CodexR!Block(given[i].type, i, given[i].id)
      BY <1>10, <2>6
    <3>2. given[i].id = given[at].id
      BY <1>9, <2>2, <2>6, <3>1
    <3>3. i \in DOMAIN items /\ given[i] = items[i] /\ given[at] = items[at]
      BY <1>3
    <3> QED BY <2>4, <3>1, <3>2, <3>3
  <2> HIDE DEF block
  <2> QED BY <2>1, <2>3, <2>5, <2>6 DEF PairedAt
<1>12. ListsPaired(g, n)
  BY <1>11 DEF ListsPaired
<1>13. n \in Nat /\ AreLists(g, n)
  BY <1>3, <1>8
<1>14. Paired(FlattenSeq(g))
  BY ONLY <1>12, <1>13, PairedFlat
<1> QED BY <1>6, <1>14 DEF input

(***************************************************************************)
(* Where the client keeps the protocol, upstream sees it kept, whatever    *)
(* the messages, items, limits and parameters, and however long the        *)
(* conversation: every result sent answers an earlier call of its kind,    *)
(* and no other result answers that call.  This is the work of             *)
(* normalizeLegacyChatFunctionMessages and collectChatToolCallTypes.       *)
(***************************************************************************)
THEOREM ResultsAlwaysAnswerCalls == Spec => []ResultsAnswerCalls
<1>1. BodyInv => ResultsAnswerCalls
  <2> SUFFICES ASSUME BodyInv, ProtocolKept
               PROVE  /\ Accepted(answers.claude) => Paired(Blocks(ClaudeBody.messages))
                      /\ Accepted(answers.codex) => Paired(Blocks(CodexBody.input))
    BY DEF ResultsAnswerCalls
  <2>1. api \in {"chat", "responses"}
    BY DEF BodyInv
  <2> QED BY <2>1, ClaudeChatPaired, CodexChatPaired, ClaudeResponsesPaired, CodexResponsesPaired
<1> QED BY <1>1, BodyInvariant, PTL

\* Empty lists make the empty one; a list of one among empty ones makes that one.
LEMMA FlatNone ==
  ASSUME NEW n \in Nat, NEW f, AreLists(f, n), \A i \in 1..n : f[i] = <<>>
  PROVE  FlattenSeq(f) = <<>>
<1> DEFINE F == FlattenSeq(f)
<1>1. PICK at : Traced(F, f, n, at)
  BY TraceExists
<1>2. IsList(F)
  BY FlatIs
<1> HIDE DEF F
<1>3. /\ \A i \in 1..Len(F) : at[i] \in 1..n
      /\ \A i \in 1..Len(F) : \E k \in 1..Len(f[at[i]]) : F[i] = f[at[i]][k]
  BY <1>1 DEF Traced
<1>4. Len(<<>>) = 0
  OBVIOUS
<1>5. \A i \in 1..Len(F) : FALSE
  BY <1>3, <1>4
<1>6. PICK T : F \in Seq(T)
  BY <1>2 DEF IsList
<1>7. F = <<>>
  BY <1>5, <1>6
<1> QED BY <1>7 DEF F

\* A list of one among empty lists makes just that one.
LEMMA FlatOnly ==
  ASSUME NEW n \in Nat, NEW f, AreLists(f, n), NEW only \in 1..n, NEW x, f[only] = <<x>>,
         \A i \in 1..n : i # only => f[i] = <<>>
  PROVE  FlattenSeq(f) = <<x>>
<1> DEFINE F == FlattenSeq(f)
<1>1. PICK at : Traced(F, f, n, at)
  BY TraceExists
<1>2. IsList(F)
  BY FlatIs
<1> HIDE DEF F
<1>3. /\ \A i \in 1..Len(F) : at[i] \in 1..n
      /\ \A i \in 1..Len(F) : \E k \in 1..Len(f[at[i]]) : F[i] = f[at[i]][k]
      /\ \A l \in 1..n : \A k \in 1..Len(f[l]) :
            \E i \in 1..Len(F) : at[i] = l /\ F[i] = f[l][k]
      /\ \A i, j \in 1..Len(F) : at[i] = at[j] /\ Len(f[at[i]]) = 1 => i = j
  BY <1>1 DEF Traced
<1>4. Len(<<>>) = 0 /\ Len(<<x>>) = 1 /\ <<x>>[1] = x
  OBVIOUS
<1>5. \A i \in 1..Len(F) : at[i] = only
  <2> SUFFICES ASSUME NEW i \in 1..Len(F), at[i] # only
               PROVE  FALSE
    OBVIOUS
  <2>1. at[i] \in 1..n
    BY <1>3
  <2>2. f[at[i]] = <<>>
    BY <2>1
  <2>3. Len(f[at[i]]) = 0
    BY <1>4, <2>2
  <2>4. \E k \in 1..Len(f[at[i]]) : F[i] = f[at[i]][k]
    BY <1>3
  <2> QED BY <2>3, <2>4
<1>6. PICK i \in 1..Len(F) : F[i] = x
  <2>1. 1 \in 1..Len(f[only]) /\ f[only][1] = x
    BY <1>4
  <2> QED BY <1>3, <2>1
<1>7. \A j \in 1..Len(F) : j = i
  <2> TAKE j \in 1..Len(F)
  <2>1. at[j] = only /\ at[i] = only
    BY <1>5
  <2>2. at[j] = at[i] /\ Len(f[at[j]]) = 1
    BY <1>4, <2>1
  <2> QED BY <1>3, <2>2
<1>8. PICK T : F \in Seq(T)
  BY <1>2 DEF IsList
<1>9. Len(F) = 1 /\ F[1] = x
  <2>1. Len(F) \in Nat
    BY <1>8
  <2>2. 1 \in 1..Len(F)
    BY <1>6, <2>1
  <2>3. 1 = i
    BY <1>7, <2>2
  <2>4. Len(F) \in 1..Len(F)
    BY <2>1, <2>2
  <2>5. Len(F) = i
    BY <1>7, <2>4
  <2> QED BY <1>6, <2>3, <2>5
<1>10. F = <<x>>
  BY <1>8, <1>9
<1> QED BY <1>10 DEF F

(***************************************************************************)
(* What is said and what is heard.                                         *)
(***************************************************************************)
\* A part is what is chosen of each saying.
LEMMA PartMap ==
  ASSUME NEW T, NEW s, s \in Seq(T), NEW part
  PROVE  Maps(s, Chosen(part, T)) /\ PartOf(part, s) = FlatMap(s, Chosen(part, T))
<1> DEFINE n == Len(s)
           places == {k \in DOMAIN s : IsOf(part, s[k])}
           g == PickedLists(s, places, n)
           h == Chosen(part, T)
<1>1. /\ n \in Nat /\ DOMAIN s = 1..n /\ s = [k \in 1..n |-> s[k]]
      /\ \A k \in 1..n : s[k] \in T
  OBVIOUS
<1>2. \A k \in 1..n : h[s[k]] = IF k \in places THEN <<s[k]>> ELSE <<>>
  BY <1>1 DEF Chosen
<1>3. g = [k \in DOMAIN s |-> h[s[k]]]
  BY <1>1, <1>2 DEF PickedLists
<1>4. g = PickedLists(s, places, n)
  OBVIOUS
<1> HIDE DEF places, g, h
<1>5. AreLists(g, n) /\ Picked(s, places) = FlattenSeq(g)
  <2> HIDE DEF n
  <2>1. n \in Nat
    BY <1>1
  <2>2. s = [k \in 1..n |-> s[k]]
    BY <1>1
  <2> QED BY ONLY <1>4, <2>1, <2>2, PickedIs
<1>6. FlatMap(s, h) = FlattenSeq(g)
  BY <1>3 DEF FlatMap
<1>7. Maps(s, h)
  <2>1. \A k \in DOMAIN s : IsList(h[s[k]])
    BY <1>1, <1>2, ShortLists
  <2>2. IsList(s)
    BY DEF IsList
  <2> QED BY <2>1, <2>2 DEF Maps
<1> QED BY <1>5, <1>6, <1>7 DEF PartOf, places, h

\* A part of what lists make is what the parts of the lists make.
LEMMA PartFlat ==
  ASSUME NEW n \in Nat, NEW f, AreLists(f, n), NEW part,
         NEW g, g = [i \in 1..n |-> PartOf(part, f[i])]
  PROVE  AreLists(g, n) /\ PartOf(part, FlattenSeq(f)) = FlattenSeq(g)
<1>1. PICK T : ListsOf(T, f, n)
  BY OfOneSet
<1>2. \A i \in 1..n : f[i] \in Seq(T)
  BY <1>1 DEF ListsOf
<1>3. FlattenSeq(f) \in Seq(T)
  BY <1>1, FlattenIs
<1> DEFINE h == Chosen(part, T)
<1>4. ASSUME NEW i \in 1..n
      PROVE  Maps(f[i], h) /\ PartOf(part, f[i]) = FlatMap(f[i], h)
  <2> DEFINE s == f[i]
  <2>1. s \in Seq(T)
    BY <1>2
  <2> HIDE DEF s
  <2> QED BY <2>1, PartMap DEF s
<1>5. PartOf(part, FlattenSeq(f)) = FlatMap(FlattenSeq(f), h)
  <2> DEFINE s == FlattenSeq(f)
  <2>1. s \in Seq(T)
    BY <1>3
  <2> HIDE DEF s
  <2> QED BY <2>1, PartMap DEF s
<1> HIDE DEF h
<1>6. g = [i \in 1..n |-> FlatMap(f[i], h)]
  BY <1>4
<1>7. \A i \in 1..n : Maps(f[i], h)
  BY <1>4
<1>8. n \in Nat /\ AreLists(f, n)
  OBVIOUS
<1>9. AreLists(g, n) /\ FlatMap(FlattenSeq(f), h) = FlattenSeq(g)
  BY ONLY <1>6, <1>7, <1>8, MapFlat, SMTT(30)
<1> QED BY <1>5, <1>9

\* A part of two lists, of all or nothing.
LEMMA PartLaws ==
  ASSUME NEW a, IsList(a), NEW part
  PROVE  /\ IsList(PartOf(part, a))
         /\ (\A k \in 1..Len(a) : IsOf(part, a[k])) => PartOf(part, a) = a
         /\ (\A k \in 1..Len(a) : ~IsOf(part, a[k])) => PartOf(part, a) = <<>>
<1> DEFINE n == Len(a)
           places == {k \in DOMAIN a : IsOf(part, a[k])}
           g == PickedLists(a, places, n)
<1>1. n \in Nat /\ DOMAIN a = 1..n /\ a = [k \in 1..n |-> a[k]]
  BY ListIs
<1>0. g = PickedLists(a, places, n)
  OBVIOUS
<1>2. g = [k \in 1..n |-> IF k \in places THEN <<a[k]>> ELSE <<>>]
  BY DEF PickedLists
<1>3. \A k \in 1..n : k \in places <=> IsOf(part, a[k])
  BY <1>1
<1>4. PartOf(part, a) = Picked(a, places)
  BY DEF PartOf
<1> HIDE DEF places, g, n
<1>5. AreLists(g, n) /\ Picked(a, places) = FlattenSeq(g)
  <2>1. n \in Nat
    BY <1>1
  <2>2. a = [k \in 1..n |-> a[k]]
    BY <1>1
  <2> QED BY ONLY <1>0, <2>1, <2>2, PickedIs
<1>6. IsList(FlattenSeq(g))
  BY <1>1, <1>5, FlatIs
<1>7. ASSUME \A k \in 1..n : IsOf(part, a[k]) PROVE FlattenSeq(g) = a
  <2>1. g = [k \in 1..n |-> <<a[k]>>]
    BY <1>2, <1>3, <1>7
  <2>2. n \in Nat /\ a = [k \in 1..n |-> a[k]]
    BY <1>1
  <2> QED BY ONLY <2>1, <2>2, FlatOnes
<1>8. ASSUME \A k \in 1..n : ~IsOf(part, a[k]) PROVE FlattenSeq(g) = <<>>
  <2>1. \A k \in 1..n : g[k] = <<>>
    BY <1>2, <1>3, <1>8
  <2> QED BY <1>1, <1>5, <2>1, FlatNone
<1> QED BY <1>4, <1>5, <1>6, <1>7, <1>8 DEF n

\* A part of two lists.
LEMMA PartJoined ==
  ASSUME NEW a, NEW b, IsList(a), IsList(b), NEW part
  PROVE  PartOf(part, a \o b) = PartOf(part, a) \o PartOf(part, b)
<1>1. PICK T : a \in Seq(T) /\ b \in Seq(T)
  BY TwoLists
<1>2. a \o b \in Seq(T)
  BY <1>1
<1> DEFINE h == Chosen(part, T)
           c == a \o b
<1>3. Maps(a, h) /\ PartOf(part, a) = FlatMap(a, h)
  BY <1>1, PartMap
<1>4. Maps(b, h) /\ PartOf(part, b) = FlatMap(b, h)
  BY <1>1, PartMap
<1>5. PartOf(part, c) = FlatMap(c, h)
  <2>1. c \in Seq(T)
    BY <1>2
  <2> HIDE DEF c
  <2> QED BY <2>1, PartMap
<1> HIDE DEF h
<1>6. FlatMap(c, h) = FlatMap(a, h) \o FlatMap(b, h)
  <2>1. Maps(a, h) /\ Maps(b, h)
    BY <1>3, <1>4
  <2> QED BY ONLY <2>1, MapJoined
<1> QED BY <1>3, <1>4, <1>5, <1>6

\* What a content says is what is heard of its blocks.
LEMMA WordsAre ==
  ASSUME NEW content, NEW at, NEW role
  PROVE  /\ Written(content, at, role) = Words(content, at, Speaker(role))
         /\ Reached(ContentOf(content, at), role) = Words(content, at, Speaker(role))
<1> DEFINE a == Text(at)
           b == Picture(at)
           by == Speaker(role)
           x == Saying("text", at, NoId, by)
           y == Saying("image", at, NoId, by)
<1>1. /\ Reaches(a, role) = x /\ Saying(a.type, at, NoId, by) = x
      /\ Reaches(b, role) = y /\ Saying(b.type, at, NoId, by) = y
  BY DEF Reaches, KindOf, Text, Picture, Block
<1>2. /\ Written(content, at, role) = [k \in DOMAIN ContentOf(content, at) |->
                                          Saying(ContentOf(content, at)[k].type, at, NoId, by)]
      /\ Reached(ContentOf(content, at), role) = [k \in DOMAIN ContentOf(content, at) |->
                                          Reaches(ContentOf(content, at)[k], role)]
  BY DEF Written, Reached
<1>3. /\ content = "picture" =>
            ContentOf(content, at) = <<a, b>> /\ Words(content, at, by) = <<x, y>>
      /\ content \in Texts \ {"picture"} =>
            ContentOf(content, at) = <<a>> /\ Words(content, at, by) = <<x>>
      /\ content \notin Texts => ContentOf(content, at) = <<>> /\ Words(content, at, by) = <<>>
      /\ "picture" \in Texts
  BY DEF ContentOf, Words, Texts
<1> HIDE DEF a, b, x, y, by
<1>4. CASE content = "picture"
  <2>1. /\ [k \in DOMAIN <<a, b>> |-> Saying(<<a, b>>[k].type, at, NoId, by)] = <<x, y>>
        /\ [k \in DOMAIN <<a, b>> |-> Reaches(<<a, b>>[k], role)] = <<x, y>>
    BY <1>1
  <2> QED BY <1>2, <1>3, <1>4, <2>1 DEF by
<1>5. CASE content \in Texts \ {"picture"}
  <2>1. /\ [k \in DOMAIN <<a>> |-> Saying(<<a>>[k].type, at, NoId, by)] = <<x>>
        /\ [k \in DOMAIN <<a>> |-> Reaches(<<a>>[k], role)] = <<x>>
    BY <1>1
  <2> QED BY <1>2, <1>3, <1>5, <2>1 DEF by
<1>6. CASE content \notin Texts
  <2>1. /\ [k \in DOMAIN <<>> |-> Saying(<<>>[k].type, at, NoId, by)] = <<>>
        /\ [k \in DOMAIN <<>> |-> Reaches(<<>>[k], role)] = <<>>
    OBVIOUS
  <2> QED BY <1>2, <1>3, <1>6, <2>1 DEF by
<1> QED BY <1>3, <1>4, <1>5, <1>6

\* What a content says are texts and pictures of its place, by one speaker.
LEMMA WordsFrom ==
  ASSUME NEW content, NEW at, NEW by
  PROVE  AllWords(Words(content, at, by), at, by)
<1> DEFINE x == Saying("text", at, NoId, by)
           y == Saying("image", at, NoId, by)
<1>1. /\ x.kind \in {"text", "image"} /\ x.at = at /\ x.by = by
      /\ y.kind \in {"text", "image"} /\ y.at = at /\ y.by = by
  BY DEF Saying
<1>2. Words(content, at, by) \in {<<>>, <<x>>, <<x, y>>}
  BY DEF Words
<1> HIDE DEF x, y
<1>3. ASSUME NEW s \in {<<>>, <<x>>, <<x, y>>} PROVE AllWords(s, at, by)
  <2>1. s \in Seq({x, y})
    <3>1. <<>> \in Seq({x, y}) /\ <<x>> \in Seq({x, y}) /\ <<x, y>> \in Seq({x, y})
      OBVIOUS
    <3> QED BY <1>3, <3>1
  <2>2. \A k \in 1..Len(s) : s[k] = x \/ s[k] = y
    BY <2>1
  <2> QED BY <1>1, <2>1, <2>2 DEF AllWords, IsList
<1> QED BY <1>2, <1>3

\* What is heard of blocks is as long a list.
LEMMA ReachedIs ==
  ASSUME NEW a, IsList(a), NEW role
  PROVE  /\ IsList(Reached(a, role)) /\ Len(Reached(a, role)) = Len(a)
         /\ \A k \in 1..Len(a) : Reached(a, role)[k] = Reaches(a[k], role)
         /\ Reached(a, role) = [k \in 1..Len(a) |-> Reaches(a[k], role)]
<1> DEFINE n == Len(a)
           s == Reached(a, role)
<1>1. n \in Nat /\ DOMAIN a = 1..n
  BY ListIs
<1>2. s = [k \in 1..n |-> Reaches(a[k], role)]
  BY <1>1 DEF Reached
<1> HIDE DEF s, n
<1>3. s = [k \in 1..n |-> s[k]] /\ \A k \in 1..n : s[k] = Reaches(a[k], role)
  BY <1>2
<1>4. IsList(s) /\ Len(s) = n
  BY <1>1, <1>3, AList
<1> QED BY <1>2, <1>3, <1>4 DEF s, n

\* Of two lists it is what is heard of each.
LEMMA ReachedJoined ==
  ASSUME NEW a, NEW b, IsList(a), IsList(b), NEW role
  PROVE  Reached(a \o b, role) = Reached(a, role) \o Reached(b, role)
<1> DEFINE x == Reached(a, role)
           y == Reached(b, role)
           n == Len(a)
           m == Len(b)
           l == x \o y
           c == a \o b
<1>1. /\ IsList(x) /\ Len(x) = n /\ \A k \in 1..n : x[k] = Reaches(a[k], role)
      /\ IsList(y) /\ Len(y) = m /\ \A k \in 1..m : y[k] = Reaches(b[k], role)
  BY ReachedIs
<1>2. n \in Nat /\ m \in Nat
  BY ListIs
<1>3. /\ IsList(c) /\ Len(c) = n + m
      /\ \A k \in 1..n : c[k] = a[k]
      /\ \A k \in 1..m : c[n + k] = b[k]
  BY Joined2
<1> HIDE DEF x, y, c
<1>4. /\ IsList(l) /\ Len(l) = n + m
      /\ \A k \in 1..n : l[k] = x[k]
      /\ \A k \in 1..m : l[n + k] = y[k]
  <2>1. IsList(x) /\ IsList(y)
    BY <1>1
  <2>2. /\ IsList(l) /\ Len(l) = Len(x) + Len(y)
        /\ \A k \in 1..Len(x) : l[k] = x[k]
        /\ \A k \in 1..Len(y) : l[Len(x) + k] = y[k]
    BY ONLY <2>1, Joined2
  <2> HIDE DEF l
  <2> QED BY <1>1, <2>2
<1> HIDE DEF l, n, m
<1>5. ASSUME NEW k \in 1..(n + m) PROVE l[k] = Reaches(c[k], role)
  <2>1. CASE k \in 1..n
    BY <1>1, <1>3, <1>4, <2>1
  <2>2. CASE k \notin 1..n
    <3>1. k - n \in 1..m /\ n + (k - n) = k
      BY <1>2, <2>2
    <3>2. l[k] = y[k - n] /\ c[k] = b[k - n]
      BY <1>3, <1>4, <3>1
    <3> QED BY <1>1, <3>1, <3>2
  <2> QED BY <2>1, <2>2
<1>6. l = [k \in 1..(n + m) |-> l[k]]
  BY <1>4, ListIs
<1>7. Reached(c, role) = [k \in 1..(n + m) |-> Reaches(c[k], role)]
  BY <1>3, ReachedIs
<1>8. Reached(c, role) = l
  BY <1>5, <1>6, <1>7
<1> QED BY <1>8 DEF l, c, x, y

\* Of one block one saying is heard.
LEMMA ReachedOnes ==
  ASSUME NEW role
  PROVE  \A block : Reached(<<block>>, role) = <<Reaches(block, role)>>
<1> TAKE block
<1> DEFINE x == Reaches(block, role)
<1>1. DOMAIN <<block>> = {1} /\ <<block>>[1] = block
  OBVIOUS
<1>2. Reached(<<block>>, role) = [j \in {1} |-> x]
  BY <1>1 DEF Reached
<1> HIDE DEF x
<1>3. [j \in {1} |-> x] = <<x>>
  OBVIOUS
<1> QED BY <1>2, <1>3 DEF x

\* Normalising changes nothing of what a message says.
LEMMA SaysOf ==
  ASSUME NEW m \in ClientMessages, NEW at, NEW o, CameOf(m, at, o)
  PROVE  SaysTheSame(m, at, o)
<1>1. /\ m \in [role : STRING, content : Contents, calls : Seq(ClientCalls), listed : BOOLEAN,
                fcall : STRING, name : STRING, answers : ClientIds]
      /\ m.calls # <<>> => m.listed
  BY DEF ClientMessages
<1>2. Written(m.content, at, m.role) = Words(m.content, at, Speaker(m.role))
  BY WordsAre
<1>3. Speaker("assistant") = "assistant"
  BY DEF Speaker
<1>4. DOMAIN <<>> = {}
  OBVIOUS
<1>5. Calls(<<>>) = <<>>
  BY <1>4 DEF Calls
<1>6. CASE m.role # "function" /\ ~Older(m) /\ o = m
  <2>1. CASE m.role = "tool"
    <3>1. MessageSays(m, at) = <<Result(at)>> /\ OutSays(o, at) = <<Result(at)>>
      BY <1>6, <2>1 DEF MessageSays, OutSays
    <3> QED BY <1>6, <2>1, <3>1 DEF SaysTheSame, Calling
  <2>2. CASE m.role = "assistant" /\ m.calls # <<>>
    <3> DEFINE ids == [k \in DOMAIN m.calls |-> m.calls[k].id]
    <3>1. CallIds(m, at) = ids
      BY <1>1, <2>2 DEF CallIds
    <3>2. Calls(ids) = OutCalls(o)
      BY <1>6 DEF Calls, OutCalls, CallSaid
    <3>3. ids # <<>>
      <4> DEFINE calls == m.calls
      <4>1. calls \in Seq(ClientCalls) /\ calls # <<>>
        BY <1>1, <2>2
      <4> HIDE DEF calls
      <4>2. 1 \in DOMAIN calls
        BY <4>1
      <4>3. 1 \in DOMAIN ids
        BY <4>2 DEF calls
      <4> HIDE DEF ids
      <4> QED BY <1>4, <4>3
    <3>4. MessageSays(m, at) = Words(m.content, at, "assistant") \o Calls(CallIds(m, at))
      BY <1>2, <1>3, <2>2 DEF MessageSays
    <3>5. OutSays(o, at) = Words(m.content, at, "assistant") \o OutCalls(o)
      BY <1>6, <2>2 DEF OutSays
    <3> QED BY <1>1, <1>6, <2>2, <3>1, <3>2, <3>3, <3>4, <3>5 DEF SaysTheSame, Calling
  <2>3. CASE m.role = "assistant" /\ m.calls = <<>>
    <3>1. CallIds(m, at) = <<>>
      <4>1. [k \in DOMAIN m.calls |-> m.calls[k].id] = <<>>
        BY <1>4, <2>3
      <4> QED BY <1>6, <2>3, <4>1 DEF CallIds, Older
    <3> DEFINE words == Words(m.content, at, "assistant")
    <3>2. MessageSays(m, at) = words \o <<>>
      BY <1>2, <1>3, <1>5, <2>3, <3>1 DEF MessageSays
    <3>3. OutSays(o, at) = words
      BY <1>3, <1>6, <2>3 DEF OutSays
    <3>4. IsList(words)
      BY WordsFrom DEF AllWords
    <3> HIDE DEF words
    <3>5. words \o <<>> = words
      BY <3>4, JoinLaws
    <3> QED BY <1>6, <2>3, <3>1, <3>2, <3>3, <3>5 DEF SaysTheSame, Calling, Older
  <2>4. CASE m.role \notin {"tool", "assistant"}
    <3>1. MessageSays(m, at) = Words(m.content, at, Speaker(m.role))
      BY <1>2, <1>6, <2>4 DEF MessageSays
    <3>2. OutSays(o, at) = Words(m.content, at, Speaker(m.role))
      BY <1>6, <2>4 DEF OutSays
    <3> QED BY <1>6, <2>4, <3>1, <3>2 DEF SaysTheSame, Calling
  <2> QED BY <2>1, <2>2, <2>3, <2>4
<1>7. CASE Older(m) /\ o = WithToolCall(m, at)
  <2> DEFINE call == Call(Id(at, m.fcall), "function", m.fcall)
             id == Id(at, m.fcall)
             said == CallSaid(id)
  <2>1. /\ o.calls = <<call>> /\ o.listed /\ o.content = m.content /\ o.role = "assistant"
        /\ m.role = "assistant"
    BY <1>1, <1>7 DEF WithToolCall, Older
  <2>2. CallIds(m, at) = <<id>>
    BY <1>7 DEF CallIds, Older
  <2>3. call.id = id
    BY DEF Call
  <2>4. CallSaid(call.id) = said
    BY <2>3
  <2>5. OutCalls(o) = <<said>>
    <3> HIDE DEF call, said
    <3>1. OutCalls(o) = [k \in DOMAIN <<call>> |-> CallSaid(<<call>>[k].id)]
      BY <2>1 DEF OutCalls
    <3>2. DOMAIN <<call>> = {1} /\ <<call>>[1] = call
      OBVIOUS
    <3>3. OutCalls(o) = [k \in {1} |-> said]
      BY <2>4, <3>1, <3>2
    <3>4. [k \in {1} |-> said] = <<said>>
      OBVIOUS
    <3> QED BY <3>3, <3>4
  <2>6. Calls(<<id>>) = <<said>>
    <3>1. \A k \in {1} : Saying("call", 0, <<id>>[k], "assistant") = said
      BY DEF CallSaid
    <3> HIDE DEF id, said
    <3>2. Calls(<<id>>) = [k \in {1} |-> Saying("call", 0, <<id>>[k], "assistant")]
      <4>1. DOMAIN <<id>> = {1}
        OBVIOUS
      <4> QED BY <4>1 DEF Calls
    <3>3. Calls(<<id>>) = [k \in {1} |-> said]
      BY <3>1, <3>2 DEF id
    <3>4. [k \in {1} |-> said] = <<said>>
      OBVIOUS
    <3> QED BY <3>3, <3>4
  <2> HIDE DEF call, id, said
  <2>7. <<call>> # <<>> /\ <<id>> # <<>>
    OBVIOUS
  <2>8. MessageSays(m, at) = Words(m.content, at, "assistant") \o Calls(CallIds(m, at))
    BY <1>2, <1>3, <2>1 DEF MessageSays
  <2>9. OutSays(o, at) = Words(m.content, at, "assistant") \o OutCalls(o)
    BY <2>1, <2>7 DEF OutSays
  <2> QED BY <1>7, <2>1, <2>2, <2>5, <2>6, <2>7, <2>8, <2>9
     DEF SaysTheSame, Calling, Older
<1>8. CASE m.role = "function" /\ \E id : o = [Message("tool", m.content) EXCEPT !.answers = id]
  <2>1. o.role = "tool" /\ o.content = m.content
    BY <1>8 DEF Message
  <2>2. MessageSays(m, at) = <<Result(at)>> /\ OutSays(o, at) = <<Result(at)>>
    BY <1>8, <2>1 DEF MessageSays, OutSays
  <2> QED BY <1>8, <2>1, <2>2 DEF SaysTheSame, Calling
<1> QED BY <1>6, <1>7, <1>8 DEF CameOf

\* What is heard of the items a message becomes for Codex.
LEMMA HeardsAre ==
  ASSUME NEW n, NEW out, NEW at \in 1..n, NEW h, h = HeardsOf(out, n)
  PROVE  EntryHeards(out, at, h) /\ ItemLists(out, at, h)
<1> DEFINE m == out[at]
           content == CodexC!ContentOf(m.content, at)
           result == CodexC!ResultItem(out, m, at)
<1>1. \A x \in Entries(out, at) : h[x] = HeardOf(x)
  BY DEF HeardsOf
<1>2. \A role \in {"assistant", m.role} : CodexC!Item(role, content) \in Entries(out, at)
  BY DEF Entries
<1>3. result \in Entries(out, at)
  BY DEF Entries
<1>4. \A k \in DOMAIN m.calls : CodexC!CallItem(m.calls[k]) \in Entries(out, at)
  BY DEF Entries
<1>5. h[result] = <<Result(at)>>
  <2> DEFINE block == ResultBlock(out, at)
             role == CodexC!Developer(result).role
  <2>1. result = CodexC!Item(CodexC!Absent, <<block>>)
    BY DEF CodexC!ResultItem, ResultBlock
  <2>2. Reaches(block, role) = Result(at)
    BY DEF Reaches, KindOf, ResultBlock, CodexC!Block
  <2> HIDE DEF result, block
  <2>3. CodexC!Developer(result).content = <<block>>
    BY <2>1, DeveloperIs
  <2> HIDE DEF role
  <2>4. Reached(<<block>>, role) = <<Result(at)>>
    BY <2>2, ReachedOnes
  <2> QED BY <1>1, <1>3, <2>3, <2>4 DEF HeardOf, role
<1>6. ASSUME NEW k \in DOMAIN m.calls
      PROVE  h[CodexC!CallItem(m.calls[k])] = <<CallSaid(m.calls[k].id)>>
  <2> DEFINE item == CodexC!CallItem(m.calls[k])
             block == CallBlock(m.calls[k])
             role == CodexC!Developer(item).role
             said == CallSaid(m.calls[k].id)
  <2>1. item = CodexC!Item(CodexC!Absent, <<block>>)
    BY DEF CodexC!CallItem, CallBlock
  <2>2. item \in Entries(out, at)
    BY <1>4
  <2>3. Reaches(block, role) = said
    BY DEF Reaches, KindOf, CallBlock, CodexC!Block, CallSaid
  <2> HIDE DEF item, block, said
  <2>4. CodexC!Developer(item).content = <<block>>
    BY <2>1, DeveloperIs
  <2> HIDE DEF role
  <2>5. Reached(<<block>>, role) = <<said>>
    BY <2>3, ReachedOnes
  <2> QED BY <1>1, <2>2, <2>4, <2>5 DEF item, HeardOf, role, said
<1>7. ASSUME NEW role \in {"assistant", m.role}
      PROVE  h[CodexC!Item(role, content)] = Words(m.content, at, Speaker(role))
  <2> DEFINE item == CodexC!Item(role, content)
             by == CodexC!Developer(item).role
  <2>1. /\ CodexC!Developer(item).content = content
        /\ by = IF role = "system" THEN "developer" ELSE role
    BY DeveloperIs
  <2>2. content = ContentOf(m.content, at)
    BY SameContents
  <2>3. Speaker(by) = Speaker(role)
    BY <2>1 DEF Speaker
  <2>4. item \in Entries(out, at)
    BY <1>2
  <2> HIDE DEF item, by, content
  <2>5. Reached(ContentOf(m.content, at), by) = Words(m.content, at, Speaker(by))
    BY WordsAre
  <2> QED BY <1>1, <2>1, <2>2, <2>3, <2>4, <2>5 DEF HeardOf, item, by
<1>8. ItemLists(out, at, h)
  <2>1. IsList(h[result])
    BY <1>5, ShortLists
  <2>2. \A k \in DOMAIN m.calls : IsList(h[CodexC!CallItem(m.calls[k])])
    BY <1>6, ShortLists
  <2>3. \A role \in {"assistant", m.role} : IsList(h[CodexC!Item(role, content)])
    BY <1>7, WordsFrom DEF AllWords
  <2> QED BY <2>1, <2>2, <2>3 DEF ItemLists, Entries
<1> QED BY <1>5, <1>6, <1>7, <1>8 DEF EntryHeards

\* Of the items of a message just what it says is heard.
LEMMA HeardAsSaid ==
  ASSUME NEW out, NEW at, IsList(CallsIn(out[at])), NEW h, EntryHeards(out, at, h),
         NEW list, OfItems(out, at, h, list)
  PROVE  list = OutSays(out[at], at)
<1> DEFINE m == out[at]
<1>1. /\ h[CodexC!ResultItem(out, m, at)] = <<Result(at)>>
      /\ \A k \in DOMAIN m.calls : h[CodexC!CallItem(m.calls[k])] = <<CallSaid(m.calls[k].id)>>
      /\ \A role \in {"assistant", m.role} :
            h[CodexC!Item(role, CodexC!ContentOf(m.content, at))]
              = Words(m.content, at, Speaker(role))
  BY DEF EntryHeards
<1>2. CASE m.role = "tool"
  BY <1>1, <1>2 DEF OfItems, OutSays
<1>3. CASE m.role = "assistant" /\ m.calls # <<>>
  <2> DEFINE c == Len(m.calls)
             words == Words(m.content, at, "assistant")
             b == OutCalls(m)
             e == [k \in DOMAIN m.calls |-> h[CodexC!CallItem(m.calls[k])]]
  <2>1. c \in Nat /\ DOMAIN m.calls = 1..c
    BY <1>3, ListIs DEF CallsIn
  <2>2. h[CodexC!Item("assistant", CodexC!ContentOf(m.content, at))] = words
    BY <1>1 DEF Speaker
  <2>3. m.content \in {Absent, "empty"} => words = <<>>
    BY DEF Words, Absent, Texts
  <2>4. list = words \o FlattenSeq(e)
    <3>1. list = (IF m.content \in {Absent, "empty"} THEN <<>>
                  ELSE h[CodexC!Item("assistant", CodexC!ContentOf(m.content, at))])
                   \o FlattenSeq(e)
      BY <1>3 DEF OfItems
    <3> HIDE DEF e, words
    <3> QED BY <2>2, <2>3, <3>1
  <2>5. b = [k \in 1..c |-> CallSaid(m.calls[k].id)]
    BY <2>1 DEF OutCalls
  <2>6. b = [k \in 1..c |-> b[k]] /\ \A k \in 1..c : b[k] = CallSaid(m.calls[k].id)
    BY <2>5
  <2> HIDE DEF b, c
  <2>7. e = [k \in 1..c |-> <<b[k]>>]
    BY <1>1, <2>1, <2>6
  <2> HIDE DEF e
  <2>8. FlattenSeq(e) = b
    <3>1. c \in Nat
      BY <2>1
    <3>2. b = [k \in 1..c |-> b[k]]
      BY <2>6
    <3> QED BY ONLY <2>7, <3>1, <3>2, FlatOnes
  <2>9. OutSays(m, at) = words \o b
    BY <1>3 DEF OutSays, b
  <2> QED BY <2>4, <2>8, <2>9
<1>4. CASE m.role # "tool" /\ ~(m.role = "assistant" /\ m.calls # <<>>)
  BY <1>1, <1>4 DEF OfItems, OutSays
<1> QED BY <1>2, <1>3, <1>4

\* Codex hears what is said in a chat.
LEMMA CodexHearsChat ==
  ASSUME BodyInv, api = "chat", Accepted(answers.codex)
  PROVE  Heard(CodexBody.input) = Said
<1> DEFINE n == Len(items)
           out == Normalized(items).out
           h == HeardsOf(out, n)
           g == [at \in 1..n |-> FlatMap(CodexC!ToItems(out, at), h)]
           input == CodexC!MessagesToInput(out)
<1>1. /\ n \in Nat /\ Came(items, out, n) /\ DOMAIN out = 1..n
      /\ \A at \in 1..n : IsList(CallsIn(out[at]))
      /\ CodexBody.input = CodexChatInput(out)
  BY CodexChatOut
<1>2. /\ DOMAIN items = 1..n
      /\ \A at \in 1..n : items[at] \in ClientMessages /\ CameOf(items[at], at, out[at])
  BY <1>1 DEF Came
<1> HIDE DEF h, g, n, out
<1>3. \A at \in 1..n : EntryHeards(out, at, h) /\ ItemLists(out, at, h)
  BY HeardsAre DEF h
<1>4. Itemized(out, h, n)
  BY <1>1, <1>3 DEF Itemized
<1>5. /\ FlatMap(input, h) = FlattenSeq(g)
      /\ \A at \in 1..n : OfItems(out, at, h, g[at])
  <2>1. n \in Nat
    BY <1>1
  <2>2. g = [at \in 1..n |-> FlatMap(CodexC!ToItems(out, at), h)]
    BY DEF g
  <2>3. /\ FlatMap(CodexC!MessagesToInput(out), h) = FlattenSeq(g)
        /\ \A at \in 1..n : OfItems(out, at, h, g[at])
    BY ONLY <1>4, <2>1, <2>2, InputMap
  <2> QED BY <2>3
<1>6. Heard(CodexChatInput(out)) = FlatMap(input, h)
  <2>1. \A k \in DOMAIN input : \E at \in 1..n : input[k] \in Entries(out, at)
    BY <1>1, InputIs
  <2>2. CodexChatInput(out) = [k \in DOMAIN input |-> CodexC!Developer(input[k])]
    BY DEF CodexChatInput
  <2> HIDE DEF input
  <2>3. ASSUME NEW k \in DOMAIN input PROVE h[input[k]] = HeardOf(input[k])
    <3>1. input[k] \in UNION {Entries(out, at) : at \in 1..n}
      BY <2>1
    <3> QED BY <3>1 DEF h, HeardsOf
  <2> DEFINE sent == CodexChatInput(out)
  <2>4. [k \in DOMAIN sent |-> Reached(sent[k].content, sent[k].role)]
          = [k \in DOMAIN input |-> h[input[k]]]
    BY <2>2, <2>3 DEF HeardOf
  <2>5. Heard(sent) = FlattenSeq([k \in DOMAIN sent |-> Reached(sent[k].content, sent[k].role)])
    BY DEF Heard, Reached
  <2> HIDE DEF sent
  <2> QED BY <2>4, <2>5 DEF FlatMap, sent
<1>7. ASSUME NEW at \in 1..n PROVE g[at] = MessageSays(items[at], at)
  <2>1. IsList(CallsIn(out[at])) /\ EntryHeards(out, at, h) /\ OfItems(out, at, h, g[at])
    BY <1>1, <1>3, <1>5
  <2> DEFINE list == g[at]
  <2> HIDE DEF list
  <2>2. IsList(CallsIn(out[at])) /\ EntryHeards(out, at, h) /\ OfItems(out, at, h, list)
    BY <2>1 DEF list
  <2>3. list = OutSays(out[at], at)
    BY ONLY <2>2, HeardAsSaid
  <2>4. SaysTheSame(items[at], at, out[at])
    BY <1>2, SaysOf
  <2> QED BY <2>3, <2>4 DEF list, SaysTheSame
<1>8. g = [at \in 1..n |-> MessageSays(items[at], at)]
  <2>1. g = [at \in 1..n |-> g[at]]
    BY DEF g
  <2> QED BY <1>7, <2>1
<1>9. Said = FlattenSeq(g)
  BY <1>2, <1>8 DEF Said
<1> QED BY <1>1, <1>5, <1>6, <1>9

\* These are its sayings, and Codex hears them.
LEMMA ItemHeard ==
  ASSUME NEW item, NEW at, NEW sent, sent = CodexR!Item(item, at)
  PROVE  /\ ItemSays(item, at) = ItemWords(item, at)
         /\ Reached(sent.content, sent.role) = ItemWords(item, at)
<1>1. /\ CodexR!CallTypes = ClaudeR!CallTypes /\ CodexR!OutputTypes = ClaudeR!OutputTypes
      /\ ClaudeR!CallTypes = {"function_call", "custom_tool_call"}
      /\ ClaudeR!OutputTypes = {"function_call_output", "custom_tool_call_output"}
  BY DEF CodexR!CallTypes, ClaudeR!CallTypes, CodexR!OutputTypes, ClaudeR!OutputTypes
<1>2. CASE item.type \in ClaudeR!CallTypes
  <2> DEFINE id == item.id
             said == CallSaid(id)
             block == CodexR!Block(item.type, 0, id)
             role == sent.role
  <2>1. sent.content = <<block>>
    BY <1>1, <1>2 DEF CodexR!Item
  <2>2. Reaches(block, role) = said
    BY <1>1, <1>2 DEF Reaches, KindOf, CodexR!Block, CallSaid
  <2>3. ItemSays(item, at) = Calls(<<id>>)
    BY <1>1, <1>2 DEF ItemSays
  <2>4. ItemWords(item, at) = <<said>>
    BY <1>1, <1>2 DEF ItemWords
  <2>5. Calls(<<id>>) = <<said>>
    <3>1. \A k \in {1} : Saying("call", 0, <<id>>[k], "assistant") = said
      BY DEF CallSaid
    <3> HIDE DEF id, said
    <3>2. DOMAIN <<id>> = {1}
      OBVIOUS
    <3>3. Calls(<<id>>) = [k \in {1} |-> said]
      BY <3>1, <3>2 DEF Calls, id
    <3>4. [k \in {1} |-> said] = <<said>>
      OBVIOUS
    <3> QED BY <3>3, <3>4
  <2> HIDE DEF id, said, block, role
  <2>6. Reached(<<block>>, role) = <<said>>
    BY <2>2, ReachedOnes
  <2> QED BY <2>1, <2>3, <2>4, <2>5, <2>6 DEF role
<1>3. CASE item.type \in ClaudeR!OutputTypes
  <2> DEFINE said == Result(at)
             block == CodexR!Block(item.type, at, item.id)
             role == sent.role
  <2>1. sent.content = <<block>>
    BY <1>1, <1>3 DEF CodexR!Item
  <2>2. Reaches(block, role) = said
    BY <1>1, <1>3 DEF Reaches, KindOf, CodexR!Block
  <2>3. ItemSays(item, at) = <<said>>
    BY <1>1, <1>3 DEF ItemSays
  <2>4. ItemWords(item, at) = <<said>>
    BY <1>1, <1>3 DEF ItemWords
  <2> HIDE DEF said, block, role
  <2>5. Reached(<<block>>, role) = <<said>>
    BY <2>2, ReachedOnes
  <2> QED BY <2>1, <2>3, <2>4, <2>5 DEF role
<1>4. CASE item.type \notin ClaudeR!CallTypes \cup ClaudeR!OutputTypes
  <2>1. /\ sent.content = ContentOf(item.content, at)
        /\ sent.role = IF item.role = "system" THEN "developer" ELSE item.role
    BY <1>1, <1>4, SameContents DEF CodexR!Item
  <2>2. Speaker(sent.role) = Speaker(item.role)
    BY <2>1 DEF Speaker
  <2>3. Reached(ContentOf(item.content, at), sent.role)
            = Words(item.content, at, Speaker(sent.role))
    BY WordsAre
  <2>4. ItemSays(item, at) = Words(item.content, at, Speaker(item.role))
    <3>1. ItemSays(item, at) = Written(item.content, at, item.role)
      BY <1>1, <1>4 DEF ItemSays
    <3> QED BY <3>1, WordsAre
  <2>5. ItemWords(item, at) = Words(item.content, at, Speaker(item.role))
    BY <1>4 DEF ItemWords
  <2> QED BY <2>1, <2>2, <2>3, <2>4, <2>5
<1> QED BY <1>2, <1>3, <1>4

\* What is said over the Responses API.
LEMMA SaidInItems ==
  ASSUME BodyInv, api = "responses"
  PROVE  /\ Len(items) \in Nat /\ DOMAIN items = 1..Len(items)
         /\ items \in Seq(ClientItems)
         /\ Said = FlattenSeq([at \in 1..Len(items) |-> ItemWords(items[at], at)])
<1>1. items \in Seq(ClientItems)
  <2>1. items \in Seq(Items)
    BY DEF BodyInv, Sayable
  <2> QED BY <2>1, ItemsAssumption
<1>2. Len(items) \in Nat /\ DOMAIN items = 1..Len(items)
  BY <1>1
<1>3. \A at : ItemSays(items[at], at) = ItemWords(items[at], at)
  BY ItemHeard
<1>4. [at \in DOMAIN items |-> IF api = "chat" THEN MessageSays(items[at], at)
                               ELSE ItemSays(items[at], at)]
        = [at \in 1..Len(items) |-> ItemWords(items[at], at)]
  BY <1>2, <1>3
<1> QED BY <1>1, <1>2, <1>4 DEF Said

\* Codex hears what is said over the Responses API.
LEMMA CodexHearsItems ==
  ASSUME BodyInv, api = "responses", Accepted(answers.codex)
  PROVE  Heard(CodexBody.input) = (IF InMessages THEN <<>> ELSE Said)
<1> DEFINE given == ClaudeR!InputOf(items, settings)
           n == Len(given)
           input == CodexBody.input
           g == [at \in 1..n |-> ItemWords(given[at], at)]
<1>1. GivenOf(given, n) /\ input = [k \in 1..n |-> CodexR!Item(given[k], k)]
  BY CodexResponsesOut
<1> HIDE DEF given, n
<1>2. n \in Nat /\ DOMAIN given = 1..n /\ given = (IF InMessages THEN <<>> ELSE items)
  BY <1>1 DEF GivenOf
<1>3. \A at \in 1..n : Reached(input[at].content, input[at].role) = ItemWords(given[at], at)
  BY <1>1, ItemHeard
<1>4. DOMAIN input = 1..n
  BY <1>1
<1> HIDE DEF input
<1>5. [k \in DOMAIN input |-> Reached(input[k].content, input[k].role)] = g
  BY <1>3, <1>4
<1>6. Heard(input) = FlattenSeq(g)
  <2>1. Heard(input)
          = FlattenSeq([k \in DOMAIN input |-> Reached(input[k].content, input[k].role)])
    BY DEF Heard, Reached
  <2> QED BY <1>5, <2>1
<1>7. CASE InMessages
  <2>1. n = 0
    <3>1. Len(<<>>) = 0
      OBVIOUS
    <3> QED BY <1>2, <1>7, <3>1 DEF n
  <2>2. AreLists(g, n)
    <3>1. \A at \in 1..n : IsList(g[at])
      BY <2>1
    <3> QED BY <3>1 DEF AreLists
  <2> HIDE DEF g
  <2>3. FlattenSeq(g) = <<>>
    BY <1>2, <2>1, <2>2, FlatIs
  <2> QED BY <1>6, <1>7, <2>3 DEF input
<1>8. CASE ~InMessages
  <2>1. given = items /\ n = Len(items)
    BY <1>2, <1>8 DEF n
  <2>2. Said = FlattenSeq(g)
    BY <2>1, SaidInItems
  <2> QED BY <1>6, <1>8, <2>2 DEF input
<1> QED BY <1>7, <1>8

\* The first message is heard before the others.
LEMMA HeardFirst ==
  ASSUME NEW first, IsList(first.content), NEW messages, AllLists(messages)
  PROVE  /\ Heard(<<first>> \o messages) = Reached(first.content, first.role) \o Heard(messages)
         /\ IsList(Heard(messages))
<1> DEFINE T == {first} \cup {messages[k] : k \in DOMAIN messages}
           h == [x \in T |-> Reached(x.content, x.role)]
           one == <<first>>
           all == one \o messages
<1>1. \A x \in T : IsList(h[x])
  BY ReachedIs DEF AllLists
<1>2. ASSUME NEW list, \A k \in DOMAIN list : list[k] \in T
      PROVE  Heard(list) = FlatMap(list, h)
  <2>1. Heard(list) = FlattenSeq([k \in DOMAIN list |-> Reached(list[k].content, list[k].role)])
    BY DEF Heard, Reached
  <2>2. [k \in DOMAIN list |-> Reached(list[k].content, list[k].role)]
          = [k \in DOMAIN list |-> h[list[k]]]
    BY <1>2
  <2> QED BY <2>1, <2>2 DEF FlatMap
<1>3. /\ \A k \in DOMAIN messages : messages[k] \in T
      /\ h[first] = Reached(first.content, first.role) /\ first \in T
  OBVIOUS
<1> HIDE DEF T, h
<1>4. Maps(one, h) /\ FlatMap(one, h) = h[first]
  BY <1>1, <1>3, MapOne
<1>5. Maps(messages, h)
  BY <1>1, <1>3 DEF Maps, AllLists
<1>6. FlatMap(all, h) = FlatMap(one, h) \o FlatMap(messages, h)
  <2> HIDE DEF one
  <2>1. Maps(one, h) /\ Maps(messages, h)
    BY <1>4, <1>5
  <2> QED BY ONLY <2>1, MapJoined DEF all
<1>7. \A k \in DOMAIN all : all[k] \in T
  <2>1. messages \in Seq(T)
    <3>1. messages = [k \in 1..Len(messages) |-> messages[k]] /\ Len(messages) \in Nat
          /\ DOMAIN messages = 1..Len(messages)
      BY ListIs DEF AllLists
    <3> QED BY <1>3, <3>1, AList
  <2>2. one \in Seq(T)
    BY <1>3
  <2> HIDE DEF one
  <2>3. all \in Seq(T)
    BY <2>1, <2>2
  <2> HIDE DEF all
  <2> QED BY <2>3
<1> HIDE DEF one, all
<1>8. Heard(all) = FlatMap(all, h) /\ Heard(messages) = FlatMap(messages, h)
  BY <1>2, <1>3, <1>7
<1>9. IsList(FlatMap(messages, h))
  <2> DEFINE f == [k \in DOMAIN messages |-> h[messages[k]]]
  <2>1. f = [k \in DOMAIN messages |-> h[messages[k]]]
    OBVIOUS
  <2> HIDE DEF f
  <2> QED BY ONLY <1>5, <2>1, MapIs
<1> QED BY <1>3, <1>4, <1>6, <1>8, <1>9 DEF all, one

\* What is heard of the messages at some places, in order.
LEMMA HeardInOrder ==
  ASSUME NEW n \in Nat, NEW places, NEW f, \A at \in places \cap 1..n : IsList(f[at].content),
         NEW order, order = InOrder(places, n),
         NEW messages, messages = [k \in DOMAIN order |-> f[order[k]]]
  PROVE  /\ AllLists(messages) /\ AreLists(Placed(f, places, n), n)
         /\ Heard(messages) = FlattenSeq(Placed(f, places, n))
<1> DEFINE h == [at \in 1..n |-> Reached(f[at].content, f[at].role)]
           g == Placed(f, places, n)
<1>1. \A at \in places \cap 1..n : IsList(h[at])
  BY ReachedIs
<1>2. g = [at \in 1..n |-> IF at \in places THEN h[at] ELSE <<>>]
  BY DEF Placed
<1>3. \A at \in 1..n : h[at] = Reached(f[at].content, f[at].role)
  OBVIOUS
<1> HIDE DEF h, g
<1>4. AreLists(g, n) /\ FlatMap(order, h) = FlattenSeq(g)
  <2>0. n \in Nat
    OBVIOUS
  <2>1. AreLists(g, n) /\ FlatMap(InOrder(places, n), h) = FlattenSeq(g)
    BY ONLY <1>1, <1>2, <2>0, MapInOrder
  <2> QED BY <2>1
<1>5. order \in Seq(places \cap 1..n)
  BY InOrderIs
<1> DEFINE S == places \cap 1..n
<1>6. Len(order) \in Nat /\ DOMAIN order = 1..Len(order) /\ \A k \in DOMAIN order : order[k] \in S
  <2>1. order \in Seq(S)
    BY <1>5
  <2> HIDE DEF S
  <2> QED BY <2>1
<1>7. messages = [k \in 1..Len(order) |-> messages[k]] /\ DOMAIN messages = 1..Len(order)
  BY <1>6
<1>8. \A k \in 1..Len(order) : messages[k] = f[order[k]]
  BY <1>6
<1>9. AllLists(messages)
  <2>1. IsList(messages)
    BY <1>6, <1>7, AList, ZenonT(30)
  <2>2. \A k \in DOMAIN messages : IsList(messages[k].content)
    BY <1>6, <1>7, <1>8
  <2> QED BY <2>1, <2>2 DEF AllLists
<1>10. Heard(messages) = FlatMap(order, h)
  <2>1. Heard(messages)
          = FlattenSeq([k \in DOMAIN messages |-> Reached(messages[k].content, messages[k].role)])
    BY DEF Heard, Reached
  <2>2. \A k \in DOMAIN order : h[order[k]] = Reached(messages[k].content, messages[k].role)
    BY <1>3, <1>6, <1>8
  <2>3. [k \in DOMAIN messages |-> Reached(messages[k].content, messages[k].role)]
          = [k \in DOMAIN order |-> h[order[k]]]
    BY <1>6, <1>7, <2>2
  <2> QED BY <2>1, <2>3 DEF FlatMap
<1> QED BY <1>4, <1>9, <1>10 DEF g

\* The parts of what is to be heard are the lists of the parts of each.
LEMMA SystemFirstIs ==
  ASSUME NEW n \in Nat, NEW q, AreLists(q, n)
  PROVE  /\ AreLists(Parted("system", q, n), n) /\ AreLists(Parted("others", q, n), n)
         /\ SystemFirst(ToBeHeard(FlattenSeq(q)))
              = FlattenSeq(Parted("system", q, n)) \o FlattenSeq(Parted("others", q, n))
<1> DEFINE said == FlattenSeq(q)
           u == [at \in 1..n |-> PartOf("heard", q[at])]
           heard == PartOf("heard", said)
<1>1. AreLists(u, n) /\ heard = FlattenSeq(u)
  <2>1. u = [at \in 1..n |-> PartOf("heard", q[at])]
    OBVIOUS
  <2> HIDE DEF u
  <2> QED BY <2>1, PartFlat
<1>2. ToBeHeard(said) = heard
  <2> HIDE DEF said
  <2>1. \A x : IsOf("heard", x) <=> ~Unheard(x)
    BY DEF IsOf
  <2>2. {k \in DOMAIN said : ~Unheard(said[k])} = {k \in DOMAIN said : IsOf("heard", said[k])}
    BY <2>1
  <2> QED BY <2>2 DEF ToBeHeard, PartOf
<1>3. \A at \in 1..n : u[at] = PartOf("heard", q[at])
  OBVIOUS
<1> HIDE DEF u, heard, said
<1>4. ASSUME NEW part
      PROVE  AreLists(Parted(part, q, n), n) /\ PartOf(part, heard) = FlattenSeq(Parted(part, q, n))
  <2> DEFINE g == Parted(part, q, n)
  <2>1. g = [at \in 1..n |-> PartOf(part, u[at])]
    BY <1>3 DEF Parted
  <2> HIDE DEF g
  <2>2. n \in Nat /\ AreLists(u, n)
    BY <1>1
  <2>3. AreLists(g, n) /\ PartOf(part, FlattenSeq(u)) = FlattenSeq(g)
    BY ONLY <2>1, <2>2, PartFlat
  <2> QED BY <1>1, <2>3 DEF g
<1>5. SystemFirst(heard) = PartOf("system", heard) \o PartOf("others", heard)
  <2> DEFINE system == {k \in DOMAIN heard : heard[k].by = "developer"}
  <2>1. \A x : /\ IsOf("system", x) <=> x.by = "developer"
               /\ IsOf("others", x) <=> x.by # "developer"
    BY DEF IsOf
  <2>2. /\ system = {k \in DOMAIN heard : IsOf("system", heard[k])}
        /\ DOMAIN heard \ system = {k \in DOMAIN heard : IsOf("others", heard[k])}
    BY <2>1
  <2> QED BY <2>2 DEF SystemFirst, PartOf
<1> QED BY <1>2, <1>4, <1>5 DEF said

\* What one party has said is the developer's or the others'.
LEMMA PartsBy ==
  ASSUME NEW list, NEW by, AllBy(list, by)
  PROVE  /\ by = "developer" => PartOf("system", list) = list /\ PartOf("others", list) = <<>>
         /\ by # "developer" => PartOf("others", list) = list /\ PartOf("system", list) = <<>>
<1>1. \A x : /\ IsOf("system", x) <=> x.by = "developer"
             /\ IsOf("others", x) <=> x.by # "developer"
  BY DEF IsOf
<1>2. IsList(list) /\ \A k \in 1..Len(list) : list[k].by = by
  BY DEF AllBy
<1> QED BY <1>1, <1>2, PartLaws

\* What is heard for Claude, of a chat: words that are not an array beside tool calls,
\* and all calls and results; the client has said all of it.
LEMMA ChatWords ==
  ASSUME api = "chat", NEW at \in Nat \ {0}, NEW by, NEW list, AllWords(list, at, by)
  PROVE  /\ BesideCalls(at) => PartOf("heard", list) = <<>>
         /\ ~BesideCalls(at) => PartOf("heard", list) = list
         /\ PartOf("clients", list) = list
         /\ AllBy(list, by)
<1>1. IsList(list) /\ \A k \in 1..Len(list) :
        list[k].kind \in {"text", "image"} /\ list[k].at = at /\ list[k].by = by
  BY DEF AllWords
<1>2. \A k \in 1..Len(list) : Unheard(list[k]) <=> BesideCalls(at)
  <2>1. "chat" # "responses"
    OBVIOUS
  <2> QED BY <1>1, <2>1 DEF Unheard, UnheardSystem, InMessages
<1>3. \A k \in 1..Len(list) : IsOf("heard", list[k]) <=> ~BesideCalls(at)
  BY <1>2 DEF IsOf
<1>4. \A k \in 1..Len(list) : IsOf("clients", list[k])
  <2>1. NoText.at = 0 /\ ClaudeR!InstructionsText.at = -1
    BY DEF NoText, Text, Block, ClaudeR!InstructionsText, ClaudeR!Text, ClaudeR!Block
  <2>2. at # 0 /\ at # -1
    OBVIOUS
  <2> QED BY <1>1, <2>1, <2>2 DEF IsOf, Invented
<1>5. AllBy(list, by)
  BY <1>1 DEF AllBy
<1> QED BY <1>1, <1>3, <1>4, <1>5, PartLaws

\* A call or a result of a chat is heard, the client's, and of one party.
LEMMA ChatDeeds ==
  ASSUME api = "chat", NEW by, NEW list, Deeds(list, by)
  PROVE  /\ PartOf("heard", list) = list /\ PartOf("clients", list) = list
         /\ AllBy(list, by)
<1>1. IsList(list) /\ \A k \in 1..Len(list) :
        list[k].kind \in {"call", "result"} /\ list[k].by = by
  BY DEF Deeds
<1>2. \A k \in 1..Len(list) : ~Unheard(list[k])
  <2>1. "chat" # "responses"
    OBVIOUS
  <2> QED BY <1>1, <2>1 DEF Unheard, UnheardSystem, InMessages
<1>3. \A k \in 1..Len(list) : IsOf("heard", list[k]) /\ IsOf("clients", list[k])
  BY <1>1, <1>2 DEF IsOf, Invented
<1>4. AllBy(list, by)
  BY <1>1 DEF AllBy
<1> QED BY <1>1, <1>3, <1>4, PartLaws

\* A result, and the calls of a message.
LEMMA DeedsAre ==
  ASSUME NEW at
  PROVE  /\ Deeds(<<Result(at)>>, "user")
         /\ \A o : IsList(o.calls) => Deeds(OutCalls(o), "assistant")
<1>1. Deeds(<<Result(at)>>, "user")
  <2> DEFINE x == Result(at)
  <2>1. x.kind = "result" /\ x.by = "user"
    BY DEF Result, Saying
  <2> HIDE DEF x
  <2>2. IsList(<<x>>) /\ Len(<<x>>) = 1 /\ <<x>>[1] = x
    BY ShortLists
  <2>3. Deeds(<<x>>, "user")
    BY <2>1, <2>2 DEF Deeds
  <2> QED BY <2>3 DEF x
<1>2. ASSUME NEW o, IsList(o.calls) PROVE Deeds(OutCalls(o), "assistant")
  <2> DEFINE n == Len(o.calls)
             list == OutCalls(o)
  <2>1. n \in Nat /\ DOMAIN o.calls = 1..n
    BY <1>2, ListIs
  <2>2. list = [k \in 1..n |-> CallSaid(o.calls[k].id)]
    BY <2>1 DEF OutCalls
  <2> HIDE DEF list, n
  <2>3. list = [k \in 1..n |-> list[k]] /\ \A k \in 1..n : list[k] = CallSaid(o.calls[k].id)
    BY <2>2
  <2>4. IsList(list) /\ Len(list) = n
    BY <2>1, <2>3, AList
  <2>5. \A id : CallSaid(id).kind = "call" /\ CallSaid(id).by = "assistant"
    BY DEF CallSaid, Saying
  <2>6. \A k \in 1..n : list[k].kind = "call" /\ list[k].by = "assistant"
    BY <2>3, <2>5
  <2> QED BY <2>4, <2>6 DEF Deeds, list
<1> QED BY <1>1, <1>2

\* Words that reach it as they are.
LEMMA ClaudeWords ==
  ASSUME api = "chat", NEW at \in Nat \ {0}, ~BesideCalls(at),
         NEW o, o.role \in {"user", "assistant"}, ~Calling(o),
         o.calls # <<>> => o.listed
  PROVE  Passed(o, at)
<1> DEFINE made == ClaudeC!ToClaude(o, at)
           list == Words(o.content, at, Speaker(o.role))
<1>1. /\ made.content = ContentOf(o.content, at) /\ made.role = o.role
  <2>1. ClaudeC!ContentOf(o.content, at) = ContentOf(o.content, at)
    BY SameContents
  <2> QED BY <2>1 DEF ClaudeC!ToClaude, Calling
<1>2. OutSays(o, at) = list
  BY DEF OutSays, Calling
<1>3. Reached(ContentOf(o.content, at), o.role) = list
  BY WordsAre
<1>4. Speaker(o.role) # "developer"
  BY DEF Speaker
<1>5. AllWords(list, at, Speaker(o.role))
  BY WordsFrom
<1>6. IsList(ContentOf(o.content, at))
  BY WrittenIs DEF NoResults
<1> HIDE DEF made, list
<1>7. /\ PartOf("heard", list) = list /\ PartOf("clients", list) = list
      /\ AllBy(list, Speaker(o.role))
  BY <1>5, ChatWords
<1>8. PartOf("others", list) = list /\ PartOf("system", list) = <<>>
  BY <1>4, <1>7, PartsBy
<1> QED BY <1>1, <1>2, <1>3, <1>6, <1>7, <1>8 DEF Passed, made

\* A result.
LEMMA ClaudeResult ==
  ASSUME api = "chat", NEW at, NEW o, o.role = "tool"
  PROVE  Passed(o, at)
<1> DEFINE made == ClaudeC!ToClaude(o, at)
           block == ClaudeC!ToolResult(o.answers, at)
           said == Result(at)
           list == <<said>>
<1>1. made.content = <<block>>
  BY DEF ClaudeC!ToClaude
<1>2. OutSays(o, at) = list
  BY DEF OutSays
<1>3. Reaches(block, made.role) = said
  BY DEF Reaches, KindOf, ClaudeC!ToolResult, ClaudeC!Block
<1>4. Deeds(list, "user")
  BY DeedsAre
<1> HIDE DEF made, block, said
<1>5. Reached(<<block>>, made.role) = list /\ IsList(<<block>>)
  BY <1>3, ReachedOnes, ShortLists
<1> HIDE DEF list
<1>6. PartOf("heard", list) = list /\ PartOf("clients", list) = list /\ AllBy(list, "user")
  BY <1>4, ChatDeeds
<1>7. PartOf("others", list) = list /\ PartOf("system", list) = <<>>
  <2> DEFINE by == "user"
  <2>1. AllBy(list, by) /\ by # "developer"
    BY <1>6
  <2> HIDE DEF by
  <2> QED BY <2>1, PartsBy
<1> QED BY <1>1, <1>2, <1>5, <1>6, <1>7 DEF Passed, made

\* The words beside calls: a string is sent, an array leaves an empty text.
LEMMA ClaudeBeside ==
  ASSUME api = "chat", NEW at \in Nat \ {0}, NEW o, BesideCalls(at) <=> o.content \in Lists,
         NEW text, text = ClaudeC!TextBeside(o, at),
         NEW said, said = Words(o.content, at, "assistant")
  PROVE  /\ IsList(text) /\ IsList(said) /\ AllBy(PartOf("heard", said), "assistant")
         /\ PartOf("clients", Reached(text, "assistant")) = PartOf("heard", said)
<1> DEFINE by == "assistant"
<1>1. AllWords(said, at, by)
  BY WordsFrom
<1>2. /\ BesideCalls(at) => PartOf("heard", said) = <<>>
      /\ ~BesideCalls(at) => PartOf("heard", said) = said
      /\ PartOf("clients", said) = said
      /\ AllBy(said, by)
  <2> HIDE DEF by
  <2> QED BY <1>1, ChatWords
<1>3. AllBy(<<>>, by) /\ IsList(<<>>) /\ Reached(<<>>, by) = <<>>
  <2>1. IsList(<<>>) /\ Len(<<>>) = 0 /\ DOMAIN <<>> = {}
    BY ShortLists
  <2> QED BY <2>1 DEF AllBy, Reached
<1>4. Speaker(by) = by
  BY DEF Speaker
<1>5. CASE o.content \in {"string", "draw"}
  <2>1. o.content \notin Lists
    BY <1>5 DEF Lists, Malformed
  <2>2. ContentOf(o.content, at) = <<Text(at)>>
    BY <1>5 DEF ContentOf, Texts
  <2>3. text = <<Text(at)>>
    BY <1>5 DEF ClaudeC!TextBeside, ClaudeC!Lists, ClaudeC!Malformed, ClaudeC!Text, ClaudeC!Block, ClaudeC!NoId, ClaudeC!Id,
       Text, Block, NoId, Id
  <2>4. Reached(text, by) = said
    BY <1>4, <2>2, <2>3, WordsAre, SMTT(30)
  <2>5. IsList(text)
    BY <2>3, ShortLists
  <2> QED BY <1>2, <2>1, <2>4, <2>5 DEF AllBy
<1>6. CASE o.content \in Lists
  <2> DEFINE none == ClaudeC!NoText
             x == Reaches(none, by)
  <2>2. text = <<none>>
    BY <1>6 DEF ClaudeC!TextBeside, ClaudeC!Lists, ClaudeC!Malformed, Lists, Malformed
  <2>3. Invented(x)
    BY DEF Invented, Reaches, KindOf, Saying, ClaudeC!NoText, ClaudeC!Text, ClaudeC!Block,
       NoText, Text, Block
  <2> HIDE DEF none
  <2>4. Reached(text, by) = <<x>> /\ IsList(text)
    BY <2>2, ReachedOnes, ShortLists
  <2> HIDE DEF x
  <2>5. IsList(<<x>>) /\ Len(<<x>>) = 1 /\ <<x>>[1] = x
    BY ShortLists
  <2>6. ~IsOf("clients", x)
    BY <2>3 DEF IsOf
  <2>7. \A k \in 1..Len(<<x>>) : ~IsOf("clients", <<x>>[k])
    BY <2>5, <2>6
  <2>8. PartOf("clients", <<x>>) = <<>>
    BY <2>5, <2>7, PartLaws
  <2> QED BY <1>2, <1>3, <1>6, <2>4, <2>8 DEF AllBy
<1>7. CASE o.content \notin {"string", "draw"} \cup Lists
  <2>1. said = <<>>
    <3>1. o.content # "picture" /\ o.content \notin Texts \ {"picture"}
      BY <1>7 DEF Texts, Lists
    <3> QED BY <3>1 DEF Words
  <2>2. text = <<>>
    BY <1>7 DEF ClaudeC!TextBeside, ClaudeC!Lists, ClaudeC!Malformed, Lists, Malformed
  <2>3. PartOf("clients", <<>>) = <<>>
    BY <1>2, <2>1
  <2>4. PartOf("heard", said) = <<>>
    BY <1>2, <2>1
  <2> QED BY <1>3, <2>1, <2>2, <2>3, <2>4
<1> QED BY <1>5, <1>6, <1>7

\* A message with a list of calls says its words and the calls; the list may be empty.
LEMMA CallingSays ==
  ASSUME NEW o, Calling(o), IsList(o.calls), NEW at
  PROVE  OutSays(o, at) = Words(o.content, at, "assistant") \o OutCalls(o)
<1>1. CASE o.calls # <<>>
  BY <1>1 DEF OutSays, Calling
<1>2. CASE o.calls = <<>>
  <2> DEFINE words == Words(o.content, at, "assistant")
  <2>1. OutCalls(o) = <<>>
    <3>1. DOMAIN <<>> = {}
      OBVIOUS
    <3> QED BY <1>2, <3>1 DEF OutCalls
  <2>2. OutSays(o, at) = words
    BY <1>2 DEF OutSays, Calling, Speaker
  <2>3. IsList(words)
    BY WordsFrom DEF AllWords
  <2> HIDE DEF words
  <2>4. words \o <<>> = words
    BY <2>3, JoinLaws
  <2> QED BY <2>1, <2>2, <2>4 DEF words
<1> QED BY <1>1, <1>2

\* A message with calls.
LEMMA ClaudeCalls ==
  ASSUME api = "chat", NEW at \in Nat \ {0}, NEW o, Calling(o), IsList(o.calls),
         BesideCalls(at) <=> o.content \in Lists
  PROVE  Passed(o, at)
<1> DEFINE made == ClaudeC!ToClaude(o, at)
           by == "assistant"
           text == ClaudeC!TextBeside(o, at)
           uses == ClaudeC!ToolUses(o.calls)
           said == Words(o.content, at, by)
           calls == OutCalls(o)
           list == OutSays(o, at)
           heard == PartOf("heard", said)
<1>1. made.content = text \o uses /\ made.role = by
  BY DEF ClaudeC!ToClaude, Calling
<1>2. list = said \o calls
  BY CallingSays
<1>3. /\ IsList(text) /\ IsList(said) /\ AllBy(heard, by)
      /\ PartOf("clients", Reached(text, by)) = heard
  BY ClaudeBeside
<1>4. Deeds(calls, by)
  BY DeedsAre
<1> DEFINE n == Len(o.calls)
<1>5. n \in Nat /\ DOMAIN o.calls = 1..n
  BY ListIs
<1>6. uses = [k \in 1..n |-> ClaudeC!ToolUse(o.calls[k].id)]
  BY <1>5 DEF ClaudeC!ToolUses
<1>7. calls = [k \in 1..n |-> CallSaid(o.calls[k].id)]
  BY <1>5 DEF OutCalls
<1>8. \A id : Reaches(ClaudeC!ToolUse(id), by) = CallSaid(id)
  BY DEF Reaches, KindOf, CallSaid, ClaudeC!ToolUse, ClaudeC!Block
<1> HIDE DEF made, text, uses, said, calls, list, heard, n
<1>9. IsList(uses) /\ Len(uses) = n
  <2>1. uses = [k \in 1..n |-> uses[k]]
    BY <1>6
  <2> QED BY <1>5, <2>1, AList
<1>10. Reached(uses, by) = calls
  <2>1. Reached(uses, by) = [k \in 1..n |-> Reaches(uses[k], by)]
    BY <1>9, ReachedIs
  <2> QED BY <1>6, <1>7, <1>8, <2>1
<1> HIDE DEF by
<1>11. Reached(text \o uses, by) = Reached(text, by) \o calls
  BY <1>3, <1>9, <1>10, ReachedJoined
<1>12. /\ PartOf("heard", calls) = calls /\ PartOf("clients", calls) = calls
       /\ AllBy(calls, by) /\ IsList(calls)
  BY <1>4, ChatDeeds DEF Deeds
<1>13. PartOf("clients", Reached(text, by) \o calls) = heard \o calls
  <2> DEFINE a == Reached(text, by)
  <2>1. IsList(a)
    BY <1>3, ReachedIs
  <2> HIDE DEF a
  <2>2. PartOf("clients", a \o calls) = PartOf("clients", a) \o PartOf("clients", calls)
    BY <1>12, <2>1, PartJoined
  <2> QED BY <1>3, <1>12, <2>2 DEF a
<1>14. PartOf("heard", list) = heard \o calls
  <2>1. PartOf("heard", said \o calls) = PartOf("heard", said) \o PartOf("heard", calls)
    BY <1>3, <1>12, PartJoined
  <2> QED BY <1>2, <1>12, <2>1 DEF heard
<1>15. \A part : PartOf(part, heard \o calls) = PartOf(part, heard) \o PartOf(part, calls)
  BY <1>3, <1>12, PartJoined DEF AllBy
<1>16. by # "developer"
  BY DEF by
<1>17. /\ PartOf("others", heard) = heard /\ PartOf("system", heard) = <<>>
       /\ PartOf("others", calls) = calls /\ PartOf("system", calls) = <<>>
  BY <1>3, <1>12, <1>16, PartsBy
<1>18. <<>> \o <<>> = <<>>
  OBVIOUS
<1>19. IsList(text \o uses)
  BY <1>3, <1>9, Joined2
<1>20. /\ PartOf("others", PartOf("heard", list)) = heard \o calls
       /\ PartOf("system", PartOf("heard", list)) = <<>>
  BY <1>14, <1>15, <1>17, <1>18
<1> QED BY <1>1, <1>11, <1>13, <1>19, <1>20 DEF Passed, made, list

\* Claude hears what it should of each message.
LEMMA ClaudeHears ==
  ASSUME api = "chat", NEW at \in Nat \ {0}, items[at] \in ClientMessages,
         NEW o, CameOf(items[at], at, o), ClaudeC!MessageValid(o)
  PROVE  /\ ~ClaudeC!IsSystem(o) => Passed(o, at)
         /\ ClaudeC!IsSystem(o) =>
              PartOf("heard", OutSays(o, at))
                = IF o.content \in Texts THEN <<SystemSaid(at)>> ELSE <<>>
<1> DEFINE m == items[at]
<1>1. /\ MessageSays(m, at) = OutSays(o, at) /\ o.content = m.content
      /\ Calling(o) <=> m.role = "assistant" /\ (m.listed \/ m.fcall # Absent)
  <2>1. SaysTheSame(m, at, o)
    BY SaysOf
  <2> QED BY <2>1 DEF SaysTheSame
<1>2. BesideCalls(at) <=> Calling(o) /\ o.content \in Lists
  BY <1>1 DEF BesideCalls
<1>3. o.role \in {"system", "developer", "user", "assistant", "tool"}
  BY DEF ClaudeC!MessageValid
<1>4. CASE o.role = "tool"
  BY <1>4, ClaudeResult DEF ClaudeC!IsSystem
<1>5. CASE Calling(o)
  <2>1. IsList(o.calls)
    <3>1. CallsIn(o) \in Seq(ClientCalls \cup OlderOnes)
      BY CameCalls
    <3> QED BY <1>5, <3>1 DEF IsList, CallsIn, Calling
  <2>2. BesideCalls(at) <=> o.content \in Lists
    BY <1>2, <1>5
  <2>3. Passed(o, at)
    BY <1>5, <2>1, <2>2, ClaudeCalls
  <2>4. o.role = "assistant"
    BY <1>5 DEF Calling
  <2> QED BY <2>3, <2>4 DEF ClaudeC!IsSystem
<1>6. CASE o.role \in {"user", "assistant"} /\ ~Calling(o)
  <2>1. o.calls # <<>> => o.listed
    BY CameContent
  <2>2. Passed(o, at)
    BY <1>2, <1>6, <2>1, ClaudeWords
  <2> QED BY <1>6, <2>2 DEF ClaudeC!IsSystem
<1>7. CASE o.role \in {"system", "developer"}
  <2> DEFINE by == "developer"
             list == Words(o.content, at, by)
             x == SystemSaid(at)
  <2>1. Speaker(o.role) = by
    BY <1>7 DEF Speaker
  <2>2. OutSays(o, at) = list
    BY <1>7, <2>1 DEF OutSays
  <2>3. o.content # "picture"
    <3>1. ClaudeC!ContentValid(o)
      BY DEF ClaudeC!MessageValid
    <3> QED BY <1>7, <3>1 DEF ClaudeC!ContentValid
  <2>4. list = IF o.content \in Texts THEN <<x>> ELSE <<>>
    BY <2>3 DEF Words, SystemSaid
  <2>5. ~BesideCalls(at)
    BY <1>2, <1>7 DEF Calling
  <2>6. AllWords(list, at, by)
    BY WordsFrom
  <2> HIDE DEF list, by, x
  <2>7. PartOf("heard", list) = list
    BY <2>5, <2>6, ChatWords
  <2> QED BY <1>7, <2>2, <2>4, <2>7 DEF ClaudeC!IsSystem, x
<1> QED BY <1>3, <1>4, <1>5, <1>6, <1>7

\* A message says a list of things.
LEMMA SaysAList ==
  ASSUME NEW m \in ClientMessages, NEW at \in Nat, NEW o, CameOf(m, at, o)
  PROVE  IsList(MessageSays(m, at))
<1>1. MessageSays(m, at) = OutSays(o, at)
  BY SaysOf DEF SaysTheSame
<1>2. \A by : IsList(Words(o.content, at, by))
  BY WordsFrom DEF AllWords
<1>3. CASE Calling(o)
  <2>1. IsList(o.calls)
    <3>1. CallsIn(o) \in Seq(ClientCalls \cup OlderOnes)
      BY CameCalls
    <3> QED BY <1>3, <3>1 DEF IsList, CallsIn, Calling
  <2>2. IsList(OutCalls(o))
    BY <2>1, DeedsAre DEF Deeds
  <2>3. OutSays(o, at) = Words(o.content, at, "assistant") \o OutCalls(o)
    BY <1>3, <2>1, CallingSays
  <2> QED BY <1>1, <1>2, <2>2, <2>3, Joined2
<1>4. CASE o.role = "tool"
  BY <1>1, <1>4, DeedsAre DEF OutSays, Deeds
<1>5. CASE ~Calling(o) /\ o.role # "tool"
  BY <1>1, <1>2, <1>5, CameContent DEF OutSays, Calling
<1> QED BY <1>3, <1>4, <1>5

\* What the system says is the developer's.
LEMMA SystemOnly ==
  ASSUME NEW at
  PROVE  /\ PartOf("system", <<SystemSaid(at)>>) = <<SystemSaid(at)>>
         /\ PartOf("others", <<SystemSaid(at)>>) = <<>>
<1> DEFINE x == SystemSaid(at)
           by == "developer"
           list == <<x>>
<1>1. x.by = by
  BY DEF SystemSaid, Saying
<1> HIDE DEF x, by
<1>2. IsList(list) /\ Len(list) = 1 /\ list[1] = x
  BY ShortLists
<1> HIDE DEF list
<1>3. AllBy(list, by)
  BY <1>1, <1>2 DEF AllBy
<1>4. by = "developer"
  BY DEF by
<1>5. PartOf("system", list) = list /\ PartOf("others", list) = <<>>
  BY <1>3, <1>4, PartsBy
<1> QED BY <1>5 DEF list, x

\* Of one saying all or nothing is a part.
LEMMA PartOfOne ==
  ASSUME NEW part, NEW x
  PROVE  PartOf(part, <<x>>) = IF IsOf(part, x) THEN <<x>> ELSE <<>>
<1> DEFINE list == <<x>>
<1>1. IsList(list) /\ Len(list) = 1 /\ list[1] = x
  BY ShortLists
<1> HIDE DEF list
<1>2. /\ IsOf(part, x) => \A k \in 1..Len(list) : IsOf(part, list[k])
      /\ ~IsOf(part, x) => \A k \in 1..Len(list) : ~IsOf(part, list[k])
  BY <1>1
<1>3. /\ IsOf(part, x) => PartOf(part, list) = list
      /\ ~IsOf(part, x) => PartOf(part, list) = <<>>
  BY <1>1, <1>2, PartLaws
<1> QED BY <1>3 DEF list

\* What the client says in a system prompt made of the messages at some places: the texts
\* of those that have one.
LEMMA PromptHeard ==
  ASSUME NEW n \in Nat, NEW places, NEW order, order = InOrder(places, n), NEW out,
         NEW system, system = SystemTexts(out, order),
         NEW speaking, speaking = Speaking(out, places)
  PROVE  /\ IsList(system)
         /\ AreLists(PickedLists(SystemSaids(n), speaking, n), n)
         /\ PartOf("clients", Reached(system, "system"))
              = FlattenSeq(PickedLists(SystemSaids(n), speaking, n))
<1> DEFINE role == "system"
           part == "clients"
           made == [at \in 1..n |-> ClaudeC!SystemText(out[at], at)]
           s == [at \in 1..n |-> Reaches(made[at], role)]
           T == places \cap 1..n
           heard == Reached(system, role)
           lists == PickedLists(s, places, n)
           spoken == PickedLists(SystemSaids(n), speaking, n)
<1>1. order \in Seq(places \cap 1..n)
  BY InOrderIs
<1>2. /\ Len(order) \in Nat /\ DOMAIN order = 1..Len(order)
      /\ \A k \in DOMAIN order : order[k] \in 1..n
  <2>1. order \in Seq(T)
    BY <1>1
  <2>2. T \subseteq 1..n
    OBVIOUS
  <2> HIDE DEF T
  <2>3. /\ Len(order) \in Nat /\ DOMAIN order = 1..Len(order)
        /\ \A k \in DOMAIN order : order[k] \in T
    BY <2>1
  <2> QED BY <2>2, <2>3
<1>3. /\ s = [at \in 1..n |-> s[at]]
      /\ \A at \in 1..n : s[at] = Reaches(ClaudeC!SystemText(out[at], at), role)
  OBVIOUS
<1>4. system = [k \in 1..Len(order) |-> system[k]]
        /\ \A k \in 1..Len(order) : system[k] = ClaudeC!SystemText(out[order[k]], order[k])
  BY <1>2 DEF SystemTexts
<1>5. IsList(system) /\ Len(system) = Len(order)
  BY <1>2, <1>4, AList
<1>6. ASSUME NEW at \in 1..n
      PROVE  /\ out[at].content \in Texts => s[at] = SystemSaid(at) /\ IsOf(part, s[at])
             /\ out[at].content \notin Texts => ~IsOf(part, s[at])
  <2>1. NoText.at = 0 /\ ClaudeR!InstructionsText.at = -1
    BY DEF NoText, Text, Block, ClaudeR!InstructionsText, ClaudeR!Text, ClaudeR!Block
  <2>2. \A k : Reaches(ClaudeC!Text(k), role) = SystemSaid(k)
    BY DEF Reaches, KindOf, Speaker, SystemSaid, ClaudeC!Text, ClaudeC!Block
  <2>3. \A k : SystemSaid(k).at = k /\ SystemSaid(k).kind = "text"
    BY DEF SystemSaid, Saying
  <2>4. ClaudeC!SystemText(out[at], at)
          = IF out[at].content \in Texts THEN ClaudeC!Text(at) ELSE ClaudeC!Text(0)
    BY DEF ClaudeC!SystemText, ClaudeC!NoText, ClaudeC!Texts, Texts
  <2>5. s[at] = IF out[at].content \in Texts THEN SystemSaid(at) ELSE SystemSaid(0)
    BY <1>3, <2>2, <2>4
  <2>6. at # 0 /\ at # -1
    OBVIOUS
  <2> HIDE DEF s
  <2>7. CASE out[at].content \in Texts
    <3>1. s[at] = SystemSaid(at)
      BY <2>5, <2>7
    <3>2. IsOf(part, SystemSaid(at))
      BY <2>1, <2>3, <2>6 DEF IsOf, Invented
    <3> QED BY <2>7, <3>1, <3>2
  <2>8. CASE out[at].content \notin Texts
    <3>1. s[at] = SystemSaid(0)
      BY <2>5, <2>8
    <3>2. ~IsOf(part, SystemSaid(0))
      BY <2>1, <2>3 DEF IsOf, Invented
    <3> QED BY <2>8, <3>1, <3>2
  <2> QED BY <2>7, <2>8
<1> HIDE DEF heard, role, made, s, part
<1>7. heard = Picked(s, places)
  <2>1. heard = [k \in 1..Len(system) |-> Reaches(system[k], role)]
    <3>1. IsList(system)
      BY <1>5
    <3>2. Reached(system, role) = [k \in 1..Len(system) |-> Reaches(system[k], role)]
      BY ONLY <3>1, ReachedIs
    <3> QED BY <3>2 DEF heard
  <2>2. \A k \in 1..Len(order) : Reaches(system[k], role) = s[order[k]]
    BY <1>2, <1>3, <1>4
  <2>3. heard = [k \in DOMAIN order |-> s[order[k]]]
    BY <1>2, <1>5, <2>1, <2>2
  <2>4. Len(s) = n
    BY <1>3, AList
  <2> QED BY <2>3, <2>4 DEF Picked
<1>8. AreLists(lists, n) /\ heard = FlattenSeq(lists)
  <2>1. n \in Nat
    OBVIOUS
  <2>2. s = [at \in 1..n |-> s[at]]
    BY <1>3
  <2>3. /\ AreLists(PickedLists(s, places, n), n)
        /\ Picked(s, places) = FlattenSeq(PickedLists(s, places, n))
    BY ONLY <2>1, <2>2, PickedIs
  <2> QED BY <1>7, <2>3
<1>9. AreLists(spoken, n)
  <2> DEFINE said == SystemSaids(n)
  <2>1. n \in Nat
    OBVIOUS
  <2>2. said = [at \in 1..n |-> said[at]]
    BY DEF SystemSaids
  <2> HIDE DEF said
  <2>3. AreLists(PickedLists(said, speaking, n), n)
    BY ONLY <2>1, <2>2, PickedIs
  <2> QED BY <2>3 DEF said
<1>10. spoken = [at \in 1..n |-> PartOf(part, lists[at])]
  <2>1. PartOf(part, <<>>) = <<>>
    <3>1. IsList(<<>>) /\ Len(<<>>) = 0
      BY ShortLists
    <3> QED BY <3>1, PartLaws
  <2>2. ASSUME NEW at \in 1..n
        PROVE  PartOf(part, IF at \in places THEN <<s[at]>> ELSE <<>>)
                 = IF at \in speaking THEN <<SystemSaid(at)>> ELSE <<>>
    <3>1. PartOf(part, <<s[at]>>) = IF IsOf(part, s[at]) THEN <<s[at]>> ELSE <<>>
      BY PartOfOne
    <3>2. at \in speaking <=> at \in places /\ out[at].content \in Texts
      BY DEF Speaking
    <3> QED BY <1>6, <2>1, <3>1, <3>2
  <2>3. \A at \in 1..n : lists[at] = IF at \in places THEN <<s[at]>> ELSE <<>>
    BY DEF PickedLists
  <2>4. \A at \in 1..n : SystemSaids(n)[at] = SystemSaid(at)
    BY DEF SystemSaids
  <2>5. \A at \in 1..n : PartOf(part, lists[at])
           = IF at \in speaking THEN <<SystemSaids(n)[at]>> ELSE <<>>
    BY <2>2, <2>3, <2>4
  <2> HIDE DEF lists
  <2> QED BY <2>5 DEF PickedLists
<1>11. PartOf(part, heard) = FlattenSeq(spoken)
  <2>1. n \in Nat
    OBVIOUS
  <2> HIDE DEF lists, spoken
  <2>2. PartOf(part, FlattenSeq(lists)) = FlattenSeq(spoken)
    BY ONLY <1>8, <1>10, <2>1, PartFlat
  <2> QED BY <1>8, <2>2
<1> QED BY <1>5, <1>9, <1>11 DEF heard, role, part

\* What the client has said of what reaches Claude: of the prompt, then of the rest.
LEMMA HeardAll ==
  ASSUME NEW system, IsList(system), NEW messages, AllLists(messages),
         ClaudeBody.system = system, ClaudeBody.messages = messages
  PROVE  TheClients(HeardByClaude)
           = PartOf("clients", Reached(system, "system")) \o PartOf("clients", Heard(messages))
<1> DEFINE first == [role |-> "system", content |-> system]
           a == Reached(system, "system")
           b == Heard(messages)
           said == HeardByClaude
<1>1. first.content = system /\ first.role = "system"
  OBVIOUS
<1>2. said = Heard(<<first>> \o messages)
  BY DEF HeardByClaude
<1> HIDE DEF first
<1>3. said = a \o b /\ IsList(b)
  <2>1. IsList(first.content) /\ AllLists(messages)
    BY <1>1
  <2>2. /\ Heard(<<first>> \o messages) = Reached(first.content, first.role) \o Heard(messages)
        /\ IsList(Heard(messages))
    BY ONLY <2>1, HeardFirst
  <2> QED BY <1>1, <1>2, <2>2
<1>4. IsList(a)
  BY ReachedIs
<1>5. TheClients(said) = PartOf("clients", said)
  <2> HIDE DEF said
  <2>1. \A x : IsOf("clients", x) <=> ~Invented(x)
    BY DEF IsOf
  <2> QED BY <2>1 DEF TheClients, PartOf
<1> HIDE DEF a, b, said
<1>6. PartOf("clients", a \o b) = PartOf("clients", a) \o PartOf("clients", b)
  BY <1>3, <1>4, PartJoined
<1> QED BY <1>3, <1>5, <1>6 DEF a, b, said

\* Claude hears what is said in a chat.
LEMMA ClaudeHearsChat ==
  ASSUME BodyInv, api = "chat", Accepted(answers.claude)
  PROVE  TheClients(HeardByClaude) = SystemFirst(ToBeHeard(Said))
<1> DEFINE n == Len(items)
           out == Normalized(items).out
           q == [at \in 1..n |-> MessageSays(items[at], at)]
           systems == ClaudeC!SystemPlaces(out)
           others == DOMAIN out \ systems
           f == [at \in 1..n |-> ClaudeC!ToClaude(out[at], at)]
           system == ClaudeC!SystemOf(out)
           messages == ClaudeC!MessagesOf(out)
           speaking == Speaking(out, systems)
           prompt == PickedLists(SystemSaids(n), speaking, n)
           rest == Placed(f, others, n)
<1>1. /\ n \in Nat /\ Came(items, out, n)
      /\ \A at \in 1..n : ClaudeC!MessageValid(out[at])
      /\ ClaudeBody.system = system /\ ClaudeBody.messages = messages
  BY ClaudeChatOut
<1>2. /\ DOMAIN items = 1..n /\ DOMAIN out = 1..n /\ Len(out) = n
      /\ \A at \in 1..n : items[at] \in ClientMessages /\ CameOf(items[at], at, out[at])
  BY <1>1 DEF Came
<1> HIDE DEF out, n
<1>3. \A at \in 1..n : /\ at \in systems <=> ClaudeC!IsSystem(out[at])
                       /\ at \in others <=> ~ClaudeC!IsSystem(out[at])
  BY <1>2 DEF ClaudeC!SystemPlaces
<1>4. ASSUME NEW at \in 1..n
      PROVE  /\ q[at] = OutSays(out[at], at) /\ IsList(q[at])
             /\ at \in others => Passed(out[at], at)
             /\ at \in systems =>
                  PartOf("heard", q[at]) = IF at \in speaking THEN <<SystemSaid(at)>> ELSE <<>>
  <2>1. q[at] = OutSays(out[at], at)
    <3>1. SaysTheSame(items[at], at, out[at])
      BY <1>2, SaysOf
    <3> QED BY <3>1 DEF SaysTheSame
  <2>2. IsList(q[at])
    BY <1>2, SaysAList
  <2>3. at \in Nat \ {0}
    BY <1>1
  <2>4. /\ ~ClaudeC!IsSystem(out[at]) => Passed(out[at], at)
        /\ ClaudeC!IsSystem(out[at]) =>
              PartOf("heard", OutSays(out[at], at))
                = IF out[at].content \in Texts THEN <<SystemSaid(at)>> ELSE <<>>
    <3> DEFINE o == out[at]
    <3>1. /\ items[at] \in ClientMessages /\ CameOf(items[at], at, o)
          /\ ClaudeC!MessageValid(o)
      BY <1>1, <1>2
    <3> HIDE DEF o
    <3>2. /\ ~ClaudeC!IsSystem(o) => Passed(o, at)
          /\ ClaudeC!IsSystem(o) =>
                PartOf("heard", OutSays(o, at))
                  = IF o.content \in Texts THEN <<SystemSaid(at)>> ELSE <<>>
      BY <2>3, <3>1, ClaudeHears
    <3> QED BY <3>2 DEF o
  <2>5. at \in speaking <=> at \in systems /\ out[at].content \in Texts
    BY DEF Speaking
  <2> QED BY <1>3, <2>1, <2>2, <2>4, <2>5
<1>5. Said = FlattenSeq(q)
  BY <1>2 DEF Said
<1>6. AreLists(q, n)
  BY <1>4 DEF AreLists
<1>7. \A at \in 1..n : f[at] = ClaudeC!ToClaude(out[at], at)
  OBVIOUS
<1>8. /\ IsList(system) /\ AreLists(prompt, n)
      /\ PartOf("clients", Reached(system, "system")) = FlattenSeq(prompt)
  <2> DEFINE order == InOrder(systems, n)
  <2>1. system = SystemTexts(out, order)
    BY <1>2, SameOrder DEF ClaudeC!SystemOf, SystemTexts
  <2>2. n \in Nat /\ order = InOrder(systems, n) /\ speaking = Speaking(out, systems)
    BY <1>1
  <2> HIDE DEF order, system, systems, speaking
  <2>3. /\ IsList(system)
        /\ AreLists(PickedLists(SystemSaids(n), speaking, n), n)
        /\ PartOf("clients", Reached(system, "system"))
             = FlattenSeq(PickedLists(SystemSaids(n), speaking, n))
    BY ONLY <2>1, <2>2, PromptHeard
  <2> QED BY <2>3
<1>9. /\ AllLists(messages) /\ AreLists(rest, n) /\ Heard(messages) = FlattenSeq(rest)
  <2> DEFINE order == InOrder(others, n)
  <2>1. messages = [k \in DOMAIN order |-> ClaudeC!ToClaude(out[order[k]], order[k])]
    BY <1>2, SameOrder DEF ClaudeC!MessagesOf
  <2>2. \A k \in DOMAIN order : order[k] \in 1..n
    <3>1. order \in Seq(others \cap 1..n)
      BY <1>1, InOrderIs
    <3> DEFINE T == others \cap 1..n
    <3>2. T \subseteq 1..n
      OBVIOUS
    <3> HIDE DEF T, order
    <3>3. order \in Seq(T)
      BY <3>1 DEF T
    <3>4. \A k \in DOMAIN order : order[k] \in T
      BY <3>3
    <3> QED BY <3>2, <3>4
  <2> HIDE DEF order
  <2>3. messages = [k \in DOMAIN order |-> f[order[k]]]
    BY <1>7, <2>1, <2>2
  <2>4. n \in Nat
    BY <1>1
  <2>5. \A at \in others \cap 1..n : IsList(f[at].content)
    BY <1>4, <1>7 DEF Passed
  <2>6. order = InOrder(others, n)
    BY DEF order
  <2> HIDE DEF others, f, messages
  <2>7. /\ AllLists(messages) /\ AreLists(Placed(f, others, n), n)
        /\ Heard(messages) = FlattenSeq(Placed(f, others, n))
    BY ONLY <2>3, <2>4, <2>5, <2>6, HeardInOrder
  <2> QED BY <2>7
<1>10. Parted("system", q, n) = prompt
  <2>1. \A at \in 1..n : SystemSaids(n)[at] = SystemSaid(at)
    BY DEF SystemSaids
  <2>2. \A at \in 1..n : at \in systems => PartOf("system", <<SystemSaid(at)>>) = <<SystemSaid(at)>>
    BY SystemOnly
  <2>3. \A at \in 1..n : PartOf("system", PartOf("heard", q[at]))
           = IF at \in speaking THEN <<SystemSaids(n)[at]>> ELSE <<>>
    <3>1. PartOf("system", <<>>) = <<>>
      <4>1. IsList(<<>>) /\ Len(<<>>) = 0
        BY ShortLists
      <4> QED BY <4>1, PartLaws
    <3>2. ASSUME NEW at \in 1..n
          PROVE  PartOf("system", PartOf("heard", q[at]))
                   = IF at \in speaking THEN <<SystemSaid(at)>> ELSE <<>>
      <4>1. CASE at \in systems
        BY <1>4, <2>2, <3>1, <4>1
      <4>2. CASE at \notin systems
        <5>1. at \in others /\ at \notin speaking
          BY <1>3, <4>2 DEF Speaking
        <5> QED BY <1>4, <5>1 DEF Passed
      <4> QED BY <4>1, <4>2
    <3> QED BY <2>1, <3>2
  <2> HIDE DEF q, systems, speaking
  <2> QED BY <2>3 DEF Parted, PickedLists
<1>11. Parted("others", q, n) = [at \in 1..n |-> PartOf("clients", rest[at])]
  <2>1. PartOf("clients", <<>>) = <<>>
    <3>1. IsList(<<>>) /\ Len(<<>>) = 0
      BY ShortLists
    <3> QED BY <3>1, PartLaws
  <2>2. \A at \in 1..n : rest[at] =
            IF at \in others THEN Reached(f[at].content, f[at].role) ELSE <<>>
    BY DEF Placed
  <2>3. ASSUME NEW at \in 1..n, at \in systems
        PROVE  PartOf("others", PartOf("heard", q[at])) = <<>>
    <3>1. PartOf("others", <<>>) = <<>>
      <4>1. IsList(<<>>) /\ Len(<<>>) = 0
        BY ShortLists
      <4> QED BY <4>1, PartLaws
    <3>2. PartOf("heard", q[at]) = IF at \in speaking THEN <<SystemSaid(at)>> ELSE <<>>
      BY <1>4, <2>3
    <3> HIDE DEF q, speaking
    <3>3. CASE at \in speaking
      BY <3>2, <3>3, SystemOnly
    <3>4. CASE at \notin speaking
      BY <3>1, <3>2, <3>4
    <3> QED BY <3>3, <3>4
  <2>4. \A at \in 1..n : at \in others =>
           PartOf("clients", Reached(f[at].content, f[at].role))
             = PartOf("others", PartOf("heard", q[at]))
    BY <1>4, <1>7 DEF Passed
  <2>5. \A at \in 1..n : at \in others \/ at \in systems
    BY <1>3
  <2>6. \A at \in 1..n : PartOf("others", PartOf("heard", q[at])) = PartOf("clients", rest[at])
    BY <1>3, <2>1, <2>2, <2>3, <2>4, <2>5
  <2> HIDE DEF q, rest
  <2> QED BY <2>6 DEF Parted
<1>12. SystemFirst(ToBeHeard(Said))
            = FlattenSeq(Parted("system", q, n)) \o FlattenSeq(Parted("others", q, n))
  <2>1. n \in Nat
    BY <1>1
  <2> HIDE DEF q
  <2>2. SystemFirst(ToBeHeard(FlattenSeq(q)))
          = FlattenSeq(Parted("system", q, n)) \o FlattenSeq(Parted("others", q, n))
    BY ONLY <1>6, <2>1, SystemFirstIs
  <2> QED BY <1>5, <2>2
<1>13. PartOf("clients", Heard(messages)) = FlattenSeq(Parted("others", q, n))
  <2> DEFINE g == Parted("others", q, n)
             part == "clients"
  <2>1. n \in Nat
    BY <1>1
  <2>2. AreLists(rest, n) /\ g = [at \in 1..n |-> PartOf(part, rest[at])]
    BY <1>9, <1>11
  <2> HIDE DEF g, rest, part
  <2>3. PartOf(part, FlattenSeq(rest)) = FlattenSeq(g)
    BY ONLY <2>1, <2>2, PartFlat
  <2> QED BY <1>9, <2>3 DEF g, part
<1>14. TheClients(HeardByClaude)
         = PartOf("clients", Reached(system, "system")) \o PartOf("clients", Heard(messages))
  <2> HIDE DEF system, messages
  <2> QED BY <1>1, <1>8, <1>9, HeardAll
<1> QED BY <1>8, <1>10, <1>12, <1>13, <1>14

\* Two lists of one make a list of two.
LEMMA TwoOnes ==
  ASSUME NEW x, NEW y
  PROVE  <<x>> \o <<y>> = <<x, y>>
<1> DEFINE a == <<x>>
           b == <<y>>
           c == a \o b
           d == <<x, y>>
<1>1. /\ IsList(a) /\ Len(a) = 1 /\ a[1] = x
      /\ IsList(b) /\ Len(b) = 1 /\ b[1] = y
  BY ShortLists
<1>2. d = [k \in 1..2 |-> d[k]] /\ d[1] = x /\ d[2] = y
  OBVIOUS
<1> HIDE DEF a, b, c, d
<1>3. /\ IsList(c) /\ Len(c) = Len(a) + Len(b)
      /\ \A k \in 1..Len(a) : c[k] = a[k]
      /\ \A k \in 1..Len(b) : c[Len(a) + k] = b[k]
  BY <1>1, Joined2, SMTT(30) DEF c
<1>4. Len(c) = 2 /\ c[1] = x /\ c[2] = y
  BY <1>1, <1>3
<1>5. c = [k \in 1..2 |-> c[k]]
  BY <1>3, <1>4, ListIs
<1>6. \A k \in 1..2 : c[k] = d[k]
  BY <1>2, <1>4
<1>7. c = d
  BY <1>2, <1>5, <1>6
<1> QED BY <1>7 DEF c, d, a, b

\* Over the Responses API all of the others is heard.
LEMMA OthersHeard ==
  ASSUME api = "responses", ~InMessages, NEW by, by # "developer", NEW list, AllBy(list, by)
  PROVE  /\ PartOf("heard", list) = list /\ PartOf("others", list) = list
         /\ PartOf("system", list) = <<>>
<1>1. IsList(list) /\ \A k \in 1..Len(list) : list[k].by = by
  BY DEF AllBy
<1>2. \A k \in 1..Len(list) : IsOf("heard", list[k])
  BY <1>1 DEF IsOf, Unheard, UnheardSystem, BesideCalls
<1> QED BY <1>1, <1>2, PartLaws, PartsBy

\* Claude hears what it should of each item that is not the system's.
LEMMA ClaudeHearsItem ==
  ASSUME api = "responses", ~InMessages, NEW at \in Nat \ {0}, NEW item \in ClientItems,
         item.type \notin ClaudeR!CustomTypes, ~ClaudeR!IsSystem(item)
  PROVE  ItemPassed(item, at)
<1> DEFINE made == ClaudeR!ToClaude(item, at)
           list == ItemWords(item, at)
<1>1. /\ ClaudeR!CallTypes = {"function_call", "custom_tool_call"}
      /\ ClaudeR!OutputTypes = {"function_call_output", "custom_tool_call_output"}
      /\ ClaudeR!CustomTypes = {"custom_tool_call", "custom_tool_call_output"}
  BY DEF ClaudeR!CallTypes, ClaudeR!OutputTypes, ClaudeR!CustomTypes
<1>2. item.type \in {"function_call", "function_call_output", "message"}
  BY <1>1 DEF ClientItems
<1>3. ASSUME NEW by, by # "developer", AllBy(list, by), PartOf("clients", list) = list,
             IsList(made.content), Reached(made.content, made.role) = list
      PROVE  ItemPassed(item, at)
  <2> HIDE DEF list, made
  <2>1. /\ PartOf("heard", list) = list /\ PartOf("others", list) = list
        /\ PartOf("system", list) = <<>>
    BY <1>3, OthersHeard
  <2> QED BY <1>3, <2>1 DEF ItemPassed, list, made
<1>4. ASSUME NEW block, NEW x, NEW by, by # "developer", x.by = by, ~Invented(x),
             made.content = <<block>>, Reaches(block, made.role) = x, list = <<x>>
      PROVE  ItemPassed(item, at)
  <2>1. IsList(<<block>>) /\ Reached(<<block>>, made.role) = <<x>>
    BY <1>4, ShortLists, ReachedOnes
  <2>2. IsOf("clients", x)
    BY <1>4 DEF IsOf
  <2>3. PartOf("clients", <<x>>) = <<x>>
    BY <2>2, PartOfOne
  <2>4. AllBy(<<x>>, by)
    <3> DEFINE one == <<x>>
    <3>1. IsList(one) /\ Len(one) = 1 /\ one[1] = x
      BY ShortLists
    <3> HIDE DEF one
    <3>2. AllBy(one, by)
      BY <1>4, <3>1 DEF AllBy
    <3> QED BY <3>2 DEF one
  <2> QED BY <1>3, <1>4, <2>1, <2>3, <2>4
<1>5. CASE item.type = "function_call"
  <2> DEFINE block == ClaudeR!ToolUse(item.id)
             x == CallSaid(item.id)
             by == "assistant"
  <2>1. made.content = <<block>> /\ list = <<x>>
    BY <1>1, <1>5 DEF ClaudeR!ToClaude, ItemWords
  <2>2. Reaches(block, made.role) = x
    BY DEF Reaches, KindOf, CallSaid, ClaudeR!ToolUse, ClaudeR!Block
  <2>3. x.by = by /\ ~Invented(x) /\ by # "developer"
    BY DEF CallSaid, Saying, Invented
  <2> HIDE DEF made, list, block, x, by
  <2> QED BY <1>4, <2>1, <2>2, <2>3
<1>6. CASE item.type = "function_call_output"
  <2> DEFINE block == ClaudeR!ToolResult(item.id, at)
             x == Result(at)
             by == "user"
  <2>1. made.content = <<block>> /\ list = <<x>>
    BY <1>1, <1>6 DEF ClaudeR!ToClaude, ItemWords
  <2>2. Reaches(block, made.role) = x
    BY DEF Reaches, KindOf, ClaudeR!ToolResult, ClaudeR!Block
  <2>3. x.by = by /\ ~Invented(x) /\ by # "developer"
    BY DEF Result, Saying, Invented
  <2> HIDE DEF made, list, block, x, by
  <2> QED BY <1>4, <2>1, <2>2, <2>3
<1>7. CASE item.type = "message"
  <2> DEFINE by == Speaker(item.role)
             content == ContentOf(item.content, at)
  <2>1. by # "developer"
    BY <1>7 DEF ClaudeR!IsSystem, Speaker
  <2>2. made.content = content /\ made.role = item.role
    BY <1>7, SameContents DEF ClaudeR!ToClaude
  <2>3. list = Words(item.content, at, by)
    BY <1>1, <1>7 DEF ItemWords
  <2>4. Reached(content, item.role) = Words(item.content, at, by)
    BY WordsAre
  <2>5. IsList(content)
    BY WrittenIs DEF NoResults
  <2> HIDE DEF made, list, by, content
  <2>6. AllWords(list, at, by)
    BY <2>3, WordsFrom
  <2>7. IsList(list) /\ AllBy(list, by)
    BY <2>6 DEF AllWords, AllBy
  <2>8. \A k \in 1..Len(list) : IsOf("clients", list[k])
    <3>1. NoText.at = 0 /\ ClaudeR!InstructionsText.at = -1
      BY DEF NoText, Text, Block, ClaudeR!InstructionsText, ClaudeR!Text, ClaudeR!Block
    <3>2. at # 0 /\ at # -1
      OBVIOUS
    <3>3. \A k \in 1..Len(list) : list[k].at = at
      BY <2>6 DEF AllWords
    <3> QED BY <3>1, <3>2, <3>3 DEF IsOf, Invented
  <2>9. PartOf("clients", list) = list
    BY <2>7, <2>8, PartLaws
  <2> QED BY <1>3, <2>1, <2>2, <2>3, <2>4, <2>5, <2>7, <2>9
<1> QED BY <1>2, <1>5, <1>6, <1>7

\* Of the system's items the text of the first is heard, without instructions.
LEMMA SystemItemHeard ==
  ASSUME api = "responses", ~InMessages, NEW at, NEW item, ClaudeR!IsSystem(item)
  PROVE  PartOf("heard", ItemWords(item, at))
           = IF ~ClaudeR!Instructed(settings) /\ item.content \in Texts /\ at = FirstSystemItem
             THEN <<SystemSaid(at)>> ELSE <<>>
<1> DEFINE by == "developer"
           x == SystemSaid(at)
           y == Saying("image", at, NoId, by)
           list == ItemWords(item, at)
           first == ~ClaudeR!Instructed(settings) /\ at = FirstSystemItem
<1>1. /\ x.kind = "text" /\ x.at = at /\ x.by = by
      /\ y.kind = "image" /\ y.at = at /\ y.by = by
  BY DEF SystemSaid, Saying
<1>2. IsOf("heard", x) <=> first
  BY <1>1 DEF IsOf, Unheard, UnheardSystem, BesideCalls
<1>3. ~IsOf("heard", y)
  BY <1>1 DEF IsOf, Unheard, UnheardSystem, BesideCalls
<1>4. list = Words(item.content, at, by)
  <2>1. item.type = "message" /\ Speaker(item.role) = by
    BY DEF ClaudeR!IsSystem, Speaker
  <2>2. item.type \notin ClaudeR!CallTypes \cup ClaudeR!OutputTypes
    BY <2>1 DEF ClaudeR!CallTypes, ClaudeR!OutputTypes
  <2> QED BY <2>1, <2>2 DEF ItemWords
<1>5. /\ item.content \in Texts => list = <<x>> \/ list = <<x, y>>
      /\ item.content \notin Texts => list = <<>>
  BY <1>4 DEF Words, SystemSaid, Texts
<1> HIDE DEF x, y, list, first
<1>6. PartOf("heard", <<x>>) = IF first THEN <<x>> ELSE <<>>
  BY <1>2, PartOfOne
<1>7. PartOf("heard", <<x, y>>) = IF first THEN <<x>> ELSE <<>>
  <2>1. PartOf("heard", <<y>>) = <<>>
    BY <1>3, PartOfOne
  <2>2. PartOf("heard", <<x>> \o <<y>>) = PartOf("heard", <<x>>) \o PartOf("heard", <<y>>)
    BY ShortLists, PartJoined
  <2>3. <<x>> \o <<y>> = <<x, y>>
    BY TwoOnes
  <2>4. <<x>> \o <<>> = <<x>> /\ <<>> \o <<>> = <<>>
    BY ShortLists, JoinLaws
  <2> QED BY <1>6, <2>1, <2>2, <2>3, <2>4
<1>8. PartOf("heard", <<>>) = <<>>
  <2>1. IsList(<<>>) /\ Len(<<>>) = 0
    BY ShortLists
  <2> QED BY <2>1, PartLaws
<1> QED BY <1>5, <1>6, <1>7, <1>8 DEF list, x, first

\* The first system item that speaks is the same one for Claude.
LEMMA FirstIs ==
  ASSUME NEW n \in Nat, NEW given, Len(given) = n
  PROVE  /\ SelectInSeq(given, ClaudeR!SystemSpeaks) = ClaudeR!SelectInSeq(given, ClaudeR!SystemSpeaks)
         /\ ClaudeR!SelectInSeq(given, ClaudeR!SystemSpeaks) = 0 =>
              \A at \in 1..n : ~ClaudeR!SystemSpeaks(given[at])
         /\ ClaudeR!SelectInSeq(given, ClaudeR!SystemSpeaks) # 0 =>
              /\ ClaudeR!SelectInSeq(given, ClaudeR!SystemSpeaks) \in 1..n
              /\ ClaudeR!SystemSpeaks(given[ClaudeR!SelectInSeq(given, ClaudeR!SystemSpeaks)])
<1> DEFINE places == {i \in 1..Len(given) : ClaudeR!SystemSpeaks(given[i])}
           first == ClaudeR!SelectInSeq(given, ClaudeR!SystemSpeaks)
<1>1. places \subseteq Nat /\ places \subseteq 1..n
  OBVIOUS
<1>2. ClaudeR!Min(places) = Min(places)
  BY DEF ClaudeR!Min, Min
<1>3. /\ first = IF places # {} THEN Min(places) ELSE 0
      /\ SelectInSeq(given, ClaudeR!SystemSpeaks) = IF places # {} THEN Min(places) ELSE 0
  BY <1>2 DEF SelectInSeq, ClaudeR!SelectInSeq
<1>4. places # {} => Min(places) \in places
  <2> HIDE DEF places
  <2> QED BY <1>1, MinIsMember
<1>5. \A at \in places : at # 0 /\ at \in 1..n /\ ClaudeR!SystemSpeaks(given[at])
  OBVIOUS
<1>6. \A at \in 1..n : ClaudeR!SystemSpeaks(given[at]) => at \in places
  OBVIOUS
<1> HIDE DEF places, first
<1> QED BY <1>3, <1>4, <1>5, <1>6 DEF first

\* What is heard of the items Claude is sent as messages.
LEMMA ClaudeItemsHeard ==
  ASSUME NEW n \in Nat, NEW given, DOMAIN given = 1..n, Len(given) = n,
         \A at \in 1..n : ~ClaudeR!IsSystem(given[at]) =>
            IsList(ClaudeR!ToClaude(given[at], at).content)
  PROVE  /\ AllLists(ClaudeR!MessagesOf(given)) /\ AreLists(ItemsSent(given, n), n)
         /\ Heard(ClaudeR!MessagesOf(given)) = FlattenSeq(ItemsSent(given, n))
<1> DEFINE f == [at \in 1..n |-> ClaudeR!ToClaude(given[at], at)]
           places == {at \in 1..n : ~ClaudeR!IsSystem(given[at])}
           order == InOrder(places, n)
           messages == ClaudeR!MessagesOf(given)
<1>1. messages = [k \in DOMAIN order |-> ClaudeR!ToClaude(given[order[k]], order[k])]
  BY SameOrder DEF ClaudeR!MessagesOf
<1>2. \A k \in DOMAIN order : order[k] \in 1..n
  <2>1. order \in Seq(places \cap 1..n)
    BY InOrderIs
  <2> DEFINE T == places \cap 1..n
  <2>2. T \subseteq 1..n
    OBVIOUS
  <2> HIDE DEF T, order
  <2>3. order \in Seq(T)
    BY <2>1 DEF T
  <2>4. \A k \in DOMAIN order : order[k] \in T
    BY <2>3
  <2> QED BY <2>2, <2>4
<1>3. \A at \in 1..n : f[at] = ClaudeR!ToClaude(given[at], at)
  OBVIOUS
<1>4. order = InOrder(places, n)
  OBVIOUS
<1> HIDE DEF order
<1>5. messages = [k \in DOMAIN order |-> f[order[k]]]
  BY <1>1, <1>2, <1>3
<1>6. \A at \in places \cap 1..n : IsList(f[at].content)
  BY <1>3
<1>7. n \in Nat
  OBVIOUS
<1>8. ItemsSent(given, n) = Placed(f, places, n)
  BY DEF ItemsSent
<1> HIDE DEF f, places, messages
<1>9. /\ AllLists(messages) /\ AreLists(Placed(f, places, n), n)
      /\ Heard(messages) = FlattenSeq(Placed(f, places, n))
  BY ONLY <1>4, <1>5, <1>6, <1>7, HeardInOrder
<1> QED BY <1>8, <1>9 DEF messages

\* The request, as the handler for Claude finds it.
LEMMA ClaudeResponsesOut ==
  ASSUME BodyInv, api = "responses", Accepted(answers.claude),
         NEW given, given = ClaudeR!InputOf(items, settings),
         NEW n, n = Len(given)
  PROVE  /\ GivenOf(given, n)
         /\ \A at \in 1..n : /\ given[at].type \notin ClaudeR!CustomTypes
                             /\ ClaudeR!ItemValid(given[at])
         /\ ClaudeBody.system = ClaudeR!SystemOf(given, settings)
         /\ ClaudeBody.messages = ClaudeR!MessagesOf(given)
<1>1. GivenOf(given, n)
  BY GivenIs
<1>2. /\ Accepted(ResponsesAnswers(items, settings).claude)
      /\ ClaudeBody = BodyOf(ResponsesAnswers(items, settings).claude)
  BY DEF BodyInv, Answers, ClaudeBody
<1>3. /\ ClaudeR!ItemsValid(given) /\ ClaudeR!UnsupportedTool(given, settings)
      /\ ClaudeBody.messages = ClaudeR!MessagesOf(given)
  BY <1>2, ClaudeResponsesHistory
<1>4. ClaudeBody.system = ClaudeR!SystemOf(given, settings)
  BY <1>2, ClaudeResponsesBody
<1>5. DOMAIN given = 1..n
  BY <1>1 DEF GivenOf
<1> QED BY <1>1, <1>3, <1>4, <1>5 DEF ClaudeR!ItemsValid, ClaudeR!UnsupportedTool

\* The prompt says that of the first system item, where no instructions do.
LEMMA PromptSaid ==
  ASSUME NEW given, NEW system, system = ClaudeR!SystemOf(given, settings),
         NEW first, first = ClaudeR!SelectInSeq(given, ClaudeR!SystemSpeaks), first \in Nat
  PROVE  /\ IsList(system)
         /\ PartOf("clients", Reached(system, "system")) = FirstSaid(first)
<1> DEFINE role == "system"
           part == "clients"
<1>1. /\ \A at : Reaches(ClaudeR!Text(at), role) = SystemSaid(at)
      /\ ClaudeR!InstructionsText = ClaudeR!Text(-1)
  BY DEF Reaches, KindOf, Speaker, SystemSaid, ClaudeR!Text,
         ClaudeR!Block, ClaudeR!InstructionsText
<1>2. NoText.at = 0 /\ ClaudeR!InstructionsText.at = -1
  BY DEF NoText, Text, Block, ClaudeR!InstructionsText, ClaudeR!Text, ClaudeR!Block
<1>3. \A at : SystemSaid(at).at = at /\ SystemSaid(at).kind = "text"
  BY DEF SystemSaid, Saying
<1> HIDE DEF role
<1>4. ASSUME NEW at, system = <<ClaudeR!Text(at)>>
      PROVE  /\ IsList(system)
             /\ PartOf(part, Reached(system, role))
                  = IF at \in {0, -1} THEN <<>> ELSE <<SystemSaid(at)>>
  <2> DEFINE block == ClaudeR!Text(at)
             x == SystemSaid(at)
  <2>1. IsOf(part, x) <=> at \notin {0, -1}
    BY <1>2, <1>3 DEF IsOf, Invented
  <2>2. Reaches(block, role) = x
    BY <1>1
  <2> HIDE DEF block, x, part
  <2>3. Reached(<<block>>, role) = <<x>> /\ IsList(<<block>>)
    BY <2>2, ReachedOnes, ShortLists
  <2>4. PartOf(part, <<x>>) = IF IsOf(part, x) THEN <<x>> ELSE <<>>
    BY PartOfOne
  <2> QED BY <1>4, <2>1, <2>3, <2>4 DEF block, x
<1>5. ASSUME system = <<>>
      PROVE  IsList(system) /\ PartOf(part, Reached(system, role)) = <<>>
  <2>1. IsList(<<>>) /\ Len(<<>>) = 0 /\ DOMAIN <<>> = {}
    BY ShortLists
  <2>2. Reached(<<>>, role) = <<>>
    BY <2>1 DEF Reached
  <2>3. PartOf(part, <<>>) = <<>>
    BY <2>1, PartLaws
  <2> QED BY <1>5, <2>1, <2>2, <2>3
<1>6. CASE ClaudeR!Instructed(settings)
  <2> DEFINE at == -1
  <2>1. system = <<ClaudeR!Text(at)>>
    BY <1>1, <1>6 DEF ClaudeR!SystemOf
  <2>2. at \in {0, -1}
    OBVIOUS
  <2> HIDE DEF at, part
  <2>3. IsList(system) /\ PartOf(part, Reached(system, role)) = <<>>
    BY <1>4, <2>1, <2>2
  <2> QED BY <1>6, <2>3 DEF FirstSaid, part, role
<1>7. CASE ~ClaudeR!Instructed(settings) /\ first # 0
  <2>1. system = <<ClaudeR!Text(first)>>
    BY <1>1, <1>7 DEF ClaudeR!SystemOf
  <2>2. first \notin {0, -1}
    BY <1>7
  <2> HIDE DEF part
  <2>3. IsList(system) /\ PartOf(part, Reached(system, role)) = <<SystemSaid(first)>>
    BY <1>4, <2>1, <2>2
  <2> QED BY <1>7, <2>3 DEF FirstSaid, part, role
<1>8. CASE ~ClaudeR!Instructed(settings) /\ first = 0
  <2>1. system = <<>>
    BY <1>1, <1>8 DEF ClaudeR!SystemOf
  <2> HIDE DEF part
  <2>2. IsList(system) /\ PartOf(part, Reached(system, role)) = <<>>
    BY <1>5, <2>1
  <2> QED BY <1>8, <2>2 DEF FirstSaid, part, role
<1> QED BY <1>6, <1>7, <1>8

\* Claude hears what is said over the Responses API, unless it is in "messages".
LEMMA ClaudeHearsItems ==
  ASSUME BodyInv, api = "responses", Accepted(answers.claude), ~InMessages
  PROVE  TheClients(HeardByClaude) = SystemFirst(ToBeHeard(Said))
<1> DEFINE given == ClaudeR!InputOf(items, settings)
           n == Len(given)
           q == [at \in 1..n |-> ItemWords(given[at], at)]
           first == ClaudeR!SelectInSeq(given, ClaudeR!SystemSpeaks)
           system == ClaudeR!SystemOf(given, settings)
           messages == ClaudeR!MessagesOf(given)
           rest == ItemsSent(given, n)
           prompt == Parted("system", q, n)
           others == Parted("others", q, n)
<1>1. /\ GivenOf(given, n)
      /\ \A at \in 1..n : given[at].type \notin ClaudeR!CustomTypes /\ ClaudeR!ItemValid(given[at])
      /\ ClaudeBody.system = system /\ ClaudeBody.messages = messages
  <2> HIDE DEF given
  <2> QED BY ClaudeResponsesOut DEF given
<1> HIDE DEF given
<1>2. /\ n \in Nat /\ DOMAIN given = 1..n /\ given = items
      /\ \A at \in 1..n : given[at] \in ClientItems
  BY <1>1 DEF GivenOf
<1>3. Said = FlattenSeq(q)
  <2>1. Said = FlattenSeq([at \in 1..Len(items) |-> ItemWords(items[at], at)])
    BY SaidInItems
  <2> QED BY <1>2, <2>1
<1>4. Len(given) = n /\ FirstSystemItem = SelectInSeq(given, ClaudeR!SystemSpeaks)
  BY <1>2 DEF FirstSystemItem
<1>5. /\ first = FirstSystemItem
      /\ first # 0 => first \in 1..n /\ ClaudeR!SystemSpeaks(given[first])
  <2>1. n \in Nat
    BY <1>2
  <2> HIDE DEF n
  <2> QED BY <1>4, <2>1, FirstIs
<1> HIDE DEF n, first
<1>6. \A at \in 1..n : q[at] = ItemWords(given[at], at)
  OBVIOUS
<1>7. ASSUME NEW at \in 1..n
      PROVE  /\ IsList(q[at])
             /\ ~ClaudeR!IsSystem(given[at]) => ItemPassed(given[at], at)
             /\ ClaudeR!IsSystem(given[at]) =>
                   PartOf("heard", q[at]) = IF at = first THEN FirstSaid(first) ELSE <<>>
  <2>1. IsList(q[at])
    <3>1. \A by : IsList(Words(given[at].content, at, by))
      BY WordsFrom DEF AllWords
    <3>2. \A x : IsList(<<x>>)
      BY ShortLists
    <3> QED BY <3>1, <3>2 DEF ItemWords
  <2>2. ~ClaudeR!IsSystem(given[at]) => ItemPassed(given[at], at)
    <3> DEFINE item == given[at]
    <3>1. item \in ClientItems /\ item.type \notin ClaudeR!CustomTypes /\ at \in Nat \ {0}
      BY <1>1, <1>2
    <3> HIDE DEF item
    <3>2. ~ClaudeR!IsSystem(item) => ItemPassed(item, at)
      BY <3>1, ClaudeHearsItem
    <3> QED BY <3>2 DEF item
  <2>3. ASSUME ClaudeR!IsSystem(given[at])
        PROVE  PartOf("heard", q[at]) = IF at = first THEN FirstSaid(first) ELSE <<>>
    <3> DEFINE item == given[at]
    <3>1. ClaudeR!IsSystem(item)
      BY <2>3
    <3> HIDE DEF item
    <3>2. PartOf("heard", ItemWords(item, at))
            = IF ~ClaudeR!Instructed(settings) /\ item.content \in Texts /\ at = FirstSystemItem
              THEN <<SystemSaid(at)>> ELSE <<>>
      BY <3>1, SystemItemHeard
    <3>3. at # 0
      BY <1>2
    <3>4. at = first => item.content \in Texts
      BY <1>5, <3>3 DEF item, ClaudeR!SystemSpeaks, ClaudeR!Texts, Texts
    <3> QED BY <1>5, <1>6, <3>2, <3>3, <3>4 DEF item, FirstSaid
  <2> QED BY <2>1, <2>2, <2>3
<1>8. AreLists(q, n)
  BY <1>7 DEF AreLists
<1>9. PartOf("system", <<>>) = <<>> /\ PartOf("others", <<>>) = <<>>
        /\ PartOf("clients", <<>>) = <<>>
  <2>1. IsList(<<>>) /\ Len(<<>>) = 0
    BY ShortLists
  <2> QED BY <2>1, PartLaws
<1>10. /\ PartOf("system", FirstSaid(first)) = FirstSaid(first)
       /\ PartOf("others", FirstSaid(first)) = <<>>
  BY <1>9, SystemOnly DEF FirstSaid
<1>11. /\ AreLists(prompt, n) /\ AreLists(others, n)
       /\ SystemFirst(ToBeHeard(Said)) = FlattenSeq(prompt) \o FlattenSeq(others)
  <2>1. n \in Nat
    BY <1>2
  <2> HIDE DEF q
  <2>2. /\ AreLists(Parted("system", q, n), n) /\ AreLists(Parted("others", q, n), n)
        /\ SystemFirst(ToBeHeard(FlattenSeq(q)))
             = FlattenSeq(Parted("system", q, n)) \o FlattenSeq(Parted("others", q, n))
    BY ONLY <1>8, <2>1, SystemFirstIs
  <2> QED BY <1>3, <2>2
<1>12. FlattenSeq(prompt) = FirstSaid(first)
  <2>1. \A at \in 1..n : prompt[at] = PartOf("system", PartOf("heard", q[at]))
    BY DEF Parted
  <2>2. \A at \in 1..n : prompt[at] =
           IF ClaudeR!IsSystem(given[at]) /\ at = first THEN FirstSaid(first) ELSE <<>>
    BY <1>6, <1>7, <1>9, <1>10, <2>1 DEF ItemPassed
  <2> HIDE DEF prompt
  <2>3. CASE ~ClaudeR!Instructed(settings) /\ first # 0
    <3> DEFINE x == SystemSaid(first)
    <3>1. FirstSaid(first) = <<x>>
      BY <2>3 DEF FirstSaid
    <3>2. first \in 1..n /\ prompt[first] = <<x>>
            /\ \A at \in 1..n : at # first => prompt[at] = <<>>
      BY <1>5, <2>2, <2>3, <3>1 DEF ClaudeR!SystemSpeaks
    <3> HIDE DEF x
    <3>3. FlattenSeq(prompt) = <<x>>
      BY <1>2, <1>11, <3>2, FlatOnly
    <3> QED BY <3>1, <3>3
  <2>4. CASE ~(~ClaudeR!Instructed(settings) /\ first # 0)
    <3>1. FirstSaid(first) = <<>>
      BY <2>4 DEF FirstSaid
    <3>2. \A at \in 1..n : prompt[at] = <<>>
      BY <2>2, <3>1
    <3>3. FlattenSeq(prompt) = <<>>
      BY <1>2, <1>11, <3>2, FlatNone
    <3> QED BY <3>1, <3>3
  <2> QED BY <2>3, <2>4
<1>13. /\ AllLists(messages) /\ AreLists(rest, n) /\ Heard(messages) = FlattenSeq(rest)
  <2>1. \A at \in 1..n : ~ClaudeR!IsSystem(given[at]) =>
           IsList(ClaudeR!ToClaude(given[at], at).content)
    BY <1>7 DEF ItemPassed
  <2>2. n \in Nat /\ DOMAIN given = 1..n /\ Len(given) = n
    BY <1>2, <1>4
  <2> QED BY <2>1, <2>2, ClaudeItemsHeard
<1>14. others = [at \in 1..n |-> PartOf("clients", rest[at])]
  <2>1. \A at \in 1..n : rest[at] =
           IF ~ClaudeR!IsSystem(given[at])
           THEN Reached(ClaudeR!ToClaude(given[at], at).content,
                         ClaudeR!ToClaude(given[at], at).role)
           ELSE <<>>
    BY DEF ItemsSent, Placed
  <2>2. \A at \in 1..n : ClaudeR!IsSystem(given[at]) =>
           PartOf("others", PartOf("heard", q[at])) = <<>>
    BY <1>7, <1>9, <1>10
  <2>3. \A at \in 1..n : ~ClaudeR!IsSystem(given[at]) =>
           PartOf("clients", Reached(ClaudeR!ToClaude(given[at], at).content,
                                     ClaudeR!ToClaude(given[at], at).role))
             = PartOf("others", PartOf("heard", q[at]))
    BY <1>6, <1>7 DEF ItemPassed
  <2>4. \A at \in 1..n : PartOf("others", PartOf("heard", q[at])) = PartOf("clients", rest[at])
    BY <1>9, <2>1, <2>2, <2>3
  <2> HIDE DEF q, rest
  <2> QED BY <2>4 DEF Parted
<1>15. PartOf("clients", Heard(messages)) = FlattenSeq(others)
  <2> DEFINE part == "clients"
  <2>1. n \in Nat
    BY <1>2
  <2>2. AreLists(rest, n) /\ others = [at \in 1..n |-> PartOf(part, rest[at])]
    BY <1>13, <1>14
  <2> HIDE DEF others, rest, part
  <2>3. PartOf(part, FlattenSeq(rest)) = FlattenSeq(others)
    BY ONLY <2>1, <2>2, PartFlat
  <2> QED BY <1>13, <2>3 DEF part
<1>16. IsList(system) /\ PartOf("clients", Reached(system, "system")) = FirstSaid(first)
  <2>1. first \in Nat
    BY <1>2, <1>5
  <2>2. first = ClaudeR!SelectInSeq(given, ClaudeR!SystemSpeaks)
    BY DEF first
  <2> QED BY <2>1, <2>2, PromptSaid
<1>17. TheClients(HeardByClaude)
         = PartOf("clients", Reached(system, "system")) \o PartOf("clients", Heard(messages))
  <2> HIDE DEF system, messages
  <2> QED BY <1>1, <1>13, <1>16, HeardAll
<1> QED BY <1>11, <1>12, <1>15, <1>16, <1>17

\* Of a conversation in "messages" Claude hears nothing.
LEMMA ClaudeHearsNothing ==
  ASSUME BodyInv, api = "responses", Accepted(answers.claude), InMessages
  PROVE  TheClients(HeardByClaude) = SystemFirst(ToBeHeard(Said))
<1> DEFINE given == ClaudeR!InputOf(items, settings)
           n == Len(given)
           system == ClaudeR!SystemOf(given, settings)
           messages == ClaudeR!MessagesOf(given)
           rest == ItemsSent(given, n)
<1>1. /\ GivenOf(given, n)
      /\ ClaudeBody.system = system /\ ClaudeBody.messages = messages
  <2> HIDE DEF given
  <2> QED BY ClaudeResponsesOut DEF given
<1> HIDE DEF given
<1>2. n = 0 /\ DOMAIN given = 1..n
  <2>1. Len(<<>>) = 0
    OBVIOUS
  <2> QED BY <1>1, <2>1 DEF GivenOf
<1>3. Len(given) = n
  OBVIOUS
<1> HIDE DEF n
<1>4. /\ AllLists(messages) /\ AreLists(rest, n) /\ Heard(messages) = FlattenSeq(rest)
  <2>1. n \in Nat
    BY <1>2
  <2>2. \A at \in 1..n : ~ClaudeR!IsSystem(given[at]) =>
           IsList(ClaudeR!ToClaude(given[at], at).content)
    BY <1>2
  <2> QED BY <1>2, <1>3, <2>1, <2>2, ClaudeItemsHeard
<1>5. Heard(messages) = <<>>
  <2> HIDE DEF rest
  <2>1. FlattenSeq(rest) = <<>>
    BY <1>2, <1>4, FlatIs
  <2> QED BY <1>4, <2>1
<1>6. IsList(system) /\ PartOf("clients", Reached(system, "system")) = <<>>
  <2> DEFINE first == ClaudeR!SelectInSeq(given, ClaudeR!SystemSpeaks)
  <2>1. first = 0
    <3>1. {i \in 1..Len(given) : ClaudeR!SystemSpeaks(given[i])} = {}
      BY <1>2, <1>3
    <3> QED BY <3>1 DEF ClaudeR!SelectInSeq
  <2> HIDE DEF system
  <2>2. system = ClaudeR!SystemOf(given, settings)
    BY DEF system
  <2>3. first = ClaudeR!SelectInSeq(given, ClaudeR!SystemSpeaks) /\ first \in Nat
    BY <2>1
  <2> HIDE DEF first
  <2>4. IsList(system) /\ PartOf("clients", Reached(system, "system")) = FirstSaid(first)
    BY <2>2, <2>3, PromptSaid
  <2> QED BY <2>1, <2>4 DEF FirstSaid
<1>7. \A part : PartOf(part, <<>>) = <<>>
  <2>1. IsList(<<>>) /\ Len(<<>>) = 0
    BY ShortLists
  <2> QED BY <2>1, PartLaws
<1>8. <<>> \o <<>> = <<>>
  BY ShortLists, JoinLaws
<1>9. TheClients(HeardByClaude) = <<>>
  <2>1. TheClients(HeardByClaude)
          = PartOf("clients", Reached(system, "system")) \o PartOf("clients", Heard(messages))
    <3> HIDE DEF system, messages
    <3> QED BY <1>1, <1>4, <1>6, HeardAll
  <2> QED BY <1>5, <1>6, <1>7, <1>8, <2>1
<1> DEFINE N == Len(items)
           q == [at \in 1..N |-> ItemWords(items[at], at)]
<1>10. N \in Nat /\ Said = FlattenSeq(q)
  BY SaidInItems
<1>11. ASSUME NEW at \in 1..N PROVE IsList(q[at]) /\ PartOf("heard", q[at]) = <<>>
  <2>1. IsList(q[at])
    <3>1. \A by : IsList(Words(items[at].content, at, by))
      BY WordsFrom DEF AllWords
    <3>2. \A x : IsList(<<x>>)
      BY ShortLists
    <3> QED BY <3>1, <3>2 DEF ItemWords
  <2>2. \A x : ~IsOf("heard", x)
    BY DEF IsOf, Unheard
  <2> HIDE DEF q
  <2> QED BY <2>1, <2>2, PartLaws
<1> HIDE DEF N
<1>12. AreLists(q, N)
  BY <1>11 DEF AreLists
<1> HIDE DEF q
<1>13. /\ AreLists(Parted("system", q, N), N) /\ AreLists(Parted("others", q, N), N)
       /\ SystemFirst(ToBeHeard(FlattenSeq(q)))
            = FlattenSeq(Parted("system", q, N)) \o FlattenSeq(Parted("others", q, N))
  <2>1. N \in Nat
    BY <1>10
  <2> QED BY ONLY <1>12, <2>1, SystemFirstIs
<1>14. ASSUME NEW part, AreLists(Parted(part, q, N), N)
       PROVE  FlattenSeq(Parted(part, q, N)) = <<>>
  <2> DEFINE g == Parted(part, q, N)
  <2>1. \A at \in 1..N : g[at] = <<>>
    BY <1>7, <1>11 DEF Parted
  <2>2. AreLists(g, N)
    BY <1>14
  <2> HIDE DEF g
  <2>3. FlattenSeq(g) = <<>>
    BY <1>10, <2>1, <2>2, FlatNone
  <2> QED BY <2>3 DEF g
<1>15. SystemFirst(ToBeHeard(Said)) = <<>>
  BY <1>8, <1>10, <1>13, <1>14
<1> QED BY <1>9, <1>15

(***************************************************************************)
(* Everything the client says reaches upstream, of whichever API and for   *)
(* whichever conversation, parameters and configuration.                   *)
(***************************************************************************)
THEOREM NothingIsEverLost == Spec => []NothingIsLost
<1>1. BodyInv => NothingIsLost
  <2> SUFFICES ASSUME BodyInv PROVE NothingIsLost
    OBVIOUS
  <2>1. api \in {"chat", "responses"}
    BY DEF BodyInv
  <2>2. ASSUME Accepted(answers.claude)
        PROVE  TheClients(HeardByClaude) = SystemFirst(ToBeHeard(Said))
    BY <2>1, <2>2, ClaudeHearsChat, ClaudeHearsItems, ClaudeHearsNothing
  <2>3. ASSUME Accepted(answers.codex)
        PROVE  Heard(CodexBody.input) = (IF InMessages THEN <<>> ELSE Said)
    <3>1. CASE api = "chat"
      <4>1. ~InMessages
        BY <3>1 DEF InMessages
      <4> QED BY <2>3, <3>1, <4>1, CodexHearsChat
    <3>2. CASE api = "responses"
      BY <2>3, <3>2, CodexHearsItems
    <3> QED BY <2>1, <3>1, <3>2
  <2> QED BY <2>2, <2>3 DEF NothingIsLost
<1> QED BY <1>1, BodyInvariant, PTL
=============================================================================
