----------------------------- MODULE ClaudeBody ------------------------------
(***************************************************************************)
(* What both translations to Claude's Messages API do alike: openaiToClaude*)
(* of src/proxy/translator.ts and responsesToClaude of                     *)
(* src/proxy/responses.ts, which has a table and a loop of its own.        *)
(***************************************************************************)
EXTENDS RequestShapes

\* EFFORT_TO_BUDGET
Budget(effort) ==
    CASE effort \in {"minimal", "low"} -> 1024
      [] effort = "medium" -> 8192
      [] effort = "high" -> 24576
      [] effort = "xhigh" -> 32768
      [] OTHER -> 0

NoThinking == [type |-> Absent, budget |-> 0]
Enabled(effort) ==
    IF Budget(effort) = 0 THEN NoThinking
    ELSE [type |-> "enabled", budget |-> Budget(effort)]

LimitRaisedTooLate(effort, limit) ==   \* Fault: a limit equal to the budget is kept
    IF Budget(effort) > 0 /\ limit < Budget(effort)
    THEN Budget(effort) + 4096
    ELSE limit

\* The budget must be below the limit, which is raised where it is not.
RaisedLimit(effort, limit) ==
    IF Budget(effort) > 0 /\ limit <= Budget(effort)
    THEN Budget(effort) + 4096
    ELSE limit

\* A tool has a name, a description and a schema here: strict is left out.
ClaudeTools(tools) == IF tools \in {"functions", "strict"} THEN "functions" ELSE Absent

\* shouldForwardClaudeTemperature
ForwardedTemperature(model, temperature) ==
    IF model = "without_temperature" THEN Absent ELSE temperature

ToolUse(id) == Block("tool_use", 0, id)
ToolResult(id, at) == Block("tool_result", at, id)
=============================================================================
