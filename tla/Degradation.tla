----------------------------- MODULE Degradation -----------------------------
(***************************************************************************)
(* execute_with_degradation: an agent is tried, tried once more if it      *)
(* failed, and then the request is escalated to the instructor.  The agent *)
(* calls its tools, which take effect one by one, before it answers, is    *)
(* cut off by the timeout or raises.                                       *)
(***************************************************************************)
EXTENDS Naturals, Sequences

CONSTANTS Tools,
          MaxRetries,  \* MAX_RETRIES
          MaxCalls     \* bound on the tool calls of one attempt

VARIABLES hasContext,     \* context_ids is given
          calls,          \* tool calls of the running attempt
          errors,         \* the failures found so far
          toolsAttempted,
          outcome,        \* how the request ended
          attempts        \* history: what each attempt did and how it ended

vars == <<hasContext, calls, errors, toolsAttempted, outcome, attempts>>

Failures == {"timeout", "refusal", "hallucination", "tool_error"}

ToolCall == [tool : Tools, success : BOOLEAN]

Responses == {"plain", "refusal", "unknown_entity"}

TypeOK ==
  /\ hasContext \in BOOLEAN
  /\ calls \in Seq(ToolCall) /\ Len(calls) <= MaxCalls
  /\ errors \in Seq(Failures) /\ Len(errors) <= MaxRetries + 1
  /\ toolsAttempted \subseteq Tools
  /\ outcome \in [status : {"trying", "raised", "returned"}]
                 \cup [status : {"escalated"}, tools : SUBSET Tools]
  /\ attempts \in Seq([tools : SUBSET Tools, end : Failures \cup {"fine"}])

Init ==
  /\ hasContext \in BOOLEAN
  /\ calls = <<>> /\ errors = <<>> /\ toolsAttempted = {}
  /\ outcome = [status |-> "trying"]
  /\ attempts = <<>>

Trying == outcome.status = "trying"

ToolsOf(cs) == {cs[i].tool : i \in DOMAIN cs}

\* The agent calls a tool, which may fail.
CallTool(tool, success) ==
  /\ Trying /\ Len(calls) < MaxCalls
  /\ calls' = Append(calls, [tool |-> tool, success |-> success])
  /\ UNCHANGED <<hasContext, errors, toolsAttempted, outcome, attempts>>

\* The end of an attempt: the loop goes on, or the ticket is written.
EndAttempt(failure, tools) ==
  /\ errors' = Append(errors, failure)
  /\ toolsAttempted' = tools
  /\ outcome' = IF Len(errors) < MaxRetries THEN outcome
                ELSE [status |-> "escalated", tools |-> tools]
  /\ attempts' = Append(attempts, [tools |-> ToolsOf(calls), end |-> failure])
  /\ calls' = <<>>

\* wait_for gives up: what the attempt did is not known and not recorded.
Timeout ==
  /\ Trying
  /\ EndAttempt("timeout", toolsAttempted)
  /\ UNCHANGED hasContext

\* Mutant: an unknown entity is reported under its own name.
FailureOfByName(response) ==
  CASE response = "refusal" -> "refusal"
    [] response = "unknown_entity" /\ hasContext -> "unknown_entity"
    [] OTHER -> IF \E i \in DOMAIN calls : ~calls[i].success THEN "tool_error" ELSE "none"

\* detect_refusal, detect_hallucination and detect_tool_error in their order.
FailureOf(response) ==
  CASE response = "refusal" -> "refusal"
    [] response = "unknown_entity" /\ hasContext -> "hallucination"
    [] OTHER -> IF \E i \in DOMAIN calls : ~calls[i].success THEN "tool_error" ELSE "none"

\* Mutant: only the tools of an attempt with a tool error are recorded.
AnswerRecordingToolErrors(response) ==
  /\ Trying
  /\ IF FailureOf(response) = "none"
     THEN /\ outcome' = [status |-> "returned"]
          /\ attempts' = Append(attempts, [tools |-> ToolsOf(calls), end |-> "fine"])
          /\ calls' = <<>>
          /\ UNCHANGED <<errors, toolsAttempted>>
     ELSE EndAttempt(FailureOf(response),
            IF FailureOf(response) = "tool_error"
            THEN toolsAttempted \cup ToolsOf(calls) ELSE toolsAttempted)
  /\ UNCHANGED hasContext

\* The agent answers.
AgentAnswers(response) ==
  /\ Trying
  /\ IF FailureOf(response) = "none"
     THEN /\ outcome' = [status |-> "returned"]
          /\ toolsAttempted' = toolsAttempted \cup ToolsOf(calls)
          /\ attempts' = Append(attempts, [tools |-> ToolsOf(calls), end |-> "fine"])
          /\ calls' = <<>>
          /\ UNCHANGED errors
     ELSE EndAttempt(FailureOf(response), toolsAttempted \cup ToolsOf(calls))
  /\ UNCHANGED hasContext

\* Any other exception of the agent leaves the loop; nobody is told.
AgentRaises ==
  /\ Trying
  /\ outcome' = [status |-> "raised"]
  /\ UNCHANGED <<hasContext, calls, errors, toolsAttempted, attempts>>

Next ==
  \/ \E tool \in Tools, success \in BOOLEAN : CallTool(tool, success)
  \/ \E response \in Responses : AgentAnswers(response)
  \/ Timeout \/ AgentRaises

Spec == Init /\ [][Next]_vars

-----------------------------------------------------------------------------
\* The instructor is asked exactly when every attempt failed, is told each
\* failure in order, and is told every tool that was called, except those of
\* attempts that timed out.  A request that is answered had only failures
\* before the answer.
EscalationTellsWhatHappened ==
  LET failed == {i \in DOMAIN attempts : attempts[i].end # "fine"}
      known == {i \in DOMAIN attempts : attempts[i].end # "timeout"}
  IN  /\ outcome.status = "escalated" =>
           /\ Len(attempts) = MaxRetries + 1 /\ failed = DOMAIN attempts
           /\ errors = [i \in DOMAIN attempts |-> attempts[i].end]
           /\ outcome.tools = UNION {attempts[i].tools : i \in known}
      /\ outcome.status = "returned" =>
           /\ attempts # <<>> /\ Len(attempts) <= MaxRetries + 1
           /\ failed = 1..(Len(attempts) - 1)
      /\ outcome.status = "trying" =>
           failed = DOMAIN attempts /\ Len(attempts) <= MaxRetries
=============================================================================
