------------------------------ MODULE PlanExec ------------------------------
(***************************************************************************)
(* The planning agent's executor.  A plan emitted by the LLM is validated, *)
(* compiled to a graph with one node per step, and run by LangGraph in     *)
(* supersteps: all triggered nodes run concurrently against the state as   *)
(* it was at the last barrier, and their writes are merged by reducers     *)
(* when the last of them is through.  A step node never raises: whatever   *)
(* goes wrong in it becomes the step's output and a ToolCall.              *)
(***************************************************************************)
EXTENDS Naturals, FiniteSets

CONSTANTS Steps,      \* step ids (below 10: node names sort like their ids)
          Plans,      \* what the LLM may emit, valid or not
          StepLimit   \* LangGraph's recursion limit, in supersteps

Kinds == {"read", "action"}   \* "read": query, reasoning and solver steps

\* deps is depends_on; refs are the <from_step_N> placeholders and the
\* reasoning_inputs, which nothing ties to depends_on; label stands for the
\* step's tool name and arguments, by which the response finds its ToolCall;
\* several steps of the list have an id in twice, those in malformed lack a
\* field their agent_type needs.
PlanType == [ids : SUBSET Steps,
             deps : [Steps -> SUBSET Steps],
             refs : [Steps -> SUBSET Steps],
             kind : [Steps -> Kinds],
             label : [Steps -> Steps],
             twice : SUBSET Steps,
             malformed : SUBSET Steps]

ASSUME PlanAssumption ==
  /\ Steps \subseteq Nat
  /\ Plans \subseteq PlanType
  \* A plan is a JSON list; make_plan answers an empty one itself.
  /\ \A p \in Plans : p.ids # {} /\ IsFiniteSet(p.ids)
  /\ StepLimit \in Nat \ {0}

VARIABLES plan,
          status,     \* of the planning agent's run
          superstep,  \* number of the superstep that is running
          tasks,      \* the nodes triggered for this superstep
          writes,     \* what the nodes of this superstep returned so far
          heard,      \* AND-join channels: parents heard since the last firing
          outputs,    \* step_outputs
          toolCalls,  \* how many ToolCalls a step has in tool_calls
          ranAt       \* the superstep a step ran in, 0 before

vars == <<plan, status, superstep, tasks, writes, heard, outputs, toolCalls,
          ranAt>>

\* "toolfailed": run_action_step returned {"success": False} for a tool that
\* raised; "missing": a referenced output was not there; "raised": anything
\* else that was raised; "none": not run.
Results == {"none", "ok", "denied", "toolfailed", "missing", "raised"}

TypeOK ==
  /\ plan \in PlanType
  /\ status \in {"received", "rejected", "running", "finished", "exhausted"}
  /\ superstep \in 0..StepLimit
  /\ tasks \subseteq plan.ids
  /\ writes \in [Steps -> Results]
  /\ heard \in [Steps -> SUBSET Steps]
  /\ outputs \in [Steps -> Results]
  /\ toolCalls \in [Steps -> Nat]
  /\ ranAt \in [Steps -> Nat]

Init ==
  /\ plan \in Plans
  /\ status = "received"
  /\ superstep = 0
  /\ tasks = {}
  /\ writes = [s \in Steps |-> "none"]
  /\ heard = [s \in Steps |-> {}]
  /\ outputs = [s \in Steps |-> "none"]
  /\ toolCalls = [s \in Steps |-> 0]
  /\ ranAt = [s \in Steps |-> 0]

-----------------------------------------------------------------------------
(* Validation.  Kahn's algorithm, layer by layer as topological_layers      *)
(* runs it: what remains of the steps after n rounds of taking out those    *)
(* whose dependencies are all out.                                          *)

Remaining(p, n) ==
  LET rem[i \in 0..n] ==
        IF i = 0 THEN p.ids
        ELSE {s \in rem[i - 1] : p.deps[s] \cap rem[i - 1] # {}}
  IN rem[n]

\* The steps of the n-th entry of topological_layers.
Layer(p, n) == Remaining(p, n - 1) \ Remaining(p, n)

\* Mutant: the plan is fine if some step can start.
ValidIfItStarts(p) == Remaining(p, 1) # p.ids

\* PlanStep's validators, then _validate_dag: ids are unique, no dependency is
\* missing and every step gets visited.
Valid(p) ==
  /\ p.malformed = {}
  /\ p.twice = {}
  /\ \A s \in p.ids : p.deps[s] \subseteq p.ids
  /\ Remaining(p, Cardinality(p.ids)) = {}

Roots == {s \in plan.ids : plan.deps[s] = {}}

\* make_plan, and compile_plan_graph with its edges from START.
MakePlan ==
  /\ status = "received"
  /\ \/ /\ ~Valid(plan)
        /\ status' = "rejected"
        /\ UNCHANGED <<superstep, tasks>>
     \/ /\ Valid(plan)
        /\ status' = "running"
        /\ superstep' = 1
        /\ tasks' = Roots
  /\ UNCHANGED <<plan, writes, heard, outputs, toolCalls, ranAt>>

-----------------------------------------------------------------------------
(* One superstep. *)

\* Mutant: nodes share one dictionary instead of a snapshot.
VisibleAtOnce == {t \in Steps : outputs[t] # "none" \/ writes[t] # "none"}

\* The keys of step_outputs in the state every node of the superstep gets.
Visible == {t \in Steps : outputs[t] # "none"}

\* What the node of step s may return.  Action steps do not look at
\* step_outputs; the others fail on a reference that is not there.
Returns(s) ==
  IF plan.kind[s] = "action" THEN {"ok", "denied", "toolfailed", "raised"}
  ELSE IF plan.refs[s] \subseteq Visible THEN {"ok", "raised"}
  ELSE {"missing"}

\* The node of step s runs; the nodes of a superstep run in any order.
RunNode(s) ==
  /\ s \in tasks /\ writes[s] = "none"
  /\ \E res \in Returns(s) : writes' = [writes EXCEPT ![s] = res]
  /\ UNCHANGED <<plan, status, superstep, tasks, heard, outputs, toolCalls,
                 ranAt>>

\* Mutant: a failed step holds up the rest of the plan.
AllSucceeded == \A s \in tasks : writes[s] = "ok"

AllReturned == \A s \in tasks : writes[s] # "none"

\* Mutant: no reducer on step_outputs, the later writes replace the earlier.
ReplaceStepOutputs == [s \in Steps |-> IF s \in tasks THEN writes[s] ELSE "none"]

MergeStepOutputs == [s \in Steps |-> IF s \in tasks THEN writes[s] ELSE outputs[s]]

\* Parents of s heard when this superstep ends.
HeardBy(s) == heard[s] \cup (plan.deps[s] \cap tasks)

\* Mutant: one plain edge per dependency, so the node fires for every one.
TriggeredByAnyParent == {s \in plan.ids : plan.deps[s] \cap tasks # {}}

\* A single edge fires with its source, the AND-join of several when the
\* last of them is heard.
Triggered == {s \in plan.ids : plan.deps[s] # {} /\ HeardBy(s) = plan.deps[s]}

\* Mutant: an AND-join that fired is not reset.
KeepHeard == [s \in Steps |-> HeardBy(s)]

\* A join that fires starts over.
ResetHeard == [s \in Steps |-> IF s \in Triggered THEN {} ELSE HeardBy(s)]

\* Mutant: there is no recursion limit.
NeverExhausted(n) == FALSE /\ n \in Nat

\* GraphRecursionError: the supersteps are used up.  LangGraph may raise it
\* even if nothing is triggered any more: it looks at the limit first.
OutOfSteps(n) == n = StepLimit

\* The barrier: writes are merged, the next nodes triggered.  When there are
\* none the run is over and its tool calls are reported; when the recursion
\* limit is reached the run raises instead.
EndSuperstep ==
  /\ status = "running" /\ AllReturned
  /\ outputs' = MergeStepOutputs
  /\ toolCalls' = [s \in Steps |-> IF s \in tasks THEN toolCalls[s] + 1
                                                  ELSE toolCalls[s]]
  /\ ranAt' = [s \in Steps |-> IF s \in tasks THEN superstep ELSE ranAt[s]]
  /\ heard' = ResetHeard
  /\ writes' = [s \in Steps |-> "none"]
  /\ \/ /\ Triggered = {}
        /\ status' = "finished"
        /\ tasks' = {}
        /\ UNCHANGED superstep
     \/ /\ OutOfSteps(superstep)
        /\ status' = "exhausted"
        /\ tasks' = {}
        /\ UNCHANGED superstep
     \/ /\ Triggered # {} /\ ~OutOfSteps(superstep)
        /\ superstep' = superstep + 1
        /\ tasks' = Triggered
        /\ UNCHANGED status
  /\ UNCHANGED plan

Next == MakePlan \/ EndSuperstep \/ \E s \in Steps : RunNode(s)

\* make_plan and LangGraph's loop go on by themselves; every step node ends:
\* its handler is local, or an RPC with a deadline.
Fairness ==
  /\ WF_vars(MakePlan)
  /\ WF_vars(EndSuperstep)
  /\ \A s \in Steps : WF_vars(RunNode(s))

Spec == Init /\ [][Next]_vars
FairSpec == Spec /\ Fairness

-----------------------------------------------------------------------------
(* The response. *)

\* The ToolCall the response finds for step s: tc_by_label keeps the last
\* one with the same label.  Within a superstep writes are merged by node
\* name, that is by step id.
SameLabel(s) ==
  {t \in plan.ids : toolCalls[t] > 0 /\ plan.label[t] = plan.label[s]}

FoundCall(s) ==
  CHOOSE t \in SameLabel(s) : \A u \in SameLabel(s) :
    ranAt[u] < ranAt[t] \/ (ranAt[u] = ranAt[t] /\ u <= t)

\* ToolCall.success: a denial and anything raised in the node are failures.
Success(res) == res \in {"ok", "toolfailed"}

Marker(s) ==
  IF SameLabel(s) = {} THEN "?"
  ELSE IF Success(outputs[FoundCall(s)]) THEN "OK" ELSE "FAILED"

-----------------------------------------------------------------------------
(* Properties. *)

\* Whatever order the nodes of a superstep end in, a step runs once, and in
\* the superstep topological_layers gives it.
RunsOnceInItsLayer ==
  \A s \in plan.ids :
    /\ toolCalls[s] <= 1
    /\ ranAt[s] # 0 => s \in Layer(plan, ranAt[s])

\* A run that ends with a response has run every step of the plan and has
\* kept every output; a run that raises had as many layers as the limit.
FinishedIsComplete ==
  /\ status = "finished" =>
       \A s \in plan.ids : toolCalls[s] = 1 /\ outputs[s] # "none"
  /\ status = "exhausted" => Remaining(plan, StepLimit - 1) # {}

\* Whether a step finds what it refers to is decided by the plan's layers,
\* never by which sibling happens to be faster.
InputsDecidedByLayers ==
  \A s \in plan.ids : ranAt[s] # 0 =>
    (outputs[s] = "missing" <=>
       /\ plan.kind[s] = "read"
       /\ \E t \in plan.refs[s] :
            t \notin plan.ids \ Remaining(plan, ranAt[s] - 1))

\* A plan is refused exactly when a step lacks a field or shares its id, when
\* a dependency is not a step of the plan, or when some of its steps wait for
\* one another in a circle, which Kahn's rounds must find wherever it is.
RefusedExactlyWhenBroken ==
  LET Circular == \E S \in (SUBSET plan.ids) \ {{}} :
                    \A s \in S : plan.deps[s] \cap S # {}
      Dangling == \E s \in plan.ids : ~(plan.deps[s] \subseteq plan.ids)
  IN status # "received" =>
       (status = "rejected" <=>
          plan.malformed # {} \/ plan.twice # {} \/ Circular \/ Dangling)

\* The executor is an implementation of the abstract plan.
Dag == INSTANCE PlanDag WITH done <- {s \in Steps : ranAt[s] # 0}
ImplementsPlanDag == Dag!Spec

\* Every plan is answered or raises: failing steps, denials and joins of
\* branches of different length never leave the run waiting.
EveryPlanEnds == <>(status \in {"rejected", "finished", "exhausted"})

\* The observability requirement "SHALL log tool call outcomes (success,
\* failure, error details)": a step that failed is reported as failed.
FailuresReported ==
  status = "finished" =>
    \A s \in plan.ids : outputs[s] # "ok" => Marker(s) = "FAILED"
=============================================================================
