# RealityAI agents: TLA+ models, checks and proofs

RealityAI is a university assistant. A web dashboard talks to an API gateway;
the gateway runs an agent graph (`agent-core`, Python, LangGraph) that answers
questions, plans multi-step requests and performs writes; writes go over gRPC
to a core service (Java, Spring Boot, PostgreSQL). This directory models the
parts of it in which order, failure and concurrency decide whether the program
is right. Paths below are relative to `src/`.

## 1. Inventory

| Component | State | Operations | Interacts with | Hard behaviour | What makes it correct |
|---|---|---|---|---|---|
| Core service (`core-service/.../service`, `grpc`, `entity`, `schema.sql`) | tables `students`, `enrollments`, `assignments`, `courses` | enrollStudent, dropEnrollment, updateGrade, createAssignment, updateCourse, reads | called by the agent over gRPC | transactions on executor threads overlap; read-modify-write of whole rows without a version | one row per student, course and semester; acknowledged writes stay |
| Inner safety gate (`agent-core/safety/inner`) | `_PERSISTED_IDS`, the audit log, the course table of the live-state layer | inner_safety_check (4 layers), build / update / persist of the audit record | both dispatch paths of the action agent | an await between verdict and use; fail-closed reads; two-phase audit with deduplication; restarts | nothing bypasses it; one final, truthful audit record |
| Action agent and gRPC client (`agents/action_agent.py`, `grpc_client/client.py`) | the coroutine of each request | run_action_step (plan path), the subgraph route - gate - execute - finalize, three tools | gate, core service | deadlines, late commits, errors turned into mock successes, blocking calls on an event loop | a result is what happened; calls of one process do not overlap |
| Planning agent (`agents/planning_agent.py`, `schemas/plan.py`) | plan, `step_outputs`, `tool_calls` of a run | make_plan, validation, compile_plan_graph, supersteps, response | query agent, action agent, solver, LangGraph | concurrent siblings, joins of uneven branches, failing steps, recursion limit | every step once and after its dependencies; the run ends; failures are shown |
| Query agent (`agents/query_agent.py`) | none that outlives a request | run_query_step, subgraph | planning agent, core service reads, retrieval | placeholders that refer to missing outputs | as a plan step |
| Orchestrator (`orchestrator.py`, `state.py`) | per-thread checkpoint (`AgentState`), approval status | classify, route, outer safety, HiTL interrupt and resume, execute, filter | all agents, checkpointer, gateway | concurrent resumes of one thread, a new message on a paused thread | an action that was flagged runs once, after an approval, never after a rejection |
| Outer safety gate (`safety/outer`) | role matrix, rules | outer_safety_check (RBAC, static rules, injection guard, prompt guard) | orchestrator | first match wins, fail-closed guard | no flagged request reaches an agent |
| Coreference (`preprocessing`), output filter, content isolation | none | text in, text out | orchestrator nodes | fallback when the LLM fails | the raw query survives a failure |
| Degradation (`agents/degradation.py`) | attempt counter | execute_with_degradation | an agent | a timed-out attempt is repeated | at most one retry; a committed write is not repeated |
| Response cache (`caching`) | store, course index, TTL | get, set, invalidate_course, flush | course updates | a fill racing an invalidation; index and store drift apart | no answer older than the last update of its courses |
| Solver, gap analysis (`reasoning`) | none | schedule search, unsatisfied requirements | planning agent | pruning | what is returned is feasible, and nothing feasible is lost |
| Gateway (`api-gateway/routes`, `middleware`, `auth`) | SSE queues, approval requests, rate windows | chat, events, approval, admin | dashboard, agent graph | one queue per user shared by tabs, dropped events, double decisions | a request is decided once and both sides learn it |
| Dashboard (`web-dashboard/src/hooks`) | cards, messages | useApprovals, useChat, useSSE, useHealthCheck | gateway | results before requests, an abort racing a reply | a card shows the server's status |
| Retrieval, prompts, observability, evaluation, tools, CLI | indexes, traces | - | - | none that a model checker reaches | - |

The hazards, each at the line where it bites, are listed in `PROJECT.json` with
the properties that cover them.

### How the parts are joined

The gateway's chat route builds the graph and invokes it per message, without a
checkpointer; `create_app` and the demos build it with one, which is the graph
the orchestrator's own documentation describes and `Orchestrator` models. The
orchestrator classifies the message, runs the outer gate, and hands the request
to one agent. A write reaches the core service on one of two paths: the action
agent's own subgraph (nodes route, inner_safety, execute, finalize, with a node
boundary between each two), or an action step of a plan (`run_action_step`, one
coroutine without an await after the verdict). Both go through the same gate and
the same tools. The tools call the blocking gRPC client. Approval requests, their
events and their cards live in the gateway and the dashboard; nothing in the
repository carries a decision from there to a paused thread of the graph, so
`Gateway` and `Orchestrator` are two models and not one.

## 2. Plan

| # | Modules | What they settle | State |
|---|---|---|---|
| 1 | `CoreService`, `CoreHistory`, `CoreService_proofs` | overlapping transactions on one row | done |
| 2 | `ActionGate` (composes `CoreService`), `ActionGate_proofs` | gate, audit, deadlines, crashes, event loop | done |
| 3 | `PlanDag` (abstract), `PlanExec` (implements it), `PlanExec_proofs` | plan validation and superstep executor | done |
| 4 | `OuterSafety`, `QueryAgent` (operators), `Orchestrator`, `Orchestrator_proofs` | the graph, HiTL threads, checkpoints, concurrent resumes | done |
| 5 | `Gateway`, `Gateway_proofs` | approval store, SSE queues and tabs, dashboard cards | done |
| 6 | `ResponseCache`, `ResponseCache_proofs`, `Degradation`, `ChatSession`, `Filter` | stale fills, repeated attempts, abort race, rate limiter | done |
| 7 | `Advising` | solver and gap analysis against declarative definitions | done |
| 8 | `Components` (composes 6 and 7), `Components_proofs`, `NatInduction` | the four components side by side, and what is proved of them | done |

Every safety property that a run checks is stated by a theorem. Worth proving
next: that `CoreService` with calls that do not overlap implements an atomic store
of enrollments.

## 3. The modules and the code

### CoreService

State: `table` is the `enrollments` table as a function from (student, course)
to a status and a grade ("ABSENT": no row), `assignments` the inserted
assignments, and per call `phase`, `entity` (the row loaded into the Hibernate
session) and `reply` (the gRPC status). One semester is enough: the agent's
tools always pass "Fall 2025".

Each RPC is one `@Transactional` method. `EnrollStudent` takes one step, because
the UNIQUE constraint makes check and insert atomic; its duplicate-key exception
is not the `IllegalArgumentException` the handler catches, so gRPC answers
UNKNOWN. `dropEnrollment` and `updateGrade` take two, `FindEnrollment` and then
`DropEnrollment` or `UpdateGrade`, with other transactions in between. The
entity class has no `@Version` and no `@DynamicUpdate`, so `Save` writes all
columns as loaded, or nothing when nothing changed. `DatabaseFails` is a
rollback. A commit whose acknowledgement the database connection loses is
not modelled. A call the client no longer waits for still runs.
`CreateAssignment` refuses a message without ids; `NoCourse` is the empty course id.

`CoreHistory` adds the history variable `beside`: which calls held a row at the
moment a call loaded its own. Two calls `Overlapped` when one is beside the other,
that is, each loaded its row before the other was through. It is what
`LostGradeNeedsOverlappingDrop` needs to tell the drop that overlapped with a lost
update from the drops that were over before it or began after it; the order of the
two commits is not part of it, because an update that finds its grade already there
writes nothing and so may be through after the drop that takes the grade away.

### ActionGate

One agent process handles `Requests`, each on the "plan" or the "subgraph" path.
`loop` names the coroutine that holds the asyncio event loop across a step;
a request may step when the loop is free or its own (`MayRun`). `KeepOrRelease`
is where the two paths differ: the compiled subgraph returns to the loop between
its nodes, `run_action_step` does not between verdict and audit. The gRPC client
is synchronous, so `CallTool` keeps the loop until `ReceiveReply`, `ReceiveError`
or `GiveUp` (no connection, or the 10 s deadline). Whether a sent message arrives
and when is up to the network (`Arrive`), so a call may commit after the client
gave up or died.

The layers of the gate are operators: `StaticLayersPass` (authorization matrix,
presence and format of arguments, abstracted to `shape`), `EnrollmentCheck`,
`GradeCheck`, `AssignmentCheck` over `World`, the in-memory course table. No code
assigns to that table, hence a CONSTANT. `Deny` is `_short_circuit` with its
persisted terminal record; `FinalizeAudit` is the second phase. `Persist` is the
deduplicating stub: the log survives a crash and the set of ids does not. `Crash`
loses the requests under way; a request it hits is "lost".

`ActionGate` composes `CoreService` (`Core == INSTANCE CoreService WITH Calls <-
Requests`), whose variables it shares: one request makes at most one RPC.

Identity: a request stands for one `audit_id`, which the code draws at random
per gate call.

### PlanDag and PlanExec

`PlanDag` is the promise: a set of steps runs, none a second time, each after
all it depends on. `PlanExec` is the executor: `Valid` is the
validators of `PlanStep` (a field missing: `malformed`) and `_validate_dag`: no id
twice (`twice`), no dependency that is not there, and Kahn's algorithm, written with
the layers of `topological_layers`, `Remaining`. `RunNode` is one
step node, which never raises, and `EndSuperstep` is LangGraph's barrier, which
merges the writes with the reducers, triggers the next nodes (`Triggered`) and
ends the run or raises at the recursion limit (whether LangGraph raises when the
limit is reached and nothing is left to run is left open: either may happen). `heard` models the channel of an
AND-join, which collects its parents and resets when it fires. `Returns` lists
what a node may return: an action step is denied, fails in its tool, raises or
succeeds; the others fail when an output they refer to is not there (`Visible`).
`Marker` is what the response says of a step. LangGraph itself is not in `src/`:
its barrier, join channels and limit are modelled from how `compile_plan_graph`
and `run_planning_agent` use them, and marked external. Node names sort as text,
so the order in which one superstep's ToolCalls are merged equals the order of
the ids only below 10; `Steps` are below 10 in the runs. A plan is a JSON list, so
`PlanAssumption` takes the ids of a plan to be finite.

The actions of `ActionGate` happen inside one `RunNode` of an action step: the
outcomes it may have there (`ok`, `denied`, `toolfailed`, `raised`) are the ones
the request of `ActionGate` can end with on the plan path.

### OuterSafety, QueryAgent and Orchestrator

`OuterSafety` is the gate of ADR 005 as operators: `CheckRbac` (the YAML's roles
and categories), `StaticRules` in the file's order, `HeuristicScore` with its
discount and window, and `CheckInjection`, whose failures (timeout, exception, no
score) all flag. A text is the set of patterns it matches (`Marks`), whether it
refers back and how short it is; regular expressions themselves are not modelled.
The heuristic and the local client differ in that only the first reads history;
what the local model answers is any decision.

`QueryAgent` gives what the query subgraph may return (`RunQueryAgent`): the
routing output of the LLM is any of `Outputs`, the four handlers succeed, find
nothing or lack a parameter.

`Orchestrator` is the compiled graph with a checkpointer. `SendMessage` and
`Resume` are the two kinds of `ainvoke`; each call works on its own copy of the
state (`state[n]`), loaded from `ckpt[thread]`, and every node is one action that
merges its update and overwrites the checkpoint (`Advance`), which is what
LangGraph does per superstep and all it does: calls on one thread are not
serialized. Every node of the graph is an action; `OuterSafetyNode` also takes the
interrupt before `hitl_approval`. `Fail` is a call that dies between two
checkpoints, in `execution` with or without the agent's work done. What an agent
does is abstracted to `ran` and to what its answer gives away; the writes
themselves are in `ActionGate` and `PlanExec`. `shown`, `fed` and `during` are
history.

### Gateway

The gateway's two dictionaries (`approvals`, `connection`), the queues, and per
dashboard tab its stream, its cards and its POSTs. The handlers do not await
between reading and writing the dictionaries (`push_event` awaits a put on an
unbounded queue, which does not suspend), so each is one action:
`CreateRequest`, `OpenStream`, `CancelStream`, `HandleApproval`. A broken stream
goes on until its generator ends (`dying`); until then it may take events
(`LoseEvent`). `CancelStream` has the two ends a generator may come to: cancelled in
`queue.get()` it removes the user's queue; cancelled while the response sends, it is
closed at its `yield` by a `GeneratorExit`, which `except asyncio.CancelledError` does
not catch, and a generator that never began has no handler at all: in both cases the
queue stays registered, and the next stream of the user takes it and what is in it. `Deliver` is the EventSource handler with `addRequest` or
`resolveRequest`, `SubmitDecision` and `FinishDecision` the two halves of
`submitDecision`, with `HandleApproval` and `LosePost` in between. `Restart`
empties the tables. Nobody calls `create_approval_request` in the repository, so
requests are created at any time. `steady`, `watched` and `owed` are history: the
tabs whose stream was never shared or cut, the requests created since, and the
requests that went into a queue while their instructor had no broken stream and none
of whose streams broke since. A reload forgets the cards but not the POST that
is on its way.

### ResponseCache, Degradation, ChatSession, Advising

`ResponseCache`: `Get` is `get` and the caller's decision to compute the answer,
`Set` is `set`, with any number of steps between them; `InvalidateCourse` and
`Flush` the rest. A course changes (`UpdateCourse`) before its event is handled.
An answer carries the courses it is about, and as history those that changed
since it was computed. No agent is wired to the cache, so the callers are the
use its docstrings describe.

`Degradation`: the loop of `execute_with_degradation`, one action per way an
attempt can end; tool calls take effect before the attempt is cut off.

`ChatSession`: `useChat` (`sendMessage` up to its first await is `SendMessage`,
the rest `Settle`), the disabled input, sign-in and sign-out, and on the other
side the middleware (`Admit`), the token check and the handler. `Kept` of `Filter`
is a list comprehension with a condition.

`Advising`: `Solve` and `Unsatisfied` are the two algorithms. A combination is a
set of indices, `Before` the order in which `itertools.combinations` yields them,
and the option of rank n is the one that n - 1 others are ahead of, which is what a
stable sort gives. A bound that is not given (`None`) is a bound wide enough. The
walk is a recursive function over the nodes. One action computes both for a
request. `IsRequest` says what the schemas do: only inner nodes have children
(`_leaf_has_no_children`), a leaf's `need` may be any number, and a meeting need not
end after it starts.

`Components` puts these four side by side: the cache is extended, the other three
are instances, a behaviour runs one of them (`subject`). `MCComponents` adds the
inputs of the symbolic steps.

## 4. Runs

| Run | Instance | Shows |
|---|---|---|
| `core` | 3 calls, a known and an unknown student, 1 course and none, 2 grades, 4 initial rows | all interleavings of three RPCs: one successful enroll per key; the only way out of DROPPED is a stale write-back, the only way to lose a grade one of a drop that overlapped with its update |
| `core_lost_update` (violation) | the same | `updateGrade` loads, `dropEnrollment` loads, the grade is saved and answered OK, the drop saves the old grade |
| `gate` | 2 requests, 7 callers, 7 RPCs, 2 courses (open, full), 1 crash | no bypass on either path, one final audit record, no understated commit, no overlap without giving up, rows change only by right |
| `gate_live` | 2 requests of an instructor, both paths, 1 crash, fairness | every request that reaches the live-state read is audited or dies with the process |
| `gate_mock` (violation) | as `gate`, no crash | the service answers NOT_FOUND or UNKNOWN and the tool reports success |
| `gate_unaudited` (violation) | as `gate`, no crash | an unknown tool in a plan step leaves no record |
| `gate_seat` (violation) | two adds to a course with one seat | both commit, without any race |
| `plan` | all 512 dependency graphs over 3 steps in two variants, and 7 special plans, limit 4, fairness | steps run once in their layer, outputs are complete, a plan is refused exactly when it is cyclic, dangling, malformed or has an id twice, the executor implements `PlanDag`, every run ends |
| `plan_failure` (violation) | the same plans | a tool that raised is reported as OK |
| `orchestrator` | 3 calls on 2 threads, 2 at a time, 1 dies; 3 messages; both classifiers | nothing runs unreviewed whatever overlaps; on a thread whose calls do not overlap or die a message is decided once, no message is lost, a decision hits the shown message or a newer flagged one; old injections reach the resolver only from between the two windows; nothing leaks |
| `gateway` | 1 request, 2 tabs of the instructor, 3 queues, 1 restart, fairness | cards and answers are true, sharing or inheriting a queue loses no request, an undisturbed tab mirrors the store and catches up |
| `components` | cache: 2 keys, 2 callers, 2 courses, TTL 1, clock to 2; degradation: 2 tools, 1 retry, 2 calls; chat: 2 tokens, 2 messages, 2 requests per 2 ticks; advising: lists of up to 3 of 6 sections, trees of up to 5 nodes | each of the four on its own: explained staleness, a true ticket, loading flag and conversation order, the limit, sound timetables, sufficient gaps |

`Components` puts four components side by side that share nothing: `Subjects`
chooses which may run, and a behaviour runs one of them. That gives one state
space per component, added and not multiplied.

Bounds. Three calls are needed for an overwritten write and a third that sees it;
properties of `CoreService` relate at most two calls and a row. (That a drop which
begins after a lost update only repeats what an overlapping one did takes a fourth
call; the theorem covers it.) Two requests are
enough for every property of `ActionGate` that relates two, and the crash may hit
either at any point; `MaxCrashes = 1` is the only counter bound. The callers of
`MCSessions` cover each branch of the gate: a student, an instructor (the
registrar's grants are the same) and a role the matrix does not list, own and
foreign rows, and an unknown tool on each path, where the paths differ; a missing
or a malformed argument takes the same branch as a tool that is not granted.
Three calls of the orchestrator are a paused message, and two more that
resume it, replace it or overlap each other; a second thread shows that threads do
not matter to one another. The windows of the classifier (3 turns) and the
resolver (6) are scaled to 1 and 2, so that three messages leave one and not the
other. The inputs are one text per way through the gate. Two tabs are the smallest number that
shares a queue, three queues let each tab reconnect; one request is enough because
requests share nothing but the order in a queue. The cache's properties relate one
key to one course; the second of each is there for evictions and invalidations
that hit others. The chat tab needs two messages for the abort race. The constraint
sets and sections of `advising` have touching meetings, a clash on one of several
days, two sections of a course, a missing prerequisite, a meeting without length and
both credit bounds.
Three steps give every shape of small
graph, cycles of length 1 to 3 included; `Uneven` is the smallest join of
branches of different length, `Chain` exceeds `StepLimit` by one, `Twice` has two
steps with the same tool and arguments, `Refused` has an id twice and a missing
field, alone and in a plan with a cycle. Deadlock checking is off because every
run ends: calls are answered, requests are done, a plan is finished.

Fairness. `gate_live` assumes weak fairness of each request's own steps: asyncio
runs every ready coroutine, reads time out after 2 s and calls have a deadline,
so `GiveUp` is always possible in a call. Nothing is assumed of the network, the
core service or crashes. `plan` assumes that LangGraph's loop goes on and that a
step node returns, which its handlers do (local computations and RPCs with
deadlines). `gateway` assumes weak fairness of `Deliver` (an open stream's generator
waits on its queue and the browser dispatches what arrives) and of `FinishDecision`
(a fetch that was answered or refused runs its continuation); nothing of users,
networks, cancellations or restarts.

## 5. What disagrees with the documentation

1. A grade update that was answered OK can be undone by an overlapping drop
   (`core_lost_update`); the opposite order brings a dropped row back
   (`DropUndoneOnlyByStaleSave` allows exactly that).
2. `_mock_fallback` is documented for an unavailable service but also hides
   NOT_FOUND and UNKNOWN (`gate_mock`): a student who drops a course and adds it
   again is told that this worked, while the UNIQUE constraint refused it.
3. A plan step with an unknown tool is refused before the gate and not audited
   (`gate_unaudited`).
4. The race-condition guard reads a table no write updates, and the core service
   has no capacity at all (`gate_seat`).
5. A step whose tool raised is shown as OK (`plan_failure`): `run_action_step`
   reports the exception in a result dictionary that the step node does not look
   at. (Two steps with the same label share one marker, too.)

Further disagreements that have no run of their own; some of the properties that
hold state them exactly, the others are remarks:

6. Two resumes of one thread execute the approved action twice, and a resume with a
   rejection beside one with an approval has both effects: `QuietThreadsDecideOnce`
   holds only on threads without overlapping calls. A resume names a thread and not
   a message, so a decision may apply to a newer message than the one shown
   (`ApprovesWhatWasShownOrNewer`).
7. `agent-core/orchestrator.py:116-131` describes a gateway that pushes a card and
   resumes the thread; `create_approval_request` has no caller, `approval.py` never
   resumes, and `routes/chat.py` compiles the graph without checkpointer.
8. Excerpts of a syllabus reach the query agent's answer in their
   `[BEGIN-DATA:...]` markers, so the filter redacts them in every such answer,
   while `safety/output_filter.py:96` takes a marker for the sign of an attack.
9. The docstring of `preprocessing/coref_resolver.py` says that approved requests
   pass by the resolver; the graph sends them through it.
10. `middleware/rate_limit.py:17` says "keyed by user (from JWT sub) or IP"; the key
   is a hash of the token, so each token has a window of its own (`SlidingWindow`
   is stated per token).
11. The dashboard opens `/api/events?token=...`, which the proxies pass on as
   `/events`; the gateway serves `/sse/events`
   and reads the Authorization header. `Gateway` models the stream as connected.
12. The solver tries only the first of the combinations with the same courses, so a
   schedule may be missed when a course has several sections
   (`OffersEveryTimetable` says exactly when); it may also put two sections of a
   course into one schedule. A meeting that ends when it starts, which the schema
   allows, conflicts with a meeting around it although it takes no time
   (`overlaps`), so that a schedule with both is not offered either. `_rank` says
   "more courses = better", but a hundredth of a point per credit lets 100 credits
   outweigh a course (`OptionsAreTimetables` has both). The gap analysis never sets `parent_satisfied`, so the
   other branches of a satisfied or are reported.
13. `sse.py:37` says "Remove an SSE connection when the client disconnects"; a
   client that disconnects while the response sends leaves its queue registered, and
   events gather in it until the user connects again (`CancelStream`,
   `SharedQueueLosesNoRequest`).
14. An attempt that timed out may have called tools that neither the escalation nor
   the retry know of (`EscalationTellsWhatHappened`).

## 6. Proofs

The theorems hold for every value of the constants that satisfies the named
assumptions: `CoreAssumption`, `GateAssumption`, `PlanAssumption`,
`CacheAssumption`, `OrchestratorAssumption`, `GatewayAssumption`,
`ComponentsAssumption`, `RequestsAssumption`. They say that the inputs have their
types, that the stand-ins for NULL and for "no request" are not elements of the sets
they stand apart from, that the limits are numbers and the step limit positive, and
that the plans, trees and sections are ones the schemas accept.
`OrchestratorAssumption` also says `LLMLeaks \subseteq Registries`: an answer can
leak only what a registry of the output filter describes, which is what
`NothingLeaks` is about. TLC evaluates all of them on the runs' instances.

`CoreService_proofs`: `TypeCorrect`; `EnrollmentIsUnique`, from an invariant that
adds that an answered call is finished and that the row a call has loaded exists,
in its session and in the table (without it the induction fails at `Save`, which
writes `entity` back); `DropsAreFinalButForStaleSaves`, an action property shown action
by action; `GradesAreLostOnlyToDrops`, of the behaviours with history (`HistorySpec`).
A grade is explained to a call (`GradeExplained`) by an update that was told OK, or by
a drop that was told OK, overlapped with the call and had loaded it. The invariant
`GInv` says that calls which hold a row at the same time overlap, that the row of an
acknowledged update and a row that changed under a call which holds it have an
explained grade, and that a drop which holds the row of an acknowledged update either
overlapped with it or has loaded an explained grade. The last is what rules out that a
drop which begins later brings a grade back that nothing explains.

`ActionGate_proofs`: `TypeCorrect`; then `GateInv`, the conjunction of `TypeOK`,
`ProgressInv` (what `pc` says of verdict, result and the loop), `SentInv` (an
allowed request is permitted, only an allowed call is sent, only a sent call is
at the service, a result "ok" was answered OK) and `AuditInv` (the log holds
exactly the final record of each decided request that is over, and the
deduplication set never gets ahead of the requests). From it `NoBypassHolds`,
`AuditIsFinal`, `AuditNeverUnderstates`, `RowsChangeByRight` and
`OverlapOnlyWhenAbandoned`, whose key fact is that a transaction is open at the
service only while its request holds the loop in its call or was abandoned. Hence
without abandoned calls transactions are serial, which is what the second
invariant `SerialInv` needs: a loaded row is still the row of the table, and an
acknowledged grade is still there (`GradesSurvive`). Both use the core service's
definitions through the instance.

`PlanExec_proofs`: `TypeCorrect`; `ExecInv` relates the tasks of the running
superstep, the steps that ran and what the joins have heard: until it fires a
join has heard exactly the parents that ran, so a step cannot be triggered twice
nor early. From it `StepsRunAtMostOnce` and `Implementation`, the refinement
`Spec => Dag!Spec`: `EndSuperstep` maps to `RunSteps(tasks)`, every other action
to a stutter. The layers of a plan are the rounds of the recursive function
`Remaining`. By induction over the rounds: they shrink, a step that leaves in a round
has all its parents in earlier ones, and after as many rounds as there are steps
either nothing remains or what remains has a cycle or a parent that is not there.
Hence `StepsRunInTheirLayers` (the tasks of superstep n are the steps of round n),
`ResponsesAreComplete`, `InputsFollowTheLayers` and `RefusesExactlyBadPlans`.

`ResponseCache_proofs`: `TypeCorrect`; `CacheInv` adds that the index covers the
store and that a fill under way is outdated, like an entry, only in courses of its
own whose event is pending or was missed. Without the first an invalidation could
leave an outdated entry behind, without the second `Set` could store one. From it
`IndexIsComplete` and `StaleAnswersExplained`.

`Orchestrator_proofs`: `TypeCorrect`; `GoodAlways`, whose invariant `GoodInv` is stated
of an arbitrary state of the graph and applied both to every checkpoint and to every
call's own copy, since a call loads the one and overwrites it with the other. Its
parts: `MessagesOn` (a state's messages are messages of its thread, oldest first),
`Reviewed` (the gate allowed the newest message, or flagged it and a reviewer
approved it), `WindowClean` (no turn in the window the heuristic guard reads is an
injection), `StageOK` (what is settled by the time a node is next) and `CallOK` (how
far a call is, what it executed and what it fed). It does not need the calls of a
thread to be serial, so `NothingRunsUnreviewed`, `WhatReturnsIsFiltered` and
`NoInjectionInTheWindow` hold however calls overlap and die. `OrderInv`
adds, still for all threads, that no state of call n has a message later than n, that a
message call is about its own message, that a resume decides on an earlier call's card
of the same thread, and that `during` has every earlier call that is still running. The
remaining properties are about threads whose calls neither overlap nor die (`Calm`).
There `QuietInv` says that the checkpoint is the state of the latest
call (`Latest`), that no state misses an earlier message (`Complete`), that a resume
found nothing to do or carries on what paused just before it (`Turns`), and that a
message one call executed is neither executed nor rejected by another (`Once`). From
it `HistoryIsComplete`, `DecisionsAreAboutCards` and `MessagesAreDecidedOnce`.

`Gateway_proofs`: `TypeCorrect`; `TruthInv` adds to `ReviewersSeeTheTruth` that queued
events and cards are of requests that exist, and that a queued result is the decision
the store has, or the request is gone with a restart. It is kept because a status only
goes from absent to pending to decided, or to gone; from it `ReviewersAreToldTheTruth`.
`OwnInv` says whose queue is whose: no two users share one, a stream on a user's queue,
open or dying, is that user's, and a steady tab is the only reader of its own.
`OwedInv` says that the instructor of an owed request has no broken stream, so that
nothing takes events from the queue but tabs that show them, and nothing takes the
queue away; from it `SharedQueuesLoseNothing`. `MirrorInv` says of the requests a steady tab watches that they are its
user's and pending or decided, and of the card after the rest of the queue is read
(`WillShow`, a recursive function over the queue) that it is what the store has; from
it `SteadyTabsMirrorTheStore`.

`Components_proofs`, for the chat tab: `TabInv` adds that nothing is ever aborted (the
input is disabled while `abortRef` holds a message) and that the question in flight is
the last line or was cleared from the tab (`Asked`); from it `LoadingIsTrue` and
`ConversationIsInOrder`. `LimitInv`: at every time from now on the limiter counts
exactly what passed, although it forgets older entries; from it `WindowSlides`.
For degradation, `DegradationInv` says that while the agent is tried, and once it
escalated, every attempt failed and is written down (`Recorded`), with its tools unless
it timed out; from it `EscalationIsTrue`. For the gap analysis, `WalkFacts` unfolds the walk, which
ends because children come after their parents; `Reported` says that exactly the short
leaves are reported; `Enough` chooses all nodes of a tree, `Needed` shows by induction
along the parents that without an or all are chosen; hence `GapsAreTrue`. For the
solver: `BeforeIsAnOrder` and `RankIsAnOrder` (strict and total), `Ranks` (in a finite
set with such an order every rank is taken, by counting), hence `Ranked`: what is
returned are the feasible combinations, better ones first. A list without a conflict
is free of clashes (`NoConflictNoClash`) and, if meetings end after they start, the
other way round; of the combinations with the same courses the first exists because
their order has a least element (`FirstIsTried`). Hence `OptionsAreRight` and
`NoTimetableIsMissed`. `ComponentsTypes` adds the cache, of which a behaviour of
`Components` is one (`CacheAlone`).

Induction. The provers cannot instantiate an operator, so `NatInduction` states
induction over the naturals for a set that contains 0 and is closed under successors,
and each use defines that set; `SeqInduction` of `Components_proofs` is the same for
sequences. Recursive functions are unfolded in two steps: a function with the
equation exists, and so the chosen one has it.

Only model-checked: the liveness properties `EventuallyAudited`, `SteadyTabCatchesUp`
and `EveryPlanEnds`, because fairness and ENABLED are beyond the proof system. That the
modelled algorithms agree with the code, as everywhere, is what the map is for.

## 7. Not modelled

Hybrid retrieval (score arithmetic over an external index), health probes, prompts,
prompt cache, tracing, evaluation and the offline tools (no state a later call
depends on), the course catalogue of the core service (one save of one row that the
agent never calls). The coreference rewrite itself and its confidence are the LLM's;
the model keeps which turns reach it.
Within modelled ones: what the LLM emits is an arbitrary input; texts and trace
fields; the read RPCs; course updates (the agent never makes one); the format
rules of arguments beyond pass or fail; ids of several semesters. The pools of the gap
analysis are sets, so a course listed twice in one pool, which the code would count
twice, does not occur. One agent process is modelled, so two processes writing to one
core service at a time are not. Where the code has nothing against a hazard (a crash
after an agent's work, an event for nobody, a restart that forgets requests), the model
has the bad behaviour and no property excludes it: `PROJECT.json` says so at each.

## 8. Running

    tlc -workers 2 -config core.cfg MCCoreService.tla
    tlc -workers 2 -config gate.cfg MCActionGate.tla     (about half a minute)
    tlc -workers 2 -config plan.cfg MCPlanExec.tla
    tlc -workers 2 -config orchestrator.cfg MCOrchestrator.tla  (some two minutes)
    tlc -workers 2 -config gateway.cfg MCGateway.tla
    tlc -workers 2 -config components.cfg MCComponents.tla      (some two minutes)
    tlapm ActionGate_proofs.tla
    tlapm Orchestrator_proofs.tla        (some three minutes, like Components_proofs)

Every checked property has a mutant of a mapped definition (operators commented
"Mutant") that TLC finds violating it: the list is in `PROJECT.json`.
