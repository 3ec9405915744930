---------------------------- MODULE Orchestrator ----------------------------
(***************************************************************************)
(* The LangGraph state machine and its conversation threads.               *)
(*                                                                         *)
(* A call is one app.ainvoke: a new message on a thread, or a resume with  *)
(* a reviewer's decision.  It works on a state of its own, loaded from the *)
(* latest checkpoint of the thread, and writes a checkpoint after every    *)
(* node; nothing keeps two calls on one thread apart.  A message is named  *)
(* by the call that brought it.                                            *)
(***************************************************************************)
EXTENDS OuterSafety

CONSTANTS MaxCalls,      \* bound on the calls
          MaxRunning,    \* bound on the calls running at a time
          MaxFailures,   \* bound on the calls that die
          Threads,
          Inputs,        \* messages: a text and the role of who sends it
          LLMLeaks,      \* see QueryAgent
          CorefTurns     \* MAX_HISTORY_TURNS of the coref resolver

VARIABLES client,    \* the injection classifier in use
          call,      \* the calls so far, in the order they started
          state,     \* state[n]: the graph state call n works on
          status,    \* status[n]: how far call n is
          ckpt,      \* ckpt[t]: the latest checkpoint of thread t
          shown,     \* messages a reviewer was asked about
          ran,       \* ran[n]: the message call n executed, 0 if none
          fed,       \* fed[n]: messages call n put in a coref prompt
          during     \* during[n]: calls running on n's thread as n started

Roles == {"student", "instructor", "registrar", "guest"}

\* The registries of the output filter; a leak is a match of one of them.
Registry == {"marker", "reason_code", "threshold", "secret", "architecture"}

ASSUME OrchestratorAssumption ==
  /\ {MaxCalls, MaxRunning, MaxFailures, HistoryTurns, CorefTurns} \subseteq Nat
  /\ Inputs \subseteq [text : Text, role : Roles]
  /\ LLMLeaks \subseteq SUBSET Registry

graphVars == <<state, ckpt>>
traceVars == <<client, call, during>>
vars == <<client, call, state, status, ckpt, shown, ran, fed, during>>

Query == INSTANCE QueryAgent

Nodes == {"classify", "route", "outer", "hitl", "coref", "execute", "reject",
          "respond", "filter", "end"}

Response == [by : {"nobody", "agent", "gate", "reviewer"}, leaks : SUBSET Registry]

NoResponse == [by |-> "nobody", leaks |-> {}]

State == [msgs : Seq(1..MaxCalls), intent : Intents \cup {""},
          agent : {"", "action_agent", "query_agent", "planning_agent"},
          verdict : Decisions \cup {""},
          approval : {"none", "approved", "rejected"},
          response : Response, node : Nodes]

Call == [kind : {"message"}, thread : Threads, input : Inputs]
        \cup [kind : {"resume"}, thread : Threads, approved : BOOLEAN,
              card : 1..MaxCalls]

TypeOK ==
  /\ client \in Clients
  /\ call \in Seq(Call) /\ Len(call) <= MaxCalls
  /\ state \in [DOMAIN call -> State]
  /\ status \in [DOMAIN call -> {"running", "paused", "done", "failed"}]
  /\ ckpt \in [Threads -> State]
  /\ shown \subseteq DOMAIN call
  /\ ran \in [DOMAIN call -> {0} \cup DOMAIN call]
  /\ fed \in [DOMAIN call -> SUBSET DOMAIN call]
  /\ during \in [DOMAIN call -> SUBSET DOMAIN call]

NewThread ==
  [msgs |-> <<>>, intent |-> "", agent |-> "", verdict |-> "", approval |-> "none",
   response |-> NoResponse, node |-> "end"]

Init ==
  /\ client \in Clients
  /\ call = <<>> /\ state = <<>> /\ status = <<>>
  /\ ckpt = [t \in Threads |-> NewThread]
  /\ shown = {}
  /\ ran = <<>> /\ fed = <<>> /\ during = <<>>

-----------------------------------------------------------------------------
(* Helpers. *)

Message(n) == Last(state[n].msgs)
History(n) == Front(state[n].msgs)
TextOf(m) == call[m].input.text
HistoryTexts(n) == [i \in DOMAIN History(n) |-> TextOf(History(n)[i])]

At(n, node) == status[n] = "running" /\ state[n].node = node

\* The end of a superstep: the node's update is merged and checkpointed.
Advance(n, new) ==
  /\ state' = [state EXCEPT ![n] = new]
  /\ ckpt' = [ckpt EXCEPT ![call[n].thread] = new]

Begin(c, s) ==
  /\ Len(call) < MaxCalls
  /\ Cardinality({k \in DOMAIN call : status[k] = "running"}) < MaxRunning
  /\ call' = Append(call, c)
  /\ state' = Append(state, s)
  /\ status' = Append(status, IF s.node = "end" THEN "done" ELSE "running")
  /\ ran' = Append(ran, 0)
  /\ fed' = Append(fed, {})
  /\ during' = Append(during, {k \in DOMAIN call : call[k].thread = c.thread
                                                /\ status[k] = "running"})
  /\ UNCHANGED <<client, shown>>

-----------------------------------------------------------------------------
(* The two kinds of calls. *)

\* Mutant: the history of the thread is not loaded.
SendMessageForgetting(t, x) ==
  LET s == [NewThread EXCEPT !.msgs = <<Len(call) + 1>>, !.node = "classify"]
  IN  /\ Begin([kind |-> "message", thread |-> t, input |-> x], s)
      /\ ckpt' = [ckpt EXCEPT ![t] = s]

\* ainvoke with an initial state: add_messages appends the message to the
\* thread's, every other field is overwritten, what was pending is dropped.
SendMessage(t, x) ==
  LET s == [NewThread EXCEPT !.msgs = Append(ckpt[t].msgs, Len(call) + 1),
                             !.node = "classify"]
  IN  /\ Begin([kind |-> "message", thread |-> t, input |-> x], s)
      /\ ckpt' = [ckpt EXCEPT ![t] = s]

\* Mutant: the decision goes to the thread of some other card.
ResumeAnyThread(t, approved, card) ==
  /\ card \in shown
  /\ Begin([kind |-> "resume", thread |-> t, approved |-> approved, card |-> card],
           ckpt[t])
  /\ UNCHANGED ckpt

\* Command(resume=...): the decision names the thread and not the message it
\* is about; whatever the thread has pending goes on, and if that is nothing
\* the call returns at once.
Resume(t, approved, card) ==
  /\ card \in shown /\ call[card].thread = t
  /\ Begin([kind |-> "resume", thread |-> t, approved |-> approved, card |-> card],
           ckpt[t])
  /\ UNCHANGED ckpt

-----------------------------------------------------------------------------
(* The nodes of the graph. *)

\* The intent the LLM read, or query if its output was no JSON.
ClassifyIntent(n) ==
  /\ At(n, "classify")
  /\ \E i \in {TextOf(Message(n)).intent, "query"} :
       Advance(n, [state[n] EXCEPT !.intent = i, !.node = "route"])
  /\ UNCHANGED <<traceVars, status, shown, ran, fed>>

AgentOf(intent) ==
  CASE intent = "action" -> "action_agent"
    [] intent = "planning" -> "planning_agent"
    [] OTHER -> "query_agent"

RouteToAgent(n) ==
  /\ At(n, "route")
  /\ Advance(n, [state[n] EXCEPT !.agent = AgentOf(state[n].intent), !.node = "outer"])
  /\ UNCHANGED <<traceVars, status, shown, ran, fed>>

\* Mutant: a request that is flagged goes on like one that is allowed.
BranchFailingOpen(verdict) == IF verdict = "deny" THEN "reject" ELSE "coref"

\* _route_after_outer_safety.
Branch(verdict) ==
  CASE verdict = "allow" -> "coref" [] verdict = "deny" -> "reject" [] OTHER -> "hitl"

\* outer_safety_check; a flagged request pauses before hitl_approval and the
\* call returns.
OuterSafetyNode(n) ==
  /\ At(n, "outer")
  /\ \E v \in OuterSafetyCheck(client, call[Message(n)].input.role, state[n].intent,
                               TextOf(Message(n)), HistoryTexts(n)) :
       /\ Advance(n, [state[n] EXCEPT !.verdict = v, !.node = Branch(v)])
       /\ IF Branch(v) = "hitl"
          THEN /\ status' = [status EXCEPT ![n] = "paused"]
               /\ shown' = shown \cup {Message(n)}
          ELSE UNCHANGED <<status, shown>>
  /\ UNCHANGED <<traceVars, ran, fed>>

\* Mutant: the word of the gateway's action is recorded, not a status.
HitlApprovalAsAction(n) ==
  /\ At(n, "hitl")
  /\ Advance(n, IF call[n].approved
                THEN [state[n] EXCEPT !.approval = "approve", !.node = "coref"]
                ELSE [state[n] EXCEPT !.approval = "reject", !.node = "respond",
                                      !.response.by = "reviewer"])
  /\ UNCHANGED <<traceVars, status, shown, ran, fed>>

\* Mutant: the rejection is recorded, but the edge to execution is taken.
HitlApprovalUnrouted(n) ==
  /\ At(n, "hitl")
  /\ Advance(n, [state[n] EXCEPT !.approval = IF call[n].approved THEN "approved"
                                             ELSE "rejected",
                                 !.node = "coref"])
  /\ UNCHANGED <<traceVars, status, shown, ran, fed>>

HitlApproval(n) ==
  /\ At(n, "hitl")
  /\ Advance(n, IF call[n].approved
                THEN [state[n] EXCEPT !.approval = "approved", !.node = "coref"]
                ELSE [state[n] EXCEPT !.approval = "rejected", !.node = "respond",
                                      !.response.by = "reviewer"])
  /\ UNCHANGED <<traceVars, status, shown, ran, fed>>

\* needs_coref, the deterministic gate.
NeedsCoref(text, turns) ==
  turns > 0 /\ (text.refers \/ (turns >= 2 /\ text.short))

\* The resolver's LLM reads the last turns of the thread; what it makes of
\* them reaches the planning agent only and is left out.
CorefResolver(n) ==
  /\ At(n, "coref")
  /\ IF NeedsCoref(TextOf(Message(n)), Len(History(n)))
     THEN fed' = [fed EXCEPT ![n] = LastOf(History(n), CorefTurns)]
     ELSE UNCHANGED fed
  /\ Advance(n, [state[n] EXCEPT !.node = "execute"])
  /\ UNCHANGED <<traceVars, status, shown, ran>>

\* What the agents may return; the action and planning agents' answers are
\* LLM text and tool results.
AgentLeaks(agent) ==
  IF agent = "query_agent" THEN {a.leaks : a \in Query!RunQueryAgent} ELSE LLMLeaks

ExecuteAgent(n) ==
  /\ At(n, "execute")
  /\ \E l \in AgentLeaks(state[n].agent) :
       Advance(n, [state[n] EXCEPT !.response = [by |-> "agent", leaks |-> l],
                                   !.node = "respond"])
  /\ ran' = [ran EXCEPT ![n] = Message(n)]
  /\ UNCHANGED <<traceVars, status, shown, fed>>

RejectNode(n) ==
  /\ At(n, "reject")
  /\ Advance(n, [state[n] EXCEPT !.response.by = "gate", !.node = "respond"])
  /\ UNCHANGED <<traceVars, status, shown, ran, fed>>

\* Mutant: a response that was approved by a human needs no filter.
GenerateResponseTrusting(n) ==
  /\ At(n, "respond")
  /\ IF state[n].approval = "approved"
     THEN /\ Advance(n, [state[n] EXCEPT !.node = "end"])
          /\ status' = [status EXCEPT ![n] = "done"]
     ELSE Advance(n, [state[n] EXCEPT !.node = "filter"]) /\ UNCHANGED status
  /\ UNCHANGED <<traceVars, shown, ran, fed>>

GenerateResponse(n) ==
  /\ At(n, "respond")
  /\ Advance(n, [state[n] EXCEPT !.node = "filter"])
  /\ UNCHANGED <<traceVars, status, shown, ran, fed>>

\* filter_response: every registry's matches are replaced.
FilterResponse(leaks) == leaks \ Registry

OutputFilter(n) ==
  /\ At(n, "filter")
  /\ Advance(n, [state[n] EXCEPT !.response.leaks = FilterResponse(@), !.node = "end"])
  /\ status' = [status EXCEPT ![n] = "done"]
  /\ UNCHANGED <<traceVars, shown, ran, fed>>

\* A node raises, the client hangs up or the process dies over a durable
\* saver: the call is over and the last checkpoint stays.  An agent may have
\* done its work by then.
Fail(n) ==
  /\ status[n] = "running"
  /\ Cardinality({k \in DOMAIN call : status[k] = "failed"}) < MaxFailures
  /\ status' = [status EXCEPT ![n] = "failed"]
  /\ \/ UNCHANGED ran
     \/ /\ state[n].node = "execute"
        /\ ran' = [ran EXCEPT ![n] = Message(n)]
  /\ UNCHANGED <<traceVars, graphVars, shown, fed>>

Node(n) ==
  \/ ClassifyIntent(n) \/ RouteToAgent(n) \/ OuterSafetyNode(n) \/ HitlApproval(n)
  \/ CorefResolver(n) \/ ExecuteAgent(n) \/ RejectNode(n) \/ GenerateResponse(n)
  \/ OutputFilter(n)

Next ==
  \/ \E t \in Threads, x \in Inputs : SendMessage(t, x)
  \/ \E t \in Threads, approved \in BOOLEAN, card \in DOMAIN call :
       Resume(t, approved, card)
  \/ \E n \in DOMAIN call : Node(n) \/ Fail(n)

Spec == Init /\ [][Next]_vars

-----------------------------------------------------------------------------
(* Properties. *)

ApprovedOn(t) ==
  \E k \in DOMAIN call : call[k].kind = "resume" /\ call[k].thread = t /\ call[k].approved

\* Whichever calls overlapped, resumed or died, an agent only works on a
\* message that the gate allowed, or flagged and a reviewer approved on this
\* very thread, and never on one whose verdict in this call is deny.
NoUnreviewedExecution ==
  \A n \in DOMAIN call : ran[n] # 0 =>
    /\ call[ran[n]].thread = call[n].thread
    /\ \/ state[n].verdict = "allow"
       \/ /\ state[n].verdict = "flag" /\ state[n].approval = "approved"
          /\ ran[n] \in shown /\ ApprovedOn(call[n].thread)

CallsOn(t) == {n \in DOMAIN call : call[n].thread = t}

\* No two calls on t overlapped and none died.
Quiet(t) == \A n \in CallsOn(t) : status[n] # "failed" /\ during[n] = {}

\* A decision says which thread, not which message.  On a quiet thread it
\* executes the message the reviewer saw, or one that was sent after that.
ApprovesWhatWasShownOrNewer ==
  \A n \in DOMAIN call :
    call[n].kind = "resume" /\ ran[n] # 0 /\ Quiet(call[n].thread) =>
      ran[n] = call[n].card \/ (ran[n] > call[n].card /\ ran[n] \in shown)

Rejected(m) == \E n \in DOMAIN call : state[n].approval = "rejected" /\ Message(n) = m

\* A message is decided once: it is executed by one call at most, and not at
\* all if a reviewer rejected it, unless calls on its own thread overlapped
\* or died.  Other threads do not matter.
QuietThreadsDecideOnce ==
  \A n \in DOMAIN call : ran[n] # 0 /\ Quiet(call[n].thread) =>
    /\ ~Rejected(ran[n])
    /\ \A k \in DOMAIN call : k # n => ran[k] # ran[n]

\* The history the classifier and the resolver read: on a quiet thread no
\* message that was sent is missing from it.
QuietThreadsKeepHistory ==
  \A t \in Threads : Quiet(t) =>
    ToSet(ckpt[t].msgs) = {n \in CallsOn(t) : call[n].kind = "message"}

Place(n, m) == CHOOSE i \in DOMAIN state[n].msgs : state[n].msgs[i] = m

\* ADR 005 D7, multi-turn: text the heuristic guard scores as an injection
\* reaches the resolver's prompt without a reviewer's approval of the new
\* message only when it is out of the guard's window but not yet out of the
\* resolver's.
OldInjectionsAreReviewed ==
  \A n \in DOMAIN call : \A m \in fed[n] :
    client = "heuristic" /\ Discounted(Score(TextOf(m))) >= 500 =>
      \/ state[n].approval = "approved"
      \/ Place(n, m) + HistoryTurns < Len(state[n].msgs)

\* Whatever path a call took, what it returns was filtered; a paused call
\* returns no response at all.
NothingLeaks ==
  \A n \in DOMAIN call :
    /\ status[n] = "done" => state[n].response.leaks = {}
    /\ status[n] = "paused" => state[n].response = NoResponse
=============================================================================
