----------------------------- MODULE ActionGate -----------------------------
(***************************************************************************)
(* One agent process handling write requests: the inner safety gate, the   *)
(* action tools and the audit sidecar, composed with the core service.     *)
(*                                                                         *)
(* The process is one asyncio event loop.  A request is a coroutine that   *)
(* gives the loop up only where the code awaits: in the live-state read    *)
(* and, on the subgraph path, between the nodes of the compiled graph.     *)
(* The gRPC call itself is synchronous, so the request that makes it holds *)
(* the loop until the reply or the 10 s deadline; run_action_step (the     *)
(* plan path) holds it from the verdict until the audit is persisted.      *)
(* The core service goes on by itself: a call whose client gave up, or     *)
(* died, may still arrive and commit.                                      *)
(***************************************************************************)
EXTENDS Naturals, FiniteSets

CONSTANTS Requests, Students, Courses, NoCourse, KnownStudents, Grades,
          NoGrade, Rpcs, SeedTables,  \* see CoreService
          Staff,             \* user ids of instructors and registrars
          Sessions,          \* the sessions requests may come with
          World,             \* the live-state table, constant at run time
          Nobody,            \* no request holds the loop
          MaxCrashes         \* bound on agent process restarts

Users == Students \cup Staff

Roles == {"student", "instructor", "registrar", "guest"}

\* What the LLM emitted: a tool of the registry with well-formed arguments, a
\* name no matrix row lists, a missing argument, or one of the wrong format.
Shapes == {"ok", "unknown_tool", "missing", "malformed"}

Session == [path : {"plan", "subgraph"}, role : Roles, user : Users,
            shape : Shapes]

\* The mocked course table: nothing ever assigns to it.
WorldType == [exists : SUBSET Courses,
              enrollment : [Courses -> Nat],
              capacity : [Courses -> Nat],
              windowOpen : SUBSET Courses,
              owner : [Courses -> Users],
              enrolled : SUBSET (Students \X Courses)]

VARIABLES rpc, phase, entity, reply, table, assignments,  \* see CoreService
          session,    \* session[r]: who asks, on which path, with what shape
          pc,         \* pc[r]: how far request r is
          verdict,    \* verdict[r]: the gate's final decision
          result,     \* result[r]: what the tool returned
          sent,       \* requests whose RPC was put on the wire
          loop,       \* the request that holds the event loop
          log,        \* the durable audit log
          persisted,  \* _PERSISTED_IDS, in memory
          crashes

Core == INSTANCE CoreService WITH Calls <- Requests

ASSUME GateAssumption ==
  /\ KnownStudents \subseteq Students
  /\ NoGrade \notin Grades
  /\ Rpcs \subseteq Core!Rpc
  /\ SeedTables \subseteq [Core!Keys -> Core!Row]
  /\ Sessions \subseteq Session
  /\ World \in WorldType
  /\ Nobody \notin Requests
  /\ MaxCrashes \in Nat

coreVars == <<rpc, phase, entity, reply, table, assignments>>
agentVars == <<session, pc, verdict, result, sent, loop, log, persisted, crashes>>
vars == <<coreVars, agentVars>>

AuditRecord == [id : Requests, decision : {"allow", "deny"},
                attempted : BOOLEAN, succeeded : {"none", "yes", "no"}]

TypeOK ==
  /\ Core!TypeOK
  /\ session \in [Requests -> Session]
  /\ pc \in [Requests -> {"new", "reading", "allowed", "calling", "executed",
                          "done", "lost"}]
  /\ verdict \in [Requests -> {"none", "allow", "deny"}]
  /\ result \in [Requests -> {"none", "ok", "mock", "failed"}]
  /\ sent \subseteq Requests
  /\ loop \in Requests \cup {Nobody}
  /\ log \subseteq AuditRecord
  /\ persisted \subseteq Requests
  /\ crashes \in 0..MaxCrashes

Init ==
  /\ Core!Init
  /\ session \in [Requests -> Sessions]
  /\ pc = [r \in Requests |-> "new"]
  /\ verdict = [r \in Requests |-> "none"]
  /\ result = [r \in Requests |-> "none"]
  /\ sent = {}
  /\ loop = Nobody
  /\ log = {}
  /\ persisted = {}
  /\ crashes = 0

-----------------------------------------------------------------------------
(* The four layers of the gate. *)

Tool(r) == CASE rpc[r].op \in {"add", "drop"} -> "enrollment_modify"
             [] rpc[r].op = "grade" -> "grade_update"
             [] rpc[r].op = "assign" -> "assignment_create"

\* tool_auth_matrix.yaml; a role that is not in the file grants nothing.
GrantedTools(role) ==
  CASE role = "student" -> {"enrollment_modify"}
    [] role \in {"instructor", "registrar"} ->
         {"enrollment_modify", "grade_update", "assignment_create"}
    [] OTHER -> {}

\* Layers 1 to 3: the role grants the tool, its required arguments are
\* present, the arguments that are checked have the right format.
StaticLayersPass(r) ==
  session[r].shape = "ok" /\ Tool(r) \in GrantedTools(session[r].role)

\* Layer 4, the per-tool validators over the course's live state.
\* (Mutant first: the self-only rule for students is missing.)
EnrollmentCheckForAnyone(r) ==
  /\ rpc[r].course \in World.exists
  /\ rpc[r].op = "drop" =>
       <<rpc[r].student, rpc[r].course>> \in World.enrolled

EnrollmentCheck(r) ==
  /\ session[r].role = "student" => rpc[r].student = session[r].user
  /\ rpc[r].course \in World.exists
  /\ rpc[r].op = "add" =>
       World.enrollment[rpc[r].course] < World.capacity[rpc[r].course]
  /\ rpc[r].op = "drop" =>
       <<rpc[r].student, rpc[r].course>> \in World.enrolled

GradeCheck(r) ==
  /\ rpc[r].course \in World.exists \cap World.windowOpen
  /\ <<rpc[r].student, rpc[r].course>> \in World.enrolled

AssignmentCheck(r) ==
  /\ rpc[r].course \in World.exists
  /\ World.owner[rpc[r].course] = session[r].user

LiveStatePasses(r) ==
  CASE Tool(r) = "enrollment_modify" -> EnrollmentCheck(r)
    [] Tool(r) = "grade_update" -> GradeCheck(r)
    [] Tool(r) = "assignment_create" -> AssignmentCheck(r)

-----------------------------------------------------------------------------
(* Helpers: the event loop and the audit sidecar. *)

\* Mutant: requests run on threads of their own.
MayAlwaysRun(r) == r \in Requests

\* Request r may run: the loop is free, or r has not given it up.
MayRun(r) == loop \in {Nobody, r}

\* On the subgraph path a node boundary follows; on the plan path r runs on.
KeepOrRelease(r) ==
  loop' = IF session[r].path = "plan" THEN r ELSE Nobody

\* persist_audit_record: the first record of an id is written, later ones
\* are dropped.
Persist(rec) ==
  IF rec.id \in persisted
  THEN UNCHANGED <<log, persisted>>
  ELSE /\ log' = log \cup {rec}
       /\ persisted' = persisted \cup {rec.id}

Goto(r, l) == pc' = [pc EXCEPT ![r] = l]

\* _short_circuit: the terminal record is persisted before the verdict is
\* returned, and the remaining nodes of the request have nothing to do.
Deny(r) ==
  /\ verdict' = [verdict EXCEPT ![r] = "deny"]
  /\ Persist([id |-> r, decision |-> "deny", attempted |-> FALSE,
              succeeded |-> "none"])
  /\ Goto(r, "done")
  /\ loop' = Nobody
  /\ UNCHANGED <<session, result, sent, crashes>>

-----------------------------------------------------------------------------
(* Steps of the agent process. *)

\* On the plan path a tool name outside ACTION_TOOLS raises before the gate.
RefuseUnknownTool(r) ==
  /\ pc[r] = "new" /\ MayRun(r)
  /\ session[r].path = "plan" /\ session[r].shape = "unknown_tool"
  /\ Goto(r, "done")
  /\ result' = [result EXCEPT ![r] = "failed"]
  /\ UNCHANGED <<session, verdict, sent, loop, log, persisted, crashes>>
  /\ UNCHANGED coreVars

\* inner_safety_check up to its only await: layers 1 to 3 in one go.
CheckStaticLayers(r) ==
  /\ pc[r] = "new" /\ MayRun(r)
  /\ ~(session[r].path = "plan" /\ session[r].shape = "unknown_tool")
  /\ \/ ~StaticLayersPass(r) /\ Deny(r)
     \/ /\ StaticLayersPass(r)
        /\ Goto(r, "reading")
        /\ UNCHANGED <<session, verdict, result, sent, loop, log, persisted,
                       crashes>>
  /\ UNCHANGED coreVars

\* Mutant: the record of an allowed request is persisted with the verdict.
CheckLiveStatePersisting(r) ==
  /\ pc[r] = "reading" /\ MayRun(r) /\ LiveStatePasses(r)
  /\ verdict' = [verdict EXCEPT ![r] = "allow"]
  /\ Persist([id |-> r, decision |-> "allow", attempted |-> FALSE,
              succeeded |-> "none"])
  /\ Goto(r, "allowed")
  /\ KeepOrRelease(r)
  /\ UNCHANGED <<session, result, sent, crashes>>
  /\ UNCHANGED coreVars

\* The awaited read came back: layer 4 allows or denies.  On ALLOW the audit
\* is built but not persisted.
CheckLiveState(r) ==
  /\ pc[r] = "reading" /\ MayRun(r)
  /\ \/ ~LiveStatePasses(r) /\ Deny(r)
     \/ /\ LiveStatePasses(r)
        /\ verdict' = [verdict EXCEPT ![r] = "allow"]
        /\ Goto(r, "allowed")
        /\ KeepOrRelease(r)
        /\ UNCHANGED <<session, result, sent, log, persisted, crashes>>
  /\ UNCHANGED coreVars

\* Mutant: the gate fails open when the read times out.
LiveStateSkipped(r) ==
  /\ pc[r] = "reading" /\ MayRun(r)
  /\ verdict' = [verdict EXCEPT ![r] = "allow"]
  /\ Goto(r, "allowed")
  /\ KeepOrRelease(r)
  /\ UNCHANGED <<session, result, sent, log, persisted, crashes>>
  /\ UNCHANGED coreVars

\* The read timed out (2 s) or raised: fail closed.
LiveStateUnavailable(r) ==
  /\ pc[r] = "reading" /\ MayRun(r)
  /\ Deny(r)
  /\ UNCHANGED coreVars

\* Mutant: the call is awaited, so other requests run meanwhile.
CallToolAwaiting(r) ==
  /\ pc[r] = "allowed" /\ MayRun(r)
  /\ Goto(r, "calling")
  /\ sent' = sent \cup {r}
  /\ loop' = Nobody
  /\ UNCHANGED <<session, verdict, result, log, persisted, crashes>>
  /\ UNCHANGED coreVars

\* tool_func.invoke up to the blocking gRPC call.
CallTool(r) ==
  /\ pc[r] = "allowed" /\ MayRun(r)
  /\ Goto(r, "calling")
  /\ sent' = sent \cup {r}
  /\ loop' = r
  /\ UNCHANGED <<session, verdict, result, log, persisted, crashes>>
  /\ UNCHANGED coreVars

\* The tool raises something that is not an RpcError before anything is sent
\* (its argument schema rejects a value, the channel is closed).
ToolRaises(r) ==
  /\ pc[r] = "allowed" /\ MayRun(r)
  /\ Goto(r, "executed")
  /\ result' = [result EXCEPT ![r] = "failed"]
  /\ KeepOrRelease(r)
  /\ UNCHANGED <<session, verdict, sent, log, persisted, crashes>>
  /\ UNCHANGED coreVars

Return(r, res) ==
  /\ pc[r] = "calling" /\ loop = r
  /\ Goto(r, "executed")
  /\ result' = [result EXCEPT ![r] = res]
  /\ KeepOrRelease(r)
  /\ UNCHANGED <<session, verdict, sent, log, persisted, crashes>>
  /\ UNCHANGED coreVars

\* The service's OK reply reaches the client.
ReceiveReply(r) == reply[r] = "OK" /\ Return(r, "ok")

\* Mutant: the error status is passed on as the result.
ReceiveErrorAsIs(r) == reply[r] \in Core!Errors /\ Return(r, reply[r])

\* Any other status is an RpcError, and so is the mock result: success.
ReceiveError(r) == reply[r] \in Core!Errors /\ Return(r, "mock")

\* Mutant: a gRPC call without a deadline.
GiveUpNever(r) == pc[r] = "new" /\ Return(r, "mock")

\* No reply in time, or no connection: an RpcError too.  The call may have
\* been lost, may be running, or may have committed already.
GiveUp(r) == Return(r, "mock")

\* Mutant: a made-up result is recorded as a failure.
FinalizeAuditMockFailed(r) ==
  /\ pc[r] = "executed" /\ MayRun(r)
  /\ Persist([id |-> r, decision |-> "allow", attempted |-> TRUE,
              succeeded |-> IF result[r] = "ok" THEN "yes" ELSE "no"])
  /\ Goto(r, "done")
  /\ loop' = Nobody
  /\ UNCHANGED <<session, verdict, result, sent, crashes>>
  /\ UNCHANGED coreVars

\* update_audit_for_execution and persist_audit_record.
FinalizeAudit(r) ==
  /\ pc[r] = "executed" /\ MayRun(r)
  /\ Persist([id |-> r, decision |-> "allow", attempted |-> TRUE,
              succeeded |-> IF result[r] = "failed" THEN "no" ELSE "yes"])
  /\ Goto(r, "done")
  /\ loop' = Nobody
  /\ UNCHANGED <<session, verdict, result, sent, crashes>>
  /\ UNCHANGED coreVars

\* The agent process dies and is restarted: its requests are gone, and so is
\* the in-memory set of persisted ids.
Crash ==
  /\ crashes < MaxCrashes
  /\ crashes' = crashes + 1
  /\ pc' = [r \in Requests |-> IF pc[r] \in {"new", "done"} THEN pc[r]
                                                           ELSE "lost"]
  /\ loop' = Nobody
  /\ persisted' = {}
  /\ UNCHANGED <<session, verdict, result, sent, log>>
  /\ UNCHANGED coreVars

-----------------------------------------------------------------------------
(* Steps of the network and of the core service. *)

\* A message on the wire arrives, in time or late.
Arrive(r) == r \in sent /\ Core!Submit(r) /\ UNCHANGED agentVars

ServiceStep(r) == Core!Serve(r) /\ UNCHANGED agentVars

AgentStep(r) ==
  \/ RefuseUnknownTool(r)
  \/ CheckStaticLayers(r)
  \/ CheckLiveState(r)
  \/ LiveStateUnavailable(r)
  \/ CallTool(r)
  \/ ToolRaises(r)
  \/ ReceiveReply(r)
  \/ ReceiveError(r)
  \/ GiveUp(r)
  \/ FinalizeAudit(r)

Next ==
  \/ \E r \in Requests : AgentStep(r) \/ Arrive(r) \/ ServiceStep(r)
  \/ Crash

\* The event loop runs every ready coroutine, reads time out and gRPC calls
\* have a deadline, so a request that can step does.  Nothing is assumed of
\* the network, of the core service or of crashes.
Fairness == \A r \in Requests : WF_vars(AgentStep(r))

Spec == Init /\ [][Next]_vars
FairSpec == Spec /\ Fairness

-----------------------------------------------------------------------------
(* Properties. *)

Permitted(r) == StaticLayersPass(r) /\ LiveStatePasses(r)

\* "Both must hit the same gate": on either path, at any interleaving, no RPC
\* leaves the process unless all four layers allowed that very request.
NoBypass == \A r \in sent : verdict[r] = "allow" /\ Permitted(r)

\* Whoever changes an enrollment row, however late the call commits and
\* whatever crashed in between, is a request of a role that grants the tool,
\* and a student only ever changes his or her own row.
RowsChangeOnlyByRight ==
  [][\A k \in Core!Keys : table'[k] # table[k] =>
       \E r \in sent :
         /\ reply[r] = "none" /\ reply'[r] = "OK" /\ Core!Key(r) = k
         /\ session[r].role \in {"student", "instructor", "registrar"}
         /\ session[r].role = "student" =>
              session[r].user = k[1] /\ rpc[r].op # "grade"]_vars

RecordsOf(r) == {rec \in log : rec.id = r}

\* The audit log has one record of every request the gate finished with, and
\* it is the final one: the verdict is the gate's, an allowed call is recorded
\* as attempted.  (The dedup set would keep a premature record and silently
\* drop the one with the outcome.)
OneFinalAuditRecord ==
  \A r \in Requests :
    /\ \A a, b \in RecordsOf(r) : a = b
    /\ \A rec \in RecordsOf(r) :
         rec.decision = verdict[r] /\ (rec.attempted <=> verdict[r] = "allow")
    /\ pc[r] = "done" /\ verdict[r] # "none" => RecordsOf(r) # {}

\* The log never understates: a write the service committed is never recorded
\* as refused or failed, even if it commits long after the record was written.
CommitNeverLoggedAsFailure ==
  \A r \in Requests : reply[r] = "OK" =>
    \A rec \in RecordsOf(r) : rec.decision = "allow" /\ rec.succeeded = "yes"

\* The client no longer waits for r's reply.
Abandoned(r) == result[r] = "mock" \/ pc[r] = "lost"

\* The blocking gRPC call is what keeps one agent's transactions apart: two
\* are open at the service only if the client gave up on one of them.
OverlapNeedsAbandonedCall ==
  \A r, s \in Requests :
    /\ r # s
    /\ phase[r] \in {"queued", "loaded"} /\ phase[s] \in {"queued", "loaded"}
    => Abandoned(r) \/ Abandoned(s)

\* So the core service's lost grade update cannot be produced by one agent
\* process that never gives up on a call.
GradesSurviveWithoutGiveUp ==
  (\A r \in Requests : ~Abandoned(r)) =>
    \A r \in Requests : Core!Succeeded(r, "grade") =>
      Core!GradeIsOfSomeUpdate(Core!Key(r))

\* Every request that reaches the live-state read ends with a record in the
\* audit log, unless the process dies under it; a core service that never
\* answers does not block the event loop for ever.
EventuallyAudited ==
  \A r \in Requests :
    pc[r] = "reading" ~> (RecordsOf(r) # {} \/ pc[r] = "lost")

\* _mock_fallback: "Return mock result when gRPC service is unavailable."
\* A tool result is made up only if the service has not answered the call.
MockOnlyWhenUnavailable ==
  [][\A r \in Requests :
       result[r] = "none" /\ result'[r] = "mock" => reply[r] = "none"]_vars

\* AuditRecord: "Sidecar audit emitted for every attempted action".
EveryAttemptAudited ==
  \A r \in Requests : pc[r] = "done" => RecordsOf(r) # {}

\* live_state.py calls layer 4 "the race-condition guard": the writes it lets
\* through never put more students in a course than its capacity.
CapacityRespected ==
  \A c \in Courses :
    Cardinality({s \in Students : table[<<s, c>>].status = "ENROLLED"})
      <= World.capacity[c]
=============================================================================
