------------------------- MODULE ActionGate_proofs -------------------------
(***************************************************************************)
(* Safety of the write path for any number of requests, students, courses, *)
(* sessions, crashes, and any live-state table.                            *)
(***************************************************************************)
EXTENDS ActionGate, TLAPS

USE GateAssumption

(* Typing. *)

LEMMA KeyType ==
  ASSUME Core!TypeOK, NEW r \in Requests PROVE Core!Key(r) \in Core!Keys
  BY DEF Core!TypeOK, Core!Key, Core!Keys, Core!Rpc

LEMMA InitTypeOK == Init => TypeOK
<1> SUFFICES ASSUME Init PROVE TypeOK
  OBVIOUS
<1>1. Core!TypeOK
  BY DEF Init, Core!Init, Core!TypeOK, Core!Phases, Core!Absent, Core!Row,
         Core!Statuses, Core!Rpc
<1>2. session \in [Requests -> Session]
  BY DEF Init
<1>3. QED
  BY <1>1, <1>2 DEF Init, TypeOK

\* A step of the core service keeps its tables and messages typed.
LEMMA ServiceTypeOK ==
  ASSUME Core!TypeOK, NEW r \in Requests, Core!Submit(r) \/ Core!Serve(r)
  PROVE  Core!TypeOK'
<1>1. CASE Core!Submit(r)
  BY <1>1 DEF Core!Submit, Core!TypeOK, Core!Phases, Core!Errors
<1>2. CASE Core!EnrollStudent(r)
  <2>1. [status |-> "ENROLLED", grade |-> NoGrade] \in Core!Row
    BY DEF Core!Row, Core!Statuses
  <2>2. QED
    BY <1>2, <2>1, KeyType
    DEF Core!EnrollStudent, Core!Answer, Core!TypeOK, Core!Phases, Core!Errors
<1>3. CASE Core!FindEnrollment(r)
  <2>1. table[Core!Key(r)] \in Core!Row
    BY KeyType DEF Core!TypeOK
  <2>2. QED
    BY <1>3, <2>1 DEF Core!FindEnrollment, Core!Answer, Core!TypeOK, Core!Phases, Core!Errors
<1>4. ASSUME NEW row \in Core!Row, Core!Save(r, row) PROVE Core!TypeOK'
  BY <1>4, KeyType DEF Core!Save, Core!Answer, Core!TypeOK, Core!Phases, Core!Errors
<1>5. CASE Core!DropEnrollment(r)
  <2>1. [status |-> "DROPPED", grade |-> entity[r].grade] \in Core!Row
    BY DEF Core!TypeOK, Core!Row, Core!Statuses
  <2>2. QED
    BY <1>5, <1>4, <2>1 DEF Core!DropEnrollment
<1>6. CASE Core!UpdateGrade(r)
  <2>1. [status |-> entity[r].status, grade |-> rpc[r].grade] \in Core!Row
    BY DEF Core!TypeOK, Core!Row, Core!Rpc
  <2>2. QED
    BY <1>6, <1>4, <2>1 DEF Core!UpdateGrade
<1>7. CASE Core!CreateAssignment(r)
  BY <1>7 DEF Core!CreateAssignment, Core!Answer, Core!TypeOK, Core!Phases, Core!Errors
<1>8. CASE Core!DatabaseFails(r)
  BY <1>8 DEF Core!DatabaseFails, Core!Answer, Core!TypeOK, Core!Phases, Core!Errors
<1>9. QED
  BY <1>1, <1>2, <1>3, <1>5, <1>6, <1>7, <1>8 DEF Core!Serve

LEMMA CoreStutter ==
  UNCHANGED coreVars => (Core!TypeOK' <=> Core!TypeOK)
  BY DEF coreVars, Core!TypeOK

LEMMA AuditTypes ==
  ASSUME NEW r \in Requests, NEW d \in {"allow", "deny"}, NEW a \in BOOLEAN,
         NEW s \in {"none", "yes", "no"},
         TypeOK,
         Persist([id |-> r, decision |-> d, attempted |-> a, succeeded |-> s])
  PROVE  log' \subseteq AuditRecord /\ persisted' \subseteq Requests
  BY DEF Persist, TypeOK, AuditRecord

LEMMA DenyTypeOK ==
  ASSUME TypeOK, NEW r \in Requests, Deny(r), UNCHANGED coreVars
  PROVE  TypeOK'
<1>1. log' \subseteq AuditRecord /\ persisted' \subseteq Requests
  BY AuditTypes DEF Deny
<1>2. QED
  BY <1>1, CoreStutter DEF Deny, Goto, TypeOK

LEMMA NextTypeOK == TypeOK /\ [Next]_vars => TypeOK'
<1> SUFFICES ASSUME TypeOK, [Next]_vars PROVE TypeOK'
  OBVIOUS
<1>1. CASE UNCHANGED vars
  BY <1>1, CoreStutter DEF TypeOK, vars, agentVars
<1>2. ASSUME NEW r \in Requests, RefuseUnknownTool(r) PROVE TypeOK'
  BY <1>2, CoreStutter DEF RefuseUnknownTool, Goto, TypeOK
<1>3. ASSUME NEW r \in Requests, CheckStaticLayers(r) PROVE TypeOK'
  <2>1. CASE Deny(r)
    BY <1>3, <2>1, DenyTypeOK DEF CheckStaticLayers
  <2>2. CASE ~Deny(r)
    BY <1>3, <2>2, CoreStutter DEF CheckStaticLayers, Goto, TypeOK
  <2>3. QED
    BY <2>1, <2>2
<1>4. ASSUME NEW r \in Requests, CheckLiveState(r) PROVE TypeOK'
  <2>1. CASE Deny(r)
    BY <1>4, <2>1, DenyTypeOK DEF CheckLiveState
  <2>2. CASE ~Deny(r)
    BY <1>4, <2>2, CoreStutter DEF CheckLiveState, KeepOrRelease, Goto, TypeOK
  <2>3. QED
    BY <2>1, <2>2
<1>5. ASSUME NEW r \in Requests, LiveStateUnavailable(r) PROVE TypeOK'
  BY <1>5, DenyTypeOK DEF LiveStateUnavailable
<1>6. ASSUME NEW r \in Requests, CallTool(r) PROVE TypeOK'
  BY <1>6, CoreStutter DEF CallTool, Goto, TypeOK
<1>7. ASSUME NEW r \in Requests, ToolRaises(r) PROVE TypeOK'
  BY <1>7, CoreStutter DEF ToolRaises, KeepOrRelease, Goto, TypeOK
<1>8. ASSUME NEW r \in Requests, NEW res \in {"ok", "mock"}, Return(r, res)
      PROVE  TypeOK'
  BY <1>8, CoreStutter DEF Return, KeepOrRelease, Goto, TypeOK
<1>9. ASSUME NEW r \in Requests, FinalizeAudit(r) PROVE TypeOK'
  <2>1. log' \subseteq AuditRecord /\ persisted' \subseteq Requests
    BY <1>9, AuditTypes DEF FinalizeAudit
  <2>2. QED
    BY <1>9, <2>1, CoreStutter DEF FinalizeAudit, Goto, TypeOK
<1>10. ASSUME NEW r \in Requests, Arrive(r) \/ ServiceStep(r) PROVE TypeOK'
  BY <1>10, ServiceTypeOK DEF Arrive, ServiceStep, agentVars, TypeOK
<1>11. CASE Crash
  BY <1>11, CoreStutter DEF Crash, TypeOK
<1>12. QED
  BY <1>1, <1>2, <1>3, <1>4, <1>5, <1>6, <1>7, <1>8, <1>9, <1>10, <1>11
  DEF Next, AgentStep, ReceiveReply, ReceiveError, GiveUp

\* Every variable keeps its type in every behaviour of the write path.
THEOREM TypeCorrect == Spec => []TypeOK
  BY InitTypeOK, NextTypeOK, PTL DEF Spec

-----------------------------------------------------------------------------
(* The inductive invariant.  It follows one request through the agent      *)
(* (ProgressInv), ties the agent to the core service (SentInv) and both to *)
(* the audit log (AuditInv).                                               *)

\* What pc[r] says of the verdict, of the result and of the event loop.
ProgressInv ==
  \A r \in Requests :
    /\ pc[r] \in {"new", "reading"} => verdict[r] = "none"
    /\ pc[r] \in {"allowed", "calling", "executed"} => verdict[r] = "allow"
    /\ verdict[r] = "deny" => pc[r] = "done"
    /\ pc[r] \in {"new", "reading", "allowed", "calling"} => result[r] = "none"
    /\ pc[r] = "executed" => result[r] # "none"
    /\ pc[r] = "calling" => loop = r

\* Only an allowed call is sent, only a sent call is at the service, and a
\* call the agent is done with has a result.
SentInv ==
  \A r \in Requests :
    /\ pc[r] = "reading" => StaticLayersPass(r)
    /\ verdict[r] = "allow" => Permitted(r)
    /\ r \in sent =>
         /\ verdict[r] = "allow" /\ result[r] # "failed"
         /\ pc[r] \in {"calling", "executed", "done", "lost"}
         /\ pc[r] = "done" => result[r] # "none"
    /\ phase[r] # "idle" => r \in sent
    /\ reply[r] # "none" => phase[r] = "finished"
    /\ result[r] = "ok" => reply[r] = "OK"

\* The dedup set never gets ahead of the requests, and the log has exactly
\* the final record of each request the gate decided and that is over.
AuditInv ==
  /\ \A r \in persisted : pc[r] = "done"
  /\ \A rec \in log :
       /\ pc[rec.id] = "done"
       /\ rec.decision = verdict[rec.id]
       /\ rec.attempted <=> verdict[rec.id] = "allow"
       /\ rec.succeeded = "none" <=> verdict[rec.id] = "deny"
       /\ rec.succeeded = "no" => result[rec.id] = "failed"
  /\ \A a, b \in log : a.id = b.id => a = b
  /\ \A r \in Requests :
       pc[r] = "done" /\ verdict[r] # "none" => \E rec \in log : rec.id = r

GateInv == TypeOK /\ ProgressInv /\ SentInv /\ AuditInv

LEMMA InitGateInv == Init => GateInv
<1> SUFFICES ASSUME Init PROVE GateInv
  OBVIOUS
<1>1. TypeOK
  BY InitTypeOK
<1>2. ProgressInv
  BY DEF Init, ProgressInv
<1>3. SentInv
  BY DEF Init, Core!Init, SentInv
<1>4. AuditInv
  BY DEF Init, AuditInv
<1>5. QED
  BY <1>1, <1>2, <1>3, <1>4 DEF GateInv

\* Sessions and messages never change, so neither does what is permitted.
LEMMA PermittedStable ==
  ASSUME NEW r \in Requests, UNCHANGED <<session, rpc>>
  PROVE  /\ StaticLayersPass(r)' <=> StaticLayersPass(r)
         /\ Permitted(r)' <=> Permitted(r)
  BY DEF Permitted, StaticLayersPass, LiveStatePasses, Tool, EnrollmentCheck,
         GradeCheck, AssignmentCheck

LEMMA NothingRewritesRequests == [Next]_vars => UNCHANGED <<session, rpc>>
  BY DEF Next, AgentStep, RefuseUnknownTool, CheckStaticLayers, CheckLiveState,
         LiveStateUnavailable, CallTool, ToolRaises, ReceiveReply, ReceiveError,
         GiveUp, Return, FinalizeAudit, Deny, Arrive, ServiceStep, Crash,
         Core!Submit, Core!Serve, Core!EnrollStudent, Core!FindEnrollment,
         Core!DropEnrollment, Core!UpdateGrade, Core!Save,
         Core!CreateAssignment, Core!DatabaseFails, vars, coreVars, agentVars

\* The terminal record of a request whose pc is p, not yet in the log.
LEMMA DenyGateInv ==
  ASSUME GateInv, NEW r \in Requests, pc[r] \in {"new", "reading"},
         MayRun(r), Deny(r), UNCHANGED coreVars, TypeOK'
  PROVE  ProgressInv' /\ SentInv' /\ AuditInv'
<1> USE DEF GateInv
<1> DEFINE rec == [id |-> r, decision |-> "deny", attempted |-> FALSE,
                   succeeded |-> "none"]
<1>1. /\ pc' = [pc EXCEPT ![r] = "done"]
      /\ verdict' = [verdict EXCEPT ![r] = "deny"]
      /\ UNCHANGED <<session, result, sent, rpc, phase, reply>>
  BY DEF Deny, Goto, coreVars
<1>2. r \notin sent /\ verdict[r] = "none" /\ r \notin persisted
  BY DEF ProgressInv, SentInv, AuditInv
<1>3. log' = log \cup {rec} /\ persisted' = persisted \cup {r}
  BY <1>2 DEF Deny, Persist
<1>4. ProgressInv'
  BY <1>1, <1>2 DEF Deny, MayRun, ProgressInv, TypeOK
<1>5. SentInv'
  BY <1>1, <1>2, PermittedStable DEF SentInv, TypeOK
<1>6. AuditInv'
  <2>1. \A x \in log : x.id # r /\ x.id \in Requests
    BY DEF AuditInv, TypeOK, AuditRecord
  <2>2. \A q \in Requests \ {r} : /\ pc'[q] = pc[q] /\ verdict'[q] = verdict[q]
                                  /\ result'[q] = result[q]
    BY <1>1 DEF TypeOK
  <2>3. pc'[r] = "done" /\ verdict'[r] = "deny"
    BY <1>1 DEF TypeOK
  <2>4. \A x \in log' : x \in log \/ x = rec
    BY <1>3
  <2>5. rec \in log' /\ log \subseteq log'
    BY <1>3
  <2>6. /\ rec.id = r /\ rec.decision = "deny" /\ rec.attempted = FALSE
        /\ rec.succeeded = "none"
    OBVIOUS
  <2> HIDE DEF rec
  <2>7. \A q \in persisted' : pc'[q] = "done"
    BY <1>3, <2>2, <2>3 DEF AuditInv, TypeOK
  <2>8. \A x \in log' :
          /\ pc'[x.id] = "done"
          /\ x.decision = verdict'[x.id]
          /\ x.attempted <=> verdict'[x.id] = "allow"
          /\ x.succeeded = "none" <=> verdict'[x.id] = "deny"
          /\ x.succeeded = "no" => result'[x.id] = "failed"
    BY <2>1, <2>2, <2>3, <2>4, <2>6 DEF AuditInv
  <2>9. \A a, b \in log' : a.id = b.id => a = b
    BY <2>1, <2>4, <2>6 DEF AuditInv
  <2>10. \A q \in Requests :
           pc'[q] = "done" /\ verdict'[q] # "none" => \E x \in log' : x.id = q
    BY <2>2, <2>5, <2>6 DEF AuditInv
  <2>11. QED
    BY <2>7, <2>8, <2>9, <2>10 DEF AuditInv
<1>7. QED
  BY <1>4, <1>5, <1>6

LEMMA NextGateInv == GateInv /\ [Next]_vars => GateInv'
<1> SUFFICES ASSUME GateInv, [Next]_vars
             PROVE  ProgressInv' /\ SentInv' /\ AuditInv'
  BY NextTypeOK DEF GateInv
<1> USE DEF GateInv
<1>0. /\ TypeOK'
      /\ UNCHANGED <<session, rpc>>
      /\ \A r \in Requests : /\ StaticLayersPass(r)' <=> StaticLayersPass(r)
                             /\ Permitted(r)' <=> Permitted(r)
  BY NextTypeOK, NothingRewritesRequests, PermittedStable
<1>00. \A x \in log : x.id \in Requests
  BY DEF TypeOK, AuditRecord
<1>1. CASE UNCHANGED vars
  BY <1>0, <1>1 DEF vars, coreVars, agentVars, ProgressInv, SentInv, AuditInv
<1>2. ASSUME NEW r \in Requests, RefuseUnknownTool(r)
      PROVE  ProgressInv' /\ SentInv' /\ AuditInv'
  <2>1. ProgressInv'
    BY <1>2 DEF RefuseUnknownTool, Goto, ProgressInv, TypeOK
  <2>2. SentInv'
    BY <1>0, <1>2 DEF RefuseUnknownTool, Goto, coreVars, SentInv, TypeOK
  <2>3. AuditInv'
    BY <1>2, <1>00 DEF RefuseUnknownTool, Goto, ProgressInv, AuditInv, TypeOK
  <2>4. QED
    BY <2>1, <2>2, <2>3
<1>3. ASSUME NEW r \in Requests, CheckStaticLayers(r)
      PROVE  ProgressInv' /\ SentInv' /\ AuditInv'
  <2>1. CASE Deny(r)
    BY <1>0, <1>3, <2>1, DenyGateInv DEF CheckStaticLayers
  <2>2. CASE ~Deny(r)
    <3>1. ProgressInv'
      BY <1>3, <2>2 DEF CheckStaticLayers, Goto, ProgressInv, TypeOK
    <3>2. SentInv'
      BY <1>0, <1>3, <2>2 DEF CheckStaticLayers, Goto, coreVars, SentInv, TypeOK
    <3>3. AuditInv'
      BY <1>3, <1>00, <2>2 DEF CheckStaticLayers, Goto, AuditInv, TypeOK
    <3>4. QED
      BY <3>1, <3>2, <3>3
  <2>3. QED
    BY <2>1, <2>2
<1>4. ASSUME NEW r \in Requests, CheckLiveState(r)
      PROVE  ProgressInv' /\ SentInv' /\ AuditInv'
  <2>1. CASE Deny(r)
    BY <1>0, <1>4, <2>1, DenyGateInv DEF CheckLiveState
  <2>2. CASE ~Deny(r)
    <3>1. ProgressInv'
      BY <1>4, <2>2 DEF CheckLiveState, Goto, MayRun, ProgressInv, TypeOK
    <3>2. SentInv'
      <4>1. Permitted(r)
        BY <1>4, <2>2 DEF CheckLiveState, SentInv, Permitted
      <4>2. QED
        BY <1>0, <1>4, <2>2, <4>1
        DEF CheckLiveState, Goto, coreVars, SentInv, ProgressInv, TypeOK
    <3>3. AuditInv'
      BY <1>4, <1>00, <2>2 DEF CheckLiveState, Goto, AuditInv, TypeOK
    <3>4. QED
      BY <3>1, <3>2, <3>3
  <2>3. QED
    BY <2>1, <2>2
<1>5. ASSUME NEW r \in Requests, LiveStateUnavailable(r)
      PROVE  ProgressInv' /\ SentInv' /\ AuditInv'
  BY <1>0, <1>5, DenyGateInv DEF LiveStateUnavailable
<1>6. ASSUME NEW r \in Requests, CallTool(r)
      PROVE  ProgressInv' /\ SentInv' /\ AuditInv'
  <2>1. ProgressInv'
    BY <1>6 DEF CallTool, Goto, MayRun, ProgressInv, TypeOK
  <2>2. SentInv'
    BY <1>0, <1>6 DEF CallTool, Goto, coreVars, SentInv, ProgressInv, TypeOK
  <2>3. AuditInv'
    BY <1>6, <1>00 DEF CallTool, Goto, AuditInv, TypeOK
  <2>4. QED
    BY <2>1, <2>2, <2>3
<1>7. ASSUME NEW r \in Requests, ToolRaises(r)
      PROVE  ProgressInv' /\ SentInv' /\ AuditInv'
  <2>1. ProgressInv'
    BY <1>7 DEF ToolRaises, Goto, MayRun, ProgressInv, TypeOK
  <2>2. SentInv'
    BY <1>0, <1>7 DEF ToolRaises, Goto, coreVars, SentInv, TypeOK
  <2>3. AuditInv'
    BY <1>7, <1>00 DEF ToolRaises, Goto, AuditInv, TypeOK
  <2>4. QED
    BY <2>1, <2>2, <2>3
<1>8. ASSUME NEW r \in Requests, NEW res \in {"ok", "mock"}, Return(r, res),
             res = "ok" => reply[r] = "OK"
      PROVE  ProgressInv' /\ SentInv' /\ AuditInv'
  <2>1. ProgressInv'
    BY <1>8 DEF Return, Goto, ProgressInv, TypeOK
  <2>2. SentInv'
    BY <1>0, <1>8 DEF Return, Goto, coreVars, SentInv, TypeOK
  <2>3. AuditInv'
    BY <1>8, <1>00 DEF Return, Goto, AuditInv, TypeOK
  <2>4. QED
    BY <2>1, <2>2, <2>3
<1>9. ASSUME NEW r \in Requests, FinalizeAudit(r)
      PROVE  ProgressInv' /\ SentInv' /\ AuditInv'
  <2> DEFINE rec == [id |-> r, decision |-> "allow", attempted |-> TRUE,
                     succeeded |-> IF result[r] = "failed" THEN "no" ELSE "yes"]
  <2>1. r \notin persisted /\ verdict[r] = "allow" /\ result[r] # "none"
    BY <1>9 DEF FinalizeAudit, ProgressInv, AuditInv
  <2>2. log' = log \cup {rec} /\ persisted' = persisted \cup {r}
    BY <1>9, <2>1 DEF FinalizeAudit, Persist
  <2>3. ProgressInv'
    BY <1>9 DEF FinalizeAudit, Goto, MayRun, ProgressInv, TypeOK
  <2>4. SentInv'
    BY <1>0, <1>9, <2>1 DEF FinalizeAudit, Goto, coreVars, SentInv, TypeOK
  <2>5. AuditInv'
    <3>1. \A x \in log : x.id # r
      BY <1>9 DEF FinalizeAudit, AuditInv
    <3>2. pc' = [pc EXCEPT ![r] = "done"] /\ UNCHANGED <<verdict, result>>
      BY <1>9 DEF FinalizeAudit, Goto
    <3>3. /\ pc'[r] = "done"
          /\ \A q \in Requests \ {r} : pc'[q] = pc[q]
      BY <3>2 DEF TypeOK
    <3>4. \A x \in log' : x \in log \/ x = rec
      BY <2>2
    <3>5. rec \in log' /\ log \subseteq log'
      BY <2>2
    <3>6. /\ rec.id = r /\ rec.decision = "allow" /\ rec.attempted = TRUE
          /\ rec.succeeded \in {"yes", "no"}
          /\ rec.succeeded = "no" => result[r] = "failed"
      OBVIOUS
    <3> HIDE DEF rec
    <3>7. \A q \in persisted' : pc'[q] = "done"
      BY <2>2, <3>3 DEF AuditInv, TypeOK
    <3>8. \A x \in log' :
            /\ pc'[x.id] = "done"
            /\ x.decision = verdict[x.id]
            /\ x.attempted <=> verdict[x.id] = "allow"
            /\ x.succeeded = "none" <=> verdict[x.id] = "deny"
            /\ x.succeeded = "no" => result[x.id] = "failed"
      BY <1>00, <2>1, <3>1, <3>3, <3>4, <3>6 DEF AuditInv
    <3>9. \A a, b \in log' : a.id = b.id => a = b
      BY <3>1, <3>4, <3>6 DEF AuditInv
    <3>10. \A q \in Requests :
             pc'[q] = "done" /\ verdict[q] # "none" => \E x \in log' : x.id = q
      BY <3>3, <3>5, <3>6 DEF AuditInv
    <3>11. QED
      BY <3>2, <3>7, <3>8, <3>9, <3>10 DEF AuditInv
  <2>6. QED
    BY <2>3, <2>4, <2>5
<1>10. ASSUME NEW r \in Requests, Arrive(r) \/ ServiceStep(r)
       PROVE  ProgressInv' /\ SentInv' /\ AuditInv'
  <2>1. ProgressInv' /\ AuditInv'
    BY <1>10 DEF Arrive, ServiceStep, agentVars, ProgressInv, AuditInv
  <2>2. CASE Arrive(r)
    BY <1>0, <2>1, <2>2
    DEF Arrive, Core!Submit, agentVars, SentInv, TypeOK, Core!TypeOK
  <2>3. CASE ServiceStep(r)
    <3>1. /\ UNCHANGED agentVars
          /\ \A q \in Requests \ {r} :
                phase'[q] = phase[q] /\ reply'[q] = reply[q]
          /\ phase[r] \in {"queued", "loaded"} /\ phase'[r] # "idle"
          /\ reply'[r] # "none" => phase'[r] = "finished"
      BY <2>3
      DEF ServiceStep, Core!Serve, Core!EnrollStudent, Core!FindEnrollment,
          Core!DropEnrollment, Core!UpdateGrade, Core!Save, Core!Answer,
          Core!CreateAssignment, Core!DatabaseFails, SentInv, TypeOK, Core!TypeOK
    <3>2. QED
      BY <1>0, <2>1, <3>1 DEF agentVars, SentInv
  <2>4. QED
    BY <1>10, <2>1, <2>2, <2>3
<1>11. CASE Crash
  <2>1. ProgressInv'
    BY <1>11 DEF Crash, ProgressInv, TypeOK
  <2>2. SentInv'
    BY <1>0, <1>11 DEF Crash, coreVars, SentInv, ProgressInv, TypeOK
  <2>3. AuditInv'
    BY <1>11, <1>00 DEF Crash, AuditInv, TypeOK
  <2>4. QED
    BY <2>1, <2>2, <2>3
<1>12. QED
  BY <1>1, <1>2, <1>3, <1>4, <1>5, <1>6, <1>7, <1>8, <1>9, <1>10, <1>11
  DEF Next, AgentStep, ReceiveReply, ReceiveError, GiveUp

LEMMA GateInvHolds == Spec => []GateInv
  BY InitGateInv, NextGateInv, PTL DEF Spec

-----------------------------------------------------------------------------
(* What follows from the invariant.                                        *)

\* On either path no RPC leaves the process without all four layers having
\* allowed that request, for every interleaving and any number of crashes.
THEOREM NoBypassHolds == Spec => []NoBypass
<1>1. GateInv => NoBypass
  BY DEF GateInv, SentInv, TypeOK, NoBypass
<1>2. QED
  BY <1>1, GateInvHolds, PTL

\* The audit log holds one record, the final one, of each decided request:
\* the dedup set never swallows the record with the outcome.
THEOREM AuditIsFinal == Spec => []OneFinalAuditRecord
<1>1. GateInv => OneFinalAuditRecord
  BY DEF GateInv, AuditInv, OneFinalAuditRecord, RecordsOf
<1>2. QED
  BY <1>1, GateInvHolds, PTL

\* A write the core service committed, at whatever time, is never recorded
\* as refused or failed.
THEOREM AuditNeverUnderstates == Spec => []CommitNeverLoggedAsFailure
<1>1. GateInv => CommitNeverLoggedAsFailure
  <2> SUFFICES ASSUME GateInv, NEW r \in Requests, reply[r] = "OK",
                      NEW rec \in RecordsOf(r)
               PROVE  rec.decision = "allow" /\ rec.succeeded = "yes"
    BY DEF CommitNeverLoggedAsFailure
  <2>1. rec \in log /\ rec.id = r /\ rec.succeeded \in {"none", "yes", "no"}
    BY DEF RecordsOf, GateInv, TypeOK, AuditRecord
  <2>2. r \in sent
    BY DEF GateInv, SentInv
  <2>3. verdict[r] = "allow" /\ result[r] # "failed"
    BY <2>2 DEF GateInv, SentInv
  <2>4. QED
    BY <2>1, <2>3 DEF GateInv, AuditInv
<1>2. QED
  BY <1>1, GateInvHolds, PTL

\* A transaction is open at the service while the client waits for it, and
\* the client that waits holds the event loop; otherwise it was abandoned.
LEMMA OpenIsCallingOrAbandoned ==
  ASSUME GateInv, NEW r \in Requests, phase[r] \in {"queued", "loaded"},
         ~Abandoned(r)
  PROVE  loop = r
<1>1. r \in sent /\ reply[r] = "none"
  BY DEF GateInv, SentInv
<1>2. result[r] \in {"none", "ok", "mock", "failed"}
  BY DEF GateInv, TypeOK
<1>3. pc[r] = "calling"
  BY <1>1, <1>2 DEF GateInv, SentInv, ProgressInv, Abandoned
<1>4. QED
  BY <1>3 DEF GateInv, ProgressInv

LEMMA OverlapInv == GateInv => OverlapNeedsAbandonedCall
  BY OpenIsCallingOrAbandoned DEF OverlapNeedsAbandonedCall

\* Two transactions of one agent process overlap at the core service only if
\* the client gave up on one of them or died.
THEOREM OverlapOnlyWhenAbandoned == Spec => []OverlapNeedsAbandonedCall
  BY OverlapInv, GateInvHolds, PTL

-----------------------------------------------------------------------------
(* What the core service does to the rows, as the agent sees it.           *)

\* One step of the service on call r touches r's row and r's reply only, and
\* a row only when it answers OK.
LEMMA ServiceStepEffect ==
  ASSUME GateInv, NEW r \in Requests, Core!Serve(r)
  PROVE  /\ \A k \in Core!Keys : k # Core!Key(r) => table'[k] = table[k]
         /\ \A q \in Requests \ {r} : phase'[q] = phase[q]
                                      /\ reply'[q] = reply[q]
                                      /\ entity'[q] = entity[q]
         /\ table' # table =>
              reply'[r] = "OK" /\ rpc[r].op \in {"add", "drop", "grade"}
         /\ phase[r] \in {"queued", "loaded"} /\ reply[r] = "none"
<1>1. phase[r] \in {"queued", "loaded"}
  BY DEF Core!Serve, Core!EnrollStudent, Core!FindEnrollment,
         Core!DropEnrollment, Core!UpdateGrade, Core!CreateAssignment,
         Core!DatabaseFails
<1>2. reply[r] = "none"
  BY <1>1 DEF GateInv, SentInv
<1>3. \A k \in Core!Keys : k # Core!Key(r) => table'[k] = table[k]
  BY DEF Core!Serve, Core!EnrollStudent, Core!FindEnrollment,
         Core!DropEnrollment, Core!UpdateGrade, Core!CreateAssignment,
         Core!DatabaseFails, Core!Save, GateInv, TypeOK, Core!TypeOK
<1>4. \A q \in Requests \ {r} : phase'[q] = phase[q] /\ reply'[q] = reply[q]
                                /\ entity'[q] = entity[q]
  BY DEF Core!Serve, Core!EnrollStudent, Core!FindEnrollment,
         Core!DropEnrollment, Core!UpdateGrade, Core!CreateAssignment,
         Core!DatabaseFails, Core!Save, Core!Answer, GateInv, TypeOK, Core!TypeOK
<1>5. table' # table =>
        reply'[r] = "OK" /\ rpc[r].op \in {"add", "drop", "grade"}
  BY DEF Core!Serve, Core!EnrollStudent, Core!FindEnrollment,
         Core!DropEnrollment, Core!UpdateGrade, Core!CreateAssignment,
         Core!DatabaseFails, Core!Save, Core!Answer, GateInv, TypeOK, Core!TypeOK
<1>6. QED
  BY <1>1, <1>2, <1>3, <1>4, <1>5

\* Only the service changes rows.
LEMMA RowChangeIsServiceStep ==
  ASSUME GateInv, [Next]_vars, table' # table
  PROVE  \E r \in Requests : Core!Serve(r) /\ r \in sent
<1>1. PICK r \in Requests : Core!Serve(r)
  BY DEF Next, AgentStep, RefuseUnknownTool, CheckStaticLayers, CheckLiveState,
         LiveStateUnavailable, CallTool, ToolRaises, ReceiveReply, ReceiveError,
         GiveUp, Return, FinalizeAudit, Arrive, ServiceStep, Crash, Core!Submit,
         vars, coreVars
<1>2. phase[r] # "idle"
  BY <1>1, ServiceStepEffect
<1>3. QED
  BY <1>1, <1>2 DEF GateInv, SentInv

\* Whoever changes an enrollment row holds a role that grants the tool, and
\* a student changes only his or her own row and never a grade.
THEOREM RowsChangeByRight == Spec => RowsChangeOnlyByRight
<1>1. ASSUME GateInv, [Next]_vars, NEW k \in Core!Keys, table'[k] # table[k]
      PROVE  \E r \in sent :
               /\ reply[r] = "none" /\ reply'[r] = "OK" /\ Core!Key(r) = k
               /\ session[r].role \in {"student", "instructor", "registrar"}
               /\ session[r].role = "student" =>
                    session[r].user = k[1] /\ rpc[r].op # "grade"
  <2>1. PICK r \in Requests : Core!Serve(r) /\ r \in sent
    BY <1>1, RowChangeIsServiceStep
  <2>2. /\ reply[r] = "none" /\ reply'[r] = "OK" /\ Core!Key(r) = k
        /\ rpc[r].op \in {"add", "drop", "grade"}
    BY <1>1, <2>1, ServiceStepEffect
  <2>3. StaticLayersPass(r) /\ LiveStatePasses(r)
    BY <1>1, <2>1 DEF GateInv, SentInv, Permitted
  <2>4. session[r].role \in {"student", "instructor", "registrar"}
    BY <2>3 DEF StaticLayersPass, GrantedTools
  <2>5. ASSUME session[r].role = "student"
        PROVE  session[r].user = k[1] /\ rpc[r].op # "grade"
    <3>1. Tool(r) = "enrollment_modify"
      BY <2>3, <2>5 DEF StaticLayersPass, GrantedTools
    <3>2. rpc[r].op # "grade"
      BY <3>1 DEF Tool
    <3>3. rpc[r].student = session[r].user
      BY <2>3, <2>5, <3>1 DEF LiveStatePasses, EnrollmentCheck
    <3>4. k[1] = rpc[r].student
      BY <2>2 DEF Core!Key
    <3>5. QED
      BY <3>2, <3>3, <3>4
  <2>6. QED
    BY <2>1, <2>2, <2>4, <2>5
<1>2. GateInv /\ [Next]_vars =>
        [\A k \in Core!Keys : table'[k] # table[k] =>
           \E r \in sent :
             /\ reply[r] = "none" /\ reply'[r] = "OK" /\ Core!Key(r) = k
             /\ session[r].role \in {"student", "instructor", "registrar"}
             /\ session[r].role = "student" =>
                  session[r].user = k[1] /\ rpc[r].op # "grade"]_vars
  BY <1>1
<1>3. QED
  BY <1>2, GateInvHolds, PTL DEF Spec, RowsChangeOnlyByRight

-----------------------------------------------------------------------------
(* Without an abandoned call the transactions are serial, so what a call    *)
(* loaded is still what the row holds, and no grade is lost.                *)

Undisturbed == \A r \in Requests : ~Abandoned(r)

SerialInv ==
  Undisturbed =>
    /\ \A r \in Requests : phase[r] = "loaded" =>
         /\ entity[r] = table[Core!Key(r)]
         /\ entity[r].status # "ABSENT"
    /\ \A r \in Requests : Core!Succeeded(r, "grade") =>
         /\ table[Core!Key(r)].status # "ABSENT"
         /\ Core!GradeIsOfSomeUpdate(Core!Key(r))

LEMMA InitSerialInv == Init => SerialInv
  BY DEF Init, Core!Init, SerialInv, Core!Succeeded

\* An abandoned call stays abandoned.
LEMMA AbandonedStays ==
  ASSUME GateInv, [Next]_vars, NEW r \in Requests, Abandoned(r)
  PROVE  Abandoned(r)'
<1>1. ASSUME NEW q \in Requests, AgentStep(q) PROVE Abandoned(r)'
  <2>1. /\ pc[q] # "lost"
        /\ result'[q] = result[q] \/ result[q] = "none"
    BY <1>1
    DEF AgentStep, RefuseUnknownTool, CheckStaticLayers, CheckLiveState,
        LiveStateUnavailable, CallTool, ToolRaises, ReceiveReply, ReceiveError,
        GiveUp, Return, FinalizeAudit, Deny, GateInv, ProgressInv
  <2>2. \A p \in Requests \ {q} : pc'[p] = pc[p] /\ result'[p] = result[p]
    BY <1>1
    DEF AgentStep, RefuseUnknownTool, CheckStaticLayers, CheckLiveState,
        LiveStateUnavailable, CallTool, ToolRaises, ReceiveReply, ReceiveError,
        GiveUp, Return, FinalizeAudit, Deny, Goto, GateInv, TypeOK
  <2>3. QED
    BY <2>1, <2>2 DEF Abandoned
<1>2. CASE UNCHANGED agentVars
  BY <1>2 DEF agentVars, Abandoned
<1>3. CASE Crash
  BY <1>3 DEF Crash, Abandoned, GateInv, TypeOK
<1>4. QED
  BY <1>1, <1>2, <1>3 DEF Next, Arrive, ServiceStep, vars

\* A served call keeps SerialInv when no other transaction is open.
LEMMA ServeSerialInv ==
  ASSUME GateInv, GateInv', SerialInv, Undisturbed, NEW c \in Requests,
         Core!Serve(c), UNCHANGED rpc
  PROVE  SerialInv'
<1> DEFINE k == Core!Key(c)
<1>1. k \in Core!Keys
  BY KeyType DEF GateInv, TypeOK
<1>2. /\ \A j \in Core!Keys : j # k => table'[j] = table[j]
      /\ \A q \in Requests \ {c} : phase'[q] = phase[q]
                                   /\ reply'[q] = reply[q]
                                   /\ entity'[q] = entity[q]
      /\ phase[c] \in {"queued", "loaded"} /\ reply[c] = "none"
  BY ServiceStepEffect
<1>3. \A q \in Requests \ {c} : phase[q] \notin {"queued", "loaded"}
  BY <1>2, OverlapInv DEF OverlapNeedsAbandonedCall, Undisturbed
<1>4. \A q \in Requests : /\ Core!Key(q)' = Core!Key(q)
                          /\ Core!Key(q) \in Core!Keys
  BY KeyType DEF Core!Key, GateInv, TypeOK
<1>5. \A q \in Requests \ {c} :
        Core!Succeeded(q, "grade")' <=> Core!Succeeded(q, "grade")
  BY <1>2 DEF Core!Succeeded
<1>6. ~Core!Succeeded(c, "grade")
  BY <1>2 DEF Core!Succeeded
\* The loaded rows.
<1>7. \A r \in Requests : phase'[r] = "loaded" =>
        entity'[r] = table'[Core!Key(r)] /\ entity'[r].status # "ABSENT"
  <2>1. ASSUME phase'[c] = "loaded"
        PROVE  entity'[c] = table'[k] /\ entity'[c].status # "ABSENT"
    BY <2>1 DEF Core!Serve, Core!EnrollStudent, Core!FindEnrollment,
         Core!DropEnrollment, Core!UpdateGrade, Core!CreateAssignment,
         Core!DatabaseFails, Core!Save, Core!Answer, GateInv, TypeOK, Core!TypeOK
  <2>2. QED
    BY <1>2, <1>3, <2>1
\* The graded rows.
<1>8. CASE table' = table /\ ~Core!Succeeded(c, "grade")'
  BY <1>4, <1>5, <1>6, <1>7, <1>8
  DEF SerialInv, Core!GradeIsOfSomeUpdate
<1>9. CASE Core!EnrollStudent(c) /\ table' # table
  <2>1. table[k].status = "ABSENT" /\ rpc[c].op = "add"
    BY <1>9 DEF Core!EnrollStudent
  <2>2. \A q \in Requests : Core!Succeeded(q, "grade")' =>
          Core!Succeeded(q, "grade") /\ Core!Key(q) # k
    BY <1>5, <2>1 DEF SerialInv, Core!Succeeded
  <2>3. QED
    BY <1>2, <1>4, <1>5, <1>6, <1>7, <2>2
    DEF SerialInv, Core!GradeIsOfSomeUpdate
<1>10. CASE Core!DropEnrollment(c)
  <2>1. phase[c] = "loaded" /\ rpc[c].op = "drop"
    BY <1>10 DEF Core!DropEnrollment
  <2>2. entity[c] = table[k] /\ entity[c].status # "ABSENT"
    BY <2>1 DEF SerialInv
  <2>3. table'[k].grade = table[k].grade /\ table'[k].status # "ABSENT"
    BY <1>1, <1>10, <2>2
    DEF Core!DropEnrollment, Core!Save, GateInv, TypeOK, Core!TypeOK
  <2>4. ~Core!Succeeded(c, "grade")'
    BY <2>1 DEF Core!Succeeded
  <2>5. \A q \in Requests : table'[Core!Key(q)].grade = table[Core!Key(q)].grade
    BY <1>2, <1>4, <2>3
  <2>6. QED
    BY <1>2, <1>4, <1>5, <1>6, <1>7, <2>3, <2>4, <2>5
    DEF SerialInv, Core!GradeIsOfSomeUpdate
<1>11. CASE Core!UpdateGrade(c)
  <2>1. phase[c] = "loaded" /\ rpc[c].op = "grade"
    BY <1>11 DEF Core!UpdateGrade
  <2>2. entity[c] = table[k] /\ entity[c].status # "ABSENT"
    BY <2>1 DEF SerialInv
  <2>3. table'[k].grade = rpc[c].grade /\ table'[k].status # "ABSENT"
    BY <1>1, <1>11, <2>2
    DEF Core!UpdateGrade, Core!Save, GateInv, TypeOK, Core!TypeOK
  <2>4. Core!Succeeded(c, "grade")'
    BY <1>11, <2>1
    DEF Core!UpdateGrade, Core!Save, Core!Answer, Core!Succeeded, GateInv,
        TypeOK, Core!TypeOK
  <2>5. \A q \in Requests : Core!Succeeded(q, "grade")' =>
          /\ table'[Core!Key(q)].status # "ABSENT"
          /\ \E d \in Requests :
               /\ Core!Succeeded(d, "grade")' /\ Core!Key(d) = Core!Key(q)
               /\ table'[Core!Key(q)].grade = rpc[d].grade
    <3> SUFFICES ASSUME NEW q \in Requests, Core!Succeeded(q, "grade")'
                 PROVE  /\ table'[Core!Key(q)].status # "ABSENT"
                        /\ \E d \in Requests :
                             /\ Core!Succeeded(d, "grade")'
                             /\ Core!Key(d) = Core!Key(q)
                             /\ table'[Core!Key(q)].grade = rpc[d].grade
      OBVIOUS
    <3>1. CASE Core!Key(q) = k
      BY <2>3, <2>4, <3>1
    <3>2. CASE Core!Key(q) # k
      <4>1. Core!Succeeded(q, "grade") /\ table'[Core!Key(q)] = table[Core!Key(q)]
        BY <1>2, <1>4, <1>5, <3>2
      <4>2. QED
        BY <1>5, <1>6, <4>1 DEF SerialInv, Core!GradeIsOfSomeUpdate
    <3>3. QED
      BY <3>1, <3>2
  <2>6. QED
    BY <1>4, <1>7, <2>5 DEF SerialInv, Core!GradeIsOfSomeUpdate
<1>12. QED
  <2>1. Core!FindEnrollment(c) => table' = table /\ ~Core!Succeeded(c, "grade")'
    BY <1>2 DEF Core!FindEnrollment, Core!Answer, Core!Succeeded, GateInv,
                TypeOK, Core!TypeOK
  <2>2. Core!CreateAssignment(c) => table' = table /\ ~Core!Succeeded(c, "grade")'
    BY DEF Core!CreateAssignment, Core!Succeeded
  <2>3. Core!DatabaseFails(c) => table' = table /\ ~Core!Succeeded(c, "grade")'
    BY DEF Core!DatabaseFails, Core!Answer, Core!Succeeded, GateInv, TypeOK,
           Core!TypeOK
  <2>4. Core!EnrollStudent(c) => ~Core!Succeeded(c, "grade")'
    BY DEF Core!EnrollStudent, Core!Succeeded
  <2>5. QED
    BY <1>8, <1>9, <1>10, <1>11, <2>1, <2>2, <2>3, <2>4 DEF Core!Serve

LEMMA NextSerialInv == GateInv /\ GateInv' /\ SerialInv /\ [Next]_vars => SerialInv'
<1> SUFFICES ASSUME GateInv, GateInv', SerialInv, [Next]_vars, Undisturbed'
             PROVE  SerialInv'
  BY DEF SerialInv
<1>1. Undisturbed
  BY AbandonedStays DEF Undisturbed
<1>2. UNCHANGED rpc
  BY NothingRewritesRequests
<1>3. CASE UNCHANGED coreVars
  BY <1>1, <1>3 DEF coreVars, SerialInv, Core!Succeeded, Core!Key,
                    Core!GradeIsOfSomeUpdate
<1>4. ASSUME NEW c \in Requests, Core!Submit(c) PROVE SerialInv'
  BY <1>1, <1>4 DEF Core!Submit, SerialInv, Core!Succeeded, Core!Key,
                    Core!GradeIsOfSomeUpdate, GateInv, TypeOK, Core!TypeOK
<1>5. ASSUME NEW c \in Requests, Core!Serve(c) PROVE SerialInv'
  BY <1>1, <1>2, <1>5, ServeSerialInv
<1>6. QED
  BY <1>3, <1>4, <1>5
  DEF Next, AgentStep, RefuseUnknownTool, CheckStaticLayers, CheckLiveState,
      LiveStateUnavailable, CallTool, ToolRaises, ReceiveReply, ReceiveError,
      GiveUp, Return, FinalizeAudit, Arrive, ServiceStep, Crash, vars

\* One agent process that never gives up on a call cannot produce the core
\* service's lost grade update: its blocking client serializes the writes.
THEOREM GradesSurvive == Spec => []GradesSurviveWithoutGiveUp
<1>1. SerialInv => GradesSurviveWithoutGiveUp
  BY DEF SerialInv, Undisturbed, GradesSurviveWithoutGiveUp
<1>2. QED
  BY <1>1, InitSerialInv, NextSerialInv, GateInvHolds, PTL DEF Spec
=============================================================================
