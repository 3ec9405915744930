------------------------- MODULE CoreService_proofs -------------------------
(***************************************************************************)
(* Safety of the core service for any number of calls, students, courses   *)
(* and grades.                                                             *)
(***************************************************************************)
EXTENDS CoreHistory, TLAPS

USE CoreAssumption

LEMMA InitTypeOK == Init => TypeOK
  BY DEF Init, TypeOK, Phases, Absent, Row, Statuses, Rpc, Errors

LEMMA KeyType == ASSUME TypeOK, NEW c \in Calls PROVE Key(c) \in Keys
  BY DEF TypeOK, Key, Keys, Rpc

\* Saving a typed row keeps the table typed.
LEMMA SaveTypeOK ==
  ASSUME TypeOK, NEW c \in Calls, NEW row \in Row, Save(c, row)
  PROVE  TypeOK'
  BY KeyType DEF Save, Answer, TypeOK, Phases, Errors

LEMMA NextTypeOK == TypeOK /\ [Next]_coreVars => TypeOK'
<1> SUFFICES ASSUME TypeOK, [Next]_coreVars PROVE TypeOK'
  OBVIOUS
<1>1. CASE UNCHANGED coreVars
  BY <1>1 DEF TypeOK, coreVars
<1>2. ASSUME NEW c \in Calls, Submit(c) PROVE TypeOK'
  BY <1>2 DEF Submit, TypeOK, Phases
<1>3. ASSUME NEW c \in Calls, EnrollStudent(c) PROVE TypeOK'
  <2>1. [status |-> "ENROLLED", grade |-> NoGrade] \in Row
    BY DEF Row, Statuses
  <2>2. QED
    BY <1>3, <2>1, KeyType DEF EnrollStudent, Answer, TypeOK, Phases, Errors
<1>4. ASSUME NEW c \in Calls, FindEnrollment(c) PROVE TypeOK'
  <2>1. table[Key(c)] \in Row
    BY KeyType DEF TypeOK
  <2>2. QED
    BY <1>4, <2>1 DEF FindEnrollment, Answer, TypeOK, Phases, Errors
<1>5. ASSUME NEW c \in Calls, DropEnrollment(c) PROVE TypeOK'
  <2>1. [status |-> "DROPPED", grade |-> entity[c].grade] \in Row
    BY DEF TypeOK, Row, Statuses
  <2>2. QED
    BY <1>5, <2>1, SaveTypeOK DEF DropEnrollment
<1>6. ASSUME NEW c \in Calls, UpdateGrade(c) PROVE TypeOK'
  <2>1. [status |-> entity[c].status, grade |-> rpc[c].grade] \in Row
    BY DEF TypeOK, Row, Rpc
  <2>2. QED
    BY <1>6, <2>1, SaveTypeOK DEF UpdateGrade
<1>7. ASSUME NEW c \in Calls, CreateAssignment(c) PROVE TypeOK'
  BY <1>7 DEF CreateAssignment, Answer, TypeOK, Phases, Errors
<1>8. ASSUME NEW c \in Calls, DatabaseFails(c) PROVE TypeOK'
  BY <1>8 DEF DatabaseFails, Answer, TypeOK, Phases, Errors
<1>9. QED
  BY <1>1, <1>2, <1>3, <1>4, <1>5, <1>6, <1>7, <1>8 DEF Next, Serve

\* Every variable keeps its type in every behaviour of the core service.
THEOREM TypeCorrect == Spec => []TypeOK
  BY InitTypeOK, NextTypeOK, PTL DEF Spec

-----------------------------------------------------------------------------
(* At most one enroll call per key succeeds.  The invariant that makes it   *)
(* inductive: an answered call is finished, and a row some call has loaded  *)
(* or inserted is present (a save never makes a row absent).                *)

LoadedRowsExist ==
  \A c \in Calls : phase[c] = "loaded" =>
    entity[c].status # "ABSENT" /\ table[Key(c)].status # "ABSENT"

AnsweredIsFinished ==
  \A c \in Calls : reply[c] # "none" => phase[c] = "finished"

IInv == TypeOK /\ LoadedRowsExist /\ AnsweredIsFinished /\ OneEnrollmentPerKey

LEMMA InitIInv == Init => IInv
  BY InitTypeOK DEF Init, IInv, LoadedRowsExist, AnsweredIsFinished,
                    OneEnrollmentPerKey, Succeeded

\* A step of a call that is not an add and is told anything keeps present
\* rows present.
LEMMA RowsStay ==
  ASSUME IInv, [Next]_coreVars, NEW k \in Keys, table[k].status # "ABSENT"
  PROVE  table'[k].status # "ABSENT"
<1> USE DEF IInv
<1>1. ASSUME NEW c \in Calls, EnrollStudent(c) PROVE table'[k].status # "ABSENT"
  BY <1>1, KeyType DEF EnrollStudent, Answer, TypeOK
<1>2. ASSUME NEW c \in Calls, DropEnrollment(c) PROVE table'[k].status # "ABSENT"
  BY <1>2, KeyType DEF DropEnrollment, Save, Answer, TypeOK
<1>3. ASSUME NEW c \in Calls, UpdateGrade(c) PROVE table'[k].status # "ABSENT"
  BY <1>3, KeyType DEF UpdateGrade, Save, Answer, TypeOK, LoadedRowsExist
<1>4. QED
  BY <1>1, <1>2, <1>3
  DEF Next, Serve, Submit, FindEnrollment, CreateAssignment, DatabaseFails,
      coreVars

LEMMA NextIInv == IInv /\ [Next]_coreVars => IInv'
<1> SUFFICES ASSUME IInv, [Next]_coreVars PROVE IInv'
  OBVIOUS
<1>1. TypeOK /\ TypeOK'
  BY NextTypeOK DEF IInv
<1>2. rpc' = rpc /\ \A c \in Calls : Key(c)' = Key(c) /\ Key(c) \in Keys
  BY <1>1, KeyType
  DEF Next, Serve, Submit, EnrollStudent, FindEnrollment, DropEnrollment,
      UpdateGrade, CreateAssignment, DatabaseFails, Save, coreVars, Key
<1>3. \A c \in Calls : table[Key(c)].status # "ABSENT"
                         => table'[Key(c)].status # "ABSENT"
  BY <1>2, RowsStay
<1>4. LoadedRowsExist'
  <2> SUFFICES ASSUME NEW c \in Calls, phase'[c] = "loaded"
               PROVE  /\ entity'[c].status # "ABSENT"
                      /\ table'[Key(c)].status # "ABSENT"
    BY <1>2 DEF LoadedRowsExist
  <2>1. CASE phase[c] = "loaded"
    <3>1. entity'[c] = entity[c]
      BY <1>1, <2>1
      DEF Next, Serve, Submit, EnrollStudent, FindEnrollment, DropEnrollment,
          UpdateGrade, CreateAssignment, DatabaseFails, Save, coreVars, TypeOK
    <3>2. QED
      BY <2>1, <3>1, <1>3 DEF IInv, LoadedRowsExist
  <2>2. CASE phase[c] # "loaded"
    <3>1. FindEnrollment(c)
      BY <1>1, <2>2
      DEF Next, Serve, Submit, EnrollStudent, FindEnrollment, DropEnrollment,
          UpdateGrade, CreateAssignment, DatabaseFails, Save, Answer, coreVars,
          TypeOK
    <3>2. QED
      BY <1>1, <1>2, <3>1 DEF FindEnrollment, Answer, TypeOK
  <2>3. QED
    BY <2>1, <2>2
<1>5. AnsweredIsFinished'
  BY <1>1, ZenonT(30)
  DEF IInv, AnsweredIsFinished, Next, Serve, Submit, EnrollStudent,
      FindEnrollment, DropEnrollment, UpdateGrade, CreateAssignment,
      DatabaseFails, Save, Answer, coreVars, TypeOK
<1>6. OneEnrollmentPerKey'
  <2>1. ASSUME NEW c \in Calls, Succeeded(c, "add")', ~Succeeded(c, "add")
        PROVE  /\ table[Key(c)].status = "ABSENT"
               /\ table'[Key(c)].status # "ABSENT"
               /\ \A d \in Calls : d # c => reply'[d] = reply[d]
    <3>1. EnrollStudent(c)
      BY <1>1, <1>2, <2>1, ZenonT(30)
      DEF IInv, AnsweredIsFinished, Next, Serve, Submit, EnrollStudent,
          FindEnrollment, DropEnrollment, UpdateGrade, CreateAssignment,
          DatabaseFails, Save, Answer, coreVars, TypeOK, Succeeded
    <3>2. QED
      BY <1>1, <1>2, <2>1, <3>1 DEF EnrollStudent, Answer, TypeOK, Succeeded
  <2>2. ASSUME NEW c \in Calls, Succeeded(c, "add")'
        PROVE  table'[Key(c)].status # "ABSENT"
    BY <1>3, <2>1, <2>2 DEF IInv, OneEnrollmentPerKey
  <2>3. ASSUME NEW c \in Calls, NEW d \in Calls, Succeeded(c, "add")',
               Succeeded(d, "add")', Key(c) = Key(d)
        PROVE  c = d
    <3>1. CASE Succeeded(c, "add") /\ Succeeded(d, "add")
      BY <2>3, <3>1 DEF IInv, OneEnrollmentPerKey
    <3>2. CASE ~Succeeded(c, "add")
      <4>1. d # c => Succeeded(d, "add")
        BY <1>2, <2>1, <2>3, <3>2 DEF Succeeded
      <4>2. QED
        BY <2>1, <2>3, <3>2, <4>1 DEF IInv, OneEnrollmentPerKey
    <3>3. CASE ~Succeeded(d, "add")
      <4>1. c # d => Succeeded(c, "add")
        BY <1>2, <2>1, <2>3, <3>3 DEF Succeeded
      <4>2. QED
        BY <2>1, <2>3, <3>3, <4>1 DEF IInv, OneEnrollmentPerKey
    <3>4. QED
      BY <3>1, <3>2, <3>3
  <2>4. QED
    BY <1>2, <2>2, <2>3 DEF OneEnrollmentPerKey
<1>7. QED
  BY <1>1, <1>4, <1>5, <1>6 DEF IInv

\* However many enroll calls for one student and course race, with whatever
\* drops and grades in between, at most one is told OK and its row stays.
THEOREM EnrollmentIsUnique == Spec => []OneEnrollmentPerKey
<1>1. IInv => OneEnrollmentPerKey
  BY DEF IInv
<1>2. QED
  BY InitIInv, NextIInv, <1>1, PTL DEF Spec

-----------------------------------------------------------------------------
(* What can happen to a status and to a grade. *)

\* An enroll call inserts only where there is no row and a drop writes
\* DROPPED, so a row leaves DROPPED only by the save of a stale grade update.
THEOREM DropsAreFinalButForStaleSaves == Spec => DropUndoneOnlyByStaleSave
<1>1. ASSUME IInv, [Next]_coreVars, NEW k \in Keys,
             table[k].status = "DROPPED", table'[k].status # "DROPPED"
      PROVE  \E c \in Calls : /\ rpc[c].op = "grade" /\ Key(c) = k
                              /\ phase[c] = "loaded"
                              /\ entity[c].status = table'[k].status
  <2> USE DEF IInv
  <2>1. PICK c \in Calls : Submit(c) \/ Serve(c)
    BY <1>1 DEF Next, coreVars
  <2>2. TypeOK /\ Key(c) \in Keys
    BY <1>1, KeyType
  <2>3. CASE UpdateGrade(c)
    BY <1>1, <2>2, <2>3 DEF UpdateGrade, Save, Answer, TypeOK
  <2>4. CASE EnrollStudent(c)
    BY <1>1, <2>2, <2>4 DEF EnrollStudent, Answer, TypeOK
  <2>5. CASE DropEnrollment(c)
    BY <1>1, <2>2, <2>5 DEF DropEnrollment, Save, Answer, TypeOK
  <2>6. QED
    BY <1>1, <2>1, <2>3, <2>4, <2>5
    DEF Serve, Submit, FindEnrollment, CreateAssignment, DatabaseFails
<1>2. IInv /\ [Next]_coreVars =>
        [\A k \in Keys :
           /\ table[k].status = "DROPPED"
           /\ table'[k].status # "DROPPED"
           => \E c \in Calls :
                /\ rpc[c].op = "grade" /\ Key(c) = k
                /\ phase[c] = "loaded"
                /\ entity[c].status = table'[k].status]_coreVars
  BY <1>1
<1>3. QED
  BY InitIInv, NextIInv, <1>2, PTL DEF Spec, DropUndoneOnlyByStaleSave

\* What the history adds to a step of the service.
LEMMA HistoryStep ==
  ASSUME HistoryTypeOK, HistoryNext
  PROVE  /\ [Next]_coreVars /\ HistoryTypeOK'
         /\ \E c \in Calls : (Submit(c) \/ Serve(c)) /\ Watch(c)
<1>1. PICK c \in Calls : (Submit(c) \/ Serve(c)) /\ Watch(c)
  BY DEF HistoryNext
<1>2. Next
  BY <1>1 DEF Next
<1>3. TypeOK'
  BY <1>2, NextTypeOK DEF HistoryTypeOK
<1>4. beside' \in [Calls -> SUBSET Calls]
  BY <1>1 DEF Watch, HistoryTypeOK, HoldingRows
<1> QED BY <1>1, <1>2, <1>3, <1>4 DEF HistoryTypeOK

\* Grade g of c's row is that of some update that was told OK, or one that a
\* drop that overlapped with c and was told OK had loaded.
GradeExplained(c, g) ==
  \/ \E u \in Calls : Succeeded(u, "grade") /\ Key(u) = Key(c) /\ g = rpc[u].grade
  \/ \E d \in Calls : /\ Succeeded(d, "drop") /\ Key(d) = Key(c)
                      /\ Overlapped(c, d)
                      /\ entity[d].grade = g

\* Calls whose row is loaded at the same time overlap; a loaded grade that is
\* not the row's any more was replaced by one that is explained; and a drop
\* that loaded its row after an update was through has loaded a grade that is
\* explained.  Without the last, a drop that begins later could bring back a
\* grade that nothing explains.
GInv ==
  /\ IInv /\ HistoryTypeOK
  /\ \A c, d \in HoldingRows : c # d => Overlapped(c, d)
  /\ \A c \in Calls : Succeeded(c, "grade") =>
       /\ table[Key(c)].status # "ABSENT"
       /\ GradeExplained(c, table[Key(c)].grade)
  /\ \A c \in HoldingRows :
       table[Key(c)].grade = entity[c].grade
         \/ GradeExplained(c, table[Key(c)].grade)
  /\ \A c \in Calls, d \in HoldingRows :
       Succeeded(c, "grade") /\ Key(d) = Key(c) =>
         Overlapped(c, d) \/ GradeExplained(c, entity[d].grade)

LEMMA InitGInv == HistoryInit => GInv
  BY InitIInv DEF HistoryInit, Init, GInv, HistoryTypeOK, IInv, Succeeded, HoldingRows

\* What one step of call c does to the calls and to the grades.
LEMMA StepOf ==
  ASSUME GInv, NEW c \in Calls, Submit(c) \/ Serve(c), Watch(c)
  PROVE  /\ rpc' = rpc /\ \A d \in Calls : Key(d)' = Key(d) /\ Key(d) \in Keys
         /\ reply[c] = "none"
         /\ \A d \in Calls : d # c =>
              /\ phase'[d] = phase[d] /\ entity'[d] = entity[d]
              /\ reply'[d] = reply[d] /\ beside'[d] = beside[d]
         /\ phase[c] = "loaded" =>
              entity' = entity /\ beside' = beside /\ phase'[c] = "finished"
         /\ phase[c] # "loaded" =>
              /\ ~Succeeded(c, "grade")'
              /\ \A k \in Keys : table[k].status # "ABSENT" => table'[k] = table[k]
         /\ phase'[c] = "loaded" =>
              entity'[c] = table[Key(c)] /\ table' = table /\ beside'[c] = HoldingRows
<1> USE DEF GInv, IInv, TypeOK, AnsweredIsFinished
<1>1. rpc' = rpc /\ \A d \in Calls : Key(d)' = Key(d) /\ Key(d) \in Keys
  BY KeyType
  DEF Serve, Submit, EnrollStudent, FindEnrollment, DropEnrollment,
      UpdateGrade, CreateAssignment, DatabaseFails, Save, Key
<1>2. reply[c] = "none"
  BY DEF Serve, Submit, EnrollStudent, FindEnrollment, DropEnrollment,
         UpdateGrade, CreateAssignment, DatabaseFails
<1>3. \A d \in Calls : d # c =>
        /\ phase'[d] = phase[d] /\ entity'[d] = entity[d]
        /\ reply'[d] = reply[d] /\ beside'[d] = beside[d]
  BY DEF Serve, Submit, EnrollStudent, FindEnrollment, DropEnrollment,
         UpdateGrade, CreateAssignment, DatabaseFails, Save, Answer, Watch,
         HistoryTypeOK
<1>4. phase[c] = "loaded" =>
        entity' = entity /\ beside' = beside /\ phase'[c] = "finished"
  BY DEF Serve, Submit, EnrollStudent, FindEnrollment, DropEnrollment,
         UpdateGrade, CreateAssignment, DatabaseFails, Save, Answer, Watch
<1>5. ASSUME phase[c] # "loaded"
      PROVE  /\ ~Succeeded(c, "grade")'
             /\ \A k \in Keys : table[k].status # "ABSENT" => table'[k] = table[k]
  BY <1>1, <1>2, <1>5
  DEF Serve, Submit, EnrollStudent, FindEnrollment, DropEnrollment,
      UpdateGrade, CreateAssignment, DatabaseFails, Answer, Succeeded
<1>6. ASSUME phase'[c] = "loaded"
      PROVE  /\ entity'[c] = table[Key(c)] /\ table' = table
             /\ beside'[c] = HoldingRows
  <2>1. FindEnrollment(c) /\ phase[c] # "loaded"
    BY <1>6
    DEF Serve, Submit, EnrollStudent, FindEnrollment, DropEnrollment,
        UpdateGrade, CreateAssignment, DatabaseFails, Save, Answer
  <2>2. QED
    BY <1>6, <2>1 DEF FindEnrollment, Answer, Watch, HistoryTypeOK
<1>7. QED
  BY <1>1, <1>2, <1>3, <1>4, <1>5, <1>6

\* What the commit of a loaded call does: a grade that changes becomes the
\* update's own or the one the drop had loaded.
LEMMA CommitOf ==
  ASSUME GInv, NEW c \in Calls, Submit(c) \/ Serve(c), phase[c] = "loaded"
  PROVE  \/ table' = table /\ reply'[c] # "OK"
         \/ /\ Succeeded(c, "grade")' /\ rpc' = rpc
            /\ table'[Key(c)].grade = rpc[c].grade
            /\ \A k \in Keys : k # Key(c) => table'[k] = table[k]
         \/ /\ Succeeded(c, "grade")' /\ rpc' = rpc
            /\ table' = table /\ entity[c].grade = rpc[c].grade
         \/ /\ Succeeded(c, "drop")' /\ rpc' = rpc
            /\ table' = table \/ table'[Key(c)].grade = entity[c].grade
            /\ \A k \in Keys : k # Key(c) => table'[k] = table[k]
<1> USE DEF GInv, IInv, TypeOK
<1>1. CASE UpdateGrade(c)
  BY <1>1, KeyType DEF UpdateGrade, Save, Answer, Succeeded
<1>2. CASE DropEnrollment(c)
  BY <1>2, KeyType DEF DropEnrollment, Save, Answer, Succeeded
<1>3. CASE DatabaseFails(c)
  BY <1>3 DEF DatabaseFails, Answer
<1>4. QED
  BY <1>1, <1>2, <1>3
  DEF Serve, Submit, EnrollStudent, FindEnrollment, CreateAssignment

\* An explanation, and an overlap, stays one once the calls hold their rows.
LEMMA ExplanationStays ==
  ASSUME GInv, NEW c \in Calls, Submit(c) \/ Serve(c), Watch(c),
         NEW x \in Calls, phase[x] \in {"loaded", "finished"}
  PROVE  /\ \A g : GradeExplained(x, g) => GradeExplained(x, g)'
         /\ \A d \in Calls : phase[d] \in {"loaded", "finished"} =>
              (Overlapped(x, d) => Overlapped(x, d)')
<1>1. beside'[x] = beside[x] /\ Key(x)' = Key(x)
  <2>1. x = c => phase[c] = "loaded"
    BY StepOf DEF Submit, Serve, EnrollStudent, FindEnrollment, DropEnrollment,
                  UpdateGrade, CreateAssignment, DatabaseFails
  <2>2. QED
    BY StepOf, <2>1
<1>2. ASSUME NEW d \in Calls, phase[d] \in {"loaded", "finished"},
             Overlapped(x, d)
      PROVE  Overlapped(x, d)'
  <2>1. d = c => phase[c] = "loaded"
    BY <1>2 DEF Submit, Serve, EnrollStudent, FindEnrollment, DropEnrollment,
                UpdateGrade, CreateAssignment, DatabaseFails
  <2>2. beside'[d] = beside[d]
    BY StepOf, <2>1
  <2>3. QED
    BY <1>1, <1>2, <2>2 DEF Overlapped
<1>3. ASSUME NEW d \in Calls, reply[d] # "none"
      PROVE  /\ reply'[d] = reply[d] /\ entity'[d] = entity[d]
             /\ Key(d)' = Key(d) /\ rpc'[d] = rpc[d] /\ phase[d] = "finished"
  BY <1>3, StepOf DEF GInv, IInv, AnsweredIsFinished
<1>4. ASSUME NEW g, GradeExplained(x, g) PROVE GradeExplained(x, g)'
  <2>1. CASE \E u \in Calls : Succeeded(u, "grade") /\ Key(u) = Key(x)
                                /\ g = rpc[u].grade
    BY <1>1, <1>3, <2>1 DEF GradeExplained, Succeeded
  <2>2. CASE \E d \in Calls : /\ Succeeded(d, "drop") /\ Key(d) = Key(x)
                              /\ Overlapped(x, d)
                              /\ entity[d].grade = g
    BY <1>1, <1>2, <1>3, <2>2 DEF GradeExplained, Succeeded
  <2>3. QED
    BY <1>4, <2>1, <2>2 DEF GradeExplained
<1>5. QED
  BY <1>2, <1>4

LEMMA NextGInv == GInv /\ [HistoryNext]_historyVars => GInv'
<1>1. ASSUME GInv, UNCHANGED historyVars PROVE GInv'
  BY <1>1 DEF GInv, IInv, TypeOK, HistoryTypeOK, HoldingRows, Overlapped,
     GradeExplained, Succeeded, Key, historyVars, coreVars, LoadedRowsExist,
     AnsweredIsFinished, OneEnrollmentPerKey
<1>2. ASSUME GInv, NEW c \in Calls, Submit(c) \/ Serve(c), Watch(c) PROVE GInv'
  <2>1. IInv' /\ HistoryTypeOK'
    <3>1. HistoryNext
      BY <1>2 DEF HistoryNext
    <3>2. QED
      BY <1>2, <3>1, HistoryStep, NextIInv DEF GInv
  <2>2. /\ rpc' = rpc /\ \A d \in Calls : Key(d)' = Key(d) /\ Key(d) \in Keys
        /\ reply[c] = "none"
        /\ \A d \in Calls : d # c =>
             /\ phase'[d] = phase[d] /\ entity'[d] = entity[d]
             /\ reply'[d] = reply[d] /\ beside'[d] = beside[d]
        /\ phase[c] = "loaded" =>
             entity' = entity /\ beside' = beside /\ phase'[c] = "finished"
        /\ phase[c] # "loaded" =>
             /\ ~Succeeded(c, "grade")'
             /\ \A k \in Keys : table[k].status # "ABSENT" => table'[k] = table[k]
        /\ phase'[c] = "loaded" =>
             entity'[c] = table[Key(c)] /\ table' = table /\ beside'[c] = HoldingRows
    BY <1>2, StepOf
  \* The grade of a present row is as it was, or x has an explanation for it.
  <2>3. ASSUME NEW x \in Calls, phase[x] \in {"loaded", "finished"},
               table[Key(x)].status # "ABSENT",
               phase[c] = "loaded" /\ Key(c) = Key(x) /\ rpc[c].op = "drop" =>
                 Overlapped(x, c) \/ GradeExplained(x, entity[c].grade),
               NEW g, g = table'[Key(x)].grade
        PROVE  g = table[Key(x)].grade \/ GradeExplained(x, g)'
    <3>1. CASE phase[c] # "loaded"
      BY <2>2, <2>3, <3>1
    <3>2. CASE phase[c] = "loaded"
      <4>1. \/ table' = table
            \/ /\ Succeeded(c, "grade")' /\ table'[Key(c)].grade = rpc[c].grade
               /\ \A k \in Keys : k # Key(c) => table'[k] = table[k]
            \/ /\ Succeeded(c, "drop")' /\ table'[Key(c)].grade = entity[c].grade
               /\ \A k \in Keys : k # Key(c) => table'[k] = table[k]
        BY <1>2, <3>2, CommitOf
      <4>2. CASE Key(x) # Key(c) \/ table' = table
        BY <2>2, <2>3, <4>1, <4>2
      <4>3. CASE /\ Succeeded(c, "grade")' /\ g = rpc[c].grade /\ Key(x) = Key(c)
        BY <2>2, <4>3 DEF GradeExplained
      <4>4. CASE /\ Succeeded(c, "drop")' /\ g = entity[c].grade /\ Key(x) = Key(c)
        <5>1. rpc[c].op = "drop" /\ entity'[c] = entity[c]
          BY <2>2, <3>2, <4>4 DEF Succeeded
        <5>2. CASE GradeExplained(x, g)
          BY <1>2, <2>3, <5>2, ExplanationStays
        <5>3. CASE Overlapped(x, c)
          <6>1. Overlapped(x, c)'
            BY <1>2, <2>3, <3>2, <5>3, ExplanationStays
          <6>2. QED
            BY <2>2, <4>4, <5>1, <6>1 DEF GradeExplained
        <5>4. QED
          BY <2>3, <3>2, <4>4, <5>1, <5>2, <5>3
      <4>5. QED
        BY <2>3, <4>1, <4>2, <4>3, <4>4
    <3>3. QED
      BY <3>1, <3>2
  <2>4. (\A x, d \in HoldingRows : x # d => Overlapped(x, d))'
    BY <1>2, <2>2 DEF GInv, HoldingRows, Overlapped
  \* A grade update that is through was through before, or is c itself.
  <2>5. \A x \in Calls : Succeeded(x, "grade")' =>
          \/ Succeeded(x, "grade") /\ phase[x] = "finished" /\ x # c
          \/ x = c /\ phase[c] = "loaded"
    BY <1>2, <2>2 DEF GInv, IInv, AnsweredIsFinished, Succeeded
  <2>6. (\A x \in Calls : Succeeded(x, "grade") =>
           /\ table[Key(x)].status # "ABSENT"
           /\ GradeExplained(x, table[Key(x)].grade))'
    <3> SUFFICES ASSUME NEW x \in Calls, Succeeded(x, "grade")', NEW g,
                        g = table'[Key(x)].grade
                 PROVE  table'[Key(x)].status # "ABSENT" /\ GradeExplained(x, g)'
      BY <2>2 DEF GradeExplained
    <3>1. table[Key(x)].status # "ABSENT"
      BY <1>2, <2>5 DEF GInv, IInv, LoadedRowsExist
    <3>2. table'[Key(x)].status # "ABSENT"
      BY <1>2, <2>2, <3>1, RowsStay DEF GInv, Next
    <3>3. CASE Succeeded(x, "grade") /\ phase[x] = "finished" /\ x # c
      <4>1. GradeExplained(x, table[Key(x)].grade)
        BY <1>2, <3>3 DEF GInv
      <4>2. phase[c] = "loaded" /\ Key(c) = Key(x) =>
              Overlapped(x, c) \/ GradeExplained(x, entity[c].grade)
        BY <1>2, <3>3 DEF GInv, HoldingRows
      <4>3. g = table[Key(x)].grade \/ GradeExplained(x, g)'
        BY <2>3, <3>1, <3>3, <4>2
      <4>4. GradeExplained(x, g) => GradeExplained(x, g)'
        BY <1>2, <3>3, ExplanationStays
      <4>5. QED
        BY <3>2, <4>1, <4>3, <4>4
    <3>4. CASE x = c /\ phase[c] = "loaded"
      <4>1. CASE g = rpc[c].grade
        BY <2>2, <3>2, <3>4, <4>1 DEF GradeExplained
      <4>2. CASE table' = table /\ entity[c].grade = rpc[c].grade
        <5>1. CASE g = entity[c].grade
          BY <4>1, <4>2, <5>1
        <5>2. CASE GradeExplained(c, g)
          BY <1>2, <3>2, <3>4, <5>2, ExplanationStays
        <5>3. QED
          BY <1>2, <3>4, <4>2, <5>1, <5>2 DEF GInv, HoldingRows
      <4>3. QED
        <5>1. rpc'[c].op = "grade" /\ reply'[c] = "OK"
          BY <3>4 DEF Succeeded
        <5>2. ~Succeeded(c, "drop")'
          BY <5>1 DEF Succeeded
        <5>3. QED
          BY <1>2, <3>4, <4>1, <4>2, <5>1, <5>2, CommitOf
    <3>5. QED
      BY <2>5, <3>3, <3>4
  <2>7. (\A x \in HoldingRows :
           table[Key(x)].grade = entity[x].grade
             \/ GradeExplained(x, table[Key(x)].grade))'
    <3> SUFFICES ASSUME NEW x \in Calls, phase'[x] = "loaded", NEW g,
                        g = table'[Key(x)].grade
                 PROVE  g = entity'[x].grade \/ GradeExplained(x, g)'
      BY <2>2 DEF GradeExplained, HoldingRows
    <3>1. CASE x = c
      BY <2>2, <3>1
    <3>2. CASE x # c
      <4>1. phase[x] = "loaded" /\ entity'[x] = entity[x]
        BY <2>2, <3>2
      <4>2. table[Key(x)].status # "ABSENT"
        BY <1>2, <4>1 DEF GInv, IInv, LoadedRowsExist
      <4>3. phase[c] = "loaded" => Overlapped(x, c)
        BY <1>2, <3>2, <4>1 DEF GInv, HoldingRows
      <4>4. g = table[Key(x)].grade \/ GradeExplained(x, g)'
        BY <2>3, <4>1, <4>2, <4>3
      <4>5. GradeExplained(x, g) => GradeExplained(x, g)'
        BY <1>2, <4>1, ExplanationStays
      <4>6. table[Key(x)].grade = entity[x].grade
              \/ GradeExplained(x, table[Key(x)].grade)
        BY <1>2, <4>1 DEF GInv, HoldingRows
      <4>7. QED
        BY <4>1, <4>4, <4>5, <4>6
    <3>3. QED
      BY <3>1, <3>2
  <2>8. (\A x \in Calls, d \in HoldingRows :
           Succeeded(x, "grade") /\ Key(d) = Key(x) =>
             Overlapped(x, d) \/ GradeExplained(x, entity[d].grade))'
    <3> SUFFICES ASSUME NEW x \in Calls, NEW d \in Calls, phase'[d] = "loaded",
                        Succeeded(x, "grade")', Key(d) = Key(x), NEW g,
                        g = entity'[d].grade
                 PROVE  Overlapped(x, d)' \/ GradeExplained(x, g)'
      BY <2>2 DEF GradeExplained, HoldingRows
    <3>1. CASE x = c
      BY <1>2, <2>2, <2>4, <2>5, <3>1 DEF HoldingRows, GInv, Overlapped
    <3>2. CASE x # c
      <4>1. Succeeded(x, "grade") /\ phase[x] = "finished"
        BY <2>5, <3>2
      <4>2. CASE d = c
        <5>1. GradeExplained(x, g)
          BY <1>2, <2>2, <4>1, <4>2 DEF GInv
        <5>2. QED
          BY <1>2, <4>1, <5>1, ExplanationStays
      <4>3. CASE d # c
        <5>1. phase[d] = "loaded" /\ entity'[d] = entity[d]
          BY <2>2, <4>3
        <5>2. Overlapped(x, d) \/ GradeExplained(x, g)
          BY <1>2, <4>1, <5>1 DEF GInv, HoldingRows
        <5>3. QED
          BY <1>2, <4>1, <5>1, <5>2, ExplanationStays
      <4>4. QED
        BY <4>2, <4>3
    <3>3. QED
      BY <3>1, <3>2
  <2>9. QED
    BY <2>1, <2>4, <2>6, <2>7, <2>8 DEF GInv
<1>3. QED
  BY <1>1, <1>2 DEF HistoryNext

\* A grade answered OK leaves its row only through a drop that overlapped with
\* the update and was answered OK: one that is over before the update loads
\* the row, or that loads it after the update is through, costs no grade.
THEOREM GradesAreLostOnlyToDrops == HistorySpec => []LostGradeNeedsOverlappingDrop
<1>1. GInv => LostGradeNeedsOverlappingDrop
  BY DEF GInv, LostGradeNeedsOverlappingDrop, GradeExplained, GradeIsOfSomeUpdate
<1>2. QED
  BY InitGInv, NextGInv, <1>1, PTL DEF HistorySpec
=============================================================================
