---------------------------- MODULE CoreService ----------------------------
(***************************************************************************)
(* The Java core service: the enrollments and assignments tables and the   *)
(* four RPCs that write them.  Every RPC is one @Transactional method, and *)
(* gRPC's default executor runs RPCs on several threads, so transactions   *)
(* overlap.  The entity class has no @Version column and no @DynamicUpdate *)
(* so a method that loads a row and saves it (dropEnrollment, updateGrade) *)
(* writes back EVERY column as it was when loaded, under PostgreSQL's      *)
(* default READ COMMITTED isolation.  A call therefore takes two steps     *)
(* when it reads before it writes.  One semester is modelled: the agent    *)
(* always passes "Fall 2025".                                              *)
(***************************************************************************)
EXTENDS FiniteSets

CONSTANTS Calls,          \* identities of the RPCs that may be made
          Students,       \* student ids a call may name
          Courses,        \* course ids a call may name
          NoCourse,       \* the empty course id, if a call may name it
          KnownStudents,  \* ids present in the students table
          Grades,         \* letter grades
          NoGrade,        \* the NULL grade
          Rpcs,           \* the requests the environment may send
          SeedTables      \* contents the enrollments table may start with

Keys == Students \X Courses

Ops == {"add", "drop", "grade", "assign"}

Rpc == [op : Ops, student : Students, course : Courses, grade : Grades]

Statuses == {"ABSENT", "ENROLLED", "DROPPED", "COMPLETED"}

\* A row of the enrollments table; status "ABSENT" says there is no row.
Row == [status : Statuses, grade : Grades \cup {NoGrade}]

ASSUME CoreAssumption ==
  /\ KnownStudents \subseteq Students
  /\ NoGrade \notin Grades
  /\ Rpcs \subseteq Rpc
  /\ SeedTables \subseteq [Keys -> Row]

VARIABLES rpc,          \* rpc[c]: the request message of call c
          phase,        \* phase[c]: how far the server is with c
          entity,       \* entity[c]: the row c loaded into its session
          reply,        \* reply[c]: the gRPC status the server answered
          table,        \* the enrollments table
          assignments   \* calls whose assignment row was inserted

coreVars == <<rpc, phase, entity, reply, table, assignments>>

Key(c) == <<rpc[c].student, rpc[c].course>>

Absent == [status |-> "ABSENT", grade |-> NoGrade]

Phases == {"idle", "queued", "loaded", "finished"}

\* The gRPC statuses the handlers answer besides OK.
Errors == {"NOT_FOUND", "INVALID_ARGUMENT", "UNKNOWN"}

TypeOK ==
  /\ rpc \in [Calls -> Rpc]
  /\ phase \in [Calls -> Phases]
  /\ entity \in [Calls -> Row]
  /\ reply \in [Calls -> {"none", "OK"} \cup Errors]
  /\ table \in [Keys -> Row]
  /\ assignments \subseteq Calls

Init ==
  /\ rpc \in [Calls -> Rpcs]
  /\ phase = [c \in Calls |-> "idle"]
  /\ entity = [c \in Calls |-> Absent]
  /\ reply = [c \in Calls |-> "none"]
  /\ table \in SeedTables
  /\ assignments = {}

-----------------------------------------------------------------------------

\* The request reaches the server and is handed to an executor thread.
Submit(c) ==
  /\ phase[c] = "idle"
  /\ phase' = [phase EXCEPT ![c] = "queued"]
  /\ UNCHANGED <<rpc, entity, reply, table, assignments>>

\* The handler completes call c with gRPC status s.
Answer(c, s) ==
  /\ phase' = [phase EXCEPT ![c] = "finished"]
  /\ reply' = [reply EXCEPT ![c] = s]

\* Mutant: enrolling again revives a dropped row instead of being refused.
EnrollStudentReviving(c) ==
  /\ phase[c] = "queued" /\ rpc[c].op = "add"
  /\ table[Key(c)].status # "ENROLLED"
  /\ Answer(c, "OK")
  /\ table' = [table EXCEPT ![Key(c)] =
                 [status |-> "ENROLLED", grade |-> NoGrade]]
  /\ UNCHANGED <<rpc, entity, assignments>>

\* enrollStudent: an unknown student is NOT_FOUND; the UNIQUE constraint on
\* (student, course, semester) refuses a second row whatever the status of
\* the first, and that exception is not caught, so gRPC answers UNKNOWN.
EnrollStudent(c) ==
  /\ phase[c] = "queued" /\ rpc[c].op = "add"
  /\ \/ /\ rpc[c].student \notin KnownStudents
        /\ Answer(c, "NOT_FOUND")
        /\ UNCHANGED table
     \/ /\ rpc[c].student \in KnownStudents
        /\ table[Key(c)].status # "ABSENT"
        /\ Answer(c, "UNKNOWN")
        /\ UNCHANGED table
     \/ /\ rpc[c].student \in KnownStudents
        /\ table[Key(c)].status = "ABSENT"
        /\ Answer(c, "OK")
        /\ table' = [table EXCEPT ![Key(c)] =
                       [status |-> "ENROLLED", grade |-> NoGrade]]
  /\ UNCHANGED <<rpc, entity, assignments>>

\* Mutant: rows stay in a cache that several transactions share.
FindEnrollmentCached(c) ==
  /\ phase[c] = "queued" /\ rpc[c].op \in {"drop", "grade"}
  /\ table[Key(c)].status # "ABSENT"
  /\ phase' = [phase EXCEPT ![c] = "loaded"]
  /\ \E row \in {table[Key(c)]} \cup {entity[d] : d \in {x \in Calls : Key(x) = Key(c)}} :
       row # Absent /\ entity' = [entity EXCEPT ![c] = row]
  /\ UNCHANGED <<rpc, reply, table, assignments>>

\* The finder both dropEnrollment and updateGrade start with: no row is
\* NOT_FOUND, otherwise the row is loaded into the transaction's session.
FindEnrollment(c) ==
  /\ phase[c] = "queued" /\ rpc[c].op \in {"drop", "grade"}
  /\ \/ /\ table[Key(c)].status = "ABSENT"
        /\ Answer(c, "NOT_FOUND")
        /\ UNCHANGED entity
     \/ /\ table[Key(c)].status # "ABSENT"
        /\ phase' = [phase EXCEPT ![c] = "loaded"]
        /\ entity' = [entity EXCEPT ![c] = table[Key(c)]]
        /\ UNCHANGED reply
  /\ UNCHANGED <<rpc, table, assignments>>

\* save() and commit: Hibernate issues an UPDATE of all columns when the
\* managed entity is dirty, and nothing when the setter changed nothing.
Save(c, row) ==
  /\ Answer(c, "OK")
  /\ table' = IF row = entity[c] THEN table
                                 ELSE [table EXCEPT ![Key(c)] = row]
  /\ UNCHANGED <<rpc, entity, assignments>>

\* Mutant: the drop deletes the row.
DropDeletingRow(c) ==
  /\ phase[c] = "loaded" /\ rpc[c].op = "drop"
  /\ Save(c, Absent)

\* dropEnrollment keeps the row and marks it DROPPED, from any status.
DropEnrollment(c) ==
  /\ phase[c] = "loaded" /\ rpc[c].op = "drop"
  /\ Save(c, [status |-> "DROPPED", grade |-> entity[c].grade])

\* Mutant: the grade is set on the wrong column.
UpdateGradeInStatus(c) ==
  /\ phase[c] = "loaded" /\ rpc[c].op = "grade"
  /\ Save(c, [status |-> rpc[c].grade, grade |-> entity[c].grade])

\* updateGrade does not look at the status.
UpdateGrade(c) ==
  /\ phase[c] = "loaded" /\ rpc[c].op = "grade"
  /\ Save(c, [status |-> entity[c].status, grade |-> rpc[c].grade])

\* createAssignment inserts a row whose id the client made unique, unless an
\* id is missing.
CreateAssignment(c) ==
  /\ phase[c] = "queued" /\ rpc[c].op = "assign"
  /\ \/ /\ rpc[c].course = NoCourse
        /\ Answer(c, "INVALID_ARGUMENT")
        /\ UNCHANGED assignments
     \/ /\ rpc[c].course # NoCourse
        /\ Answer(c, "OK")
        /\ assignments' = assignments \cup {c}
  /\ UNCHANGED <<rpc, entity, table>>

\* The database refuses (connection lost, timeout): the transaction rolls
\* back and the uncaught exception becomes UNKNOWN.
DatabaseFails(c) ==
  /\ phase[c] \in {"queued", "loaded"}
  /\ Answer(c, "UNKNOWN")
  /\ UNCHANGED <<rpc, entity, table, assignments>>

\* One step of the server on call c.
Serve(c) ==
  \/ EnrollStudent(c)
  \/ FindEnrollment(c)
  \/ DropEnrollment(c)
  \/ UpdateGrade(c)
  \/ CreateAssignment(c)
  \/ DatabaseFails(c)

Next == \E c \in Calls : Submit(c) \/ Serve(c)

Spec == Init /\ [][Next]_coreVars

-----------------------------------------------------------------------------

Succeeded(c, op) == rpc[c].op = op /\ reply[c] = "OK"

GradeIsOfSomeUpdate(k) ==
  \E d \in Calls : Succeeded(d, "grade") /\ Key(d) = k
                    /\ table[k].grade = rpc[d].grade

\* Two students' clicks, a retry and a first attempt: of all the enroll
\* calls for one (student, course) at most one is ever told OK, and the row
\* it inserted is still there, whatever drops and grades ran meanwhile.
OneEnrollmentPerKey ==
  \A c, d \in Calls :
    /\ Succeeded(c, "add") /\ Succeeded(d, "add") /\ Key(c) = Key(d) => c = d
    /\ Succeeded(c, "add") => table[Key(c)].status # "ABSENT"

\* No enroll call brings a dropped enrollment back: a row leaves DROPPED only
\* because an updateGrade that loaded it before the drop writes its stale
\* status over the drop.
DropUndoneOnlyByStaleSave ==
  [][\A k \in Keys :
       /\ table[k].status = "DROPPED"
       /\ table'[k].status # "DROPPED"
       => \E c \in Calls :
            /\ rpc[c].op = "grade" /\ Key(c) = k
            /\ phase[c] = "loaded"
            /\ entity[c].status = table'[k].status]_coreVars

\* What the specification promises of UpdateGrade: "updates the grade in
\* PostgreSQL and returns a success response".  Once it has returned OK the
\* row holds that grade or the one of another UpdateGrade that returned OK.
GradeUpdatePersists ==
  \A c \in Calls : Succeeded(c, "grade") => GradeIsOfSomeUpdate(Key(c))
=============================================================================
