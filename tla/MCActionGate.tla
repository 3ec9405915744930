---------------------------- MODULE MCActionGate ----------------------------
(***************************************************************************)
(* Two requests of every kind of caller.  The course cs101 exists, has a   *)
(* seat left, its grade window is open and smith owns it; cs401 is full    *)
(* and its window is closed.  alice is enrolled in cs101, bob is not.      *)
(***************************************************************************)
EXTENDS ActionGate

CONSTANTS r1, r2, alice, bob, smith, cs101, cs401

MCRequests == {r1, r2}
MCStudents == {alice, bob}
MCCourses == {cs101, cs401}
MCStaff == {smith}
MCGrades == {"A", "B"}

MCWorld == [exists |-> MCCourses,
            enrollment |-> [c \in MCCourses |-> 1],
            capacity |-> [c \in MCCourses |-> IF c = cs101 THEN 2 ELSE 1],
            windowOpen |-> {cs101},
            owner |-> [c \in MCCourses |-> smith],
            enrolled |-> {<<alice, cs101>>}]

MCRpcs ==
  { [op |-> o, student |-> alice, course |-> cs101, grade |-> "A"] :
      o \in {"add", "drop", "grade", "assign"} }
    \cup { [op |-> "grade", student |-> alice, course |-> cs101, grade |-> "B"],
           [op |-> "add", student |-> bob, course |-> cs101, grade |-> "A"],
           [op |-> "add", student |-> bob, course |-> cs401, grade |-> "A"] }

Caller(p, role, user, shape) ==
  [path |-> p, role |-> role, user |-> user, shape |-> shape]

MCSessions ==
  { Caller(p, "instructor", smith, "ok") : p \in {"plan", "subgraph"} }
    \cup { Caller(p, "student", alice, "ok") : p \in {"plan", "subgraph"} }
    \cup { Caller("plan", "guest", alice, "ok"),
           Caller("plan", "instructor", smith, "unknown_tool"),
           Caller("subgraph", "student", alice, "unknown_tool") }

Table(f) == [k \in MCStudents \X MCCourses |->
              IF k \in DOMAIN f THEN f[k]
              ELSE [status |-> "ABSENT", grade |-> NoGrade]]

AliceEnrolled ==
  Table([k \in {<<alice, cs101>>} |-> [status |-> "ENROLLED", grade |-> NoGrade]])

\* The service's table agrees with the live-state table, or alice has dropped
\* the course since.
MCSeeds ==
  {AliceEnrolled,
   Table([k \in {<<alice, cs101>>} |-> [status |-> "DROPPED", grade |-> "A"]])}

\* The empty last seat: nobody has been enrolled yet and one more may be.
SeatWorld == [MCWorld EXCEPT !.enrollment = [c \in MCCourses |-> 0],
                             !.capacity = [c \in MCCourses |-> 1]]
SeatRpcs == { [op |-> "add", student |-> s, course |-> cs101, grade |-> "A"] :
                s \in MCStudents }
SeatSeeds == { [k \in MCStudents \X MCCourses |-> [status |-> "ABSENT", grade |-> NoGrade]] }

\* Fewer inputs for the liveness run: requests that are allowed and
\* requests that the live state denies, on both paths.
LiveSessions == { Caller(p, "instructor", smith, "ok") : p \in {"plan", "subgraph"} }
LiveRpcs ==
  { [op |-> "grade", student |-> s, course |-> cs101, grade |-> "A"] :
      s \in MCStudents }
LiveSeeds == {AliceEnrolled}
=============================================================================
