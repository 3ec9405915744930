--------------------------- MODULE MCCoreService ---------------------------
(***************************************************************************)
(* Three overlapping calls against one course: one student of the students *)
(* table, one id it does not know, every operation, two letter grades, and *)
(* a row that is absent, enrolled, dropped or completed with a grade; one  *)
(* assignment comes without a course.                                      *)
(***************************************************************************)
EXTENDS CoreHistory

CONSTANTS c1, c2, c3, alice, ghost, cs101

MCCalls == {c1, c2, c3}
MCStudents == {alice, ghost}
MCCourses == {cs101, NoCourse}
MCKnown == {alice}
MCGrades == {"A", "B"}

\* The grade field matters to "grade" calls only.
MCRpcs ==
  { [op |-> o, student |-> alice, course |-> cs101, grade |-> "A"] : o \in Ops }
    \cup { [op |-> "grade", student |-> alice, course |-> cs101, grade |-> "B"],
           [op |-> "add", student |-> ghost, course |-> cs101, grade |-> "A"],
           [op |-> "assign", student |-> alice, course |-> NoCourse, grade |-> "A"] }

MCSeeds ==
  { [k \in MCStudents \X MCCourses |-> IF k = <<alice, cs101>> THEN r ELSE
        [status |-> "ABSENT", grade |-> NoGrade]] :
      r \in { [status |-> "ABSENT", grade |-> NoGrade],
              [status |-> "ENROLLED", grade |-> NoGrade],
              [status |-> "DROPPED", grade |-> NoGrade],
              [status |-> "COMPLETED", grade |-> "A"] } }
=============================================================================
