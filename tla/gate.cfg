\* Two requests of every kind of caller, one crash of the agent process.
SPECIFICATION Spec
CONSTANTS
  r1 = r1
  r2 = r2
  alice = alice
  bob = bob
  smith = smith
  cs101 = cs101
  cs401 = cs401
  NoCourse = NoCourse
  NoGrade = NoGrade
  Nobody = Nobody
  Requests <- MCRequests
  Students <- MCStudents
  Courses <- MCCourses
  KnownStudents <- MCStudents
  Staff <- MCStaff
  Grades <- MCGrades
  Rpcs <- MCRpcs
  SeedTables <- MCSeeds
  Sessions <- MCSessions
  World <- MCWorld
  MaxCrashes = 1
INVARIANTS
  TypeOK
  NoBypass
  OneFinalAuditRecord
  CommitNeverLoggedAsFailure
  OverlapNeedsAbandonedCall
  GradesSurviveWithoutGiveUp
PROPERTIES
  RowsChangeOnlyByRight
\* Every request is over and the run ends.
CHECK_DEADLOCK FALSE
