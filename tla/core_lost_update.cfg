\* A grade and a drop that overlap.
SPECIFICATION HistorySpec
CONSTANTS
  c1 = c1
  c2 = c2
  c3 = c3
  alice = alice
  ghost = ghost
  cs101 = cs101
  NoCourse = NoCourse
  NoGrade = NoGrade
  Calls <- MCCalls
  Students <- MCStudents
  Courses <- MCCourses
  KnownStudents <- MCKnown
  Grades <- MCGrades
  Rpcs <- MCRpcs
  SeedTables <- MCSeeds
INVARIANT GradeUpdatePersists
CHECK_DEADLOCK FALSE
