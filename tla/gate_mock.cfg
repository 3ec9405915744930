\* An error answer of the service turned into success.
SPECIFICATION Spec
CONSTANTS
  r1 = r1
  r2 = r2
  alice = alice
  bob = bob
  smith = smith
  cs101 = cs101
  cs401 = cs401
  NoCourse = NoCourse
  NoGrade = NoGrade
  Nobody = Nobody
  Requests <- MCRequests
  Students <- MCStudents
  Courses <- MCCourses
  KnownStudents <- MCStudents
  Staff <- MCStaff
  Grades <- MCGrades
  Rpcs <- MCRpcs
  SeedTables <- MCSeeds
  Sessions <- MCSessions
  World <- MCWorld
  MaxCrashes = 0
PROPERTY MockOnlyWhenUnavailable
CHECK_DEADLOCK FALSE
