\* Two requests that share the event loop, under fairness of the loop.
SPECIFICATION FairSpec
CONSTANTS
  r1 = r1
  r2 = r2
  alice = alice
  bob = bob
  smith = smith
  cs101 = cs101
  cs401 = cs401
  NoCourse = NoCourse
  NoGrade = NoGrade
  Nobody = Nobody
  Requests <- MCRequests
  Students <- MCStudents
  Courses <- MCCourses
  KnownStudents <- MCStudents
  Staff <- MCStaff
  Grades <- MCGrades
  Rpcs <- LiveRpcs
  SeedTables <- LiveSeeds
  Sessions <- LiveSessions
  World <- MCWorld
  MaxCrashes = 1
PROPERTY EventuallyAudited
CHECK_DEADLOCK FALSE
