\* Two adds to a course with one seat left.
SPECIFICATION Spec
CONSTANTS
  r1 = r1
  r2 = r2
  alice = alice
  bob = bob
  smith = smith
  cs101 = cs101
  cs401 = cs401
  NoCourse = NoCourse
  NoGrade = NoGrade
  Nobody = Nobody
  Requests <- MCRequests
  Students <- MCStudents
  Courses <- MCCourses
  KnownStudents <- MCStudents
  Staff <- MCStaff
  Grades <- MCGrades
  Rpcs <- SeatRpcs
  SeedTables <- SeatSeeds
  Sessions <- MCSessions
  World <- SeatWorld
  MaxCrashes = 0
INVARIANT CapacityRespected
CHECK_DEADLOCK FALSE
