\* One request, two tabs of its instructor, at most three queues.
SPECIFICATION FairSpec
CONSTANTS
  r1 = r1
  tabA = tabA
  tabB = tabB
  prof = prof
  alice = alice
  Requests <- MCRequests
  Users <- MCUsers
  Tabs <- MCTabs
  UserOf <- MCUserOf
  StudentOf <- MCStudentOf
  InstructorOf <- MCInstructorOf
  MaxQueues = 3
  MaxRestarts = 1
INVARIANTS
  TypeOK
  ReviewersSeeTheTruth
  SharedQueueLosesNoRequest
  SteadyTabMirrorsStore
PROPERTIES
  SteadyTabCatchesUp
CHECK_DEADLOCK FALSE
