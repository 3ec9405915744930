\* Three calls of any kind on two threads; one of them may die.
SPECIFICATION Spec
CONSTANTS
  t1 = t1
  t2 = t2
  Threads <- MCThreads
  Inputs <- MCInputs
  LLMLeaks <- MCLeaks
  MaxCalls = 3
  MaxRunning = 2
  MaxFailures = 1
  HistoryTurns = 1
  CorefTurns = 2
SYMMETRY ThreadSymmetry
INVARIANTS
  TypeOK
  NoUnreviewedExecution
  ApprovesWhatWasShownOrNewer
  QuietThreadsDecideOnce
  QuietThreadsKeepHistory
  OldInjectionsAreReviewed
  NothingLeaks
\* All calls are over and the run ends.
CHECK_DEADLOCK FALSE
