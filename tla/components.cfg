\* Each behaviour runs one of the four components.
SPECIFICATION ComponentsSpec
CONSTANTS
  Subjects = {"cache", "degradation", "chat", "advising"}
  Keys = {k1, k2}
  Callers = {w1, w2}
  Courses = {m1, m2}
  TTL = 1
  Tools = {"enroll", "drop"}
  MaxRetries = 1
  MaxCalls = 2
  Tokens = {a, b}
  Rpm = 2
  Window = 2
  MaxMessages = 2
  ChatTime = 2
  Requests <- AdvisingRequests
  MaxTime = 2
SYMMETRY Symmetry
INVARIANTS
  ComponentsTypeOK
  StaleOnlyFromRacingFill
  EscalationTellsWhatHappened
  LoadingTellsTheTruth
  ConversationReadsInOrder
  OptionsAreTimetables
  OffersEveryTimetable
  GapsAreWhatIsMissing
PROPERTIES
  SlidingWindow
\* A component that is done stops.
CHECK_DEADLOCK FALSE
