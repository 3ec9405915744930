\* The plans of plan.cfg, some of them with action steps.
SPECIFICATION FairSpec
CONSTANTS
  Steps <- MCSteps
  Plans <- MCPlans
  StepLimit = 4
INVARIANT FailuresReported
CHECK_DEADLOCK FALSE
