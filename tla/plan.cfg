\* All interleavings of the nodes of each plan; the chain exceeds the limit.
SPECIFICATION FairSpec
CONSTANTS
  Steps <- MCSteps
  Plans <- MCPlans
  StepLimit = 4
INVARIANTS
  TypeOK
  RunsOnceInItsLayer
  FinishedIsComplete
  InputsDecidedByLayers
  RefusedExactlyWhenBroken
PROPERTIES
  ImplementsPlanDag
  EveryPlanEnds
\* The run of a plan ends.
CHECK_DEADLOCK FALSE
