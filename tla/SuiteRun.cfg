\* A suite of three flows, at most one retry, every policy.
CONSTANTS
  N = 3
  MaxRetries = 1
SPECIFICATION FairSpec
INVARIANTS
  PrerequisitesPassed
  SeesItsValues
  PassLeavesNoGap
PROPERTIES
  SuiteEnds
