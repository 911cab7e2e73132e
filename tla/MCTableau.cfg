SPECIFICATION SuiteSpec
CONSTANTS
  MaxLevel = 1
  MaxTrail = 3
  MaxUsage = 3
  NodeCount = 3
  ValueCount = 3
  Lists <- ThreeLists
INVARIANTS
  NodesSafe
  BacktrackRestores
  HeldSetsInterned
  NoStaleBranchingPoint
  BlockingFaithful
  OccurrencesExact
  AnswerExact
  DatatypeCheckExact
PROPERTY
  MatchedStay
CHECK_DEADLOCK FALSE
