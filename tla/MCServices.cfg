SPECIFICATION SuiteSpec
CONSTANTS
  Domain = {1, 2}
  Values = {"v", "w"}
  Axioms = {1, 2, 3, 4}
  Families <- MCFamilies
INVARIANTS
  JustificationsExact
  EntailmentExact
  QueriesExact
  DatalogCertain
PROPERTIES
  IncrementalCurrent
CHECK_DEADLOCK FALSE
