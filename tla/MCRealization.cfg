SPECIFICATION Spec
INVARIANTS
  HierarchyExact
  InstancesExact
  SameAsExact
  RoleAnswersExact
CHECK_DEADLOCK FALSE
