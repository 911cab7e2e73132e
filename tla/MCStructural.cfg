SPECIFICATION Spec
CONSTANTS
  Domain = {1, 2}
  Values = {1, 2}
INVARIANTS
  NormalizationFaithful
  RoleBoxFaithful
  ClausificationFaithful
