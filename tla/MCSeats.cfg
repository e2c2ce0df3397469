SPECIFICATION Spec
CONSTANTS
  r1 = r1  r2 = r2  g1 = g1  g2 = g2  c1 = c1  p1 = p1
  Null = Null
  RIds = {r1, r2}
  GIds = {g1, g2}
  Children = {}
  Parents = {p1}
  ParentOf <- MCNoParents
  Ranges <- MCOneRange
  PrefChoices <- MCWholeOnly
  Ages = {4, 6}
  AgeLimits = {5}
  Capacities = {1, 2}
  RequestableGroups = {}
  StatusEdits = {"WAITING", "CANCELLED"}
SYMMETRY MCSymmetry
INVARIANTS
  CapacityRespected
  EmptyIsVacant
PROPERTIES
  AgeLimitsKept
CHECK_DEADLOCK FALSE
