SPECIFICATION AloneSpec
CONSTANTS
  r1 = r1  r2 = r2  g1 = g1  g2 = g2  c1 = c1  c2 = c2  p1 = p1  p2 = p2
  Null = Null
  RIds = {r1, r2}
  GIds = {g1, g2}
  Children = {c1, c2}
  Parents = {p1, p2}
  ParentOf <- MCParentOf
  Ranges <- MCThreeRanges
  PrefChoices <- MCWholeOnly
  Ages = {5}
  AgeLimits = {}
  Capacities = {2}
  RequestableGroups = {g1, g2}
  StatusEdits = {"CANCELLED"}
SYMMETRY MCSymmetry
INVARIANTS
  ConfirmedHasMembers
  NamedGroupsExist
  GroupedIffSeated
  SlotsWithinPreferences
PROPERTIES
  ApplicationsLeaveWithAccount
  RemovalKeepsTimetable
CHECK_DEADLOCK FALSE
