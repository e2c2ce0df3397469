SPECIFICATION Spec
CONSTANTS
  r1 = r1  r2 = r2  g1 = g1  g2 = g2  c1 = c1  p1 = p1
  Null = Null
  RIds = {r1, r2}
  GIds = {g1, g2}
  Children = {}
  Parents = {p1}
  ParentOf <- MCNoParents
  Ranges <- MCThreeRanges
  PrefChoices <- MCWholeOrLate
  Ages = {5}
  AgeLimits = {}
  Capacities = {2}
  RequestableGroups = {}
  StatusEdits = {"WAITING", "GROUPED"}
SYMMETRY MCSymmetry
INVARIANTS
  TypeOK
  SlotOwnerIsMember
  ScheduledSlotsMatch
  ScheduledGroupsDisjoint
  MemberSlotsContiguous
PROPERTIES
  VacancyKeepsTimetable
CHECK_DEADLOCK FALSE
