SPECIFICATION GridSpec
CONSTANTS
  r1 = r1  r2 = r2  g1 = g1  g2 = g2
  Weekdays = {"MON"}
  GridRows = {0, 1, 2}
  Planned <- MCPlanned
  MaxTicks = 2
  Null = Null
  RIds = {r1, r2}
  GIds = {g1, g2}
  Children = {}
  Parents = {"p"}
  ParentOf <- MCNoParents
  Ranges <- MCRanges
  PrefChoices <- MCPrefChoices
  Ages = {4}
  AgeLimits = {4, 5, 6, 7, 8, 9, 10}
  Capacities = {1, 2}
  BlankCapacities = {1}
  RequestableGroups = {}
  StatusEdits = {"WAITING"}
CONSTRAINT IdLeft
SYMMETRY MCSymmetry
INVARIANTS
  ConfirmIsAccepted
CHECK_DEADLOCK FALSE
