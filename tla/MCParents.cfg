SPECIFICATION ParentsSpec
CONSTANTS
  r1 = r1  r2 = r2  g1 = g1  g2 = g2  c1 = c1  c2 = c2  p1 = p1  p2 = p2
  Null = Null
  RIds = {r1, r2}
  GIds = {g1}
  Children = {c1, c2}
  Parents = {p1, p2}
  ParentOf <- MCParentOf
  Ranges <- MCOneRange
  PrefChoices <- MCWholeOnly
  Ages = {5}
  AgeLimits = {}
  Capacities = {1, 2}
  RequestableGroups = {}
  StatusEdits = {}
  Weekdays = {"mon"}
  TimeRows = {0, 1, 2}
  Kids = {"k1", "k2"}
  AgesOf <- MCAgesOf
  Classes = {"g1", "g2"}
  ClassOffers <- MCOffers
  ClosedTimes <- MCClosed
  DefaultAge = 5
  Nothing = Nothing
SYMMETRY MCSymmetry
INVARIANTS
  JoinRequestFits
PROPERTIES
  OthersKeepTheirSeats
  NewPicksAreFree
CHECK_DEADLOCK FALSE
