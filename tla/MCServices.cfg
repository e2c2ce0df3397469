SPECIFICATION ServicesSpec
CONSTANTS
  a1 = a1  a2 = a2  a3 = a3  u1 = u1  u2 = u2  e1 = e1  s1 = s1
  d1 = d1  m1 = m1  k1 = k1  k2 = k2  x1 = x1  x2 = x2
  Accounts = {a1, a2, a3}
  Usernames = {u1, u2}
  Requests = {x1, x2}
  First = a1
  Unused = Unused  Deleted = Deleted  None = None
  Emails = {e1}
  NoEmail = NoEmail
  Socials = {s1}
  Visits = {x1, x2}
  Gone = Gone  Nobody = Nobody
  MaxParents = 2  MaxLinks = 2  MaxCodes = 1
  Editors = {x1, x2}
  Dates = {d1}
  Months = {m1}
  Holiday = Holiday  Blank = Blank
  MaxSchedules = 1
  Jobs = {x1, x2}
  Families = {x1, x2}
  ChildIds = {k1, k2}
  NoOne = NoOne
  MaxMoves = 3
SYMMETRY ServicesSymmetry
INVARIANTS
  ServicesTypeOK
  LastAdminGoesOnlyByRace
  WelcomedCanComeBack
  UsedMeansSpent
  CleanMeansStored
  PublishedWasComplete
  OneAtATimeNoGap
  ChildrenSettleTrue
PROPERTIES
  AccountsKeepTheirParent
CHECK_DEADLOCK FALSE
