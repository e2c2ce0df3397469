SPECIFICATION MCDeskSpec
CONSTANTS
  Calls = {1,2}
  MaxClicks = 2
  ServerStart <- MCServerStart
  RIds = {"r1","r2"}
  GIds = {"g1","g2"}
  Children = {}
  Parents = {"p"}
  ParentOf <- MCNoParents
  Null = Null
  Ranges <- MCRanges
  PrefChoices <- MCPrefChoices
  Ages = {4}
  AgeLimits = {}
  Capacities = {2, 3}
  RequestableGroups = {}
  StatusEdits = {"WAITING"}
  DialogStart <- MCDialogStart
PROPERTIES
  DraftsReachTheirGroup
CHECK_DEADLOCK FALSE
