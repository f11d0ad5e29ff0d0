SPECIFICATION Spec
CONSTANTS
  p1 = p1
  p2 = p2
  c1 = c1
  c2 = c2
  All = All
  Panelists <- MCPanelists
  Members = {p1}
  Calls <- MCCalls
  Cooldown = 1
  Window = 3
  Cap = 2
  MaxInvite = 1
  Sizes = {1}
  Past <- MCPast
  FirstDay = 1
  MaxDay = 2
  MaxDists = 3
SYMMETRY Symmetry
INVARIANTS ContactRulesKept NobodyLeftOut
CHECK_DEADLOCK FALSE
