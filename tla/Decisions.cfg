CHECK_DEADLOCK FALSE
CONSTANTS
  Ids <- MCIds
  Drafts <- MCDrafts
  None = None
  d1 = d1
  d2 = d2
  d3 = d3
  MaxWrites = 3
  MaxResets = 2
  MaxCrashes = 1
SYMMETRY Symmetry
SPECIFICATION Spec
INVARIANTS
  NoMistakenName
  PinsHold
  NoStaleRuling
