CHECK_DEADLOCK FALSE
CONSTANTS
  Ids <- MCIds
  Drafts <- MCDrafts
  None = None
  d1 = d1
  d2 = d2
  d3 = d3
  MaxWrites = 4
  MaxResets = 0
  MaxCrashes = 0
SYMMETRY Symmetry
SPECIFICATION Spec
INVARIANTS
  RatifiedAsRead
