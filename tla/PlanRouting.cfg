CONSTANTS
  Tasks = {1, 2, 3}
  PhaseOf <- MCPhaseOf
  MaxReplans = 1
  MaxStrays = 1
  MaxFlips = 1
  MaxRejects = 1
  MaxUpsets = 3
SPECIFICATION Spec
INVARIANTS  StateAgrees
PROPERTIES AdviceArrives
CHECK_DEADLOCK FALSE
