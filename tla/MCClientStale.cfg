SPECIFICATION Spec
CONSTANTS
  None = None
  Matches = {1, 2}
  MaxFails = 0
  MaxForfeits = 0
INVARIANTS PageShowsWinner
CHECK_DEADLOCK FALSE
