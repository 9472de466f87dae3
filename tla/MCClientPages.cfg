SPECIFICATION Spec
CONSTANTS
  None = None
  Matches = {1, 2}
  MaxFails = 1
  MaxForfeits = 1
INVARIANTS TypeOK ShownIsTrue ForfeitIsPending SignedOutIsEmpty QueueShowsWinner
PROPERTIES WinnerIsShown
CHECK_DEADLOCK FALSE
