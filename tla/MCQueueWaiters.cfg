SPECIFICATION Spec
CONSTANTS
  low = low
  mid = mid
  high = high
  alice = alice
  bob = bob
  Brackets = {low, mid, high}
  Players = {alice, bob}
  JoinsIn <- MovingRatings
  Neighbors <- InARow
  MaxJoins = 3
  Faults = {"form", "call", "reset"}
  MaxFaults = 2
INVARIANTS TypeOK EntryInOnePlace MatchOfTwo WaitersHaveAnAlarm
PROPERTIES WaitersAreRemembered PairsAreFormed BracketUnblocks
CHECK_DEADLOCK FALSE
