SPECIFICATION Spec
CONSTANTS
  m1 = m1
  alice = alice
  bob = bob
  carol = carol
  None = None
  Matches = {m1}
  Players = {alice, bob}
  PlayersOf <- OneDuel
  Faults = {"d1", "kv", "agent", "hub"}
  MaxFaults = 3
SYMMETRY DuelSymmetry
INVARIANT OneWinnerTold
CHECK_DEADLOCK FALSE
