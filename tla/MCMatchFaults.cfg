SPECIFICATION Spec
CONSTANTS
  m1 = m1
  alice = alice
  bob = bob
  carol = carol
  None = None
  Matches = {m1}
  Players = {alice, bob}
  PlayersOf <- OneDuel
  Faults = {"d1", "kv", "storage", "agent", "hub", "queue", "reset", "late"}
  MaxFaults = 2
SYMMETRY DuelSymmetry
INVARIANTS TypeOK OneWinner EachMatchCountedOnce
CHECK_DEADLOCK FALSE
