SPECIFICATION Spec
CONSTANTS
  m1 = m1
  alice = alice
  bob = bob
  carol = carol
  None = None
  Matches = {m1}
  Players = {alice, bob, carol}
  PlayersOf <- OneDuel
  Faults = {"kv", "hub"}
  MaxFaults = 2
INVARIANTS ToldIsRecorded DecidedIsKept
PROPERTIES ImplementsArbiter DecidedIsStopped
CHECK_DEADLOCK FALSE
