SPECIFICATION Spec
CONSTANTS
  m1 = m1
  alice = alice
  bob = bob
  Match = m1
  Players = {alice, bob}
  MaxLost = 2
  MaxCommands = 1
  MaxJoins = 3
INVARIANTS TypeOK ShownIsCanonical InFlightIsAnswered HoldersHaveClaimed
PROPERTIES OneResult ServerHalts
CHECK_DEADLOCK FALSE
