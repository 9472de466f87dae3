\* Nothing fails and nobody interferes: a claim wins the match.
SPECIFICATION Spec
CONSTANTS
  m1 = m1
  alice = alice
  bob = bob
  Match = m1
  Players = {alice, bob}
  MaxLost = 0
  MaxCommands = 0
  MaxJoins = 2
PROPERTY WinnerIsShown
CHECK_DEADLOCK FALSE
