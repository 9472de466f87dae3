SPECIFICATION Spec
CONSTANTS
  m1 = m1
  m2 = m2
  alice = alice
  bob = bob
  t1 = t1
  t2 = t2
  None = None
  Matches = {m1, m2}
  Players = {alice, bob}
  Threads = {t1, t2}
  MaxRegs = 2
  MaxLogins = 2
INVARIANTS TypeOK OccupiedIsListed NoneIsForgotten
PROPERTIES TableIsCleaned ReadyPlayersMove
CHECK_DEADLOCK FALSE
