SPECIFICATION Spec
CONSTANTS
  None = None
  Tabs = {t1, t2}
  Accounts = {alice, bob, carol}
  Owners = {alice, bob}
  MaxSignIns = 3
  MaxFails = 2
INVARIANTS TypeOK StatusIsTrue MismatchHasACause
CHECK_DEADLOCK FALSE
