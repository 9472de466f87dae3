\* A /match/stop fails once; the hard timeout is due to end the container.
SPECIFICATION Spec
CONSTANTS
  m1 = m1
  g1 = g1
  g2 = g2
  Matches = {m1}
  Goroutines = {g1, g2}
  MaxStarts = 1
  MaxStops = 1
  Faults = {"stop"}
  MaxFaults = 1
PROPERTY HardTimeout
CHECK_DEADLOCK FALSE
