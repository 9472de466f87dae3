SPECIFICATION Spec
CONSTANTS
  m1 = m1
  g1 = g1
  g2 = g2
  Matches = {m1}
  Goroutines = {g1, g2}
  MaxStarts = 2
  MaxStops = 1
  Faults = {"start", "stop", "stream", "post", "crash"}
  MaxFaults = 1
INVARIANTS TypeOK RunningIsAttended StoppedIsStopped
PROPERTIES ContainersEnd DeathsAreReported
CHECK_DEADLOCK FALSE
