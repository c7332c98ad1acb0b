CONSTANTS
  b1 = b1
  b2 = b2
  p1 = p1
  p2 = p2
  r1 = r1
  Batches = {b1}
  Procs = {p1}
  Requests = {r1}
  Steps = 2
  Slots = 3
  Reader = FALSE
  NoProc = NoProc
  Faults = {"crash", "db"}
  MaxFaults = 1
  MaxEdits = 0
SPECIFICATION Spec
INVARIANT NeverRecompiled
\* A stage that waits for its author, and a project that is done, may stop.
CHECK_DEADLOCK FALSE
