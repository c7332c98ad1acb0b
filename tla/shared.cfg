CONSTANTS
  b1 = b1
  b2 = b2
  p1 = p1
  p2 = p2
  r1 = r1
  Batches = {b1, b2}
  Procs = {p1, p2}
  Requests = {}
  Steps = 2
  Slots = 2
  Reader = FALSE
  NoProc = NoProc
  Faults = {"owner"}
  MaxFaults = 1
  MaxEdits = 0
SPECIFICATION SharedSpec
INVARIANTS SentAtMostOnce OneExecuting VersionsAreFollowed
SYMMETRY Symmetry
\* A stage that waits for its author, and a project that is done, may stop.
CHECK_DEADLOCK FALSE
