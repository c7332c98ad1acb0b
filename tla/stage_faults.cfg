CONSTANTS
  b1 = b1
  b2 = b2
  p1 = p1
  p2 = p2
  r1 = r1
  Batches = {b1}
  Procs = {p1}
  Requests = {}
  Steps = 4
  Slots = 5
  Reader = TRUE
  NoProc = NoProc
  Faults = {"crash", "owner", "disk", "drain", "cancel"}
  MaxFaults = 1
  MaxEdits = 1
SPECIFICATION Spec
INVARIANTS TypeOK NoSilentResend ActiveStageHasTask ExecutingIsAttended CompletedIsRemembered StepsAreSound
PROPERTY PauseNotLost
\* A stage that waits for its author, and a project that is done, may stop.
CHECK_DEADLOCK FALSE
