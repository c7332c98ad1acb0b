\* A stage of three actions with two failures; the local tasks; the vector index.
SPECIFICATION LivenessSpec
CONSTANTS
  b1 = b1
  b2 = b2
  p1 = p1
  p2 = p2
  r1 = r1
  Batches = {b1}
  Procs = {p1}
  Requests = {}
  Steps = 3
  Slots = 3
  Reader = FALSE
  NoProc = NoProc
  Faults = {"crash", "owner", "disk", "drain", "cancel"}
  MaxFaults = 2
  MaxEdits = 0
  Workers = {w1, w2}
  NoWorker = none
  Keys = {k1, k2}
  MaxTasks = 2
  MaxVersion = 2
  MaxLocalFaults = 1
  v1 = v1
  v2 = v2
  t1 = t1
  t2 = t2
  t3 = t3
  Editions = {v1, v2}
  Pieces = {t1, t2, t3}
  Cut <- MCCut
  Indexers = {i1, i2}
  PerTick = 2
  MaxModel = 2
  MaxTroubles = 1
PROPERTIES ReceiptSettles ExecutingEnds PauseObeyed TaskEnds IndexFollowsModel
\* A stage that waits for its author, and a project that is done, may stop.
CHECK_DEADLOCK FALSE
