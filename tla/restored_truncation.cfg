SPECIFICATION FormalSpec
CONSTANTS
  MaxChapters = 2
  MaxNumber = 4
  KeepLatest = 2
  Works = {b1, b2, s}
  Legacy = {s}
  RestoredBook = TRUE
  RemovesAdopted = FALSE
INVARIANT EvidenceMatches
\* A book may be left alone for ever.
CHECK_DEADLOCK FALSE
