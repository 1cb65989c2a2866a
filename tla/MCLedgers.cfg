\* Three objects (the pipeline's and two requests') on one file, five hashed entries; one run to its end,
\* another beside it, a request, a seal that fails, a retrieval.
CONSTANTS
  Instances = {p, u1, u2}
  MaxHashed = 5
  NoRun = NoRun
  a = a
  b = b
  Runs <- BothRuns
  Requests = {q1}
  MaxNodes = 1
  MaxAnswers = 2
  MaxRetrievals = 1
  MaxFailed <- OneFails
  MaxEntries <- Bounds
SYMMETRY ObjectSymmetry
SPECIFICATION LedgersSpec
INVARIANTS VerifyTellsTheTruth RunChainHolds DecidersSealedFirst
\* Runs end, users need not answer, and the bounds stop the retrievals.
CHECK_DEADLOCK FALSE
