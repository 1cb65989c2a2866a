\* One run, and one object on a file beside it.
CONSTANTS
  Instances = {p}
  MaxHashed = 1
  NoRun = NoRun
  a = a
  b = b
  Runs <- OneRun
  Requests = {q1}
  MaxNodes = 1
  MaxAnswers = 2
  MaxRetrievals = 1
  MaxFailed <- NoneFails
  MaxEntries <- Bounds
SYMMETRY ObjectSymmetry
SPECIFICATION LedgersSpec
INVARIANTS ChainVerifies
\* Runs end, users need not answer, and the bounds stop the retrievals.
CHECK_DEADLOCK FALSE
