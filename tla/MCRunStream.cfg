\* Two dashboards, which drop and reload, and a restart.
CONSTANTS
  Dashboards = {d1, d2}
  MaxLog = 4
  MaxDrops = 2
SPECIFICATION FairStreams
INVARIANTS NoEndBeforeTheResult
PROPERTIES EveryStreamEnds
\* Every stream ends.
CHECK_DEADLOCK FALSE
