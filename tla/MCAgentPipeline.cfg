SPECIFICATION PipelineSpec
CONSTANTS
  MaxAgents = 10
  HasCodebase = FALSE
  Outputs <- TwoOutputs
  Mine = Mine
  None = None
  Windows = {w1, w2}
  MaxLag = 2
  MaxActs = 2
  Runs = {run1, run2, alone}
  alone = alone
  port = port
  other = other
  PortOf <- PortOfDef
INVARIANTS EditReachesTheState EveryGateWasGranted WindowShowsTheRun LinksLeadHome
SYMMETRY Alike
\* A run ends.
CHECK_DEADLOCK FALSE
