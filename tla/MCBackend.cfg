\* Two requests at a time and three in all, two keys, one revocation; two handlers and one run within three
\* ticks and three lines; two operators, three saves of two types.
CONSTANTS
  Requests = {q1, q2}
  Issuable = {k1, k2}
  Shipped <- ShippedDef
  Environments <- EnvironmentsDef
  DotEnvs <- DotEnvsDef
  MaxRevoked = 1
  MaxRequests = 3
  MaxFaults = 1
  Handlers = {h1, h2}
  Runs = {r1}
  NoRun = NoRun
  Collapse = 2
  DayLength = 2
  Returned = 2
  MaxClock = 2
  MaxLines = 3
  MaxFailures = 1
  Types = {"home", "salary"}
  Texts = {"x", "y"}
  Short = "short"
  Reset = "reset"
  NoText = NoText
  Operators = {"o1", "o2"}
  Nobody = "nobody"
  MaxSaves = 3
  MaxFailedSaves = 1
SPECIFICATION SharedSpec
INVARIANTS AnsweredIsStored ActivityIsTold PromptsAreAsAsked
PROPERTY OnlyTheEntitled
SYMMETRY Alike
\* Every count has a bound, and the clock stops.
CHECK_DEADLOCK FALSE
