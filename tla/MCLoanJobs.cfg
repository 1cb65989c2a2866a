\* Two jobs of one document, one of each mode, of which the server keeps one that ended; two reloads, broken
\* connections or cancellations.  A policy of two files that is edited once,
\* of which the scan returns one; two of three threads at a time.
CONSTANTS
  None = None
  Docs = 1
  Retained = 1
  Mode <- Modes
  MaxTurns = 2
  LoanNumbers = {"L1", "L2"}
  People = {"A", "B"}
  Folders <- FoldersDef
  Packs <- PacksDef
  Sheets <- SheetsDef
  NoFigure = NoFigure
  Infinity = 1000
  Files = {"policy.pdf", "policy.zip"}
  Scanned = {"policy.pdf"}
  Procs = {"server", "cli"}
  Threads = {"job", "chat", "cli"}
  Of <- OfDef
  MayForce = {"cli"}
  MaxBusy = 2
  MaxEdits = 1
  MaxFaults = 1
SPECIFICATION LoanSpec
INVARIANTS BoxTellsTheTruth CancelStopsTheCalls  SearchCoversPack ReportIsEarned
PROPERTIES RunIsNotLost
\* Every job has ended and no further one may be started.
CHECK_DEADLOCK FALSE
