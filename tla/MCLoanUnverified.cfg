\* The folders of MCLoanJobs.cfg.
\* A property the code breaks (see README.md).
CONSTANTS
  None = None
  Docs = 1
  Retained = 1
  Mode <- Modes
  MaxTurns = 2
  LoanNumbers = {"L1", "L2"}
  People = {"A", "B"}
  Folders <- FoldersDef
  Packs <- PacksDef
  Sheets <- SheetsDef
  NoFigure = NoFigure
  Infinity = 1000
  Files = {"policy.pdf", "policy.zip"}
  Scanned = {"policy.pdf"}
  Procs = {"server", "cli"}
  Threads = {"job", "chat", "cli"}
  Of <- OfDef
  MayForce = {"cli"}
  MaxBusy = 2
  MaxEdits = 1
  MaxFaults = 1
SPECIFICATION LoanSpec
INVARIANT UnverifiedIsNeverMet
\* Every job has ended and no further one may be started.
CHECK_DEADLOCK FALSE
