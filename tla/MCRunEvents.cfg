\* The pipeline and a request emit, two dashboards come and go.
CONSTANTS
  Emitters = {p, r1}
  Binder = p
  Clients = {d1, d2}
  MaxMemory = 2
  MaxEvents = 3
  MaxAttaches = 2
SPECIFICATION FairSpec
INVARIANTS ExactlyOnce CrashLosesOnlyInFlight
PROPERTIES ImplementsLog
\* The events run out.
CHECK_DEADLOCK FALSE
