\* Two documents, two workers at home, one elsewhere; one failure, one redelivery.
CONSTANTS
  NoDoc = NoDoc
  Docs = {d1, d2}
  Home = {w1, w2}
  Remote = {r1}
  Slots = 1
  Limit = 1
  MaxCost = 1
  MaxFailures = 1
  MaxRedelivered = 1
SPECIFICATION Spec
INVARIANTS LedgerIsTheBatch NothingLost PoolAccounts
PROPERTY BatchCloses
\* A batch is closed and its workers wait for the next one.
CHECK_DEADLOCK FALSE
