\* Two requests of agents and two clicks of operators or reviewers.
CONSTANTS
  teller = teller
  sb = sb
  ca = ca
  nb = nb
  ALL = ALL
  NoReq = NoReq
  Outside = Outside
  Agents = {teller}
  Requests = {r1, r2}
  Clicks = {c1, c2}
  Accounts = {sb, ca, nb}
  Savings = {sb}
  Seeded = {sb, ca}
  Opening <- OpeningDef
  Yield = 2
  PACK = PACK
  PackPermits <- PackPermitsDef
  Permits <- PermitsDef
  AlwaysGate <- AlwaysGateDef
  PromoteAfter <- PromoteDef
  Ops <- OpsDef
SPECIFICATION Spec
SYMMETRY Alike
INVARIANTS OnlyGovernedCallsReachTheCore ChainBreaksByOverlap FilesFollowReceipts NoOverdraft BooksBalance
\* The calls end.
CHECK_DEADLOCK FALSE
