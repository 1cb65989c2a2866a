---------------------------- MODULE MCCbsGateway ----------------------------
(* CbsGateway for TLC: an agent that may pay and run the end of day, accounts. *)
EXTENDS CbsGateway, TLC

CONSTANTS teller, sb, ca, nb

PermitsDef == {<<teller, "cbs:payment">>, <<teller, "cbs:batch">>}
PackPermitsDef == {<<teller, "cbs:payment">>, <<teller, "cbs:master_write">>}
AlwaysGateDef == {<<teller, "cbs:batch">>}
OpeningDef == [a \in Accounts |-> IF a = sb THEN 2 ELSE 0]
PromoteDef == [level \in {2, 3} |-> level - 1]
OpsDef == {
  [action |-> "cbs:payment", kind |-> "transfer", dr |-> sb, cr |-> ca, amount |-> 2],
  [action |-> "cbs:payment", kind |-> "other", dr |-> sb, cr |-> Outside, amount |-> 1],
  [action |-> "cbs:batch", kind |-> "eod", dr |-> Outside, cr |-> Outside, amount |-> 0],
  [action |-> "cbs:master_write", kind |-> "open", dr |-> Outside, cr |-> nb, amount |-> -1],
  [action |-> "cbs:master_write", kind |-> "open", dr |-> Outside, cr |-> nb, amount |-> 1]}
Alike == Permutations(Requests) \cup Permutations(Clicks)
=============================================================================
