------------------------------ MODULE MCLedgers ------------------------------
(* The decision ledgers, for TLC: the objects that share one file              *)
(* (DecisionLedger), and the files of two runs, of which one goes to its end   *)
(* and the other starts beside it (RunLedger); one of the two at a time.       *)
EXTENDS DecisionLedger, RunLedger, TLC

CONSTANTS a, b

OneRun == {a}
BothRuns == {a, b}
Bounds == [r \in Runs |-> IF r = a THEN 15 ELSE 2]
OneFails == [r \in Runs |-> IF r = a THEN 1 ELSE 0]
NoneFails == [r \in Runs |-> 0]

ObjectSymmetry == Permutations(Instances)

LedgersInit == Init /\ RunInit
LedgersNext == \/ RunInit /\ Next /\ UNCHANGED runVars
               \/ Init /\ RunNext /\ UNCHANGED vars
LedgersSpec == LedgersInit /\ [][LedgersNext]_<<vars, runVars>>
=============================================================================
