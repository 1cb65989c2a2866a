----------------------------- MODULE MCLoanJobs -----------------------------
(* A job's thread for TLC: LoanJobs, with a parse-first job and then one that *)
(* gives every document to the model; or what such a job finds in its         *)
(* documents (LoanExtractors), in the bank's policy (PolicyRules) and in its  *)
(* index (PolicyIndex).                                                       *)
EXTENDS LoanJobs, LoanExtractors, PolicyRules, PolicyIndex

Modes == <<"deterministic", "ai_first">>

\* A job and a chat in the server, and the command line.
OfDef == [t \in {"job", "chat", "cli"} |-> IF t = "cli" THEN "cli" ELSE "server"]

\* Policies: lines that leave a gap, meet at a bound, a narrower one begins at the bound of a
\* wider, overlap, and carry a condition.
Rule(low, high, ceiling, conditional) ==
  [low |-> low, high |-> high, ceiling |-> ceiling, conditional |-> conditional]
Tables == {<<>>,
           <<Rule(0, 3, 50, FALSE), Rule(3, 6, 60, FALSE), Rule(6, 0, 70, FALSE)>>,
           <<Rule(5, 0, 75, TRUE), Rule(0, 5, 50, FALSE), Rule(4, 0, 60, FALSE)>>,
           <<Rule(0, 3, 50, FALSE), Rule(4, 8, 60, TRUE)>>,
           <<Rule(0, 5, 50, FALSE), Rule(5, 7, 75, FALSE), Rule(7, 0, 60, FALSE)>>}
File(source, foir, ltv, minimum) == [source |-> source, foir |-> foir, ltv |-> ltv, minimum |-> minimum]
PacksDef ==
  {[authored |-> <<>>, prose |-> <<File("credit", f, l, m)>>] : f \in Tables, l \in Tables, m \in {0, 7}}
  \cup {[authored |-> a, prose |-> <<File("salary", f, <<>>, 0), File("home", g, l, 7)>>] :
           a \in {<<>>, <<File("rules.json", <<Rule(0, 0, 40, FALSE)>>, <<>>, 6)>>},
           f \in Tables, g \in Tables, l \in Tables}
Has(file, pay, emi, principal, value, score) ==
  [file |-> file, net |-> pay, emi |-> emi, principal |-> principal, value |-> value, score |-> score]
Figures ==
  [file : {"1"}, net : -1..8, emi : {-2, 0, 4}, principal : {NoFigure, 3, 5, 7}, value : {NoFigure, 8},
   score : {NoFigure, 7}]
Figured ==
  {Has("1", 4, NoFigure, NoFigure, NoFigure, NoFigure), Has("1", NoFigure, 2, 5, NoFigure, 7),
   Has("1", 0, 4, 3, 8, NoFigure), Has("1", 8, 4, NoFigure, 8, 6),
   Has("1", NoFigure, NoFigure, NoFigure, NoFigure, NoFigure)}
\* One paper, or two of one applicant or of two, each in its file or in files of one name.
SheetsDef ==
  {[documents |-> <<f>>, groups |-> <<<<1>>>>] : f \in Figures}
  \cup {[documents |-> <<f, [g EXCEPT !.file = file]>>, groups |-> groups] :
          f \in Figured, g \in Figured, file \in {"1", "2"}, groups \in {<<<<1, 2>>>>, <<<<2>>, <<1>>>>}}

\* Documents with every figure right, missing or wrong.
Statements ==
  [type : {"loan_statement"}, loan : {"L1"}, name : {"A"}, opening : {None, 3},
   rows : {<<>>} \cup [1..2 -> [debit : 0..1, credit : 0..1, balance : 2..4]],
   totals : {None} \cup [debits : 0..1, credits : {1}, closing : {3}]]
Schedules ==
  [type : {"emi_schedule"}, loan : {"L1"}, name : {"A"}, emi : {5}, opening : {None, 4}, rate : {None, 1},
   rows : [1..2 -> [emi : {5}, interest : 3..4, principal : 1..2, balance : {1, 3}]],
   totals : {None, [interest |-> 7, principal |-> 3, closing |-> 1]}]
Exports ==
  [type : {"csv_statement"}, loan : {None}, name : {None},
   rows : [1..3 -> [debit : 0..1, credit : 0..1, balance : {None, 1, 2}]]]
Slips ==
  [type : {"salary_slip"}, loan : {None}, name : {"A"}, gross : {None, 4}, parts : 3..4, withheld : {1},
   deductions : {None, 1, 2}, net : {None, 2, 3}]

\* Folders of one document, or of two to four of several applicants.
Letter(loan, name, emi) ==
  [type |-> "sanction_letter", loan |-> loan, name |-> name, emi |-> emi, amortised |-> 2]
Slip(name, pay) ==
  [type |-> "salary_slip", loan |-> None, name |-> name, gross |-> pay + 1, parts |-> pay + 1,
   withheld |-> 1, deductions |-> 1, net |-> pay]
Table(type, loan, name, totals) ==
  [type |-> type, loan |-> loan, name |-> name, emi |-> 2, opening |-> 2, rate |-> None, totals |-> totals,
   rows |-> <<[debit |-> 0, credit |-> 1, balance |-> 1, emi |-> 2, interest |-> 1, principal |-> 1]>>]
Papers ==
  {Letter("L1", "A", 2), Letter("L2", "B", 2), Letter("L1", "B", None), Letter(None, "A", 3),
   Slip("A", 4), Slip("B", 3), Slip("B", -3), Slip(None, 4),
   Table("emi_schedule", "L1", "A", None), Table("loan_statement", None, "A", None),
   Table("loan_statement", "L2", "A", [debits |-> 0, credits |-> 1, closing |-> 1]),
   Table("cheque", None, None, None)}
\* An account of two borrowers, their slips, and papers without its number.
CoBorrowers ==
  {Letter("L1", "A", 2), Letter("L1", "B", None), Letter(None, "A", 3), Slip("A", 4), Slip("B", 3),
   Table("emi_schedule", "L1", "A", None)}
FoldersDef ==
  {<<d>> : d \in Statements \cup Schedules \cup Exports \cup Slips}
  \cup [1..2 -> Papers] \cup [1..3 -> Papers] \cup [1..4 -> CoBorrowers]

\* One of the four.
LoanNext == \/ Init /\ IndexInit /\ PolicyInit /\ Establish /\ UNCHANGED <<vars, pvars, indexVars>>
            \/ Init /\ IndexInit /\ LoanInit /\ AttachPolicy /\ UNCHANGED <<vars, loanVars, indexVars>>
            \/ Init /\ PolicyInit /\ LoanInit /\ IndexNext /\ UNCHANGED <<vars, loanVars, pvars>>
            \/ IndexInit /\ PolicyInit /\ LoanInit /\ Next /\ UNCHANGED <<loanVars, pvars, indexVars>>
LoansInit == Init /\ LoanInit /\ PolicyInit /\ IndexInit
LoanSpec ==
  /\ LoansInit
  /\ [][LoanNext]_<<vars, loanVars, pvars, indexVars>>
  /\ Fair
=============================================================================
