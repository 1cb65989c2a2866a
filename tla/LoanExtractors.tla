-------------------------- MODULE LoanExtractors ---------------------------
(***************************************************************************)
(* loan_extractors.py: what code establishes about the documents of a      *)
(* loan folder before a model sees them.  A document is read into figures, *)
(* its own arithmetic is recomputed, and criteria that span documents are  *)
(* decided for each applicant.                                             *)
(*                                                                         *)
(* Figures are small whole numbers, so the tolerances are zero; None       *)
(* stands for a figure or a name the patterns do not find in the text.     *)
(***************************************************************************)
EXTENDS Integers, Sequences, FiniteSetsExt

CONSTANTS None,
          LoanNumbers, People,  \* the account numbers and the names documents carry
          Folders               \* bound: sequences of documents

IsRow(row, fields) == \A f \in fields : row[f] \in Int
IsList(s) == s \in Seq({s[i] : i \in DOMAIN s})

\* What the parser of a layout may find in a document: amounts may have a minus, and a slip has
\* no account number.
IsDocument(d) ==
  /\ d.loan \in LoanNumbers \cup {None} /\ d.name \in People \cup {None}
  /\ d.type = "sanction_letter" => {d.emi, d.amortised} \subseteq Int \cup {None}
  /\ d.type = "salary_slip" =>
       d.loan = None /\ {d.gross, d.net, d.deductions} \subseteq Int \cup {None} /\ {d.parts, d.withheld} \subseteq Int
  /\ d.type \in {"emi_schedule", "loan_statement", "csv_statement"} => IsList(d.rows)
  /\ d.type = "emi_schedule" =>
       /\ {d.opening, d.rate, d.emi} \subseteq Int \cup {None}
       /\ \A i \in DOMAIN d.rows : IsRow(d.rows[i], {"emi", "interest", "principal", "balance"})
  /\ d.type = "loan_statement" =>
       d.opening \in Int \cup {None} /\ \A i \in DOMAIN d.rows : IsRow(d.rows[i], {"debit", "credit", "balance"})
  /\ d.type = "csv_statement" =>
       \A i \in DOMAIN d.rows : IsRow(d.rows[i], {"debit", "credit"}) /\ d.rows[i].balance \in Int \cup {None}

\* A name is no account number, and nobody is called "unidentified".
ASSUME ExtractAssumption ==
  /\ None \notin Int /\ LoanNumbers \cap People = {}
  /\ {None, "unidentified"} \cap (LoanNumbers \cup People) = {}
  /\ \A ds \in Folders : IsList(ds) /\ \A i \in DOMAIN ds : IsDocument(ds[i])

VARIABLES folder,    \* the documents, as they are on paper
          results,   \* what was extracted from each
          criteria   \* per applicant: criterion -> met, not_met, unverified
loanVars == <<folder, results, criteria>>

-----------------------------------------------------------------------------
(* The parsers: the reasons why a document does not reconcile *)

ParseSanctionLetter(d) ==
  IF None \in {d.emi, d.amortised} THEN {"sanction_fields_not_found"}
  ELSE IF d.emi # d.amortised THEN {"emi_mismatch"} ELSE {}

ParseSalarySlip(d) ==
  IF None \in {d.gross, d.net} THEN {"salary_fields_not_found"}
  ELSE LET taken == IF d.deductions = None THEN d.withheld ELSE d.deductions
       IN   (IF d.parts # d.gross THEN {"gross_mismatch"} ELSE {})
       \cup (IF taken # d.withheld THEN {"deductions_mismatch"} ELSE {})
       \cup (IF d.gross - taken # d.net THEN {"net_pay_mismatch"} ELSE {})

\* The balance before a row: the last one stated, so that a break is found once.
Before(d, i) == IF i = 1 THEN d.opening ELSE d.rows[i - 1].balance

\* The rows whose arithmetic can be checked.
RowsToCheck(d) == {i \in DOMAIN d.rows : Before(d, i) # None}

\* The sum of a column, and what is owed after the last row.
Column(rs, field) == [i \in DOMAIN rs |-> rs[i][field]]
Sum(v) == MapThenSumSet(LAMBDA i : v[i], DOMAIN v)
Closing(d) == d.rows[Len(d.rows)].balance

TotalsDiffer(d, recomputed) == d.totals # None /\ d.totals # recomputed

ScheduleTotals(d) ==
  [interest |-> Sum(Column(d.rows, "interest")), principal |-> Sum(Column(d.rows, "principal")),
   closing |-> Closing(d)]

\* Without a rate, or at none, no row is checked.
ParseEmiSchedule(d) ==
  LET Wrong(i) == \/ d.rows[i].interest # Before(d, i) * d.rate
                  \/ d.rows[i].principal # d.rows[i].emi - d.rows[i].interest
                  \/ d.rows[i].balance # Before(d, i) - d.rows[i].principal
  IN IF d.rows = <<>> THEN {"no_schedule_rows"}
     ELSE   (IF d.rate \notin {None, 0} /\ \E i \in RowsToCheck(d) : Wrong(i) THEN {"row_mismatch"} ELSE {})
       \cup (IF TotalsDiffer(d, ScheduleTotals(d)) THEN {"schedule_total_mismatch"} ELSE {})

StatementTotals(d) ==
  [debits |-> Sum(Column(d.rows, "debit")), credits |-> Sum(Column(d.rows, "credit")), closing |-> Closing(d)]

\* A debit raises what is owed.
ParseLoanStatement(d) ==
  IF d.rows = <<>> THEN {"no_transactions"}
  ELSE   (IF \E i \in RowsToCheck(d) : d.rows[i].balance # Before(d, i) + d.rows[i].debit - d.rows[i].credit
          THEN {"balance_chain_break"} ELSE {})
    \cup (IF TotalsDiffer(d, StatementTotals(d)) THEN {"statement_total_mismatch"} ELSE {})

\* The rows of a CSV statement that break its chain, if a debit counts as given; rows without
\* a balance are passed over.
CsvBreaks(d, sign) ==
  LET known == {i \in DOMAIN d.rows : d.rows[i].balance # None}
  IN {i \in known : \E h \in known :
        /\ h < i /\ \A g \in known : g <= h \/ i <= g
        /\ d.rows[i].balance # d.rows[h].balance + sign * (d.rows[i].debit - d.rows[i].credit)}

\* The convention with fewer breaks is taken, a deposit account's if they are even.
ParseCsvStatement(d) ==
  IF d.rows = <<>> THEN {"no_transactions_parsed"}
  ELSE IF CsvBreaks(d, -1) = {} \/ CsvBreaks(d, 1) = {} THEN {} ELSE {"balance_chain_break"}

Reasons(d) ==
  CASE d.type = "sanction_letter" -> ParseSanctionLetter(d)
    [] d.type = "salary_slip" -> ParseSalarySlip(d)
    [] d.type = "emi_schedule" -> ParseEmiSchedule(d)
    [] d.type = "loan_statement" -> ParseLoanStatement(d)
    [] d.type = "csv_statement" -> ParseCsvStatement(d)
    [] OTHER -> {"no_parser_for_layout"}

\* extract_document.  A layout no parser knows, or no rows, is not readable: it goes to the
\* model in full.
Extract(d) ==
  LET none == {"no_schedule_rows", "no_transactions", "no_transactions_parsed", "no_parser_for_layout"}
  IN [type |-> d.type,
      status |-> IF Reasons(d) = {} THEN "clean" ELSE IF Reasons(d) \subseteq none THEN "unreadable" ELSE "exception",
      loan |-> d.loan, name |-> d.name,
      emi |-> IF d.type \in {"sanction_letter", "emi_schedule"} THEN d.emi ELSE None,
      net |-> IF d.type = "salary_slip" THEN d.net ELSE None]

-----------------------------------------------------------------------------
(* Applicants.  Documents are known by their place in the folder. *)

Key(r) == IF r.loan # None THEN r.loan ELSE IF r.name # None THEN r.name ELSE "unidentified"
Keys(rs) == {Key(rs[i]) : i \in DOMAIN rs}
Under(rs, k) == {i \in DOMAIN rs : Key(rs[i]) = k}
Borrowers(rs, k) == {rs[i].name : i \in {j \in Under(rs, k) : rs[j].type # "salary_slip"}}

\* Mutant: a bundle without an account joins the first that has one.
JoinsAny(rs, k) ==
  LET hosts == IF k = "unidentified" \/ \E i \in Under(rs, k) : rs[i].loan # None THEN {}
               ELSE {i \in DOMAIN rs : Key(rs[i]) # k}
  IN IF hosts = {} THEN k ELSE Key(rs[Min(hosts)])

\* Where the documents under a key belong: a bundle without an account number joins the first
\* that names it as its borrower.
Joins(rs, k) ==
  LET hosts == IF k = "unidentified" \/ \E i \in Under(rs, k) : rs[i].loan # None THEN {}
               ELSE {i \in DOMAIN rs : Key(rs[i]) # k /\ k \in Borrowers(rs, Key(rs[i]))}
  IN IF hosts = {} THEN k ELSE Key(rs[Min(hosts)])

\* group_by_applicant
Applicants(rs) == {k \in Keys(rs) : Joins(rs, k) = k}
Bundle(rs, k) == {i \in DOMAIN rs : Joins(rs, Key(rs[i])) = k}

\* The order of a bundle: its own documents come before those that joined it; the documents of
\* a single applicant stay in the order of the folder.
Rank(rs, k, i) ==
  IF Key(rs[i]) = k \/ Applicants(rs) = {k} THEN i ELSE Len(rs) * Min(Under(rs, Key(rs[i]))) + i

-----------------------------------------------------------------------------
(* Criteria that span documents *)

OfType(rs, k, type) == {i \in Bundle(rs, k) : rs[i].type = type}
Earliest(rs, k, S) == CHOOSE i \in S : \A j \in S : Rank(rs, k, i) <= Rank(rs, k, j)
Latest(rs, k, S) == CHOOSE i \in S : \A j \in S : Rank(rs, k, j) <= Rank(rs, k, i)

\* The first of its type speaks for the applicant, if there is one.
Absent == [type |-> None, status |-> None, loan |-> None, name |-> None, emi |-> None, net |-> None]
FirstOf(rs, k, type) ==
  IF OfType(rs, k, type) = {} THEN Absent ELSE rs[Earliest(rs, k, OfType(rs, k, type))]

\* An amount that is found; zero counts as none.
Given(v) == v \notin {None, 0}

\* Of the values found, two at least are needed to tell.
Agree(v) ==
  IF \A s, t \in DOMAIN v : s = t THEN "unverified"
  ELSE IF \A s, t \in DOMAIN v : v[s] = v[t] THEN "met" ELSE "not_met"

\* emi / net * 100 <= percent: a net pay below zero turns the comparison round.
AtMost(percent, emi, net) == IF net > 0 THEN emi * 100 <= percent * net ELSE emi * 100 >= percent * net

\* The EMI against take-home pay: the sanction letter's, or else the schedule's.
ObligationRatio(letter, schedule, slip) ==
  LET emi == IF Given(letter.emi) THEN letter.emi ELSE schedule.emi
  IN IF ~Given(emi) \/ ~Given(slip.net) THEN "unverified"
     ELSE IF AtMost(50, emi, slip.net) THEN "met" ELSE "not_met"

\* The EMI of each type that states one.
Emis(rs, k) ==
  [t \in {u \in {"sanction_letter", "emi_schedule"} : Given(FirstOf(rs, k, u).emi)} |-> FirstOf(rs, k, t).emi]

\* Names and account numbers are compared type by type, the last document of a type speaking
\* for it: the last that has an account number, but the last of all on the name.
Named(rs, k, type) == rs[Latest(rs, k, OfType(rs, k, type))].name
LastNames(rs, k) == [t \in {rs[i].type : i \in {j \in Bundle(rs, k) : Named(rs, k, rs[j].type) # None}} |-> Named(rs, k, t)]
LastLoans(rs, k) ==
  LET numbered == {i \in Bundle(rs, k) : rs[i].loan # None}
  IN [t \in {rs[i].type : i \in numbered} |->
        rs[Latest(rs, k, {i \in numbered : rs[i].type = t})].loan]

Clean(r) == IF r.status = None THEN "unverified" ELSE IF r.status = "clean" THEN "met" ELSE "not_met"

ChecksForOneApplicant(rs, k) ==
  [foir |-> ObligationRatio(FirstOf(rs, k, "sanction_letter"), FirstOf(rs, k, "emi_schedule"),
                            FirstOf(rs, k, "salary_slip")),
   emi |-> Agree(Emis(rs, k)), name |-> Agree(LastNames(rs, k)), loan |-> Agree(LastLoans(rs, k)),
   schedule |-> Clean(FirstOf(rs, k, "emi_schedule")),
   statement |-> Clean(FirstOf(rs, k, "loan_statement")),
   slip |-> Clean(FirstOf(rs, k, "salary_slip"))]

CrossDocumentChecks(rs) == [k \in Applicants(rs) |-> ChecksForOneApplicant(rs, k)]

LoanInit == folder = <<>> /\ results = <<>> /\ criteria = CrossDocumentChecks(<<>>)

\* fact_sheet
Establish ==
  /\ folder = <<>>
  /\ \E ds \in Folders :
       LET rs == [i \in DOMAIN ds |-> Extract(ds[i])]
       IN folder' = ds /\ results' = rs /\ criteria' = CrossDocumentChecks(rs)

ExtractSpec == LoanInit /\ [][Establish]_loanVars

-----------------------------------------------------------------------------
(* Properties *)

\* A statement or schedule that is found clean adds up from end to end: what was owed at the
\* end is what was owed at the start and moved in between, and the totals printed below it
\* are the sums of its rows; a salary slip pays what it earns.
CleanAddsUp ==
  \A i \in DOMAIN results : results[i].status = "clean" =>
    LET d == folder[i] IN
    /\ d.type = "loan_statement" =>
         /\ d.opening # None => Closing(d) = d.opening + Sum(Column(d.rows, "debit")) - Sum(Column(d.rows, "credit"))
         /\ d.totals # None =>
              d.totals.debits = Sum(Column(d.rows, "debit")) /\ d.totals.credits = Sum(Column(d.rows, "credit"))
    /\ d.type = "emi_schedule" /\ d.opening # None /\ d.rate \notin {None, 0} =>
         /\ Closing(d) = d.opening - Sum(Column(d.rows, "principal"))
         /\ Sum(Column(d.rows, "emi")) = Sum(Column(d.rows, "interest")) + Sum(Column(d.rows, "principal"))
    /\ d.type = "csv_statement" /\ (\A j \in DOMAIN d.rows : d.rows[j].balance # None) =>
         LET moved == Sum([j \in 2..Len(d.rows) |-> d.rows[j].credit - d.rows[j].debit])
         IN Closing(d) - d.rows[1].balance \in {moved, -moved}
    /\ d.type = "salary_slip" => d.net = d.parts - d.withheld

Related(r, s) == (r.loan # None /\ r.loan = s.loan) \/ (r.name # None /\ r.name = s.name)

\* No applicant is judged by another's papers: two in a bundle b never carry different accounts,
\* and are linked by an account or a name, over two others at most; an obligation is met on
\* figures of the bundle, by an EMI of half the net pay at most unless that is below zero; a slip whose employee borrows is not left aside; and the name is met by
\* two documents that agree, and by none that disagrees if each type is there once.
VerdictIsEarned(k, b, c) ==
  /\ \A r, s \in b : None \in {r.loan, s.loan} \/ r.loan = s.loan
  /\ k # "unidentified" => \A r, s \in b : \E t, u \in b : Related(r, t) /\ Related(t, u) /\ Related(u, s)
  /\ c.foir = "met" => \E r, s \in b : r.emi # None /\ s.net # None /\ (2 * r.emi <= s.net \/ s.net < 0)
  /\ (\A r \in b : r.type = "salary_slip") /\ k # "unidentified" =>
       \A i \in DOMAIN results : results[i].type = "salary_slip" \/ results[i].name # k
  /\ c.name = "met" =>
       /\ \E r, s \in b : r.type # s.type /\ r.name # None /\ r.name = s.name
       /\ (\A i, j \in Bundle(results, k) : results[i].type = results[j].type => i = j) =>
            \A r, s \in b : None \in {r.name, s.name} \/ r.name = s.name

\* And every paper is in an applicant's bundle.
VerdictsAreEarned ==
  /\ \A i \in DOMAIN results : \E k \in DOMAIN criteria : i \in Bundle(results, k)
  /\ \A k \in DOMAIN criteria : VerdictIsEarned(k, {results[i] : i \in Bundle(results, k)}, criteria[k])

\* 'unverified' means the evidence is absent; it never silently becomes 'met': a table
\* reconciles to its stated totals only if it states them.
UnverifiedIsNeverMet ==
  \A k \in DOMAIN criteria :
    criteria[k].statement = "met" =>
      \E i \in DOMAIN folder : folder[i].type = "loan_statement" /\ folder[i].totals # None

\* What the report calls clean adds up, and what it calls met rests on papers of one applicant.
ReportIsEarned == CleanAddsUp /\ VerdictsAreEarned
=============================================================================
