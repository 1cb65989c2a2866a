---------------------------- MODULE PolicyRules ----------------------------
(***************************************************************************)
(* The bank's numeric thresholds, applied in code: policy_rules.py, and    *)
(* the choice of loan_policy.py between these checks and plain retrieval.  *)
(* The pack is a folder of policy documents; the figures come from a job's *)
(* fact sheet, which tells which documents are whose.                      *)
(*                                                                         *)
(* A line of the policy bands an amount: it names a low bound ("above", or *)
(* "X to Y"), a high one ("up to"), or both, 0 standing for the one it     *)
(* does not name, and it may carry a condition that code cannot check.     *)
(* A figure that is missing is 0, as it is for the code; pay, instalment   *)
(* and principal may be printed with a sign.                               *)
(***************************************************************************)
EXTENDS Integers, Sequences, FiniteSets, FiniteSetsExt

CONSTANTS
  Packs,      \* [authored, prose: documents, as in NoRules; authored: at most one]
  Sheets,     \* fact sheets: documents, by file name, and the places of each applicant's
  NoFigure,   \* a figure that a document does not hold
  Infinity    \* larger than every amount

\* A line and a document of the policy; a figure, if a document holds it.
Amounts == 0..(Infinity - 1)
BandLines == [low : Amounts, high : Amounts, ceiling : Nat, conditional : BOOLEAN]
PolicyDocuments == [source : STRING \ {""}, foir : Seq(BandLines), ltv : Seq(BandLines), minimum : Nat]
Figure == {NoFigure} \cup Amounts
Signed == Figure \cup {0 - a : a \in Amounts}
SheetDocuments == [file : STRING, net : Signed, emi : Signed, principal : Signed, value : Figure, score : Figure]

ASSUME PolicyAssumption ==
  /\ Infinity \in Nat
  /\ \A pack \in Packs : pack.authored \in Seq(PolicyDocuments) /\ pack.prose \in Seq(PolicyDocuments)
  /\ \A s \in Sheets : s.documents \in Seq(SheetDocuments) /\ s.groups \in Seq(Seq(DOMAIN s.documents))

VARIABLES
  policy,    \* the rules loaded: per rule what it says and the document it is from
  factSheet, \* the fact sheet the figures are from
  facts,     \* the figures of each applicant
  checks,    \* [who, of, status]
  sheet,     \* those among the criteria of the job's fact sheet
  skipped    \* the documents the search for clauses passes over

pvars == <<policy, factSheet, facts, checks, sheet, skipped>>

\* A document: the lines that band an income, those that band an amount, and the minimum of
\* the bureau score or 0.
NoRules == [source |-> "", foir |-> <<>>, ltv |-> <<>>, minimum |-> 0]
Rules == {"foir", "ltv", "minimum"}

\* parse_rules_from_text and load_rules: of each rule the first document that states it, of
\* rules.json alone if that can be factSheet.
LoadRules(pack) ==
  LET docs == IF pack.authored # <<>> THEN pack.authored ELSE pack.prose
      stating(r) == {i \in DOMAIN docs : docs[i][r] # NoRules[r]}
      first(r) == IF stating(r) = {} THEN NoRules ELSE docs[Min(stating(r))]
  IN [r \in Rules |-> [says |-> first(r)[r], source |-> first(r).source]]

\* Of each figure the first that documents hold, be it zero.
FirstFound(docs) ==
  [f \in {"net", "emi", "principal", "value", "score"} |->
     LET holding == {i \in DOMAIN docs : docs[i][f] # NoFigure}
     IN IF holding = {} THEN 0 ELSE docs[Min(holding)][f]]

\* facts_from_fact_sheet: an applicant's documents are looked up by their file names, of which
\* the last in the folder answers to each.
Namesakes(s, d) == {e \in DOMAIN s.documents : s.documents[e].file = s.documents[d].file}
Merge(s, i) ==
  FirstFound([n \in DOMAIN s.groups[i] |-> s.documents[Max(Namesakes(s, s.groups[i][n]))]])

\* _band_from_line: the bounds, both of them inclusive.
Band(line) ==
  [min |-> IF line.low = 0 THEN 0 ELSE line.low,
   max |-> IF line.high = 0 THEN Infinity ELSE line.high,
   ceiling |-> line.ceiling, conditional |-> line.conditional]

Covers(band, amount) == band.min <= amount /\ amount <= band.max

\* Bands without an upper bound are infinitely wide, and as wide as each other.
Width(line) == IF line.high = 0 THEN Infinity ELSE Band(line).max - Band(line).min

\* Mutant: a conditional band may be chosen beside unconditional ones.
SelectNarrowest(lines, amount) ==
  LET covering == {i \in DOMAIN lines : Covers(Band(lines[i]), amount)}
      narrowest == {i \in covering : \A j \in covering : Width(lines[i]) <= Width(lines[j])}
  IN IF covering # {} THEN {Min(narrowest)} ELSE {}

\* select_band: the narrowest unconditional band, the first among equals; else the first
\* conditional one.
Select(lines, amount) ==
  LET covering == {i \in DOMAIN lines : Covers(Band(lines[i]), amount)}
      plain == {i \in covering : ~lines[i].conditional}
      narrowest == {i \in plain : \A j \in plain : Width(lines[i]) <= Width(lines[j])}
  IN IF plain # {} THEN {Min(narrowest)} ELSE IF covering # {} THEN {Min(covering)} ELSE {}

Verdict(holds) == IF holds THEN "met" ELSE "not_met"

\* The FOIR check: the income selects the band, the instalment is compared.
Foir(p, f) ==
  LET lines == p.foir.says chosen == Select(lines, f.net)
  IN IF lines = <<>> THEN {}
     ELSE IF f.net = 0 \/ f.emi = 0 \/ chosen = {} THEN {[of |-> "foir", status |-> "unverified"]}
     ELSE {[of |-> "foir", status |-> Verdict(f.emi * 100 <= Band(lines[i]).ceiling * f.net)] : i \in chosen}

\* The LTV check: the amount sanctioned selects the band; no check without an amount or band.
Ltv(p, f) ==
  {[of |-> "ltv",
    status |-> IF f.value = 0 THEN "unverified"
               ELSE Verdict(f.principal * 100 <= Band(p.ltv.says[i]).ceiling * f.value)] :
     i \in IF f.principal = 0 THEN {} ELSE Select(p.ltv.says, f.principal)}

\* The bureau score's check.
Bureau(p, f) ==
  IF p.minimum.says = 0 THEN {}
  ELSE {[of |-> "minimum",
         status |-> IF f.score = 0 THEN "unverified" ELSE Verdict(f.score >= p.minimum.says)]}

Decided(cs) == {c \in cs : c.status # "unverified"}

\* apply_rules for each applicant.
Applied(p, fs) ==
  UNION {{[who |-> i, of |-> c.of, status |-> c.status] :
            c \in Foir(p, fs[i]) \cup Ltv(p, fs[i]) \cup Bureau(p, fs[i])} : i \in DOMAIN fs}

\* apply_in_code: nothing, unless something is decided.
InCode(p, fs) == IF Decided(Applied(p, fs)) = {} THEN {} ELSE Applied(p, fs)

\* sources_settled
Settled(p, cs) == {p[c.of].source : c \in Decided(cs)}

NoPolicy == LoadRules([authored |-> <<>>, prose |-> <<>>])
NoSheet == [documents |-> <<>>, groups |-> <<>>]

PolicyInit ==
  /\ policy = NoPolicy /\ factSheet = NoSheet /\ facts = <<>>
  /\ checks = {} /\ sheet = {} /\ skipped = {}

\* _attach_policy before the assessment: what code decides joins the fact sheet, if the job
\* has one, and the search passes over the documents it is from.
AttachPolicy ==
  /\ policy = NoPolicy /\ factSheet = NoSheet
  /\ \E pack \in Packs, s \in Sheets :
       /\ policy' = LoadRules(pack)
       /\ factSheet' = s /\ facts' = [i \in DOMAIN s.groups |-> Merge(s, i)]
       /\ checks' = InCode(policy', facts')
       /\ sheet' = checks'
       /\ skipped' = Settled(policy', checks')

PolicySpec == PolicyInit /\ [][AttachPolicy]_pvars

-----------------------------------------------------------------------------
(* Properties *)

\* The words of a line hold of an amount, where "above" excludes its bound.
Says(line, amount) == line.low < amount /\ (line.high # 0 => amount <= line.high)

\* The lines that decide an amount by their words, and those that begin at it.
Deciding(lines, amount) == {i \in DOMAIN lines : ~lines[i].conditional /\ Says(lines[i], amount)}
Beginning(lines, amount) == {i \in DOMAIN lines : ~lines[i].conditional /\ lines[i].low = amount}

\* A line comes before another: it is narrower, or as wide and written first.
Precedes(lines, i, j) ==
  Width(lines[i]) < Width(lines[j]) \/ (Width(lines[i]) = Width(lines[j]) /\ i < j)

\* An applicant's ratio was judged as a line says that decides the amount by its words, a
\* narrowest of them; and by nothing where no line reaches the amount.
JudgedBy(i, of, amount, part, whole) ==
  LET lines == policy[of].says
      deciding == Deciding(lines, amount)
  IN \A c \in Decided(checks) : c.who = i /\ c.of = of =>
       /\ \E l \in DOMAIN lines : lines[l].low <= amount /\ (lines[l].high # 0 => amount <= lines[l].high)
       /\ \/ deciding = {}
          \/ \E j \in Beginning(lines, amount) : \A l \in deciding : Precedes(lines, j, l)
          \/ \E l \in deciding :
               /\ \A j \in deciding : Width(lines[l]) <= Width(lines[j])
               /\ c.status = "met" <=> part * 100 <= lines[l].ceiling * whole

\* The figures of an applicant's own papers, and whether a paper of the folder bears the file
\* name of one of them.
OwnFigures(i) == FirstFound([n \in DOMAIN factSheet.groups[i] |-> factSheet.documents[factSheet.groups[i][n]]])
HasNamesake(i) == \E n \in DOMAIN factSheet.groups[i] : Namesakes(factSheet, factSheet.groups[i][n]) # {factSheet.groups[i][n]}

\* A check that code decided is decided by the applicant's own papers and as the policy's words
\* say, also where lines meet, overlap or leave a gap, unless another paper in the folder has
\* the file name of one of his, or the amount is the very bound of a narrower "above" line,
\* which the code counts in.  Whoever has the figures and a line that decides them is checked,
\* however many applicants share the folder.  And what the search passes over is told instead:
\* on each rule of a document that is skipped, every applicant who has an income and an amount
\* is told of in the fact sheet, decided or not.
ChecksAreRight ==
  /\ \A i \in DOMAIN facts :
       LET f == OwnFigures(i)
           decided(of) == \E c \in Decided(checks) : c.who = i /\ c.of = of
       IN \/ HasNamesake(i)
          \/ /\ JudgedBy(i, "foir", f.net, f.emi, f.net)
             /\ JudgedBy(i, "ltv", f.principal, f.principal, f.value)
             /\ f.net # 0 /\ f.emi # 0 /\ Deciding(policy.foir.says, f.net) # {} => decided("foir")
             /\ 0 \notin {f.value, f.principal} /\ Deciding(policy.ltv.says, f.principal) # {} => decided("ltv")
  /\ \A r \in Rules : policy[r].source \in skipped =>
       \A i \in DOMAIN facts :
         \/ r = "ltv" /\ Deciding(policy.ltv.says, facts[i].principal) = {}
         \/ \E c \in sheet : c.who = i /\ c.of = r
=============================================================================
