------------------------- MODULE CbsGatewayProofs -------------------------
(***************************************************************************)
(* Proofs about the gateway and the core's books, for any number of        *)
(* requests, operators' clicks and agents, and whatever policy, packs,     *)
(* switches and thresholds; and, because they count with the same sums,    *)
(* about the activity ledger of a key and about what is found in a folder  *)
(* of loan papers.                                                         *)
(***************************************************************************)
EXTENDS CbsGateway, ActivityLog, LoanExtractors, FiniteSetTheorems, WellFoundedInduction, TLAPS

Subjects == Agents \cup {ALL, PACK}
Names == {"call_denied", "call_gated", "call_allowed", "executed", "promoted", "approved",
          "rejected", "demoted", "incident",
          "breaker_frozen", "breaker_released", "pack_activated", "pack_deactivated"}
Events == [event : Names, subject : Subjects]
Lines == [event : Names, subject : Subjects, call : Calls, prev : Nat]
Trust == [level : 1 .. 4, streak : Nat, incidents : Nat]

\* The types the proofs need.
Typed ==
  /\ receipts \in Seq(Lines)
  /\ trust \in [Agents -> Trust]
  /\ DOMAIN gov = Calls /\ DOMAIN pc = Calls /\ DOMAIN req = Calls
  /\ \A c \in Calls : gov[c].prev \in Nat /\ gov[c].trust \in [Agents -> Trust]
  /\ \A c \in Calls : pc[c] \in {"body", "core", "reply"} => req[c].agent \in Agents
  /\ \A r \in core : r \in Requests /\ pc[r] \in {"core", "end"}

-----------------------------------------------------------------------------
(* What a call writes *)

\* An agent's record stays one, whatever is recorded of it.
LEMMA RecordsOfTrust ==
  ASSUME NEW t \in Trust
  PROVE  Approved(t) \in Trust /\ Rejected(t) \in Trust /\ Demoted(t) \in Trust
<1>1. Approved(t) \in Trust
  BY GovernanceAssumption DEF Approved, Earned, Trust
<1>2. Rejected(t) \in Trust
  BY DEF Rejected, Trust
<1>3. Demoted(t) \in Trust
  BY DEF Demoted, Trust
<1> QED
  BY <1>1, <1>2, <1>3

\* The lines of a step are as many as its events, in their order, by this call.
LEMMA ChainedLines ==
  ASSUME Typed, NEW c \in Calls, NEW rows \in Seq(Events)
  PROVE  /\ Chained(c, rows) \in Seq(Lines) /\ Len(Chained(c, rows)) = Len(rows)
         /\ \A i \in 1 .. Len(rows) :
              Chained(c, rows)[i] = [event |-> rows[i].event, subject |-> rows[i].subject, call |-> c,
                                      prev |-> IF i = 1 THEN gov[c].prev ELSE Len(receipts) + i - 1]
<1> DEFINE L(i) == [event |-> rows[i].event, subject |-> rows[i].subject, call |-> c,
                    prev |-> IF i = 1 THEN gov[c].prev ELSE Len(receipts) + i - 1]
<1>1. Chained(c, rows) = [i \in 1 .. Len(rows) |-> L(i)]
  BY DEF Chained, Line, LastHash
<1>2. \A i \in 1 .. Len(rows) : L(i) \in Lines
  <2> SUFFICES ASSUME NEW i \in 1 .. Len(rows) PROVE L(i) \in Lines
    OBVIOUS
  <2>1. rows[i] \in Events /\ gov[c].prev \in Nat /\ Len(receipts) \in Nat
    BY DEF Typed
  <2> QED
    BY <2>1 DEF Events, Lines
<1> HIDE DEF L
<1>3. Len(rows) \in Nat
  OBVIOUS
<1> QED
  BY <1>1, <1>2, <1>3 DEF L

\* After a write the receipts are the old ones and the lines of the step.
LEMMA WrittenLines ==
  ASSUME Typed, NEW c \in Calls, NEW rows \in Seq(Events), NEW files, NEW new,
         Write(c, rows, files, new)
  PROVE  /\ receipts' \in Seq(Lines) /\ Len(receipts') = Len(receipts) + Len(rows)
         /\ \A i \in 1 .. Len(receipts) : receipts'[i] = receipts[i]
         /\ \A i \in 1 .. Len(rows) :
              receipts'[Len(receipts) + i] =
                [event |-> rows[i].event, subject |-> rows[i].subject, call |-> c,
                 prev |-> IF i = 1 THEN gov[c].prev ELSE Len(receipts) + i - 1]
<1> DEFINE s == Chained(c, rows)
<1>1. s \in Seq(Lines) /\ Len(s) = Len(rows) /\ receipts' = receipts \o s
  BY ChainedLines DEF Write
<1>2. receipts \in Seq(Lines)
  BY DEF Typed
<1>3. \A i \in 1 .. Len(rows) : s[i] = [event |-> rows[i].event, subject |-> rows[i].subject, call |-> c,
                                         prev |-> IF i = 1 THEN gov[c].prev ELSE Len(receipts) + i - 1]
  BY ChainedLines
<1> HIDE DEF s
<1>4. receipts \o s \in Seq(Lines) /\ Len(receipts \o s) = Len(receipts) + Len(s)
  <2>1. \A a, b \in Seq(Lines) : a \o b \in Seq(Lines) /\ Len(a \o b) = Len(a) + Len(b)
    OBVIOUS
  <2> QED
    BY <1>1, <1>2, <2>1, Zenon
<1>5. \A i \in 1 .. Len(receipts) : (receipts \o s)[i] = receipts[i]
  BY <1>1, <1>2
<1>6. \A i \in 1 .. Len(s) : (receipts \o s)[Len(receipts) + i] = s[i]
  BY <1>1, <1>2
<1> QED
  BY <1>1, <1>3, <1>4, <1>5, <1>6, Zenon

\* A write keeps the types, if what it is asked to write has them.
LEMMA WriteTyped ==
  ASSUME Typed, NEW c \in Calls, NEW rows \in Seq(Events), NEW files, NEW new,
         Write(c, rows, files, new), new.trust \in [Agents -> Trust]
  PROVE  /\ receipts' \in Seq(Lines) /\ trust' \in [Agents -> Trust] /\ DOMAIN gov' = Calls
         /\ \A k \in Calls : gov'[k].prev \in Nat /\ gov'[k].trust \in [Agents -> Trust]
         /\ \A k \in Calls \ {c} : gov'[k] = gov[k]
         /\ gov'[c].trust = new.trust /\ gov'[c].switches = new.switches
<1>1. receipts' \in Seq(Lines)
  BY WrittenLines
<1>2. trust' \in [Agents -> Trust]
  BY DEF Write, Typed
<1> DEFINE g == [prev |-> IF rows = <<>> THEN gov[c].prev ELSE LastHash + Len(rows),
                 trust |-> new.trust, switches |-> new.switches]
<1>3. gov' = [gov EXCEPT ![c] = g]
  BY DEF Write
<1>4. g.prev \in Nat /\ g.trust = new.trust /\ g.switches = new.switches
  <2>1. gov[c].prev \in Nat /\ Len(receipts) \in Nat /\ Len(rows) \in Nat
    BY DEF Typed
  <2> QED
    BY <2>1 DEF LastHash
<1> HIDE DEF g
<1>5. DOMAIN gov' = Calls /\ gov'[c] = g /\ \A k \in Calls \ {c} : gov'[k] = gov[k]
  BY <1>3 DEF Typed
<1> QED
  BY <1>1, <1>2, <1>4, <1>5 DEF Typed

-----------------------------------------------------------------------------
(* Every step that appends receipts is a write by one call *)

\* A receipt of the code is an event.
LEMMA ReceiptIsEvent ==
  \A x \in Names, y \in Subjects : Receipt(x, y) \in Events /\ Receipt(x, y).event = x
BY DEF Receipt, Events

\* What record_outcome writes for an agent.
LEMMA OutcomeWritten ==
  ASSUME NEW t \in Trust, NEW a \in Agents, NEW o \in {"approved", "rejected", "incident"}
  PROVE  /\ Outcome(t, a, o).trust \in Trust /\ Outcome(t, a, o).lines \in Seq(Events)
         /\ o = "approved" => \E j \in 1 .. Len(Outcome(t, a, o).lines) :
                                 Outcome(t, a, o).lines[j].event = "approved"
<1> DEFINE yes == Receipt("approved", a)
<1>1. /\ Receipt("promoted", a) \in Events /\ yes \in Events /\ Receipt("rejected", a) \in Events
      /\ Receipt("demoted", a) \in Events /\ Receipt("incident", a) \in Events
  BY ReceiptIsEvent DEF Names, Subjects
<1>2. yes.event = "approved"
  BY DEF Receipt
<1>3. CASE o = "approved" /\ Earned(t)
  <2> DEFINE l == <<Receipt("promoted", a), yes>>
  <2>1. Outcome(t, a, o) = [trust |-> Approved(t), lines |-> l]
    BY <1>3 DEF Outcome
  <2>2. l \in Seq(Events) /\ 2 \in 1 .. Len(l) /\ l[2] = yes
    BY <1>1
  <2> HIDE DEF l, yes
  <2> QED
    BY <1>2, <2>1, <2>2, RecordsOfTrust
<1>4. CASE o = "approved" /\ ~Earned(t)
  <2> DEFINE l == <<yes>>
  <2>1. Outcome(t, a, o) = [trust |-> Approved(t), lines |-> l]
    BY <1>4 DEF Outcome
  <2>2. l \in Seq(Events) /\ 1 \in 1 .. Len(l) /\ l[1] = yes
    BY <1>1
  <2> HIDE DEF l, yes
  <2> QED
    BY <1>2, <2>1, <2>2, RecordsOfTrust
<1>5. CASE o = "rejected"
  <2> DEFINE l == <<Receipt("rejected", a)>>
  <2>1. Outcome(t, a, o) = [trust |-> Rejected(t), lines |-> l]
    BY <1>5 DEF Outcome
  <2>2. l \in Seq(Events)
    BY <1>1
  <2> HIDE DEF l
  <2> QED
    BY <1>5, <2>1, <2>2, RecordsOfTrust
<1>6. CASE o = "incident"
  <2> DEFINE l == <<Receipt("demoted", a), Receipt("incident", a)>>
  <2>1. Outcome(t, a, o) = [trust |-> Demoted(t), lines |-> l]
    BY <1>6 DEF Outcome
  <2>2. l \in Seq(Events)
    BY <1>1
  <2> HIDE DEF l
  <2> QED
    BY <1>6, <2>1, <2>2, RecordsOfTrust
<1> QED
  BY <1>3, <1>4, <1>5, <1>6

Files == {"trust", "breaker", "packs"}

\* Call c writes some lines and files of the right types.
Writes(c) ==
  \E new : \E rows \in Seq(Events), files \in SUBSET Files :
    Write(c, rows, files, new) /\ new.trust \in [Agents -> Trust]

\* A Governor with an agent's record replaced.
LEMMA Trusted ==
  ASSUME NEW g, g.trust \in [Agents -> Trust], NEW a \in Agents, NEW t \in Trust
  PROVE  Trusting(g, a, t).trust \in [Agents -> Trust] /\ Trusting(g, a, t).switches = g.switches
BY DEF Trusting

\* What authorize has written for the verdict, and for the approval of a gated call.
AuthorizeWrites(c, a, op, granted) ==
  LET o == Outcome(gov[c].trust[a], a, "approved") IN
  Write(c, <<Receipt(Verdict(gov[c], a, op.action), a)>> \o (IF granted THEN o.lines ELSE <<>>),
        IF granted THEN {"trust"} ELSE {},
        IF granted THEN Trusting(gov[c], a, o.trust) ELSE gov[c])

\* As a write of lines of the right types: the verdict's first, and among those of an
\* approved call an approval after it.
VerdictLines(c, a, op, granted, rows, files, new) ==
  /\ Write(c, rows, files, new) /\ new.trust \in [Agents -> Trust]
  /\ new.switches = gov[c].switches /\ (~granted => new.trust = gov[c].trust)
  /\ Len(rows) \in Nat /\ 1 \in 1 .. Len(rows)
  /\ rows[1].event = Verdict(gov[c], a, op.action) /\ rows[1].subject = a
  /\ granted => \E j \in 2 .. Len(rows) : rows[j].event = "approved"

\* What authorize has written is such a write.
LEMMA AuthorizeIsAWrite ==
  ASSUME Typed, NEW c \in Calls, NEW a \in Agents, NEW op \in Ops, NEW granted \in BOOLEAN,
         AuthorizeWrites(c, a, op, granted)
  PROVE  \E new : \E rows \in Seq(Events), files \in SUBSET Files :
           VerdictLines(c, a, op, granted, rows, files, new)
<1> DEFINE v == Verdict(gov[c], a, op.action)
           first == Receipt(v, a)
           o == Outcome(gov[c].trust[a], a, "approved")
           more == IF granted THEN o.lines ELSE <<>>
           rows == <<first>> \o more
           files == IF granted THEN {"trust"} ELSE {}
           new == IF granted THEN Trusting(gov[c], a, o.trust) ELSE gov[c]
<1>1. first \in Events /\ first.event = v /\ first.subject = a
  <2>1. v \in Names
    BY DEF Verdict, Names
  <2>2. a \in Subjects
    BY DEF Subjects
  <2> QED
    BY <2>1, <2>2, ReceiptIsEvent DEF Receipt
<1>2. gov[c].trust[a] \in Trust
  BY DEF Typed
<1>3. o.trust \in Trust /\ o.lines \in Seq(Events)
      /\ \E j \in 1 .. Len(o.lines) : o.lines[j].event = "approved"
  BY <1>2, OutcomeWritten
<1>4. Write(c, rows, files, new)
  BY DEF AuthorizeWrites
<1>5. files \in SUBSET Files
  BY DEF Files
<1>6. new.trust \in [Agents -> Trust] /\ new.switches = gov[c].switches /\ (~granted => new.trust = gov[c].trust)
  <2>1. gov[c].trust \in [Agents -> Trust]
    BY DEF Typed
  <2> QED
    BY <1>3, <2>1, Trusted
<1> HIDE DEF first, o
<1>7. more \in Seq(Events)
  BY <1>3
<1>8. granted => \E j \in 1 .. Len(more) : more[j].event = "approved"
  BY <1>3
<1> HIDE DEF more
<1>9. rows \in Seq(Events) /\ Len(rows) = 1 + Len(more) /\ rows[1] = first
      /\ \A j \in 1 .. Len(more) : rows[j + 1] = more[j]
  BY <1>1, <1>7
<1> HIDE DEF rows
<1>10. Len(more) \in Nat
  BY <1>7
<1>11. Len(rows) \in Nat /\ 1 \in 1 .. Len(rows) /\ rows[1].event = v /\ rows[1].subject = a
  BY <1>1, <1>9, <1>10
<1>12. ASSUME granted PROVE \E j \in 2 .. Len(rows) : rows[j].event = "approved"
  <2>1. PICK j \in 1 .. Len(more) : more[j].event = "approved"
    BY <1>8, <1>12
  <2>2. j + 1 \in 2 .. Len(rows) /\ rows[j + 1].event = "approved"
    BY <1>9, <1>10, <2>1
  <2> QED
    BY <2>2
<1> HIDE DEF v, files, new
<1>13. v = Verdict(gov[c], a, op.action)
  BY DEF v
<1> QED
  BY <1>4, <1>5, <1>6, <1>9, <1>11, <1>12, <1>13, Zenon DEF VerdictLines

\* What Authorize does for agent a and body op.
Authorizes(c, a, op, granted) ==
  /\ AuthorizeWrites(c, a, op, granted)
  /\ granted => Verdict(gov[c], a, op.action) = "call_gated"
  /\ req' = [req EXCEPT ![c] = [agent |-> a, op |-> Body(op, c), gated |-> granted]]
  /\ pc' = [pc EXCEPT ![c] =
              IF c \in Requests /\ (granted \/ Verdict(gov[c], a, op.action) = "call_allowed")
              THEN "body" ELSE "end"]

\* An Authorize step is one of these.
LEMMA AuthorizeUnfolds ==
  ASSUME NEW c, Authorize(c)
  PROVE  \E a \in Agents, op \in Ops, granted \in BOOLEAN : Authorizes(c, a, op, granted)
<1>1. PICK a \in Agents, op \in Ops, approver \in (IF c \in Clicks THEN {TRUE} ELSE BOOLEAN) :
        LET verdict == Verdict(gov[c], a, op.action)
            granted == verdict = "call_gated" /\ approver
            outcome == Outcome(gov[c].trust[a], a, "approved")
        IN /\ req' = [req EXCEPT ![c] = [agent |-> a, op |-> Body(op, c), gated |-> granted]]
           /\ Write(c, <<Receipt(verdict, a)>> \o (IF granted THEN outcome.lines ELSE <<>>),
                    IF granted THEN {"trust"} ELSE {},
                    IF granted THEN Trusting(gov[c], a, outcome.trust) ELSE gov[c])
           /\ pc' = [pc EXCEPT ![c] = IF c \in Requests /\ (granted \/ verdict = "call_allowed")
                                      THEN "body" ELSE "end"]
  BY DEF Authorize
<1> DEFINE granted == Verdict(gov[c], a, op.action) = "call_gated" /\ approver
<1>2. granted \in BOOLEAN
  OBVIOUS
<1>3. AuthorizeWrites(c, a, op, granted)
  BY <1>1, Zenon DEF AuthorizeWrites
<1>4. granted => Verdict(gov[c], a, op.action) = "call_gated"
  OBVIOUS
<1>5. /\ req' = [req EXCEPT ![c] = [agent |-> a, op |-> Body(op, c), gated |-> granted]]
      /\ pc' = [pc EXCEPT ![c] =
                  IF c \in Requests /\ (granted \/ Verdict(gov[c], a, op.action) = "call_allowed")
                  THEN "body" ELSE "end"]
  BY <1>1, Zenon
<1> HIDE DEF granted
<1> QED
  BY <1>2, <1>3, <1>4, <1>5, Zenon DEF Authorizes

\* Every step that appends receipts or replaces a file is a write by one call.
LEMMA WhoWrites ==
  ASSUME Typed, NEW c \in Calls, Authorize(c) \/ Switch(c) \/ Review(c) \/ (c \in Requests /\ Reply(c))
  PROVE  Writes(c)
<1>1. gov[c].trust \in [Agents -> Trust]
  BY DEF Typed
<1>2. CASE Authorize(c)
  <2>1. PICK a \in Agents, op \in Ops, granted \in BOOLEAN : Authorizes(c, a, op, granted)
    BY <1>2, AuthorizeUnfolds
  <2>2. \E new : \E rows \in Seq(Events), files \in SUBSET Files :
          Write(c, rows, files, new) /\ new.trust \in [Agents -> Trust]
    <3>1. AuthorizeWrites(c, a, op, granted)
      BY <2>1 DEF Authorizes
    <3>2. PICK new : \E rows \in Seq(Events), files \in SUBSET Files :
            VerdictLines(c, a, op, granted, rows, files, new)
      BY <3>1, AuthorizeIsAWrite, Zenon
    <3> QED
      BY <3>2, Zenon DEF VerdictLines
  <2> QED
    BY <2>2, Zenon DEF Writes
<1>3. CASE Switch(c)
  <2>1. PICK f \in DOMAIN Scopes : \E scope \in Scopes[f] :
          LET on == gov[c].switches[f] IN
          \/ Write(c, <<Receipt(TurnedOn[f], scope)>>, {f}, Switching(gov[c], f, on \cup {scope}))
          \/ Write(c, <<Receipt(TurnedOff[f], scope)>>, {f}, Switching(gov[c], f, on \ {scope}))
    BY <1>3 DEF Switch
  <2> DEFINE on == gov[c].switches[f]
  <2>6. PICK scope \in Scopes[f] :
          \/ Write(c, <<Receipt(TurnedOn[f], scope)>>, {f}, Switching(gov[c], f, on \cup {scope}))
          \/ Write(c, <<Receipt(TurnedOff[f], scope)>>, {f}, Switching(gov[c], f, on \ {scope}))
    BY <2>1
  <2>2. {f} \in SUBSET Files /\ scope \in Subjects
    BY DEF Scopes, Files, Subjects
  <2>3. Receipt(TurnedOn[f], scope) \in Events /\ Receipt(TurnedOff[f], scope) \in Events
    <3>1. TurnedOn[f] \in Names /\ TurnedOff[f] \in Names
      BY DEF Scopes, TurnedOn, TurnedOff, Names
    <3> QED
      BY <2>2, <3>1, ReceiptIsEvent
  <2>4. <<Receipt(TurnedOn[f], scope)>> \in Seq(Events) /\ <<Receipt(TurnedOff[f], scope)>> \in Seq(Events)
    BY <2>3
  <2>5. \A x : Switching(gov[c], f, x).trust = gov[c].trust
    BY DEF Switching
  <2> QED
    BY <1>1, <2>6, <2>2, <2>4, <2>5, Zenon DEF Writes
<1>4. CASE Review(c)
  <2>1. PICK a \in Agents, o \in {"rejected", "incident"} :
          LET done == Outcome(gov[c].trust[a], a, o)
          IN Write(c, done.lines, {"trust"}, Trusting(gov[c], a, done.trust))
    BY <1>4 DEF Review
  <2>2. gov[c].trust[a] \in Trust
    BY <1>1
  <2> DEFINE done == Outcome(gov[c].trust[a], a, o)
  <2>3. done.trust \in Trust /\ done.lines \in Seq(Events)
    BY <2>2, OutcomeWritten
  <2>4. Trusting(gov[c], a, done.trust).trust \in [Agents -> Trust]
    BY <1>1, <2>3, Trusted
  <2>5. {"trust"} \in SUBSET Files
    BY DEF Files
  <2> QED
    BY <2>1, <2>3, <2>4, <2>5, Zenon DEF Writes
<1>5. CASE c \in Requests /\ Reply(c)
  <2> DEFINE rows == IF req[c].gated THEN <<>> ELSE <<Receipt("executed", req[c].agent)>>
  <2>1. Write(c, rows, {}, gov[c])
    BY <1>5 DEF Reply
  <2>2. rows \in Seq(Events)
    <3>1. req[c].agent \in Agents
      BY <1>5 DEF Reply, Typed
    <3>2. Receipt("executed", req[c].agent) \in Events
      BY <3>1, ReceiptIsEvent DEF Names, Subjects
    <3> QED
      BY <3>2
  <2>3. {} \in SUBSET Files
    OBVIOUS
  <2> HIDE DEF rows
  <2> QED
    BY <1>1, <2>1, <2>2, <2>3, Zenon DEF Writes
<1> QED
  BY <1>2, <1>3, <1>4, <1>5

\* At the start nothing is receipted and every Governor is fresh.
LEMMA TypedInit == Init => Typed
<1> SUFFICES ASSUME Init PROVE Typed
  OBVIOUS
<1>1. Fresh \in Trust
  BY DEF Fresh, Trust
<1>2. trust \in [Agents -> Trust]
  BY <1>1 DEF Init
<1>3. receipts \in Seq(Lines)
  BY DEF Init
<1>4. \A c \in Calls : gov[c].prev \in Nat /\ gov[c].trust \in [Agents -> Trust]
  BY <1>2 DEF Init
<1>5. DOMAIN gov = Calls /\ DOMAIN pc = Calls /\ DOMAIN req = Calls /\ \A c \in Calls : pc[c] = "new"
  BY DEF Init
<1>6. core = {}
  BY DEF Init
<1> QED
  BY <1>2, <1>3, <1>4, <1>5, <1>6 DEF Typed

\* A write keeps the types of what it writes.
LEMMA WritesTyped ==
  ASSUME Typed, NEW c \in Calls, Writes(c)
  PROVE  /\ receipts' \in Seq(Lines) /\ trust' \in [Agents -> Trust] /\ DOMAIN gov' = Calls
         /\ \A k \in Calls : gov'[k].prev \in Nat /\ gov'[k].trust \in [Agents -> Trust]
         /\ \A k \in Calls \ {c} : gov'[k] = gov[k]
<1>1a. PICK new : \E rows \in Seq(Events), files \in SUBSET Files :
        Write(c, rows, files, new) /\ new.trust \in [Agents -> Trust]
  BY DEF Writes
<1>1. PICK rows \in Seq(Events), files \in SUBSET Files :
        Write(c, rows, files, new) /\ new.trust \in [Agents -> Trust]
  BY <1>1a
<1> QED
  BY <1>1, WriteTyped

\* Every step keeps the types.
LEMMA TypedStep == Typed /\ [Next]_vars => Typed'
<1> SUFFICES ASSUME Typed, [Next]_vars PROVE Typed'
  OBVIOUS
<1>1. ASSUME NEW c \in Calls, Load(c) PROVE Typed'
  <2>1. Len(receipts) \in Nat
    BY DEF Typed
  <2>2. \A k \in Calls : gov'[k].prev \in Nat /\ gov'[k].trust \in [Agents -> Trust]
    BY <1>1, <2>1 DEF Load, Typed, LastHash
  <2>3. DOMAIN gov' = Calls /\ DOMAIN pc' = Calls
    BY <1>1 DEF Load, Typed
  <2>4. \A k \in Calls : pc'[k] \in {"body", "core", "reply"} => pc[k] = pc'[k]
    BY <1>1 DEF Load, Typed
  <2>5. \A r \in core' : r \in Requests /\ pc'[r] \in {"core", "end"}
    BY <1>1 DEF Load, Typed
  <2> QED
    BY <1>1, <2>2, <2>3, <2>4, <2>5 DEF Load, Typed
<1>2. ASSUME NEW c \in Calls, Authorize(c) PROVE Typed'
  <2>1. PICK a \in Agents, op \in Ops, granted \in BOOLEAN : Authorizes(c, a, op, granted)
    BY <1>2, AuthorizeUnfolds
  <2>2. DOMAIN req' = Calls /\ req'[c].agent = a /\ \A k \in Calls \ {c} : req'[k] = req[k]
    BY <2>1 DEF Authorizes, Typed
  <2>3. DOMAIN pc' = Calls /\ \A k \in Calls \ {c} : pc'[k] = pc[k]
    BY <2>1 DEF Authorizes, Typed
  <2>4. \A k \in Calls : pc'[k] \in {"body", "core", "reply"} => req'[k].agent \in Agents
    BY <2>2, <2>3 DEF Typed
  <2>5. Writes(c)
    BY <1>2, WhoWrites
  <2>6. \A r \in core' : r \in Requests /\ pc'[r] \in {"core", "end"}
    BY <1>2, <2>3 DEF Authorize, Typed, Calls
  <2> QED
    BY <2>2, <2>3, <2>4, <2>5, <2>6, WritesTyped DEF Typed
<1>3. ASSUME NEW c \in Calls, Switch(c) \/ Review(c) \/ (c \in Requests /\ Reply(c)) PROVE Typed'
  <2>1. Writes(c)
    BY <1>3, WhoWrites
  <2>2. UNCHANGED req /\ pc' = [pc EXCEPT ![c] = "end"]
    BY <1>3 DEF Switch, Review, Reply
  <2>3. DOMAIN pc' = Calls /\ \A k \in Calls : pc'[k] \in {"body", "core", "reply"} => pc[k] = pc'[k]
    BY <2>2 DEF Typed
  <2>4. \A r \in core' : r \in Requests /\ pc'[r] \in {"core", "end"}
    BY <1>3, <2>2 DEF Switch, Review, Reply, Typed, Calls
  <2> QED
    BY <2>1, <2>2, <2>3, <2>4, WritesTyped DEF Typed
<1>4. ASSUME NEW r \in Requests, Forward(r) \/ CorePosts(r) \/ TimesOut(r) PROVE Typed'
  <2>1. UNCHANGED <<receipts, trust, gov, req>>
    BY <1>4 DEF Forward, CorePosts, TimesOut
  <2>2. r \in Calls
    BY DEF Calls
  <2>3. DOMAIN pc' = Calls /\ \A k \in Calls \ {r} : pc'[k] = pc[k]
    BY <1>4 DEF Forward, CorePosts, TimesOut, Typed
  <2>4. req[r].agent \in Agents \/ pc'[r] = "end"
    BY <1>4, <2>2 DEF Forward, CorePosts, TimesOut, Typed
  <2>5. \A k \in core' : k \in Requests /\ pc'[k] \in {"core", "end"}
    <3>1. CASE Forward(r)
      BY <2>2, <2>3, <3>1 DEF Forward, Typed, Calls
    <3>2. CASE CorePosts(r)
      BY <2>2, <2>3, <3>2 DEF CorePosts, Typed, Calls
    <3>3. CASE TimesOut(r)
      BY <2>2, <2>3, <3>3 DEF TimesOut, Typed, Calls
    <3> QED
      BY <1>4, <3>1, <3>2, <3>3
  <2> QED
    BY <2>1, <2>2, <2>3, <2>4, <2>5 DEF Typed
<1>5. CASE UNCHANGED vars
  BY <1>5 DEF Typed, vars, govVars
<1> QED
  BY <1>1, <1>2, <1>3, <1>4, <1>5 DEF Next, Calls

-----------------------------------------------------------------------------
(* The chain of receipts *)

\* A write breaks the chain if and only if it appends behind an old head.
LEMMA ChainKept ==
  ASSUME Typed, ChainBreaksByOverlap, NEW c \in Calls, Writes(c)
  PROVE  ChainBreaksByOverlap'
<1>1a. PICK new : \E rows \in Seq(Events), files \in SUBSET Files :
        Write(c, rows, files, new)
  BY DEF Writes
<1>1. PICK rows \in Seq(Events), files \in SUBSET Files :
        Write(c, rows, files, new)
  BY <1>1a
<1>2. /\ receipts' \in Seq(Lines) /\ Len(receipts') = Len(receipts) + Len(rows)
      /\ \A i \in 1 .. Len(receipts) : receipts'[i] = receipts[i]
  BY <1>1, WrittenLines
<1>3. \A i \in 1 .. Len(rows) :
        receipts'[Len(receipts) + i].prev = IF i = 1 THEN gov[c].prev ELSE Len(receipts) + i - 1
  <2> SUFFICES ASSUME NEW i \in 1 .. Len(rows)
               PROVE  receipts'[Len(receipts) + i].prev =
                        IF i = 1 THEN gov[c].prev ELSE Len(receipts) + i - 1
    OBVIOUS
  <2> DEFINE head == IF i = 1 THEN gov[c].prev ELSE Len(receipts) + i - 1
  <2>1. receipts'[Len(receipts) + i] =
          [event |-> rows[i].event, subject |-> rows[i].subject, call |-> c, prev |-> head]
    BY <1>1, WrittenLines
  <2> HIDE DEF head
  <2>2. receipts'[Len(receipts) + i].prev = head
    BY <2>1
  <2> QED
    BY <2>2 DEF head
<1>4. "receipts" \in stale' <=> "receipts" \in stale \/ (rows # <<>> /\ gov[c].prev # Len(receipts))
  BY <1>1 DEF Write, LastHash, Files
<1>5. receipts \in Seq(Lines) /\ Len(receipts) \in Nat /\ Len(rows) \in Nat /\ gov[c].prev \in Nat
      /\ (rows = <<>> <=> Len(rows) = 0)
  BY DEF Typed
<1>6. Verifies <=> \A i \in 1 .. Len(receipts) : receipts[i].prev = i - 1
  BY <1>5 DEF Verifies
<1>7. Verifies' <=> \A i \in 1 .. Len(receipts') : receipts'[i].prev = i - 1
  <2>1. DOMAIN receipts' = 1 .. Len(receipts')
    BY <1>2
  <2> QED
    BY <2>1, Zenon DEF Verifies
<1>8. Verifies' <=> Verifies /\ (rows # <<>> => gov[c].prev = Len(receipts))
  <2>1. ASSUME Verifies' PROVE Verifies
    BY <1>2, <1>5, <1>6, <1>7, <2>1
  <2>2. ASSUME Verifies', rows # <<>> PROVE gov[c].prev = Len(receipts)
    <3>1. Len(receipts) + 1 \in 1 .. Len(receipts') /\ 1 \in 1 .. Len(rows)
      BY <1>2, <1>5, <2>2
    <3>2. receipts'[Len(receipts) + 1].prev = gov[c].prev
      BY <1>3, <3>1
    <3>3. receipts'[Len(receipts) + 1].prev = (Len(receipts) + 1) - 1
      BY <1>7, <2>2, <3>1
    <3> QED
      BY <1>5, <3>2, <3>3
  <2>3. ASSUME Verifies, rows # <<>> => gov[c].prev = Len(receipts) PROVE Verifies'
    <3> SUFFICES ASSUME NEW i \in 1 .. Len(receipts') PROVE receipts'[i].prev = i - 1
      BY <1>7
    <3>1. CASE i \in 1 .. Len(receipts)
      BY <1>2, <1>6, <2>3, <3>1
    <3>2. CASE i \notin 1 .. Len(receipts)
      <4> DEFINE k == i - Len(receipts)
      <4>1. k \in 1 .. Len(rows) /\ i = Len(receipts) + k /\ i \in Nat
        BY <1>2, <1>5, <3>2
      <4>2. receipts'[i].prev = IF k = 1 THEN gov[c].prev ELSE Len(receipts) + k - 1
        BY <1>3, <4>1
      <4>3. gov[c].prev = Len(receipts)
        BY <1>5, <2>3, <4>1
      <4> QED
        BY <1>5, <4>1, <4>2, <4>3
    <3> QED
      BY <3>1, <3>2
  <2> QED
    BY <2>1, <2>2, <2>3
<1> QED
  BY <1>4, <1>8 DEF ChainBreaksByOverlap

\* For any number of requests and clicks, in whatever order they load, ask, write and end:
\* SignedReceiptLedger.verify fails if and only if some call recorded behind a head it had
\* read before another moved it.
THEOREM BreaksByOverlap == Spec => []ChainBreaksByOverlap
<1>1. Init => Typed /\ ChainBreaksByOverlap
  <2>1. Init => receipts = <<>> /\ stale = {}
    BY DEF Init
  <2> QED
    BY <2>1, TypedInit DEF ChainBreaksByOverlap, Verifies
<1>2. Typed /\ ChainBreaksByOverlap /\ [Next]_vars => (Typed /\ ChainBreaksByOverlap)'
  <2> SUFFICES ASSUME Typed, ChainBreaksByOverlap, [Next]_vars
               PROVE  ChainBreaksByOverlap'
    BY TypedStep
  <2>1. ASSUME NEW c \in Calls, Authorize(c) \/ Switch(c) \/ Review(c) \/ (c \in Requests /\ Reply(c))
        PROVE  ChainBreaksByOverlap'
    BY <2>1, WhoWrites, ChainKept
  <2>2. ASSUME UNCHANGED <<receipts, stale>> PROVE ChainBreaksByOverlap'
    BY <2>2 DEF ChainBreaksByOverlap, Verifies
  <2>3. ASSUME NEW c \in Calls, Load(c) PROVE UNCHANGED <<receipts, stale>>
    BY <2>3 DEF Load
  <2>4. ASSUME NEW r \in Requests, Forward(r) \/ CorePosts(r) \/ TimesOut(r)
        PROVE  UNCHANGED <<receipts, stale>>
    BY <2>4 DEF Forward, CorePosts, TimesOut
  <2>5. CASE UNCHANGED vars
    BY <2>2, <2>5 DEF vars, govVars
  <2> QED
    BY <2>1, <2>2, <2>3, <2>4, <2>5 DEF Next, Calls
<1> QED
  BY <1>1, <1>2, PTL DEF Spec

-----------------------------------------------------------------------------
(* What reaches the core *)

\* A request that has been let through, or left a posting, is governed.
GovernedInv ==
  \A r \in Requests :
    /\ pc[r] \in {"body", "core", "reply"} \/ r \in core => Governed(r) /\ req[r].op.id = r
    /\ (\E t \in txns : t.id = r) => Governed(r) /\ pc[r] \notin {"new", "loaded"}

\* A request stays governed while receipts are added and its Governor sees none of it.
LEMMA StaysGoverned ==
  ASSUME Typed, NEW r \in Requests, Governed(r),
         receipts' \in Seq(Lines), Len(receipts') \in Nat, Len(receipts) \in Nat,
         Len(receipts) <= Len(receipts'), \A i \in 1 .. Len(receipts) : receipts'[i] = receipts[i],
         gov'[r].trust = gov[r].trust, gov'[r].switches = gov[r].switches, req'[r] = req[r]
  PROVE  Governed(r)'
<1>1. DOMAIN receipts = 1 .. Len(receipts) /\ DOMAIN receipts' = 1 .. Len(receipts')
  BY DEF Typed
<1>2. \A i \in DOMAIN receipts : i \in DOMAIN receipts' /\ receipts'[i] = receipts[i]
  BY <1>1
<1>3. \A x, y : /\ InAllowlist(gov[r], x, y) <=> InAllowlist(gov'[r], x, y)
                /\ Frozen(gov[r], x) <=> Frozen(gov'[r], x)
  BY Zenon DEF InAllowlist, Allowed, Frozen
<1>4. PICK i \in DOMAIN receipts :
        /\ receipts[i].call = r /\ receipts[i].event \in {"call_allowed", "call_gated"}
        /\ InAllowlist(gov[r], receipts[i].subject, req[r].op.action)
        /\ ~Frozen(gov[r], receipts[i].subject)
        /\ \/ receipts[i].event = "call_gated" /\ \E j \in DOMAIN receipts :
                receipts[j].call = r /\ receipts[j].event = "approved" /\ j > i
           \/ receipts[i].event = "call_allowed" /\ gov[r].trust[receipts[i].subject].level > 2
  BY DEF Governed
<1>5. i \in DOMAIN receipts' /\ receipts'[i] = receipts[i]
  BY <1>2
<1>6. (\E j \in DOMAIN receipts : receipts[j].call = r /\ receipts[j].event = "approved" /\ j > i)
      => \E j \in DOMAIN receipts' : receipts'[j].call = r /\ receipts'[j].event = "approved" /\ j > i
  BY <1>2, Zenon
<1> QED
  BY <1>3, <1>4, <1>5, <1>6, Zenon DEF Governed

\* A write by another call leaves a request governed, and so does its own of no new verdict.
LEMMA WriteGoverns ==
  ASSUME Typed, NEW c \in Calls, NEW rows \in Seq(Events), NEW files, NEW new,
         Write(c, rows, files, new), new.trust \in [Agents -> Trust],
         NEW r \in Requests, Governed(r), req'[r] = req[r],
         r = c => new.trust = gov[c].trust /\ new.switches = gov[c].switches
  PROVE  Governed(r)'
<1>1. Len(receipts) \in Nat /\ Len(rows) \in Nat /\ r \in Calls
  BY DEF Typed, Calls
<1>2. /\ receipts' \in Seq(Lines) /\ Len(receipts') = Len(receipts) + Len(rows)
      /\ \A i \in 1 .. Len(receipts) : receipts'[i] = receipts[i]
  BY WrittenLines
<1>3. gov'[r].trust = gov[r].trust /\ gov'[r].switches = gov[r].switches
  <2>1. CASE r = c
    BY <2>1, WriteTyped
  <2>2. CASE r # c
    BY <1>1, <2>2, WriteTyped
  <2> QED
    BY <2>1, <2>2
<1>4. Len(receipts') \in Nat /\ Len(receipts) <= Len(receipts')
  BY <1>1, <1>2
<1> QED
  BY <1>1, <1>2, <1>3, <1>4, StaysGoverned

\* What the verdict says of an agent whose call may go on.
LEMMA VerdictMeans ==
  ASSUME NEW g, g.trust \in [Agents -> Trust], NEW a \in Agents, NEW action,
         NEW v, v = Verdict(g, a, action), v \in {"call_allowed", "call_gated"}
  PROVE  InAllowlist(g, a, action) /\ ~Frozen(g, a) /\ (v = "call_allowed" => g.trust[a].level > 2)
<1>1. g.trust[a].level \in 1 .. 4
  BY DEF Trust
<1>2. ~(Frozen(g, a) \/ ~InAllowlist(g, a, action) \/ g.trust[a].level = 1)
  BY DEF Verdict
<1>3. v = "call_allowed" => g.trust[a].level # 2
  BY <1>2 DEF Verdict
<1> QED
  BY <1>1, <1>2, <1>3

\* The body of a request is the one it was authorized for, marked with the request.
LEMMA BodyOf ==
  ASSUME NEW op \in Ops, NEW c
  PROVE  Body(op, c).id = c /\ Body(op, c).action = op.action
<1>1. "action" \in DOMAIN op /\ "id" \notin DOMAIN op
  BY GovernanceAssumption
<1> QED
  BY <1>1 DEF Body

\* A request whose body is awaited has just been governed.
LEMMA AuthorizeGoverns ==
  ASSUME Typed, NEW c \in Requests, NEW a \in Agents, NEW op \in Ops, NEW granted \in BOOLEAN,
         Authorizes(c, a, op, granted),
         granted \/ Verdict(gov[c], a, op.action) = "call_allowed"
  PROVE  Governed(c)' /\ req'[c].op.id = c
<1> DEFINE v == Verdict(gov[c], a, op.action)
<1>1. c \in Calls /\ gov[c].trust \in [Agents -> Trust] /\ Len(receipts) \in Nat
  BY DEF Calls, Typed
<1>2a. PICK new : \E rows \in Seq(Events), files \in SUBSET Files :
         VerdictLines(c, a, op, granted, rows, files, new)
  <2>1. AuthorizeWrites(c, a, op, granted)
    BY DEF Authorizes
  <2> QED
    BY <1>1, <2>1, AuthorizeIsAWrite, Zenon
<1>2. PICK rows \in Seq(Events), files \in SUBSET Files :
        /\ Write(c, rows, files, new) /\ new.trust \in [Agents -> Trust]
        /\ new.switches = gov[c].switches /\ (~granted => new.trust = gov[c].trust)
        /\ Len(rows) \in Nat /\ 1 \in 1 .. Len(rows)
        /\ rows[1].event = Verdict(gov[c], a, op.action) /\ rows[1].subject = a
        /\ granted => \E j \in 2 .. Len(rows) : rows[j].event = "approved"
  BY <1>2a DEF VerdictLines
<1>3. v \in {"call_allowed", "call_gated"} /\ (granted => v = "call_gated") /\ (~granted => v = "call_allowed")
  BY DEF Authorizes
<1>4. InAllowlist(gov[c], a, op.action) /\ ~Frozen(gov[c], a)
      /\ (v = "call_allowed" => gov[c].trust[a].level > 2)
  BY <1>1, <1>3, VerdictMeans
<1>5. gov'[c].switches = gov[c].switches /\ (~granted => gov'[c].trust = gov[c].trust)
  BY <1>1, <1>2, WriteTyped
<1>6. InAllowlist(gov'[c], a, op.action) /\ ~Frozen(gov'[c], a)
  BY <1>4, <1>5, Zenon DEF InAllowlist, Allowed, Frozen
<1>7. req'[c].op.id = c /\ req'[c].op.action = op.action
  <2>1. req'[c].op = Body(op, c)
    BY <1>1 DEF Authorizes, Typed
  <2> QED
    BY <2>1, BodyOf
<1>8. DOMAIN receipts' = 1 .. Len(receipts) + Len(rows)
  <2>1. receipts' \in Seq(Lines) /\ Len(receipts') = Len(receipts) + Len(rows)
    BY <1>1, <1>2, WrittenLines
  <2> QED
    BY <2>1
<1>9. \A k \in 1 .. Len(rows) :
        /\ Len(receipts) + k \in DOMAIN receipts'
        /\ receipts'[Len(receipts) + k].call = c
        /\ receipts'[Len(receipts) + k].event = rows[k].event
        /\ receipts'[Len(receipts) + k].subject = rows[k].subject
  <2> SUFFICES ASSUME NEW k \in 1 .. Len(rows)
               PROVE  /\ Len(receipts) + k \in DOMAIN receipts'
                      /\ receipts'[Len(receipts) + k].call = c
                      /\ receipts'[Len(receipts) + k].event = rows[k].event
                      /\ receipts'[Len(receipts) + k].subject = rows[k].subject
    OBVIOUS
  <2> DEFINE head == IF k = 1 THEN gov[c].prev ELSE Len(receipts) + k - 1
  <2>1. receipts'[Len(receipts) + k] =
          [event |-> rows[k].event, subject |-> rows[k].subject, call |-> c, prev |-> head]
    BY <1>1, <1>2, WrittenLines
  <2> HIDE DEF head
  <2>2. Len(receipts) + k \in DOMAIN receipts'
    BY <1>1, <1>2, <1>8
  <2> QED
    BY <2>1, <2>2
<1> DEFINE i == Len(receipts) + 1
<1>10. i \in DOMAIN receipts' /\ receipts'[i].call = c /\ receipts'[i].event = v /\ receipts'[i].subject = a
  BY <1>2, <1>9
<1>11. granted => \E j \in DOMAIN receipts' : receipts'[j].call = c /\ receipts'[j].event = "approved" /\ j > i
  <2> SUFFICES ASSUME granted
               PROVE  \E j \in DOMAIN receipts' : receipts'[j].call = c /\ receipts'[j].event = "approved" /\ j > i
    OBVIOUS
  <2>1. PICK k \in 2 .. Len(rows) : rows[k].event = "approved"
    BY <1>2
  <2>2. k \in 1 .. Len(rows) /\ Len(receipts) + k > i
    BY <1>1, <1>2
  <2> QED
    BY <1>9, <2>1, <2>2
<1>12. ~granted => gov'[c].trust[a].level > 2
  BY <1>3, <1>4, <1>5
<1> HIDE DEF v, i
<1> QED
  BY <1>3, <1>6, <1>7, <1>10, <1>11, <1>12, Zenon DEF Governed

\* A step that touches neither the receipts nor the Governors nor what is asked.
LEMMA AsideGoverns ==
  ASSUME Typed, NEW r \in Requests, Governed(r), UNCHANGED <<receipts, gov, req>>
  PROVE  Governed(r)'
BY DEF Governed, InAllowlist, Allowed, Frozen

\* At the start nothing was asked.
LEMMA GovernedInit == Init => GovernedInv
<1> SUFFICES ASSUME Init PROVE GovernedInv
  OBVIOUS
<1>1. core = {} /\ txns = {} /\ \A r \in Requests : pc[r] = "new"
  BY DEF Init, BankInit, Calls
<1> QED
  BY <1>1 DEF GovernedInv

\* The core posts under the name of the request it works for.
LEMMA PostsItsOwn ==
  ASSUME NEW r \in Requests, req[r].op.id = r, CorePosts(r)
  PROVE  \A t \in txns' \ txns : t.id = r
<1>1. CASE EndOfDay(r)
  BY <1>1 DEF EndOfDay
<1>2. CASE Post(req[r].op)
  <2>1. txns' \subseteq txns \cup {req[r].op}
    BY <1>2 DEF Post, bank
  <2> QED
    BY <2>1
<1>3. CASE UNCHANGED bank
  BY <1>3 DEF bank
<1> QED
  BY <1>1, <1>2, <1>3 DEF CorePosts

\* Every step keeps what reaches the core governed.
LEMMA GovernedStep == Typed /\ GovernedInv /\ [Next]_vars => GovernedInv'
<1> SUFFICES ASSUME Typed, GovernedInv, [Next]_vars PROVE GovernedInv'
  OBVIOUS
<1>1. ASSUME NEW c \in Calls, Load(c) PROVE GovernedInv'
  <2> SUFFICES ASSUME NEW r \in Requests
               PROVE  /\ pc'[r] \in {"body", "core", "reply"} \/ r \in core' => Governed(r)' /\ req'[r].op.id = r
                      /\ (\E t \in txns' : t.id = r) => Governed(r)' /\ pc'[r] \notin {"new", "loaded"}
    BY DEF GovernedInv
  <2>1. UNCHANGED <<receipts, req, core, txns>>
    BY <1>1 DEF Load, bank
  <2>2. CASE r = c
    <3>1. pc[r] = "new" /\ pc'[r] = "loaded" /\ r \in Calls
      BY <1>1, <2>2 DEF Load, Typed
    <3>2. r \notin core /\ ~\E t \in txns : t.id = r
      BY <3>1 DEF Typed, GovernedInv
    <3> QED
      BY <2>1, <3>1, <3>2
  <2>3. CASE r # c
    <3>1. pc'[r] = pc[r] /\ gov'[r] = gov[r]
      BY <1>1, <2>3 DEF Load, Typed, Calls
    <3>2. Governed(r) => Governed(r)'
      <4>1. receipts \in Seq(Lines) /\ Len(receipts) \in Nat /\ Len(receipts) <= Len(receipts)
        BY DEF Typed
      <4> QED
        BY <2>1, <3>1, <4>1, StaysGoverned
    <3> QED
      BY <2>1, <3>1, <3>2 DEF GovernedInv
  <2> QED
    BY <2>2, <2>3
<1>2. ASSUME NEW c \in Calls, Authorize(c) PROVE GovernedInv'
  <2> SUFFICES ASSUME NEW r \in Requests
               PROVE  /\ pc'[r] \in {"body", "core", "reply"} \/ r \in core' => Governed(r)' /\ req'[r].op.id = r
                      /\ (\E t \in txns' : t.id = r) => Governed(r)' /\ pc'[r] \notin {"new", "loaded"}
    BY DEF GovernedInv
  <2>1. PICK a \in Agents, op \in Ops, granted \in BOOLEAN : Authorizes(c, a, op, granted)
    BY <1>2, AuthorizeUnfolds
  <2>2. pc[c] = "loaded" /\ UNCHANGED <<core, txns>>
    BY <1>2 DEF Authorize, bank
  <2>3. CASE r = c
    <3>1. r \notin core /\ ~\E t \in txns : t.id = r
      BY <2>2, <2>3 DEF Typed, GovernedInv
    <3>2. CASE granted \/ Verdict(gov[c], a, op.action) = "call_allowed"
      <4>1. Governed(r)' /\ req'[r].op.id = r
        BY <2>1, <2>3, <3>2, AuthorizeGoverns
      <4> QED
        BY <2>2, <3>1, <4>1
    <3>3. CASE ~(granted \/ Verdict(gov[c], a, op.action) = "call_allowed")
      <4>1. pc'[r] = "end"
        BY <2>1, <2>3, <3>3 DEF Authorizes, Typed
      <4> QED
        BY <2>2, <3>1, <4>1
    <3> QED
      BY <3>2, <3>3
  <2>4. CASE r # c
    <3>1. pc'[r] = pc[r] /\ req'[r] = req[r]
      BY <2>1, <2>4 DEF Authorizes, Typed, Calls
    <3>2. Governed(r) => Governed(r)'
      <4>1a. PICK new : \E rows \in Seq(Events), files \in SUBSET Files :
              Write(c, rows, files, new) /\ new.trust \in [Agents -> Trust]
        BY <1>2, WhoWrites DEF Writes
      <4>1. PICK rows \in Seq(Events), files \in SUBSET Files :
              Write(c, rows, files, new) /\ new.trust \in [Agents -> Trust]
        BY <4>1a
      <4> QED
        BY <2>4, <3>1, <4>1, WriteGoverns
    <3> QED
      BY <2>2, <3>1, <3>2 DEF GovernedInv
  <2> QED
    BY <2>3, <2>4
<1>3. ASSUME NEW c \in Clicks, Switch(c) \/ Review(c) PROVE GovernedInv'
  <2> SUFFICES ASSUME NEW r \in Requests
               PROVE  /\ pc'[r] \in {"body", "core", "reply"} \/ r \in core' => Governed(r)' /\ req'[r].op.id = r
                      /\ (\E t \in txns' : t.id = r) => Governed(r)' /\ pc'[r] \notin {"new", "loaded"}
    BY DEF GovernedInv
  <2>1. r # c /\ c \in Calls
    BY GovernanceAssumption DEF Calls
  <2>2. UNCHANGED <<req, core, txns>> /\ pc'[r] = pc[r]
    BY <1>3, <2>1 DEF Switch, Review, bank, Typed, Calls
  <2>3a. PICK new : \E rows \in Seq(Events), files \in SUBSET Files :
          Write(c, rows, files, new) /\ new.trust \in [Agents -> Trust]
    BY <1>3, <2>1, WhoWrites DEF Writes
  <2>3. PICK rows \in Seq(Events), files \in SUBSET Files :
          Write(c, rows, files, new) /\ new.trust \in [Agents -> Trust]
    BY <2>3a
  <2>4. Governed(r) => Governed(r)'
    BY <2>1, <2>2, <2>3, WriteGoverns
  <2> QED
    BY <2>2, <2>4 DEF GovernedInv
<1>4. ASSUME NEW c \in Requests, Reply(c) PROVE GovernedInv'
  <2> SUFFICES ASSUME NEW r \in Requests
               PROVE  /\ pc'[r] \in {"body", "core", "reply"} \/ r \in core' => Governed(r)' /\ req'[r].op.id = r
                      /\ (\E t \in txns' : t.id = r) => Governed(r)' /\ pc'[r] \notin {"new", "loaded"}
    BY DEF GovernedInv
  <2> DEFINE rows == IF req[c].gated THEN <<>> ELSE <<Receipt("executed", req[c].agent)>>
  <2>1. UNCHANGED <<req, core, txns>> /\ pc' = [pc EXCEPT ![c] = "end"] /\ pc[c] = "reply" /\ c \in Calls
    BY <1>4 DEF Reply, bank, Calls
  <2>2. Write(c, rows, {}, gov[c])
    BY <1>4 DEF Reply
  <2>3. rows \in Seq(Events) /\ gov[c].trust \in [Agents -> Trust]
    BY <2>1, ReceiptIsEvent DEF Names, Subjects, Typed
  <2> HIDE DEF rows
  <2>4. Governed(r) => Governed(r)'
    BY <2>1, <2>2, <2>3, WriteGoverns
  <2>5. pc'[r] = pc[r] \/ (pc[r] = "reply" /\ pc'[r] = "end")
    BY <2>1 DEF Typed, Calls
  <2> QED
    BY <2>1, <2>4, <2>5 DEF GovernedInv
<1>5. ASSUME NEW c \in Requests, Forward(c) \/ CorePosts(c) \/ TimesOut(c) PROVE GovernedInv'
  <2> SUFFICES ASSUME NEW r \in Requests
               PROVE  /\ pc'[r] \in {"body", "core", "reply"} \/ r \in core' => Governed(r)' /\ req'[r].op.id = r
                      /\ (\E t \in txns' : t.id = r) => Governed(r)' /\ pc'[r] \notin {"new", "loaded"}
    BY DEF GovernedInv
  <2>1. UNCHANGED <<receipts, gov, req>>
    BY <1>5 DEF Forward, CorePosts, TimesOut
  <2>2. Governed(r) => Governed(r)'
    BY <2>1, AsideGoverns
  <2>3. pc[c] \in {"body", "core", "reply"} \/ c \in core
    BY <1>5 DEF Forward, CorePosts, TimesOut
  <2>4. Governed(c) /\ req[c].op.id = c
    BY <2>3 DEF GovernedInv
  <2>5. pc'[c] \notin {"new", "loaded"} /\ \A k \in Requests \ {c} : pc'[k] = pc[k]
    <3>1. pc[c] \notin {"new", "loaded"}
      BY <2>3 DEF Typed
    <3>2. pc' = pc \/ \E p \in {"core", "reply", "end"} : pc' = [pc EXCEPT ![c] = p]
      BY <1>5 DEF Forward, CorePosts, TimesOut
    <3> QED
      BY <3>1, <3>2 DEF Typed, Calls
  <2>6. core' \subseteq core \cup {c}
    BY <1>5 DEF Forward, CorePosts, TimesOut
  <2>7. \A t \in txns' : t \in txns \/ t.id = c
    <3>1. CASE CorePosts(c)
      BY <2>4, <3>1, PostsItsOwn
    <3>2. CASE Forward(c) \/ TimesOut(c)
      BY <3>2 DEF Forward, TimesOut, bank
    <3> QED
      BY <1>5, <3>1, <3>2
  <2>8. CASE r = c
    BY <2>1, <2>2, <2>4, <2>5, <2>8
  <2>9. CASE r # c
    <3>1. pc'[r] = pc[r] /\ (r \in core' => r \in core) /\ req'[r] = req[r]
      BY <2>1, <2>5, <2>6, <2>9
    <3>2. (\E t \in txns' : t.id = r) => \E t \in txns : t.id = r
      BY <2>7, <2>9
    <3> QED
      BY <2>2, <3>1, <3>2 DEF GovernedInv
  <2> QED
    BY <2>8, <2>9
<1>6. ASSUME NEW c \in Requests, Switch(c) \/ Review(c) PROVE FALSE
  BY <1>6, GovernanceAssumption DEF Switch, Review
<1>7. CASE UNCHANGED vars
  <2>1. UNCHANGED <<receipts, gov, req, pc, core, txns>>
    BY <1>7 DEF vars, govVars, bank
  <2>2. \A r \in Requests : Governed(r) => Governed(r)'
    BY <2>1, AsideGoverns
  <2> QED
    BY <2>1, <2>2 DEF GovernedInv
<1> QED
  BY <1>1, <1>2, <1>3, <1>4, <1>5, <1>6, <1>7 DEF Next, Calls

\* For any policy, packs and thresholds, any number of requests and of operators' clicks in
\* between: what the core is doing or has posted for a request was allowed to its agent, not
\* frozen, not demoted, receipted and, if gated, approved, by the Governor that request loaded.
THEOREM OnlyGoverned == Spec => []OnlyGovernedCallsReachTheCore
<1>1. Init => Typed /\ GovernedInv
  BY TypedInit, GovernedInit
<1>2. Typed /\ GovernedInv /\ [Next]_vars => (Typed /\ GovernedInv)'
  BY TypedStep, GovernedStep
<1>3. GovernedInv => OnlyGovernedCallsReachTheCore
  BY DEF GovernedInv, OnlyGovernedCallsReachTheCore
<1> QED
  BY <1>1, <1>2, <1>3, PTL DEF Spec
-----------------------------------------------------------------------------
(* What the lines of a step tell of an agent or a scope *)

\* The lines of a step about a, of some events.
Told(rows, a, events) ==
  {k \in 1 .. Len(rows) : rows[k].subject = a /\ rows[k].event \in events}

\* What is on record is a finite set of places in the file.
LEMMA AboutFinite ==
  ASSUME Typed, NEW a, NEW events
  PROVE  /\ About(a, events) \subseteq 1 .. Len(receipts) /\ IsFiniteSet(About(a, events))
         /\ Cardinality(About(a, events)) \in Nat
<1>1. Len(receipts) \in Nat /\ DOMAIN receipts = 1 .. Len(receipts)
  BY DEF Typed
<1>2. About(a, events) \subseteq 1 .. Len(receipts)
  BY <1>1 DEF About
<1>3. IsFiniteSet(1 .. Len(receipts))
  BY <1>1, FS_Interval
<1>4. IsFiniteSet(About(a, events))
  BY <1>2, <1>3, FS_Subset
<1> QED
  BY <1>2, <1>4, FS_CardinalityType

\* A write adds to the record what its lines tell.
LEMMA AboutAfter ==
  ASSUME Typed, NEW c \in Calls, NEW rows \in Seq(Events), NEW files, NEW new,
         Write(c, rows, files, new), NEW a, NEW events
  PROVE  About(a, events)' = About(a, events) \cup {Len(receipts) + k : k \in Told(rows, a, events)}
<1> DEFINE n == Len(receipts)
<1>1. n \in Nat /\ Len(rows) \in Nat /\ DOMAIN receipts = 1 .. n
  BY DEF Typed
<1>2. /\ receipts' \in Seq(Lines) /\ Len(receipts') = n + Len(rows)
      /\ \A i \in 1 .. n : receipts'[i] = receipts[i]
  BY WrittenLines
<1>3. DOMAIN receipts' = 1 .. n + Len(rows)
  BY <1>2
<1>4. ASSUME NEW k \in 1 .. Len(rows)
      PROVE  receipts'[n + k].event = rows[k].event /\ receipts'[n + k].subject = rows[k].subject
  <2> DEFINE head == IF k = 1 THEN gov[c].prev ELSE Len(receipts) + k - 1
  <2>1. receipts'[Len(receipts) + k] =
          [event |-> rows[k].event, subject |-> rows[k].subject, call |-> c, prev |-> head]
    BY WrittenLines
  <2> HIDE DEF head
  <2> QED
    BY <2>1
<1> HIDE DEF n
<1>5. \A i \in About(a, events)' : i \in About(a, events) \/ \E k \in Told(rows, a, events) : i = n + k
  <2> SUFFICES ASSUME NEW i \in About(a, events)'
               PROVE  i \in About(a, events) \/ \E k \in Told(rows, a, events) : i = n + k
    OBVIOUS
  <2>1. i \in 1 .. n + Len(rows) /\ receipts'[i].subject = a /\ receipts'[i].event \in events
    BY <1>3 DEF About
  <2>2. CASE i \in 1 .. n
    BY <1>1, <1>2, <2>1, <2>2 DEF About
  <2>3. CASE i \notin 1 .. n
    <3>1. i - n \in 1 .. Len(rows) /\ i = n + (i - n)
      BY <1>1, <2>1, <2>3
    <3>2. rows[i - n].subject = a /\ rows[i - n].event \in events
      BY <1>4, <2>1, <3>1
    <3> QED
      BY <3>1, <3>2 DEF Told
  <2> QED
    BY <2>2, <2>3
<1>6. \A i \in About(a, events) : i \in About(a, events)'
  BY <1>1, <1>2, <1>3 DEF About
<1>7. \A k \in Told(rows, a, events) : n + k \in About(a, events)'
  <2> SUFFICES ASSUME NEW k \in Told(rows, a, events) PROVE n + k \in About(a, events)'
    OBVIOUS
  <2>1. k \in 1 .. Len(rows) /\ rows[k].subject = a /\ rows[k].event \in events
    BY DEF Told
  <2>2. n + k \in DOMAIN receipts'
    BY <1>1, <1>3, <2>1
  <2> QED
    BY <1>4, <2>1, <2>2 DEF About
<1> QED
  BY <1>5, <1>6, <1>7 DEF n

\* Lines that tell nothing of a leave the record about it as it is.
LEMMA ToldNothing ==
  ASSUME Typed, NEW c \in Calls, NEW rows \in Seq(Events), NEW files, NEW new,
         Write(c, rows, files, new), NEW a, NEW events, Told(rows, a, events) = {}
  PROVE  About(a, events)' = About(a, events)
<1>1. {Len(receipts) + k : k \in Told(rows, a, events)} = {}
  OBVIOUS
<1>2. About(a, events)' = About(a, events) \cup {Len(receipts) + k : k \in Told(rows, a, events)}
  BY AboutAfter
<1> QED
  BY <1>1, <1>2, Zenon

\* One line about a adds one to the record about it, after all the others.
LEMMA ToldOnce ==
  ASSUME Typed, NEW c \in Calls, NEW rows \in Seq(Events), NEW files, NEW new,
         Write(c, rows, files, new), NEW a, NEW events, NEW k, Told(rows, a, events) = {k}
  PROVE  /\ About(a, events)' = About(a, events) \cup {Len(receipts) + k}
         /\ Len(receipts) + k \in Nat /\ \A i \in About(a, events) : i < Len(receipts) + k
         /\ Cardinality(About(a, events)') = Cardinality(About(a, events)) + 1
<1>1. About(a, events)' = About(a, events) \cup {Len(receipts) + k}
  <2>1. {Len(receipts) + j : j \in {k}} = {Len(receipts) + k}
    OBVIOUS
  <2> QED
    BY <2>1, AboutAfter
<1>2. k \in 1 .. Len(rows) /\ Len(rows) \in Nat /\ Len(receipts) \in Nat
  BY DEF Told, Typed
<1>3. About(a, events) \subseteq 1 .. Len(receipts) /\ IsFiniteSet(About(a, events))
  BY AboutFinite
<1>4. Len(receipts) + k \in Nat /\ \A i \in About(a, events) : i < Len(receipts) + k
  BY <1>2, <1>3
<1>5. Len(receipts) + k \notin About(a, events)
  BY <1>2, <1>3
<1>6. Cardinality(About(a, events) \cup {Len(receipts) + k}) = Cardinality(About(a, events)) + 1
  BY <1>3, <1>5, FS_AddElement
<1> QED
  BY <1>1, <1>4, <1>6

\* What is told of one line: it, or nothing.
LEMMA ToldOfOne ==
  ASSUME NEW x, NEW a, NEW events
  PROVE  Told(<<x>>, a, events) = IF x.subject = a /\ x.event \in events THEN {1} ELSE {}
BY DEF Told

-----------------------------------------------------------------------------
(* The steps that write *)

\* Call c writes no file and receipts nothing but verdicts and executions.
Quiet(c) ==
  \E new : \E rows \in Seq(Events) :
    /\ Write(c, rows, {}, new) /\ new.switches = gov[c].switches
    /\ \A k \in 1 .. Len(rows) : rows[k].event \in {"call_denied", "call_gated", "call_allowed", "executed"}

Outcomes == {"approved", "rejected", "incident"}

\* Call c records an outcome of agent a, on its own or behind the verdict it is about.
JudgesWith(c, a, o, rows) ==
  LET done == Outcome(gov[c].trust[a], a, o) IN
  /\ rows = done.lines \/ rows = <<Receipt("call_gated", a)>> \o done.lines
  /\ Write(c, rows, {"trust"}, Trusting(gov[c], a, done.trust))

Judges(c) == \E a \in Agents, o \in Outcomes : \E rows : JudgesWith(c, a, o, rows)

\* Call c turns a scope of the file f on or off.
TurnsWith(c, f, scope, event, new) ==
  /\ Write(c, <<Receipt(event, scope)>>, {f}, Switching(gov[c], f, new))
  /\ \/ event = TurnedOn[f] /\ new = gov[c].switches[f] \cup {scope}
     \/ event = TurnedOff[f] /\ new = gov[c].switches[f] \ {scope}

Turns(c) ==
  \E f \in DOMAIN Scopes : \E scope \in Scopes[f] : \E event, new : TurnsWith(c, f, scope, event, new)

\* Every write is one of these.
LEMMA KindsOfWrite ==
  ASSUME Typed, NEW c \in Calls, Authorize(c) \/ Switch(c) \/ Review(c) \/ (c \in Requests /\ Reply(c))
  PROVE  Quiet(c) \/ Judges(c) \/ Turns(c)
<1>1. CASE Authorize(c)
  <2>1. PICK a \in Agents, op \in Ops, granted \in BOOLEAN : Authorizes(c, a, op, granted)
    BY <1>1, AuthorizeUnfolds
  <2> DEFINE v == Verdict(gov[c], a, op.action)
             o == Outcome(gov[c].trust[a], a, "approved")
  <2>2. Write(c, <<Receipt(v, a)>> \o (IF granted THEN o.lines ELSE <<>>),
              IF granted THEN {"trust"} ELSE {},
              IF granted THEN Trusting(gov[c], a, o.trust) ELSE gov[c])
    BY <2>1 DEF Authorizes, AuthorizeWrites
  <2>3. CASE granted
    <3>1. v = "call_gated"
      BY <2>1, <2>3 DEF Authorizes
    <3>2. Write(c, <<Receipt("call_gated", a)>> \o o.lines, {"trust"}, Trusting(gov[c], a, o.trust))
      BY <2>2, <2>3, <3>1
    <3>3. JudgesWith(c, a, "approved", <<Receipt("call_gated", a)>> \o o.lines)
      BY <3>2, Zenon DEF JudgesWith
    <3> QED
      BY <3>3, Zenon DEF Judges, Outcomes
  <2>4. CASE ~granted
    <3>1. v \in {"call_denied", "call_gated", "call_allowed"}
      BY DEF Verdict
    <3>2. Receipt(v, a) \in Events /\ Receipt(v, a).event = v
      BY <3>1, ReceiptIsEvent DEF Names, Subjects
    <3> HIDE DEF v
    <3>3. <<Receipt(v, a)>> \o <<>> = <<Receipt(v, a)>> /\ <<Receipt(v, a)>> \in Seq(Events)
      BY <3>2
    <3>4. Write(c, <<Receipt(v, a)>>, {}, gov[c])
      BY <2>2, <2>4, <3>3
    <3>5. \A k \in 1 .. Len(<<Receipt(v, a)>>) :
            <<Receipt(v, a)>>[k].event \in {"call_denied", "call_gated", "call_allowed", "executed"}
      BY <3>1, <3>2
    <3> QED
      BY <3>3, <3>4, <3>5, Zenon DEF Quiet
  <2> QED
    BY <2>3, <2>4
<1>2. CASE Switch(c)
  <2>0. PICK f \in DOMAIN Scopes : \E scope \in Scopes[f] :
          \/ Write(c, <<Receipt(TurnedOn[f], scope)>>, {f}, Switching(gov[c], f, gov[c].switches[f] \cup {scope}))
          \/ Write(c, <<Receipt(TurnedOff[f], scope)>>, {f}, Switching(gov[c], f, gov[c].switches[f] \ {scope}))
    BY <1>2 DEF Switch
  <2>1. PICK scope \in Scopes[f] :
          \/ Write(c, <<Receipt(TurnedOn[f], scope)>>, {f}, Switching(gov[c], f, gov[c].switches[f] \cup {scope}))
          \/ Write(c, <<Receipt(TurnedOff[f], scope)>>, {f}, Switching(gov[c], f, gov[c].switches[f] \ {scope}))
    BY <2>0
  <2>2. \E event, new : TurnsWith(c, f, scope, event, new)
    BY <2>1, Zenon DEF TurnsWith
  <2> QED
    BY <2>2 DEF Turns
<1>3. CASE Review(c)
  <2>1. PICK a \in Agents, o \in {"rejected", "incident"} :
          LET done == Outcome(gov[c].trust[a], a, o)
          IN Write(c, done.lines, {"trust"}, Trusting(gov[c], a, done.trust))
    BY <1>3 DEF Review
  <2>2. JudgesWith(c, a, o, Outcome(gov[c].trust[a], a, o).lines)
    BY <2>1, Zenon DEF JudgesWith
  <2>3. o \in Outcomes
    BY DEF Outcomes
  <2> QED
    BY <2>2, <2>3, Zenon DEF Judges
<1>4. CASE c \in Requests /\ Reply(c)
  <2> DEFINE e == Receipt("executed", req[c].agent)
             rows == IF req[c].gated THEN <<>> ELSE <<e>>
  <2>1. Write(c, rows, {}, gov[c])
    BY <1>4 DEF Reply
  <2>2. e \in Events /\ e.event = "executed"
    BY <1>4, ReceiptIsEvent DEF Reply, Typed, Names, Subjects
  <2> HIDE DEF e
  <2>3. rows \in Seq(Events)
        /\ \A k \in 1 .. Len(rows) : rows[k].event \in {"call_denied", "call_gated", "call_allowed", "executed"}
    BY <2>2
  <2> HIDE DEF rows
  <2> QED
    BY <2>1, <2>3, Zenon DEF Quiet
<1> QED
  BY <1>1, <1>2, <1>3, <1>4
-----------------------------------------------------------------------------
(* The files follow the receipts *)

\* An agent's record t is earned by so many approvals and promotions, and by incidents or none.
EarnedBy(t, approvals, promotions, incident) ==
  /\ t.level = 1 <=> incident
  /\ t.level # 1 => promotions = t.level - 2
  /\ approvals >= t.streak + (IF t.level > 2 THEN PromoteAfter[2] ELSE 0)
                           + (IF t.level = 4 THEN PromoteAfter[3] ELSE 0)

\* What is recorded of an agent keeps its record earned.
LEMMA EarnedOn ==
  ASSUME NEW t \in Trust, NEW n \in Nat, NEW m \in Nat, NEW i \in BOOLEAN, EarnedBy(t, n, m, i)
  PROVE  /\ EarnedBy(Approved(t), n + 1, IF Earned(t) THEN m + 1 ELSE m, i)
         /\ EarnedBy(Rejected(t), n, m, i)
         /\ EarnedBy(Demoted(t), n, m, TRUE)
<1>1. /\ PromoteAfter[2] \in Nat \ {0} /\ PromoteAfter[3] \in Nat \ {0} /\ DOMAIN PromoteAfter = {2, 3}
      /\ t.level \in 1 .. 4 /\ t.streak \in Nat
  BY GovernanceAssumption DEF Trust
<1>2. CASE Earned(t)
  <2>1. Approved(t).level = t.level + 1 /\ Approved(t).streak = 0
    BY <1>2 DEF Approved
  <2>2. t.level \in {2, 3} /\ t.streak + 1 >= PromoteAfter[t.level]
    BY <1>1, <1>2 DEF Earned
  <2>3. EarnedBy(Approved(t), n + 1, m + 1, i)
    <3>1. CASE t.level = 2
      BY <1>1, <2>1, <2>2, <3>1 DEF EarnedBy
    <3>2. CASE t.level = 3
      BY <1>1, <2>1, <2>2, <3>2 DEF EarnedBy
    <3> QED
      BY <2>2, <3>1, <3>2
  <2> QED
    BY <1>1, <1>2, <2>3 DEF EarnedBy, Rejected, Demoted
<1>3. CASE ~Earned(t)
  <2>1. Approved(t).level = t.level /\ Approved(t).streak = t.streak + 1
    BY <1>3 DEF Approved
  <2>2. EarnedBy(Approved(t), n + 1, m, i)
    BY <1>1, <2>1 DEF EarnedBy
  <2> QED
    BY <1>1, <1>3, <2>2 DEF EarnedBy, Rejected, Demoted
<1> QED
  BY <1>2, <1>3

\* A verdict in front of the lines changes nothing of what they tell of other events.
LEMMA VerdictInFront ==
  ASSUME NEW x \in Events, NEW l \in Seq(Events)
  PROVE  /\ <<x>> \o l \in Seq(Events) /\ Len(<<x>> \o l) = Len(l) + 1 /\ (<<x>> \o l)[1] = x
         /\ \A k \in 1 .. Len(l) : (<<x>> \o l)[k + 1] = l[k]
         /\ \A a, events : x.event \notin events =>
              /\ \A k : Told(l, a, events) = {k} => Told(<<x>> \o l, a, events) = {k + 1}
              /\ Told(l, a, events) = {} => Told(<<x>> \o l, a, events) = {}
<1> DEFINE m == <<x>> \o l
<1>1. /\ m \in Seq(Events) /\ Len(m) = Len(l) + 1 /\ m[1] = x
      /\ \A k \in 1 .. Len(l) : m[k + 1] = l[k]
  OBVIOUS
<1>2. Len(l) \in Nat
  OBVIOUS
<1> HIDE DEF m
<1>3. ASSUME NEW a, NEW events, x.event \notin events
      PROVE  /\ \A k \in Told(l, a, events) : k + 1 \in Told(m, a, events)
             /\ \A k \in Told(m, a, events) : k \in Int /\ k - 1 \in Told(l, a, events)
  <2>1. ASSUME NEW k \in Told(l, a, events) PROVE k + 1 \in Told(m, a, events)
    <3>1. k \in 1 .. Len(l) /\ l[k].subject = a /\ l[k].event \in events
      BY DEF Told
    <3>2. k + 1 \in 1 .. Len(m) /\ m[k + 1] = l[k]
      BY <1>1, <1>2, <3>1
    <3> QED
      BY <3>1, <3>2 DEF Told
  <2>2. ASSUME NEW k \in Told(m, a, events) PROVE k \in Int /\ k - 1 \in Told(l, a, events)
    <3>1. k \in 1 .. Len(m) /\ m[k].subject = a /\ m[k].event \in events
      BY DEF Told
    <3>2. k # 1
      BY <1>1, <1>3, <3>1
    <3>3. k - 1 \in 1 .. Len(l) /\ (k - 1) + 1 = k
      BY <1>1, <1>2, <3>1, <3>2
    <3>4. m[k] = l[k - 1]
      BY <1>1, <3>3
    <3> QED
      BY <3>1, <3>3, <3>4 DEF Told
  <2> QED
    BY <2>1, <2>2
<1>4. ASSUME NEW a, NEW events, x.event \notin events, Told(l, a, events) = {}
      PROVE  Told(m, a, events) = {}
  BY <1>3, <1>4
<1>5. ASSUME NEW a, NEW events, x.event \notin events, NEW k, Told(l, a, events) = {k}
      PROVE  Told(m, a, events) = {k + 1}
  <2>1. k + 1 \in Told(m, a, events)
    BY <1>3, <1>5
  <2>2. \A j \in Told(m, a, events) : j \in Int /\ j - 1 = k
    BY <1>3, <1>5
  <2>3. \A j \in Told(m, a, events) : j = k + 1
    BY <2>2
  <2> QED
    BY <2>1, <2>3
<1> QED
  BY <1>1, <1>4, <1>5 DEF m

\* What the lines tell of agent a when outcome o is recorded of its record t: of an approval
\* one approval and, if it was earned, one promotion; of an incident one incident; and of
\* nobody else anything.
Tells(rows, t, a, o) ==
  /\ rows \in Seq(Events)
  /\ \A k \in 1 .. Len(rows) : /\ rows[k].subject = a
                                /\ rows[k].event \in {"call_gated", "promoted", "approved", "rejected",
                                                       "demoted", "incident"}
  /\ o = "approved" => /\ \E k : Told(rows, a, {"approved"}) = {k}
                       /\ Earned(t) => \E k : Told(rows, a, {"promoted"}) = {k}
                       /\ ~Earned(t) => Told(rows, a, {"promoted"}) = {}
  /\ o # "approved" => Told(rows, a, {"approved"}) = {} /\ Told(rows, a, {"promoted"}) = {}
  /\ o # "incident" => Told(rows, a, {"incident"}) = {}
  /\ o = "incident" => \E k : Told(rows, a, {"incident"}) = {k}

\* The lines of record_outcome tell that.
LEMMA OutcomeLines ==
  ASSUME NEW t \in Trust, NEW a \in Agents, NEW o \in Outcomes
  PROVE  Tells(Outcome(t, a, o).lines, t, a, o)
<1> DEFINE R(e) == Receipt(e, a)
           l == Outcome(t, a, o).lines
<1>1. \A e \in Names : R(e) \in Events /\ R(e).event = e /\ R(e).subject = a
  BY ReceiptIsEvent DEF Receipt, Subjects
<1>2. R("promoted") \in Events /\ R("approved") \in Events
      /\ R("rejected") \in Events /\ R("demoted") \in Events /\ R("incident") \in Events
  BY <1>1 DEF Names
<1>3. \A e \in {"promoted", "approved", "rejected", "demoted", "incident"} :
        R(e).event = e /\ R(e).subject = a
  BY <1>1 DEF Names
<1>4. /\ o = "approved" /\ Earned(t) => l = <<R("promoted"), R("approved")>>
      /\ o = "approved" /\ ~Earned(t) => l = <<R("approved")>>
      /\ o = "rejected" => l = <<R("rejected")>>
      /\ o = "incident" => l = <<R("demoted"), R("incident")>>
  BY DEF Outcome
<1> HIDE DEF R, l
<1>5. CASE o = "approved" /\ Earned(t)
  <2>1. l = <<R("promoted"), R("approved")>>
    BY <1>4, <1>5
  <2>2. Told(l, a, {"approved"}) = {2} /\ Told(l, a, {"promoted"}) = {1} /\ Told(l, a, {"incident"}) = {}
    BY <1>3, <2>1 DEF Told
  <2>3. l \in Seq(Events) /\ \A k \in 1 .. Len(l) : l[k] \in {R("promoted"), R("approved")}
    BY <1>2, <2>1
  <2> QED
    BY <1>3, <1>5, <2>2, <2>3 DEF Tells, l
<1>6. CASE o = "approved" /\ ~Earned(t)
  <2>1. l = <<R("approved")>>
    BY <1>4, <1>6
  <2>2. Told(l, a, {"approved"}) = {1} /\ Told(l, a, {"promoted"}) = {} /\ Told(l, a, {"incident"}) = {}
    BY <1>3, <2>1 DEF Told
  <2>3. l \in Seq(Events) /\ \A k \in 1 .. Len(l) : l[k] \in {R("approved")}
    BY <1>2, <2>1
  <2> QED
    BY <1>3, <1>6, <2>2, <2>3 DEF Tells, l
<1>7. CASE o = "rejected"
  <2>1. l = <<R("rejected")>>
    BY <1>4, <1>7
  <2>2. Told(l, a, {"approved"}) = {} /\ Told(l, a, {"promoted"}) = {} /\ Told(l, a, {"incident"}) = {}
    BY <1>3, <2>1 DEF Told
  <2>3. l \in Seq(Events) /\ \A k \in 1 .. Len(l) : l[k] \in {R("rejected")}
    BY <1>2, <2>1
  <2> QED
    BY <1>3, <1>7, <2>2, <2>3 DEF Tells, l
<1>8. CASE o = "incident"
  <2>1. l = <<R("demoted"), R("incident")>>
    BY <1>4, <1>8
  <2>2. Told(l, a, {"approved"}) = {} /\ Told(l, a, {"promoted"}) = {} /\ Told(l, a, {"incident"}) = {2}
    BY <1>3, <2>1 DEF Told
  <2>3. l \in Seq(Events) /\ \A k \in 1 .. Len(l) : l[k] \in {R("demoted"), R("incident")}
    BY <1>2, <2>1
  <2> QED
    BY <1>3, <1>8, <2>2, <2>3 DEF Tells, l
<1> QED
  BY <1>5, <1>6, <1>7, <1>8 DEF Outcomes

\* And behind the verdict they are about they tell the same.
LEMMA JudgedLines ==
  ASSUME NEW t \in Trust, NEW a \in Agents, NEW o \in Outcomes, NEW rows,
         rows = Outcome(t, a, o).lines \/ rows = <<Receipt("call_gated", a)>> \o Outcome(t, a, o).lines
  PROVE  Tells(rows, t, a, o)
<1> DEFINE x == Receipt("call_gated", a)
           l == Outcome(t, a, o).lines
<1>1. Tells(l, t, a, o)
  BY OutcomeLines
<1>2. x \in Events /\ x.event = "call_gated" /\ x.subject = a
  BY ReceiptIsEvent DEF Names, Subjects, Receipt
<1> HIDE DEF x, l
<1>3. l \in Seq(Events)
  BY <1>1 DEF Tells
<1>4. CASE rows = l
  BY <1>1, <1>4
<1>5. CASE rows = <<x>> \o l
  <2>1. /\ rows \in Seq(Events) /\ Len(rows) = Len(l) + 1 /\ rows[1] = x
        /\ \A k \in 1 .. Len(l) : rows[k + 1] = l[k]
    BY <1>2, <1>3, <1>5, VerdictInFront
  <2>2. \A e \in {"approved", "promoted", "incident"} :
          /\ \A k : Told(l, a, {e}) = {k} => Told(rows, a, {e}) = {k + 1}
          /\ Told(l, a, {e}) = {} => Told(rows, a, {e}) = {}
    BY <1>2, <1>3, <1>5, VerdictInFront
  <2>3. ASSUME NEW k \in 1 .. Len(rows)
        PROVE  /\ rows[k].subject = a
               /\ rows[k].event \in {"call_gated", "promoted", "approved", "rejected", "demoted", "incident"}
    <3>1. CASE k = 1
      BY <1>2, <2>1, <3>1
    <3>2. CASE k # 1
      <4>1. k - 1 \in 1 .. Len(l) /\ (k - 1) + 1 = k
        BY <1>3, <2>1, <3>2
      <4>2. rows[k] = l[k - 1]
        BY <2>1, <4>1
      <4> QED
        BY <1>1, <4>1, <4>2 DEF Tells
    <3> QED
      BY <3>1, <3>2
  <2>4. o = "approved" => /\ \E k : Told(rows, a, {"approved"}) = {k}
                          /\ Earned(t) => \E k : Told(rows, a, {"promoted"}) = {k}
                          /\ ~Earned(t) => Told(rows, a, {"promoted"}) = {}
    BY <1>1, <2>2 DEF Tells
  <2>5. /\ o # "approved" => Told(rows, a, {"approved"}) = {} /\ Told(rows, a, {"promoted"}) = {}
        /\ o # "incident" => Told(rows, a, {"incident"}) = {}
        /\ o = "incident" => \E k : Told(rows, a, {"incident"}) = {k}
    BY <1>1, <2>2 DEF Tells
  <2> QED
    BY <2>1, <2>3, <2>4, <2>5 DEF Tells
<1> QED
  BY <1>4, <1>5 DEF x, l
\* An agent's record is what the receipts about the agent earn it.
Tally(a) ==
  EarnedBy(trust[a], Cardinality(About(a, {"approved"})), Cardinality(About(a, {"promoted"})),
           About(a, {"incident"}) # {})

TrustInv == "trust" \notin stale => \A a \in Agents : Tally(a)

\* The files of switches, in the registry and in every Governor, are two.
SwitchTypes == DOMAIN switches = DOMAIN Scopes /\ \A c \in Calls : DOMAIN gov[c].switches = DOMAIN Scopes

\* The clicks on a scope, and that the last of them made the file what it is.
ClicksOn(f, scope) == About(scope, {TurnedOn[f], TurnedOff[f]})
LastClickTold(f, scope) ==
  \/ ClicksOn(f, scope) = {} /\ scope \notin switches[f]
  \/ \E m \in ClicksOn(f, scope) :
       /\ \A i \in ClicksOn(f, scope) : i <= m
       /\ scope \in switches[f] <=> receipts[m].event = TurnedOn[f]

SwitchInv == \A f \in DOMAIN Scopes : f \notin stale => \A scope \in Scopes[f] : LastClickTold(f, scope)

FollowInv == TrustInv /\ SwitchTypes /\ SwitchInv

\* A file that is not stale after a write was written from what it said, or not at all.
LEMMA NotStale ==
  ASSUME NEW c, NEW rows, NEW files \in SUBSET Files, NEW new, Write(c, rows, files, new),
         NEW f \in Files, f \notin stale'
  PROVE  /\ f \notin stale
         /\ f \in files /\ f = "trust" => gov[c].trust = trust
         /\ f \in files /\ f # "trust" => gov[c].switches[f] = switches[f]
<1>1. stale' = stale \cup {k \in files \cup (IF rows = <<>> THEN {} ELSE {"receipts"}) :
                            CASE k = "receipts" -> gov[c].prev # LastHash
                              [] k = "trust" -> gov[c].trust # trust
                              [] OTHER -> gov[c].switches[k] # switches[k]}
  BY DEF Write
<1>2. f # "receipts"
  BY DEF Files
<1> QED
  BY <1>1, <1>2

\* A write that tells of no click leaves the switches following the clicks.
LEMMA NoClick ==
  ASSUME Typed, SwitchInv, SwitchTypes, NEW c \in Calls, NEW rows \in Seq(Events), NEW files \in SUBSET Files, NEW new,
         Write(c, rows, files, new),
         NEW f \in DOMAIN Scopes, f \notin stale', f \notin files, NEW scope \in Scopes[f],
         Told(rows, scope, {TurnedOn[f], TurnedOff[f]}) = {}
  PROVE  LastClickTold(f, scope)'
<1>1. f \in Files
  BY DEF Files, Scopes
<1>2. LastClickTold(f, scope)
  BY <1>1, NotStale DEF SwitchInv
<1>3. ClicksOn(f, scope)' = ClicksOn(f, scope)
  BY ToldNothing DEF ClicksOn, TurnedOn, TurnedOff
<1>4. switches'[f] = switches[f]
  BY DEF Write, SwitchTypes
<1>5. \A m \in ClicksOn(f, scope) : receipts'[m] = receipts[m]
  <2>1. ClicksOn(f, scope) \subseteq 1 .. Len(receipts)
    BY AboutFinite DEF ClicksOn
  <2> QED
    BY <2>1, WrittenLines
<1> QED
  BY <1>2, <1>3, <1>4, <1>5 DEF LastClickTold

\* A write that tells of no outcome leaves the records earned.
LEMMA NoOutcome ==
  ASSUME Typed, TrustInv, NEW c \in Calls, NEW rows \in Seq(Events), NEW files \in SUBSET Files, NEW new,
         Write(c, rows, files, new), "trust" \notin files,
         \A a \in Agents, e \in {"approved", "promoted", "incident"} : Told(rows, a, {e}) = {}
  PROVE  TrustInv'
<1> SUFFICES ASSUME "trust" \notin stale', NEW a \in Agents PROVE Tally(a)'
  BY DEF TrustInv
<1>1. Tally(a)
  BY NotStale DEF TrustInv, Files
<1>2. trust' = trust
  BY DEF Write
<1>3. \A e \in {"approved", "promoted", "incident"} : About(a, {e})' = About(a, {e})
  BY ToldNothing
<1>4. About(a, {"approved"})' = About(a, {"approved"}) /\ About(a, {"promoted"})' = About(a, {"promoted"})
      /\ About(a, {"incident"})' = About(a, {"incident"})
  BY <1>3
<1> QED
  BY <1>1, <1>2, <1>4 DEF Tally

\* A write leaves the files of switches what they are, if what is written has them.
LEMMA SwitchesTyped ==
  ASSUME Typed, SwitchTypes, NEW c \in Calls, NEW rows, NEW files, NEW new, Write(c, rows, files, new),
         DOMAIN new.switches = DOMAIN Scopes
  PROVE  SwitchTypes'
<1>1. DOMAIN switches' = DOMAIN Scopes
  BY DEF Write, SwitchTypes
<1> DEFINE g == [prev |-> IF rows = <<>> THEN gov[c].prev ELSE LastHash + Len(rows),
                 trust |-> new.trust, switches |-> new.switches]
<1>2. gov' = [gov EXCEPT ![c] = g] /\ g.switches = new.switches
  BY DEF Write
<1> HIDE DEF g
<1>3. \A k \in Calls : DOMAIN gov'[k].switches = DOMAIN Scopes
  BY <1>2 DEF SwitchTypes, Typed
<1>4. DOMAIN Scopes' = DOMAIN Scopes
  BY DEF Scopes
<1> QED
  BY <1>1, <1>3, <1>4 DEF SwitchTypes

\* A quiet write keeps the files following the receipts.
LEMMA QuietFollows ==
  ASSUME Typed, FollowInv, NEW c \in Calls, Quiet(c)
  PROVE  FollowInv'
<1>1a. PICK new : \E rows \in Seq(Events) :
        /\ Write(c, rows, {}, new) /\ new.switches = gov[c].switches
        /\ \A k \in 1 .. Len(rows) : rows[k].event \in {"call_denied", "call_gated", "call_allowed", "executed"}
  BY DEF Quiet
<1>1. PICK rows \in Seq(Events) :
        /\ Write(c, rows, {}, new) /\ new.switches = gov[c].switches
        /\ \A k \in 1 .. Len(rows) : rows[k].event \in {"call_denied", "call_gated", "call_allowed", "executed"}
  BY <1>1a
<1>2. \A a, events : events \cap {"call_denied", "call_gated", "call_allowed", "executed"} = {}
                       => Told(rows, a, events) = {}
  BY <1>1 DEF Told
<1>3. TrustInv'
  <2>1. \A a \in Agents, e \in {"approved", "promoted", "incident"} : Told(rows, a, {e}) = {}
    BY <1>2
  <2> QED
    BY <1>1, <2>1, NoOutcome DEF FollowInv
<1>4. SwitchTypes'
  BY <1>1, SwitchesTyped DEF FollowInv, SwitchTypes
<1>5. SwitchInv'
  <2> SUFFICES ASSUME NEW f \in DOMAIN Scopes, f \notin stale', NEW scope \in Scopes[f]
               PROVE  LastClickTold(f, scope)'
    BY DEF SwitchInv, Scopes
  <2>1. Told(rows, scope, {TurnedOn[f], TurnedOff[f]}) = {}
    <3>1. {TurnedOn[f], TurnedOff[f]} \cap {"call_denied", "call_gated", "call_allowed", "executed"} = {}
      BY DEF Scopes, TurnedOn, TurnedOff
    <3> QED
      BY <1>2, <3>1
  <2> QED
    BY <1>1, <2>1, NoClick DEF FollowInv
<1> QED
  BY <1>3, <1>4, <1>5 DEF FollowInv

\* A recorded outcome keeps the files following the receipts.
LEMMA JudgesFollows ==
  ASSUME Typed, FollowInv, NEW c \in Calls, Judges(c)
  PROVE  FollowInv'
<1>1a. PICK a \in Agents, o \in Outcomes : \E rows : JudgesWith(c, a, o, rows)
  BY DEF Judges
<1>1. PICK rows : JudgesWith(c, a, o, rows)
  BY <1>1a
<1> DEFINE t == gov[c].trust[a]
           done == Outcome(t, a, o)
           new == Trusting(gov[c], a, done.trust)
<1>2. t \in Trust /\ gov[c].trust \in [Agents -> Trust]
  BY DEF Typed
<1>3. Write(c, rows, {"trust"}, new)
  BY <1>1 DEF JudgesWith
<1>4. Tells(rows, t, a, o)
  BY <1>1, <1>2, JudgedLines DEF JudgesWith
<1>5. new.trust = [gov[c].trust EXCEPT ![a] = done.trust] /\ new.switches = gov[c].switches
  BY DEF Trusting
<1>6. done.trust = IF o = "approved" THEN Approved(t) ELSE IF o = "rejected" THEN Rejected(t) ELSE Demoted(t)
  BY DEF Outcome, Outcomes
<1> HIDE DEF t, done, new
<1>7. rows \in Seq(Events)
  BY <1>4 DEF Tells
<1>8. TrustInv'
  <2> SUFFICES ASSUME "trust" \notin stale', NEW b \in Agents PROVE Tally(b)'
    BY DEF TrustInv
  <2>1. "trust" \notin stale /\ gov[c].trust = trust
    BY <1>3, NotStale DEF Files
  <2>2. trust' = [trust EXCEPT ![a] = done.trust]
    BY <1>3, <1>5, <2>1 DEF Write
  <2>3. Tally(b)
    BY <2>1 DEF FollowInv, TrustInv
  <2>4. CASE b # a
    <3>1. \A e \in {"approved", "promoted", "incident"} : Told(rows, b, {e}) = {}
      BY <1>4, <2>4 DEF Tells, Told
    <3>2. \A e \in {"approved", "promoted", "incident"} : About(b, {e})' = About(b, {e})
      BY <1>3, <1>7, <3>1, ToldNothing
    <3>3. About(b, {"approved"})' = About(b, {"approved"}) /\ About(b, {"promoted"})' = About(b, {"promoted"})
          /\ About(b, {"incident"})' = About(b, {"incident"})
      BY <3>2
    <3>4. trust'[b] = trust[b]
      BY <2>2, <2>4
    <3> QED
      BY <2>3, <3>3, <3>4 DEF Tally
  <2>5. CASE b = a
    <3> DEFINE n == Cardinality(About(a, {"approved"}))
               m == Cardinality(About(a, {"promoted"}))
               i == About(a, {"incident"}) # {}
    <3>1. n \in Nat /\ m \in Nat /\ i \in BOOLEAN
      BY AboutFinite
    <3>2. EarnedBy(t, n, m, i)
      BY <2>1, <2>3, <2>5 DEF Tally, t
    <3>3. trust'[a] = done.trust
      BY <2>2 DEF Typed
    <3>4. /\ EarnedBy(Approved(t), n + 1, IF Earned(t) THEN m + 1 ELSE m, i)
          /\ EarnedBy(Rejected(t), n, m, i) /\ EarnedBy(Demoted(t), n, m, TRUE)
      BY <1>2, <3>1, <3>2, EarnedOn
    <3> DEFINE n2 == Cardinality(About(a, {"approved"})')
               m2 == Cardinality(About(a, {"promoted"})')
               i2 == About(a, {"incident"})' # {}
    <3>5. \A e : Told(rows, a, {e}) = {} => About(a, {e})' = About(a, {e})
      BY <1>3, <1>7, ToldNothing
    <3>6. \A e : (\E k : Told(rows, a, {e}) = {k})
                   => /\ Cardinality(About(a, {e})') = Cardinality(About(a, {e})) + 1
                      /\ About(a, {e})' # {}
      <4>1. ASSUME NEW events, NEW k, Told(rows, a, events) = {k}
            PROVE  /\ Cardinality(About(a, events)') = Cardinality(About(a, events)) + 1
                   /\ About(a, events)' # {}
        <5>1. /\ About(a, events)' = About(a, events) \cup {Len(receipts) + k}
              /\ Cardinality(About(a, events)') = Cardinality(About(a, events)) + 1
          BY <1>3, <1>7, <4>1, ToldOnce
        <5> QED
          BY <5>1
      <4> QED
        BY <4>1, Zenon
    <3>7. n2 = IF o = "approved" THEN n + 1 ELSE n
      BY <1>4, <3>5, <3>6 DEF Tells
    <3>8. m2 = IF o = "approved" /\ Earned(t) THEN m + 1 ELSE m
      BY <1>4, <3>5, <3>6 DEF Tells
    <3>9. (o = "incident" => i2) /\ (o # "incident" => i2 = i)
      BY <1>4, <3>5, <3>6 DEF Tells
    <3> HIDE DEF n, m, i, n2, m2, i2
    <3>10. EarnedBy(done.trust, n2, m2, i2)
      <4>1. CASE o = "approved"
        BY <1>6, <3>4, <3>7, <3>8, <3>9, <4>1
      <4>2. CASE o = "rejected"
        BY <1>6, <3>4, <3>7, <3>8, <3>9, <4>2
      <4>3. CASE o = "incident"
        <5>1. i2 = TRUE
          BY <3>9, <4>3 DEF i2
        <5> QED
          BY <1>6, <3>4, <3>7, <3>8, <4>3, <5>1
      <4> QED
        BY <4>1, <4>2, <4>3 DEF Outcomes
    <3>11. EarnedBy(trust'[a], n2, m2, i2)
      BY <3>3, <3>10
    <3> QED
      BY <2>5, <3>11 DEF Tally, EarnedBy, n2, m2, i2
  <2> QED
    BY <2>4, <2>5
<1>9. SwitchTypes'
  BY <1>3, <1>5, SwitchesTyped DEF FollowInv, SwitchTypes
<1>10. SwitchInv'
  <2> SUFFICES ASSUME NEW f \in DOMAIN Scopes, f \notin stale', NEW scope \in Scopes[f]
               PROVE  LastClickTold(f, scope)'
    BY DEF SwitchInv, Scopes
  <2>1. Told(rows, scope, {TurnedOn[f], TurnedOff[f]}) = {}
    <3>1. {TurnedOn[f], TurnedOff[f]}
            \cap {"call_gated", "promoted", "approved", "rejected", "demoted", "incident"} = {}
      BY DEF Scopes, TurnedOn, TurnedOff
    <3> QED
      BY <1>4, <3>1 DEF Tells, Told
  <2>2. f \notin {"trust"} /\ {"trust"} \in SUBSET Files
    BY DEF Scopes, Files
  <2> QED
    BY <1>3, <1>7, <2>1, <2>2, NoClick DEF FollowInv
<1> QED
  BY <1>8, <1>9, <1>10 DEF FollowInv

\* A click keeps the files following the receipts.
LEMMA TurnsFollows ==
  ASSUME Typed, FollowInv, NEW c \in Calls, Turns(c)
  PROVE  FollowInv'
<1>1a. PICK f \in DOMAIN Scopes : \E scope \in Scopes[f] : \E event, s : TurnsWith(c, f, scope, event, s)
  BY DEF Turns
<1>1b. PICK scope \in Scopes[f] : \E event, s : TurnsWith(c, f, scope, event, s)
  BY <1>1a
<1>1. PICK event, s : TurnsWith(c, f, scope, event, s)
  BY <1>1b
<1> DEFINE x == Receipt(event, scope)
           new == Switching(gov[c], f, s)
<1>2. Write(c, <<x>>, {f}, new)
  BY <1>1 DEF TurnsWith
<1>3. event \in {TurnedOn[f], TurnedOff[f]} /\ event \in Names
      /\ event \notin {"approved", "promoted", "incident"} /\ TurnedOn[f] # TurnedOff[f]
  BY <1>1 DEF TurnsWith, Scopes, TurnedOn, TurnedOff, Names
<1>4. scope \in Subjects
  BY DEF Scopes, Subjects
<1>5. x \in Events /\ x.event = event /\ x.subject = scope
  BY <1>3, <1>4, ReceiptIsEvent DEF Receipt
<1>6. /\ \A k \in DOMAIN Scopes : DOMAIN new.switches = DOMAIN Scopes
      /\ new.switches[f] = s
  BY DEF Switching, FollowInv, SwitchTypes
<1> HIDE DEF x, new
<1>7. <<x>> \in Seq(Events) /\ Len(<<x>>) = 1 /\ <<x>>[1] = x
  BY <1>5
<1>8. {f} \in SUBSET Files /\ "trust" \notin {f}
  BY DEF Scopes, Files
<1>9. TrustInv'
  <2>1. \A a \in Agents, e \in {"approved", "promoted", "incident"} : Told(<<x>>, a, {e}) = {}
    BY <1>3, <1>5, ToldOfOne
  <2> QED
    BY <1>2, <1>7, <1>8, <2>1, NoOutcome DEF FollowInv
<1>10. SwitchTypes'
  BY <1>2, <1>6, SwitchesTyped DEF FollowInv
<1>11. SwitchInv'
  <2> SUFFICES ASSUME NEW h \in DOMAIN Scopes, h \notin stale', NEW z \in Scopes[h]
               PROVE  LastClickTold(h, z)'
    BY DEF SwitchInv, Scopes
  <2>1. CASE h # f
    <3>1. event \notin {TurnedOn[h], TurnedOff[h]}
      BY <1>3, <2>1 DEF Scopes, TurnedOn, TurnedOff
    <3>2. Told(<<x>>, z, {TurnedOn[h], TurnedOff[h]}) = {}
      BY <1>5, <3>1, ToldOfOne
    <3> QED
      BY <1>2, <1>7, <1>8, <2>1, <3>2, NoClick DEF FollowInv
  <2>2. CASE h = f
    <3>1. h \in Files
      BY DEF Files, Scopes
    <3>2. h \notin stale /\ gov[c].switches[f] = switches[f]
      BY <1>2, <1>8, <2>2, <3>1, NotStale
    <3>3. switches'[f] = s
      BY <1>2, <1>6 DEF Write, FollowInv, SwitchTypes
    <3>4. LastClickTold(f, z)
      BY <2>2, <3>2 DEF FollowInv, SwitchInv
    <3>5. CASE z = scope
      <4>1. Told(<<x>>, z, {TurnedOn[f], TurnedOff[f]}) = {1}
        BY <1>3, <1>5, <3>5, ToldOfOne
      <4>2. \A events : Told(<<x>>, z, events) = {1} =>
              /\ About(z, events)' = About(z, events) \cup {Len(receipts) + 1}
              /\ Len(receipts) + 1 \in Nat /\ \A i \in About(z, events) : i < Len(receipts) + 1
        <5>1. ASSUME NEW l \in Seq(Events), Write(c, l, {f}, new), NEW events, NEW k, Told(l, z, events) = {k}
              PROVE  /\ About(z, events)' = About(z, events) \cup {Len(receipts) + k}
                     /\ Len(receipts) + k \in Nat /\ \A i \in About(z, events) : i < Len(receipts) + k
          <6>1. About(z, events)' = About(z, events) \cup {Len(receipts) + k}
            BY <5>1, ToldOnce
          <6>2. Len(receipts) + k \in Nat
            BY <5>1, ToldOnce
          <6>3. \A i \in About(z, events) : i < Len(receipts) + k
            BY <5>1, ToldOnce
          <6> QED
            BY <6>1, <6>2, <6>3
        <5> QED
          BY <1>2, <1>7, <5>1, Zenon
      <4>3. receipts'[Len(receipts) + 1].event = event
        <5>1. ASSUME NEW k \in 1 .. Len(<<x>>) PROVE receipts'[Len(receipts) + k].event = <<x>>[k].event
          <6> DEFINE head == IF k = 1 THEN gov[c].prev ELSE Len(receipts) + k - 1
          <6>1. receipts'[Len(receipts) + k] =
                  [event |-> <<x>>[k].event, subject |-> <<x>>[k].subject, call |-> c, prev |-> head]
            BY <1>2, <1>7, WrittenLines
          <6> HIDE DEF head
          <6> QED
            BY <6>1
        <5>2. 1 \in 1 .. Len(<<x>>)
          BY <1>7
        <5> QED
          BY <1>5, <1>7, <5>1, <5>2
      <4>4. z \in s <=> event = TurnedOn[f]
        BY <1>1, <1>3, <3>5 DEF TurnsWith
      <4>5. ClicksOn(f, z)' = ClicksOn(f, z) \cup {Len(receipts) + 1}
        BY <4>1, <4>2 DEF ClicksOn, TurnedOn, TurnedOff
      <4>6. \A i \in ClicksOn(f, z)' : i <= Len(receipts) + 1
        <5>1. ClicksOn(f, z) \subseteq 1 .. Len(receipts) /\ Len(receipts) \in Nat
          BY AboutFinite DEF ClicksOn, Typed
        <5>2. \A i \in ClicksOn(f, z) : i <= Len(receipts) + 1
          BY <5>1
        <5> QED
          BY <4>5, <5>1, <5>2
      <4>7. z \in switches'[f] <=> receipts'[Len(receipts) + 1].event = TurnedOn[f]
        BY <3>3, <4>3, <4>4
      <4>8. \E m \in ClicksOn(f, z)' :
              (\A i \in ClicksOn(f, z)' : i <= m) /\ (z \in switches'[f] <=> receipts'[m].event = TurnedOn[f])
        <5>1. Len(receipts) + 1 \in ClicksOn(f, z)'
          BY <4>5
        <5> QED
          BY <4>6, <4>7, <5>1
      <4> QED
        BY <2>2, <4>8 DEF LastClickTold, TurnedOn
    <3>6. CASE z # scope
      <4>1. Told(<<x>>, z, {TurnedOn[f], TurnedOff[f]}) = {}
        BY <1>5, <3>6, ToldOfOne
      <4>2. ClicksOn(f, z)' = ClicksOn(f, z)
        BY <1>2, <1>7, <4>1, ToldNothing DEF ClicksOn, TurnedOn, TurnedOff
      <4>3. z \in s <=> z \in switches[f]
        BY <1>1, <3>2, <3>6 DEF TurnsWith
      <4>4. \A m \in ClicksOn(f, z) : receipts'[m] = receipts[m]
        <5>1. ClicksOn(f, z) \subseteq 1 .. Len(receipts)
          BY AboutFinite DEF ClicksOn
        <5> QED
          BY <1>2, <1>7, <5>1, WrittenLines
      <4> QED
        BY <2>2, <3>3, <3>4, <4>2, <4>3, <4>4 DEF LastClickTold, TurnedOn
    <3> QED
      BY <3>5, <3>6
  <2> QED
    BY <2>1, <2>2
<1> QED
  BY <1>9, <1>10, <1>11 DEF FollowInv

\* At the start nothing is receipted, no agent above level 2, nothing frozen, no pack active.
LEMMA FollowInit == Init => FollowInv
<1> SUFFICES ASSUME Init PROVE FollowInv
  OBVIOUS
<1>1. \A a, events : About(a, events) = {}
  BY DEF Init, About
<1>2. \A a \in Agents : trust[a].level = 2 /\ trust[a].streak = 0
  BY DEF Init, Fresh
<1>3. TrustInv
  <2>1. Cardinality({}) = 0
    BY FS_EmptySet
  <2> QED
    BY <1>1, <1>2, <2>1 DEF TrustInv, Tally, EarnedBy
<1>4. switches = [breaker |-> {}, packs |-> {}] /\ \A c \in Calls : gov[c].switches = switches
  BY DEF Init
<1>5. SwitchTypes
  BY <1>4 DEF SwitchTypes, Scopes
<1>6. SwitchInv
  BY <1>1, <1>4 DEF SwitchInv, LastClickTold, ClicksOn, Scopes
<1> QED
  BY <1>3, <1>5, <1>6 DEF FollowInv

\* Every step keeps the files following the receipts.
LEMMA FollowStep == Typed /\ FollowInv /\ [Next]_vars => FollowInv'
<1> SUFFICES ASSUME Typed, FollowInv, [Next]_vars PROVE FollowInv'
  OBVIOUS
<1>1. ASSUME NEW c \in Calls, Authorize(c) \/ Switch(c) \/ Review(c) \/ (c \in Requests /\ Reply(c))
      PROVE  FollowInv'
  BY <1>1, KindsOfWrite, QuietFollows, JudgesFollows, TurnsFollows
<1>2. ASSUME UNCHANGED <<receipts, trust, switches, stale>>, SwitchTypes'
      PROVE  FollowInv'
  <2>1. \A a, events : About(a, events)' = About(a, events)
    BY <1>2 DEF About
  <2>2. TrustInv'
    BY <1>2, <2>1 DEF FollowInv, TrustInv, Tally, EarnedBy
  <2>3. SwitchInv'
    <3> SUFFICES ASSUME NEW f \in DOMAIN Scopes, f \notin stale, NEW scope \in Scopes[f]
                 PROVE  LastClickTold(f, scope)'
      BY <1>2 DEF SwitchInv, Scopes
    <3>1. LastClickTold(f, scope)
      BY DEF FollowInv, SwitchInv
    <3>2. ClicksOn(f, scope)' = ClicksOn(f, scope)
      BY <2>1 DEF ClicksOn, TurnedOn, TurnedOff
    <3> QED
      BY <1>2, <3>1, <3>2 DEF LastClickTold, TurnedOn
  <2> QED
    BY <1>2, <2>2, <2>3 DEF FollowInv
<1>3. ASSUME NEW c \in Calls, Load(c) PROVE FollowInv'
  <2>1. UNCHANGED <<receipts, trust, switches, stale>>
    BY <1>3 DEF Load
  <2>2. SwitchTypes'
    BY <1>3 DEF Load, FollowInv, SwitchTypes, Scopes, Typed
  <2> QED
    BY <1>2, <2>1, <2>2
<1>4. ASSUME NEW r \in Requests, Forward(r) \/ CorePosts(r) \/ TimesOut(r) PROVE FollowInv'
  <2>1. UNCHANGED <<receipts, trust, switches, gov, stale>>
    BY <1>4 DEF Forward, CorePosts, TimesOut
  <2>2. SwitchTypes'
    BY <2>1 DEF FollowInv, SwitchTypes, Scopes
  <2> QED
    BY <1>2, <2>1, <2>2
<1>5. CASE UNCHANGED vars
  <2>1. UNCHANGED <<receipts, trust, switches, gov, stale>>
    BY <1>5 DEF vars, govVars
  <2>2. SwitchTypes'
    BY <2>1 DEF FollowInv, SwitchTypes, Scopes
  <2> QED
    BY <1>2, <2>1, <2>2
<1> QED
  BY <1>1, <1>3, <1>4, <1>5 DEF Next, Calls

\* The invariant is what the property says.
LEMMA FollowInvImplies == Typed /\ FollowInv => FilesFollowReceipts
<1> SUFFICES ASSUME Typed, FollowInv PROVE FilesFollowReceipts
  OBVIOUS
<1>1. ASSUME "trust" \notin stale PROVE TrustFollows
  <2> SUFFICES ASSUME NEW a \in Agents
               PROVE  /\ About(a, {"incident"}) # {} => trust[a].level = 1
                      /\ trust[a].level > 2 =>
                           Cardinality(About(a, {"approved"})) >= PromoteAfter[2] +
                             (IF trust[a].level = 4 THEN PromoteAfter[3] ELSE 0)
                      /\ trust[a].level # 1 => Cardinality(About(a, {"promoted"})) = trust[a].level - 2
    BY DEF TrustFollows
  <2>1. Tally(a)
    BY <1>1 DEF FollowInv, TrustInv
  <2>2. trust[a].streak \in Nat /\ trust[a].level \in 1 .. 4
    BY DEF Typed, Trust
  <2>3. Cardinality(About(a, {"approved"})) \in Nat
    BY AboutFinite
  <2>4. PromoteAfter[2] \in Nat /\ PromoteAfter[3] \in Nat
    BY GovernanceAssumption
  <2> QED
    BY <2>1, <2>2, <2>3, <2>4 DEF Tally, EarnedBy
<1>2. ASSUME NEW f \in DOMAIN Scopes, f \notin stale PROVE SwitchFollows(f)
  <2> SUFFICES ASSUME NEW scope \in Scopes[f]
               PROVE  scope \in switches[f] <=>
                        ClicksOn(f, scope) # {} /\ receipts[Max(ClicksOn(f, scope))].event = TurnedOn[f]
    BY DEF SwitchFollows, ClicksOn
  <2>1. LastClickTold(f, scope)
    BY <1>2 DEF FollowInv, SwitchInv
  <2>2. CASE ClicksOn(f, scope) = {}
    BY <2>1, <2>2 DEF LastClickTold
  <2>3. CASE ClicksOn(f, scope) # {}
    <3>1. PICK m \in ClicksOn(f, scope) :
            /\ \A i \in ClicksOn(f, scope) : i <= m
            /\ scope \in switches[f] <=> receipts[m].event = TurnedOn[f]
      BY <2>1, <2>3 DEF LastClickTold
    <3>2. ClicksOn(f, scope) \subseteq Nat
      <4>1. ClicksOn(f, scope) \subseteq 1 .. Len(receipts)
        BY AboutFinite DEF ClicksOn
      <4> QED
        BY <4>1
    <3> DEFINE S == ClicksOn(f, scope)
    <3> HIDE DEF S
    <3>3. m \in S /\ S \subseteq Nat /\ \A i \in S : m >= i
      BY <3>1, <3>2 DEF S
    <3>4. Max(S) \in S /\ \A i \in S : Max(S) >= i
      BY <3>3 DEF Max
    <3>5. Max(S) = m
      <4> DEFINE l == Max(S)
      <4>1. l \in Nat /\ m \in Nat /\ l >= m /\ m >= l
        BY <3>3, <3>4
      <4> HIDE DEF l
      <4>2. l = m
        BY <4>1
      <4> QED
        BY <4>2 DEF l
    <3> QED
      BY <2>3, <3>1, <3>5 DEF S
  <2> QED
    BY <2>2, <2>3
<1> QED
  BY <1>1, <1>2 DEF FilesFollowReceipts

\* For any policy, packs and thresholds and any overlap of calls: as long as no call has
\* overwritten the autonomy file from an old copy, every agent's level is the one its
\* approvals, promotions and incidents on record give it; and a file of switches nobody
\* overwrote from an old copy says of each agent, of all of them and of the pack what the
\* last click on it on record said.
THEOREM FilesFollow == Spec => []FilesFollowReceipts
<1>1. Init => Typed /\ FollowInv
  BY TypedInit, FollowInit
<1>2. Typed /\ FollowInv /\ [Next]_vars => (Typed /\ FollowInv)'
  BY TypedStep, FollowStep
<1>3. Typed /\ FollowInv => FilesFollowReceipts
  BY FollowInvImplies
<1> QED
  BY <1>1, <1>2, <1>3, PTL DEF Spec
-----------------------------------------------------------------------------
(* The loop and the core *)

\* What the handlers' reading makes of a body.
Shaped(op) ==
  /\ op.amount \in Int /\ op.kind \in OpKinds
  /\ op.kind \in {"deposit", "open"} => op.dr = Outside /\ op.cr \in Accounts
  /\ op.kind \in {"withdraw", "other"} => op.dr \in Accounts /\ op.cr = Outside
  /\ op.kind = "transfer" => op.dr \in Accounts /\ op.cr \in Accounts

\* At most one request holds the event loop, what it asks is a body of Ops, and the core
\* works on movements between accounts that exist.
LoopInv ==
  /\ \A r, q \in OnLoop : r = q
  /\ \A r \in Requests : pc[r] \in {"body", "core", "reply"} \/ r \in core => Shaped(req[r].op)
  /\ \A r \in core : req[r].op.kind \in Movements => Known(req[r].op)

\* The body of a request has the amount, kind and accounts it was sent with.
LEMMA BodyFields == ASSUME NEW op \in Ops, NEW c PROVE Shaped(Body(op, c))
<1>1. {"action", "kind", "dr", "cr", "amount"} \subseteq DOMAIN op
  BY GovernanceAssumption
<1>2. /\ Body(op, c).amount = op.amount /\ Body(op, c).kind = op.kind
      /\ Body(op, c).dr = op.dr /\ Body(op, c).cr = op.cr
  BY <1>1 DEF Body
<1> QED
  BY <1>2, OpsAssumption DEF Shaped

\* Accounts are never closed.
LEMMA AccountsStay == ASSUME NEW r \in Requests, CorePosts(r) PROVE open \subseteq open'
<1>1. EndOfDay(r) \/ Post(req[r].op) \/ UNCHANGED bank
  BY DEF CorePosts
<1> QED
  BY <1>1 DEF EndOfDay, Post, bank

\* Only one request at a time gets onto the loop, and it asks what it was authorized for.
LEMMA LoopStep == Typed /\ LoopInv /\ [Next]_vars => LoopInv'
<1> SUFFICES ASSUME Typed, LoopInv, [Next]_vars PROVE LoopInv'
  OBVIOUS
<1>0. ASSUME open \subseteq open', core' \subseteq core, \A r \in core : req'[r] = req[r]
      PROVE  \A r \in core' : (req[r].op.kind \in Movements => Known(req[r].op))'
  BY <1>0 DEF LoopInv, Known
<1>1. ASSUME NEW c \in Calls, Load(c) PROVE LoopInv'
  <2>1. pc' = [pc EXCEPT ![c] = "loaded"] /\ DOMAIN pc = Calls /\ (c \in Requests => OnLoop \subseteq {c})
        /\ UNCHANGED <<req, core, open>> /\ pc[c] = "new"
    BY <1>1 DEF Load, Typed, MayRun, bank
  <2>2. \A r, q \in OnLoop' : r = q
    BY <2>1 DEF OnLoop, LoopInv
  <2>3. \A r \in Requests : pc'[r] \in {"body", "core", "reply"} => pc'[r] = pc[r]
    BY <2>1 DEF Calls
  <2> QED
    BY <1>0, <2>1, <2>2, <2>3 DEF LoopInv
<1>2. ASSUME NEW c \in Calls, Authorize(c) PROVE LoopInv'
  <2>1. PICK a \in Agents, op \in Ops, granted \in BOOLEAN : Authorizes(c, a, op, granted)
    BY <1>2, AuthorizeUnfolds
  <2>2. req' = [req EXCEPT ![c] = [agent |-> a, op |-> Body(op, c), gated |-> granted]]
    BY <2>1 DEF Authorizes
  <2>3. DOMAIN pc = Calls /\ \E p \in {"body", "end"} : pc' = [pc EXCEPT ![c] = p]
    BY <2>1 DEF Authorizes, Typed
  <2>4. UNCHANGED <<core, open>> /\ DOMAIN req = Calls /\ pc[c] = "loaded" /\ c \notin core
    BY <1>2 DEF Authorize, Typed, bank
  <2>5. \A r, q \in OnLoop' : r = q
    BY <2>3 DEF OnLoop, LoopInv, Calls
  <2>6. \A r \in Requests : pc'[r] \in {"body", "core", "reply"} \/ r \in core' => Shaped(req'[r].op)
    <3> SUFFICES ASSUME NEW r \in Requests, pc'[r] \in {"body", "core", "reply"} \/ r \in core'
                 PROVE  Shaped(req'[r].op)
      OBVIOUS
    <3>1. CASE r = c
      <4>1. req'[r].op = Body(op, c)
        BY <2>2, <2>4, <3>1
      <4> QED
        BY <4>1, BodyFields
    <3>2. CASE r # c
      <4>1. req'[r] = req[r] /\ pc'[r] = pc[r]
        BY <2>2, <2>3, <2>4, <3>2 DEF Calls
      <4> QED
        BY <2>4, <4>1 DEF LoopInv
    <3> QED
      BY <3>1, <3>2
  <2>7. \A r \in core : req'[r] = req[r]
    BY <2>2, <2>4
  <2> QED
    BY <1>0, <2>4, <2>5, <2>6, <2>7 DEF LoopInv, Shaped
<1>3. ASSUME NEW c \in Calls, Switch(c) \/ Review(c) \/ (c \in Requests /\ Reply(c)) PROVE LoopInv'
  <2>1. pc' = [pc EXCEPT ![c] = "end"] /\ DOMAIN pc = Calls /\ UNCHANGED <<req, core, open>>
    BY <1>3 DEF Switch, Review, Reply, Typed, bank
  <2>2. \A r, q \in OnLoop' : r = q
    BY <2>1 DEF OnLoop, LoopInv, Calls
  <2>3. \A r \in Requests : pc'[r] \in {"body", "core", "reply"} => pc'[r] = pc[r]
    BY <2>1 DEF Calls
  <2> QED
    BY <1>0, <2>1, <2>2, <2>3 DEF LoopInv
<1>4. ASSUME NEW c \in Requests, Forward(c) PROVE LoopInv'
  <2>1. /\ pc[c] = "body" /\ OnLoop \subseteq {c} /\ DOMAIN pc = Calls /\ UNCHANGED <<req, open>> /\ c \in Calls
        /\ \E p \in {"core", "reply"} : pc' = [pc EXCEPT ![c] = p]
        /\ core' = core \/ (core' = core \cup {c} /\ Covered(req[c].op))
    BY <1>4 DEF Forward, MayRun, Typed, Calls, bank
  <2>2. \A r, q \in OnLoop' : r = q
    BY <2>1 DEF OnLoop
  <2>3. \A r \in Requests \ {c} : pc'[r] = pc[r]
    BY <2>1 DEF Calls
  <2>4. \A r \in core' : (req[r].op.kind \in Movements => Known(req[r].op))'
    BY <2>1 DEF LoopInv, Known, Covered
  <2> QED
    BY <2>1, <2>2, <2>3, <2>4 DEF LoopInv
<1>5. ASSUME NEW c \in Requests, CorePosts(c) \/ TimesOut(c) PROVE LoopInv'
  <2>1. /\ DOMAIN pc = Calls /\ UNCHANGED req /\ c \in Calls /\ core' \subseteq core
        /\ pc' = pc \/ \E p \in {"reply", "end"} : pc' = [pc EXCEPT ![c] = p]
        /\ pc[c] = "core" \/ c \in core
    BY <1>5 DEF CorePosts, TimesOut, Typed, Calls
  <2>2. \A r, q \in OnLoop' : r = q
    BY <2>1 DEF OnLoop, LoopInv, Calls
  <2>3. \A r \in Requests \ {c} : pc'[r] = pc[r]
    BY <2>1 DEF Calls
  <2>4. open \subseteq open'
    BY <1>5, AccountsStay DEF TimesOut, bank
  <2> QED
    BY <1>0, <2>1, <2>2, <2>3, <2>4 DEF LoopInv
<1>6. CASE UNCHANGED vars
  <2>1. UNCHANGED <<pc, req, core, open>>
    BY <1>6 DEF vars, govVars, bank
  <2> QED
    BY <1>0, <2>1 DEF LoopInv, OnLoop
<1> QED
  BY <1>1, <1>2, <1>3, <1>4, <1>5, <1>6 DEF Next, Calls

-----------------------------------------------------------------------------
(* What the core's books say *)

\* The order of the numbers is well-founded.
LEMMA LessWF == IsWellFoundedOn({ss \in Nat \X Nat : ss[1] < ss[2]}, Nat)
BY NatLessThanWellFounded, Zenon DEF OpToRel

\* A set of numbers has a least.
LEMMA Least == ASSUME NEW S \in SUBSET Nat, S # {} PROVE \E n \in S : \A m \in S : n <= m
<1>2. PICK n \in S : \A m \in S : ~(<<m, n>> \in {ss \in Nat \X Nat : ss[1] < ss[2]})
  BY LessWF, WFMin, Zenon
<1>3. ASSUME NEW m \in S PROVE n <= m
  <2>1. <<m, n>> \in Nat \X Nat /\ <<m, n>>[1] = m /\ <<m, n>>[2] = n
    OBVIOUS
  <2>2. ~(<<m, n>>[1] < <<m, n>>[2])
    BY <1>2, <2>1, Zenon
  <2> QED
    BY <2>1, <2>2
<1> QED
  BY <1>3

\* What holds of 0, and of the next number with each, holds of all.
LEMMA Induction == ASSUME NEW S, 0 \in S, \A n \in Nat : n \in S => n + 1 \in S PROVE Nat \subseteq S
<1> SUFFICES ASSUME Nat \ S # {} PROVE FALSE
  OBVIOUS
<1>1. PICK n \in Nat \ S : \A m \in Nat \ S : n <= m
  BY Least
<1>2. n # 0 /\ n - 1 \in Nat /\ n - 1 \in S
  BY <1>1
<1>3. (n - 1) + 1 \in S /\ (n - 1) + 1 = n
  BY <1>2
<1> QED
  BY <1>1, <1>3

-----------------------------------------------------------------------------
(* Sums over finite sets *)

\* Adding up the values of F, an element after the other.
Picked(s) == CHOOSE x \in s : TRUE
Sums(F, S, f) ==
  f = [s \in SUBSET S |-> IF s = {} THEN 0 ELSE F[Picked(s)] + f[s \ {Picked(s)}]]
Total(F, S) == (CHOOSE f : Sums(F, S, f))[S]

\* One of the elements is picked.
LEMMA PickedIn == ASSUME NEW s, s # {} PROVE Picked(s) \in s
BY DEF Picked

\* What is one in number, or more, has an element less without the one picked.
LEMMA OneLess ==
  ASSUME NEW s, IsFiniteSet(s), s # {}, NEW y \in s
  PROVE  IsFiniteSet(s \ {y}) /\ Cardinality(s) = Cardinality(s \ {y}) + 1 /\ Cardinality(s \ {y}) \in Nat
<1>1. IsFiniteSet(s \ {y}) /\ Cardinality(s \ {y}) = Cardinality(s) - 1
  BY FS_RemoveElement
<1>2. Cardinality(s) \in Nat /\ Cardinality(s \ {y}) \in Nat
  BY <1>1, FS_CardinalityType
<1> QED
  BY <1>1, <1>2

\* There is one way of adding up.
LEMMA SumsOnce ==
  ASSUME NEW F, NEW S, NEW T \in SUBSET S, IsFiniteSet(T), NEW f, Sums(F, S, f), NEW g, NEW R, T \in SUBSET R, Sums(F, R, g)
  PROVE  f[T] = g[T]
<1> DEFINE N == {n \in Nat : \A s \in SUBSET T : Cardinality(s) = n => f[s] = g[s]}
<1>0. \A s \in SUBSET T : IsFiniteSet(s) /\ Cardinality(s) \in Nat
  BY FS_Subset, FS_CardinalityType
<1>1. ASSUME NEW s \in SUBSET T
      PROVE  /\ f[s] = IF s = {} THEN 0 ELSE F[Picked(s)] + f[s \ {Picked(s)}]
             /\ g[s] = IF s = {} THEN 0 ELSE F[Picked(s)] + g[s \ {Picked(s)}]
  <2>1. s \in SUBSET S /\ s \in SUBSET R
    OBVIOUS
  <2> QED
    BY <2>1, Zenon DEF Sums
<1>2. 0 \in N
  <2>1. ASSUME NEW s \in SUBSET T, Cardinality(s) = 0 PROVE f[s] = g[s]
    <3>1. s = {}
      BY <1>0, <2>1, FS_EmptySet
    <3> QED
      BY <1>1, <3>1
  <2> QED
    BY <2>1
<1>3. ASSUME NEW n \in Nat, n \in N PROVE n + 1 \in N
  <2>1. ASSUME NEW s \in SUBSET T, Cardinality(s) = n + 1 PROVE f[s] = g[s]
    <3>1. s # {}
      BY <2>1, FS_EmptySet
    <3>2. Picked(s) \in s
      BY <3>1, PickedIn
    <3>3. s \ {Picked(s)} \in SUBSET T /\ Cardinality(s \ {Picked(s)}) = n
      BY <1>0, <2>1, <3>1, <3>2, OneLess
    <3>4. f[s \ {Picked(s)}] = g[s \ {Picked(s)}]
      BY <1>3, <3>3
    <3> QED
      BY <1>1, <3>1, <3>4
  <2> QED
    BY <2>1
<1> HIDE DEF N
<1>4. Nat \subseteq N
  BY <1>2, <1>3, Induction
<1>5. T \in SUBSET T /\ Cardinality(T) \in N
  BY <1>0, <1>4
<1> QED
  BY <1>5 DEF N

\* A part is added up on the way.
LEMMA SumsBelow ==
  ASSUME NEW F, NEW S, NEW f, Sums(F, S, f), NEW T \in SUBSET S
  PROVE  Sums(F, T, [s \in SUBSET T |-> f[s]])
<1> DEFINE g == [s \in SUBSET T |-> f[s]]
<1>1. ASSUME NEW s \in SUBSET T PROVE g[s] = IF s = {} THEN 0 ELSE F[Picked(s)] + g[s \ {Picked(s)}]
  <2>1. s \in SUBSET S /\ s \ {Picked(s)} \in SUBSET T
    OBVIOUS
  <2>2. f[s] = IF s = {} THEN 0 ELSE F[Picked(s)] + f[s \ {Picked(s)}]
    BY <2>1, Zenon DEF Sums
  <2> QED
    BY <2>1, <2>2
<1>2. g = [s \in SUBSET T |-> g[s]]
  OBVIOUS
<1> HIDE DEF g
<1>3. g = [s \in SUBSET T |-> IF s = {} THEN 0 ELSE F[Picked(s)] + g[s \ {Picked(s)}]]
  BY <1>1, <1>2
<1> QED
  BY <1>3 DEF Sums, g

\* What is finite can be added up.
LEMMA SumsExist == ASSUME NEW F, NEW S, IsFiniteSet(S) PROVE \E f : Sums(F, S, f)
<1> DEFINE Summed(n) == \A T \in SUBSET S : Cardinality(T) = n => \E f : Sums(F, T, f)
           N == {n \in Nat : Summed(n)}
<1>0. \A s \in SUBSET S : IsFiniteSet(s) /\ Cardinality(s) \in Nat
  BY FS_Subset, FS_CardinalityType
<1>1. 0 \in N
  <2>1. ASSUME NEW T \in SUBSET S, Cardinality(T) = 0 PROVE \E f : Sums(F, T, f)
    <3>1. T = {}
      BY <1>0, <2>1, FS_EmptySet
    <3>2. [s \in SUBSET {} |-> 0] = [s \in SUBSET {} |-> IF s = {} THEN 0
                                       ELSE F[Picked(s)] + [r \in SUBSET {} |-> 0][s \ {Picked(s)}]]
      OBVIOUS
    <3> QED
      BY <3>1, <3>2 DEF Sums
  <2> QED
    BY <2>1
<1>2. ASSUME NEW n \in Nat, n \in N PROVE n + 1 \in N
  <2>1. ASSUME NEW T \in SUBSET S, Cardinality(T) = n + 1 PROVE \E f : Sums(F, T, f)
    <3> DEFINE h(s) == CHOOSE f : Sums(F, s, f)
               g == [s \in SUBSET T |-> IF s = {} THEN 0 ELSE F[Picked(s)] + h(s \ {Picked(s)})[s \ {Picked(s)}]]
    <3>1. ASSUME NEW s \in SUBSET T, s # T PROVE Sums(F, s, h(s))
      <4>1. s \in SUBSET T /\ IsFiniteSet(T) /\ Cardinality(s) < Cardinality(T) /\ Cardinality(s) <= n
        BY <1>0, <2>1, <3>1, FS_Subset
      <4>2. PICK x \in T : x \notin s
        BY <3>1
      <4>3. IsFiniteSet(T \ {x}) /\ s \in SUBSET (T \ {x}) /\ T \ {x} \in SUBSET S /\ Cardinality(T \ {x}) = n
        <5>1. IsFiniteSet(T \ {x}) /\ Cardinality(T) = Cardinality(T \ {x}) + 1 /\ Cardinality(T \ {x}) \in Nat
          BY <4>1, <4>2, OneLess
        <5> QED
          BY <2>1, <4>1, <4>2, <5>1
      <4>4. PICK f : Sums(F, T \ {x}, f)
        BY <1>2, <4>3
      <4>5. \E f2 : Sums(F, s, f2)
        BY <4>3, <4>4, SumsBelow
      <4> QED
        BY <4>5, Zenon
    <3>2. ASSUME NEW s \in SUBSET T, s # {}
          PROVE  s \ {Picked(s)} \in SUBSET T /\ s \ {Picked(s)} # T /\ IsFiniteSet(s \ {Picked(s)})
      <4>1. Picked(s) \in s
        BY <3>2, PickedIn
      <4> QED
        BY <1>0, <4>1
    <3> HIDE DEF h
    <3>3. ASSUME NEW s \in SUBSET T, s # T PROVE g[s] = h(s)[s]
      <4>1. Sums(F, s, h(s)) /\ s \in SUBSET s
        BY <3>1, <3>3
      <4>2. h(s)[s] = IF s = {} THEN 0 ELSE F[Picked(s)] + h(s)[s \ {Picked(s)}]
        BY <4>1, Zenon DEF Sums
      <4>3. CASE s = {}
        BY <4>2, <4>3
      <4>4. CASE s # {}
        <5>1. h(s)[s \ {Picked(s)}] = h(s \ {Picked(s)})[s \ {Picked(s)}]
          <6>1. Sums(F, s \ {Picked(s)}, h(s \ {Picked(s)}))
            BY <3>1, <3>2, <4>4
          <6>2. s \ {Picked(s)} \in SUBSET s /\ s \ {Picked(s)} \in SUBSET (s \ {Picked(s)}) /\ IsFiniteSet(s \ {Picked(s)})
            BY <3>2, <4>4
          <6> QED
            BY <4>1, <6>1, <6>2, SumsOnce
        <5> QED
          BY <4>2, <4>4, <5>1
      <4> QED
        BY <4>3, <4>4
    <3>4. ASSUME NEW s \in SUBSET T PROVE g[s] = IF s = {} THEN 0 ELSE F[Picked(s)] + g[s \ {Picked(s)}]
      BY <3>2, <3>3
    <3>5. g = [s \in SUBSET T |-> g[s]]
      OBVIOUS
    <3> HIDE DEF g
    <3>6. g = [s \in SUBSET T |-> IF s = {} THEN 0 ELSE F[Picked(s)] + g[s \ {Picked(s)}]]
      BY <3>4, <3>5
    <3> QED
      BY <3>6 DEF Sums
  <2> QED
    BY <2>1
<1> HIDE DEF N
<1>3. Nat \subseteq N
  BY <1>1, <1>2, Induction
<1>4. S \in SUBSET S /\ Cardinality(S) \in N
  BY <1>0, <1>3
<1> QED
  BY <1>4 DEF N

\* The total of what is finite: nothing, or one of its values and the total of the others.
LEMMA TotalNone == ASSUME NEW F PROVE Total(F, {}) = 0
<1>1. IsFiniteSet({})
  BY FS_EmptySet
<1>2. PICK f : Sums(F, {}, f)
  BY <1>1, SumsExist
<1>3. Sums(F, {}, CHOOSE g : Sums(F, {}, g))
  BY <1>2, Zenon
<1> QED
  BY <1>3 DEF Total, Sums

\* The one that is picked.
LEMMA TotalPicked ==
  ASSUME NEW F, NEW S, IsFiniteSet(S), S # {}
  PROVE  Total(F, S) = F[Picked(S)] + Total(F, S \ {Picked(S)})
<1> DEFINE T == S \ {Picked(S)}
           f == CHOOSE h : Sums(F, S, h)
           g == CHOOSE h : Sums(F, T, h)
<1>1. Picked(S) \in S /\ T \in SUBSET S /\ T \in SUBSET T /\ S \in SUBSET S
  BY PickedIn
<1>2. IsFiniteSet(T)
  BY <1>1, OneLess
<1>3. Sums(F, S, f) /\ Sums(F, T, g)
  <2>1. (\E h : Sums(F, S, h)) /\ \E h : Sums(F, T, h)
    BY <1>2, SumsExist
  <2> QED
    BY <2>1, Zenon
<1>4. f[S] = F[Picked(S)] + f[T]
  BY <1>1, <1>3 DEF Sums
<1>5. Total(F, S) = f[S] /\ Total(F, T) = g[T]
  BY Zenon DEF Total
<1> HIDE DEF f, g
<1>6. f[T] = g[T]
  <2> HIDE DEF T
  <2> QED
    BY <1>1, <1>2, <1>3, SumsOnce
<1> QED
  BY <1>4, <1>5, <1>6

\* The total of whole numbers is one, and any of them can be taken out.
LEMMA TotalTakes ==
  ASSUME NEW F, NEW S, IsFiniteSet(S), \A x \in S : F[x] \in Int
  PROVE  Total(F, S) \in Int /\ \A y \in S : Total(F, S) = F[y] + Total(F, S \ {y})
<1> DEFINE Takes(T) == Total(F, T) \in Int /\ \A y \in T : Total(F, T) = F[y] + Total(F, T \ {y})
           N == {n \in Nat : \A T \in SUBSET S : Cardinality(T) <= n => Takes(T)}
<1>0. \A T \in SUBSET S : IsFiniteSet(T) /\ Cardinality(T) \in Nat
  BY FS_Subset, FS_CardinalityType
<1>1. 0 \in N
  <2>1. ASSUME NEW T \in SUBSET S, Cardinality(T) <= 0 PROVE Takes(T)
    <3>1. T = {}
      BY <1>0, <2>1, FS_EmptySet
    <3> QED
      BY <3>1, TotalNone
  <2> QED
    BY <2>1
<1>2. ASSUME NEW n \in Nat, n \in N PROVE n + 1 \in N
  <2>1. ASSUME NEW T \in SUBSET S, Cardinality(T) = n + 1 PROVE Takes(T)
    <3>1. PICK x \in T : x = Picked(T)
      <4>1. T # {}
        BY <2>1, FS_EmptySet
      <4> QED
        BY <4>1, PickedIn
    <3>2. Total(F, T) = F[x] + Total(F, T \ {x})
      BY <1>0, <2>1, <3>1, TotalPicked
    <3>3. ASSUME NEW y \in T
          PROVE  IsFiniteSet(T \ {y}) /\ T \ {y} \in SUBSET S /\ Cardinality(T \ {y}) = n /\ F[y] \in Int
      <4>1. IsFiniteSet(T \ {y}) /\ Cardinality(T) = Cardinality(T \ {y}) + 1 /\ Cardinality(T \ {y}) \in Nat
        BY <1>0, OneLess
      <4> QED
        BY <2>1, <4>1
    <3>4. ASSUME NEW y \in T PROVE Takes(T \ {y})
      <4>1. T \ {y} \in SUBSET S /\ Cardinality(T \ {y}) <= n
        BY <3>3
      <4> HIDE DEF Takes
      <4> QED
        BY <1>2, <4>1
    <3>5. Total(F, T) \in Int
      BY <3>2, <3>3, <3>4
    <3>6. ASSUME NEW y \in T PROVE Total(F, T) = F[y] + Total(F, T \ {y})
      <4>1. CASE y = x
        BY <3>2, <4>1
      <4>2. CASE y # x
        <5>1. Total(F, T \ {x}) = F[y] + Total(F, (T \ {x}) \ {y})
          BY <3>4, <4>2
        <5>2. Total(F, T \ {y}) = F[x] + Total(F, (T \ {y}) \ {x})
          BY <3>4, <4>2
        <5>3. PICK R : R = (T \ {x}) \ {y} /\ R = (T \ {y}) \ {x}
          OBVIOUS
        <5>4. Total(F, R) \in Int
          <6>1. R \in SUBSET S /\ R = (T \ {x}) \ {y}
            BY <5>3
          <6>2. Total(F, T \ {x}) \in Int /\ T \ {x} \in SUBSET S /\ y \in T \ {x}
            BY <3>4, <4>2
          <6>3. Cardinality(R) \in Nat /\ Cardinality(R) < n
            <7>1. IsFiniteSet(T \ {x}) /\ Cardinality(T \ {x}) = n
              BY <3>3
            <7>2. Cardinality(T \ {x}) = Cardinality(R) + 1 /\ Cardinality(R) \in Nat
              BY <6>1, <6>2, <7>1, OneLess
            <7> QED
              BY <7>1, <7>2
          <6> QED
            BY <1>2, <6>1, <6>3
        <5>5. F[x] \in Int /\ F[y] \in Int
          BY <3>3
        <5>6. Total(F, T \ {x}) = F[y] + Total(F, R) /\ Total(F, T \ {y}) = F[x] + Total(F, R)
          BY <5>1, <5>2, <5>3
        <5> QED
          BY <3>2, <5>4, <5>5, <5>6
      <4> QED
        BY <4>1, <4>2
    <3> QED
      BY <3>5, <3>6
  <2>2. ASSUME NEW T \in SUBSET S, Cardinality(T) <= n + 1, Cardinality(T) # n + 1 PROVE Takes(T)
    <3>1. Cardinality(T) \in Nat
      BY <1>0
    <3>2. Cardinality(T) <= n
      BY <2>2, <3>1
    <3> QED
      BY <1>2, <3>2
  <2> HIDE DEF Takes
  <2> QED
    BY <2>1, <2>2
<1> HIDE DEF Takes
<1>3. Nat \subseteq N
  <2> HIDE DEF N
  <2> QED
    BY <1>1, <1>2, Induction
<1>4. S \in SUBSET S /\ Cardinality(S) \in N
  BY <1>0, <1>3
<1>5. Takes(S)
  BY <1>4
<1> QED
  BY <1>5 DEF Takes

\* The same values add up to the same.
LEMMA TotalSame ==
  ASSUME NEW F, NEW G, NEW S, IsFiniteSet(S), \A x \in S : F[x] \in Int, \A x \in S : G[x] = F[x]
  PROVE  Total(G, S) = Total(F, S)
<1> DEFINE N == {n \in Nat : \A T \in SUBSET S : Cardinality(T) = n => Total(G, T) = Total(F, T)}
<1>0. \A T \in SUBSET S : IsFiniteSet(T) /\ Cardinality(T) \in Nat
  BY FS_Subset, FS_CardinalityType
<1>1. 0 \in N
  <2>1. ASSUME NEW T \in SUBSET S, Cardinality(T) = 0 PROVE Total(G, T) = Total(F, T)
    <3>1. T = {}
      BY <1>0, <2>1, FS_EmptySet
    <3> QED
      BY <3>1, TotalNone
  <2> QED
    BY <2>1
<1>2. ASSUME NEW n \in Nat, n \in N PROVE n + 1 \in N
  <2>1. ASSUME NEW T \in SUBSET S, Cardinality(T) = n + 1 PROVE Total(G, T) = Total(F, T)
    <3>1. T # {}
      BY <2>1, FS_EmptySet
    <3>2. Picked(T) \in T
      BY <3>1, PickedIn
    <3>3. Total(F, T) = F[Picked(T)] + Total(F, T \ {Picked(T)}) /\ Total(G, T) = G[Picked(T)] + Total(G, T \ {Picked(T)})
      BY <1>0, <3>1, TotalPicked
    <3>4. T \ {Picked(T)} \in SUBSET S /\ Cardinality(T \ {Picked(T)}) = n
      <4>1. Cardinality(T) = Cardinality(T \ {Picked(T)}) + 1 /\ Cardinality(T \ {Picked(T)}) \in Nat
        BY <1>0, <3>1, <3>2, OneLess
      <4> QED
        BY <2>1, <4>1
    <3>5. Total(G, T \ {Picked(T)}) = Total(F, T \ {Picked(T)})
      BY <1>2, <3>4
    <3> QED
      BY <3>2, <3>3, <3>5
  <2> QED
    BY <2>1
<1> HIDE DEF N
<1>3. Nat \subseteq N
  BY <1>1, <1>2, Induction
<1>4. S \in SUBSET S /\ Cardinality(S) \in N
  BY <1>0, <1>3
<1> QED
  BY <1>4 DEF N

-----------------------------------------------------------------------------
(* The books *)

\* What the rows in S move.
AmountOf(S) == [t \in S |-> t.amount]

\* It is the total of their amounts.
LEMMA AmountsTotal == ASSUME NEW S, IsFiniteSet(S) PROVE Amounts(S) = Total(AmountOf(S), S)
<1> DEFINE F == AmountOf(S)
           Adds(f) == f = [s \in SUBSET S |-> IF s = {} THEN 0 ELSE Picked(s).amount + f[s \ {Picked(s)}]]
<1>1. PICK f : Sums(F, S, f)
  BY SumsExist
<1>2. ASSUME NEW h PROVE Adds(h) <=> Sums(F, S, h)
  <2>1. ASSUME NEW s \in SUBSET S, s # {} PROVE Picked(s).amount = F[Picked(s)]
    <3>1. Picked(s) \in S
      BY <2>1, PickedIn
    <3> QED
      BY <3>1 DEF AmountOf
  <2> HIDE DEF F
  <2>2. [s \in SUBSET S |-> IF s = {} THEN 0 ELSE Picked(s).amount + h[s \ {Picked(s)}]]
          = [s \in SUBSET S |-> IF s = {} THEN 0 ELSE F[Picked(s)] + h[s \ {Picked(s)}]]
    BY <2>1
  <2> QED
    BY <2>2, Zenon DEF Sums
<1>3. Amounts(S) = (CHOOSE h : Adds(h))[S]
  BY Zenon DEF Amounts, MapThenSumSet, MapThenFoldSet, Picked
<1> HIDE DEF F, Adds
<1>4. Adds(CHOOSE h : Adds(h))
  BY <1>1, <1>2, Zenon
<1>5. Sums(F, S, CHOOSE h : Adds(h)) /\ Sums(F, S, CHOOSE h : Sums(F, S, h))
  BY <1>1, <1>2, <1>4, Zenon
<1>6. (CHOOSE h : Adds(h))[S] = (CHOOSE h : Sums(F, S, h))[S]
  <2>1. S \in SUBSET S
    OBVIOUS
  <2> QED
    BY <1>5, <2>1, SumsOnce
<1> QED
  BY <1>3, <1>6, Zenon DEF Total, F

\* A row more adds its amount.
LEMMA AmountsAdd ==
  ASSUME NEW S, IsFiniteSet(S), \A t \in S : t.amount \in Int
  PROVE  /\ Amounts(S) \in Int
         /\ \A x : x \notin S /\ x.amount \in Int => IsFiniteSet(S \cup {x}) /\ Amounts(S \cup {x}) = Amounts(S) + x.amount
<1>1. \A t \in S : AmountOf(S)[t] = t.amount
  BY DEF AmountOf
<1>2. Amounts(S) \in Int
  BY <1>1, AmountsTotal, TotalTakes
<1>3. ASSUME NEW x, x \notin S, x.amount \in Int
      PROVE  IsFiniteSet(S \cup {x}) /\ Amounts(S \cup {x}) = Amounts(S) + x.amount
  <2> DEFINE T == S \cup {x}
  <2>1. IsFiniteSet(T) /\ T \ {x} = S /\ x \in T
    BY <1>3, FS_AddElement
  <2>2. \A t \in T : AmountOf(T)[t] = t.amount /\ AmountOf(T)[t] \in Int
    BY <1>3 DEF AmountOf
  <2> HIDE DEF T
  <2>3. Total(AmountOf(T), T) = AmountOf(T)[x] + Total(AmountOf(T), S)
    BY <2>1, <2>2, TotalTakes
  <2>4. \A t \in S : AmountOf(T)[t] = AmountOf(S)[t] /\ AmountOf(S)[t] \in Int
    BY <1>1, <2>1, <2>2
  <2>5. Total(AmountOf(T), S) = Total(AmountOf(S), S)
    BY <2>4, TotalSame
  <2>6. Amounts(T) = Total(AmountOf(T), T) /\ Amounts(S) = Total(AmountOf(S), S)
    BY <2>1, AmountsTotal
  <2>7. Amounts(T) = x.amount + Amounts(S) /\ x.amount \in Int
    BY <1>3, <2>1, <2>2, <2>3, <2>5, <2>6
  <2>8. Amounts(T) = Amounts(S) + x.amount
    BY <1>2, <2>7
  <2> QED
    BY <2>1, <2>8 DEF T
<1> QED
  BY <1>2, <1>3

\* The rows that credit an account, and those that debit it.
Credits(a) == {t \in txns : t.cr = a}
Debits(a) == {t \in txns : t.dr = a}

\* The books: whole balances, rows without end for none, and nothing on accounts to come.
Books ==
  /\ balance \in [Accounts -> Int] /\ start \in [Accounts -> Int]
  /\ \A t \in txns : t.amount \in Int
  /\ \A a \in Accounts \ open : balance[a] = 0 /\ start[a] = 0
  /\ \A a \in Accounts : IsFiniteSet(Credits(a)) /\ IsFiniteSet(Debits(a))
  /\ BooksBalance

\* A statement is what was credited less what was debited.
LEMMA StatementIs == ASSUME NEW a PROVE Statement(a) = Amounts(Credits(a)) - Amounts(Debits(a))
BY Zenon DEF Statement, Credits, Debits

\* A posting that is not on the books yet keeps them.
LEMMA PostBooks ==
  ASSUME Books, NEW op, Shaped(op), op.kind \in Movements => Known(op), op.kind \notin {"eod", "read"},
         op \notin txns, Post(op)
  PROVE  Books'
<1>0. CASE op.kind = "open" /\ op.cr \in open
  <2>1. UNCHANGED <<balance, txns, start, open>>
    BY <1>0 DEF Post, bank
  <2>2. \A a : Credits(a)' = Credits(a) /\ Debits(a)' = Debits(a) /\ Statement(a)' = Statement(a)
    BY <2>1 DEF Credits, Debits, Statement
  <2> QED
    BY <2>1, <2>2 DEF Books, BooksBalance
<1> SUFFICES ASSUME ~(op.kind = "open" /\ op.cr \in open) PROVE Books'
  BY <1>0
<1>p. /\ balance' = Moved(op) /\ open' = open \cup ({op.cr} \ {Outside})
      /\ txns' = IF op.amount > 0 THEN txns \cup {op} ELSE txns
      /\ start' = IF op.amount > 0 THEN start ELSE [start EXCEPT ![op.cr] = op.amount]
      /\ op.amount \in Int
  BY DEF Post, Shaped
<1>q. op.amount <= 0 => op.kind = "open" /\ op.dr = Outside /\ op.cr \in Accounts \ open
  BY <1>p DEF Shaped, OpKinds, Movements, Known
<1>r. \A a \in Accounts \ open' : a # op.dr /\ a # op.cr
  <2>1. CASE op.kind \in Movements
    BY <1>p, <2>1, BankAssumption DEF Known
  <2>2. CASE op.kind = "open"
    BY <1>p, <2>2, BankAssumption DEF Shaped
  <2> QED
    BY <2>1, <2>2 DEF Shaped, OpKinds
<1>1. ASSUME NEW a \in Accounts
      PROVE  /\ balance'[a] = balance[a] - (IF a = op.dr THEN op.amount ELSE 0) + (IF a = op.cr THEN op.amount ELSE 0)
             /\ Credits(a)' = Credits(a) \cup (IF op.amount > 0 /\ op.cr = a THEN {op} ELSE {})
             /\ Debits(a)' = Debits(a) \cup (IF op.amount > 0 /\ op.dr = a THEN {op} ELSE {})
             /\ op \notin Credits(a) /\ op \notin Debits(a)
  BY <1>p DEF Moved, Credits, Debits
<1>2. /\ balance' \in [Accounts -> Int] /\ start' \in [Accounts -> Int]
      /\ \A t \in txns' : t.amount \in Int
      /\ \A a \in Accounts \ open' : balance'[a] = 0 /\ start'[a] = 0
  <2>1. \A a \in Accounts \ open' : a \notin open
    BY <1>p
  <2>2. balance' \in [Accounts -> Int]
    BY <1>p DEF Moved, Books
  <2>3. start' \in [Accounts -> Int]
    BY <1>p, <1>q DEF Books
  <2>4. \A t \in txns' : t.amount \in Int
    BY <1>p DEF Books
  <2>5. ASSUME NEW a \in Accounts \ open' PROVE balance'[a] = 0 /\ start'[a] = 0
    <3>1. balance[a] = 0 /\ start[a] = 0 /\ a # op.dr /\ a # op.cr
      BY <1>r, <2>1 DEF Books
    <3>2. balance'[a] = balance[a] - 0 + 0
      BY <1>p, <3>1 DEF Moved
    <3>3. start'[a] = start[a]
      BY <1>p, <3>1 DEF Books
    <3> QED
      BY <3>1, <3>2, <3>3
  <2> QED
    BY <2>2, <2>3, <2>4, <2>5
<1>3. ASSUME NEW a \in Accounts
      PROVE  IsFiniteSet(Credits(a)') /\ IsFiniteSet(Debits(a)') /\ balance'[a] = start'[a] + Statement(a)'
  <2>1. /\ IsFiniteSet(Credits(a)) /\ IsFiniteSet(Debits(a)) /\ balance[a] = start[a] + Statement(a)
        /\ \A t \in Credits(a) \cup Debits(a) : t.amount \in Int
    BY DEF Books, BooksBalance, Credits, Debits
  <2>2. Amounts(Credits(a)) \in Int /\ Amounts(Debits(a)) \in Int /\ start[a] \in Int /\ op.amount \in Int
    BY <1>p, <2>1, AmountsAdd DEF Books
  <2>3. /\ IsFiniteSet(Credits(a)')
        /\ Amounts(Credits(a)') = Amounts(Credits(a)) + (IF op.amount > 0 /\ op.cr = a THEN op.amount ELSE 0)
    <3>1. CASE op.amount > 0 /\ op.cr = a
      <4>1. Credits(a)' = Credits(a) \cup {op} /\ op \notin Credits(a)
        BY <1>1, <3>1
      <4>2. IsFiniteSet(Credits(a) \cup {op}) /\ Amounts(Credits(a) \cup {op}) = Amounts(Credits(a)) + op.amount
        BY <2>1, <2>2, <4>1, AmountsAdd
      <4> QED
        BY <3>1, <4>1, <4>2
    <3>2. CASE ~(op.amount > 0 /\ op.cr = a)
      <4>0. Credits(a)' = Credits(a) \cup {}
        BY <1>1, <3>2, Zenon
      <4>1. Credits(a)' = Credits(a)
        BY <4>0, Zenon
      <4> QED
        BY <2>1, <2>2, <3>2, <4>1
    <3> QED
      BY <3>1, <3>2
  <2>4. /\ IsFiniteSet(Debits(a)')
        /\ Amounts(Debits(a)') = Amounts(Debits(a)) + (IF op.amount > 0 /\ op.dr = a THEN op.amount ELSE 0)
    <3>1. CASE op.amount > 0 /\ op.dr = a
      <4>1. Debits(a)' = Debits(a) \cup {op} /\ op \notin Debits(a)
        BY <1>1, <3>1
      <4>2. IsFiniteSet(Debits(a) \cup {op}) /\ Amounts(Debits(a) \cup {op}) = Amounts(Debits(a)) + op.amount
        BY <2>1, <2>2, <4>1, AmountsAdd
      <4> QED
        BY <3>1, <4>1, <4>2
    <3>2. CASE ~(op.amount > 0 /\ op.dr = a)
      <4>0. Debits(a)' = Debits(a) \cup {}
        BY <1>1, <3>2, Zenon
      <4>1. Debits(a)' = Debits(a)
        BY <4>0, Zenon
      <4> QED
        BY <2>1, <2>2, <3>2, <4>1
    <3> QED
      BY <3>1, <3>2
  <2>5. Statement(a) = Amounts(Credits(a)) - Amounts(Debits(a)) /\ Statement(a)' = Amounts(Credits(a)') - Amounts(Debits(a)')
    <3>1. Statement(a) = Amounts(Credits(a)) - Amounts(Debits(a))
      BY StatementIs
    <3>2. Credits(a)' = {t \in txns' : t.cr = a} /\ Debits(a)' = {t \in txns' : t.dr = a}
      BY DEF Credits, Debits
    <3>3. Statement(a)' = Amounts({t \in txns' : t.cr = a}) - Amounts({t \in txns' : t.dr = a})
      BY Zenon DEF Statement
    <3> QED
      BY <3>1, <3>2, <3>3, Zenon
  <2>6. CASE op.amount > 0
    <3>1. start'[a] = start[a]
      BY <1>p, <2>6
    <3> QED
      BY <1>1, <2>1, <2>2, <2>3, <2>4, <2>5, <2>6, <3>1
  <2>7. CASE ~(op.amount > 0)
    <3>1. op.dr = Outside /\ op.cr \in Accounts \ open /\ a # Outside
      BY <1>p, <1>q, <2>7, BankAssumption
    <3>2. Statement(a)' = Statement(a)
      BY <2>2, <2>3, <2>4, <2>5, <2>7
    <3>3. CASE a = op.cr
      <4>1. balance[a] = 0 /\ start[a] = 0
        BY <3>1, <3>3 DEF Books
      <4>2. start'[a] = op.amount
        BY <1>p, <2>7, <3>3 DEF Books
      <4>3. balance'[a] = op.amount
        BY <1>1, <2>2, <3>1, <3>3, <4>1
      <4> QED
        BY <2>1, <2>2, <2>3, <2>4, <2>5, <2>7, <3>2, <4>1, <4>2, <4>3
    <3>4. CASE a # op.cr
      <4>1. start'[a] = start[a] /\ balance'[a] = balance[a]
        BY <1>1, <1>p, <2>1, <2>2, <2>7, <3>1, <3>4 DEF Books
      <4> QED
        BY <2>1, <2>3, <2>4, <3>2, <4>1
    <3> QED
      BY <2>3, <2>4, <3>3, <3>4
  <2> QED
    BY <2>6, <2>7
<1> QED
  BY <1>2, <1>3 DEF Books, BooksBalance

\* So does the interest of a day whose rows are not on the books yet.
LEMMA EndOfDayBooks ==
  ASSUME Books, NEW id, \A t \in txns : t.id # id, EndOfDay(id)
  PROVE  Books'
<1> DEFINE row(a) == [kind |-> "interest", dr |-> Outside, cr |-> a, amount |-> Accrued(a), id |-> id]
<1>0. \A a \in Accounts : balance[a] \in Int /\ Accrued(a) \in Int /\ a # Outside
  <2> SUFFICES ASSUME NEW a \in Accounts PROVE balance[a] \in Int /\ Accrued(a) \in Int /\ a # Outside
    OBVIOUS
  <2>1. balance[a] \in Int /\ Yield \in Nat \ {0} /\ a # Outside
    BY BankAssumption DEF Books
  <2>2. balance[a] \div Yield \in Int
    BY <2>1
  <2> QED
    BY <2>1, <2>2 DEF Accrued
<1>1. ASSUME NEW a \in Accounts
      PROVE  /\ balance'[a] = balance[a] + IF Accrued(a) > 0 THEN Accrued(a) ELSE 0
             /\ Credits(a)' = Credits(a) \cup (IF Accrued(a) > 0 THEN {row(a)} ELSE {})
             /\ Debits(a)' = Debits(a) /\ row(a) \notin Credits(a)
  <2>1. balance'[a] = balance[a] + IF Accrued(a) > 0 THEN Accrued(a) ELSE 0
    BY DEF EndOfDay
  <2>2. txns' = txns \cup {row(b) : b \in {s \in Savings : Accrued(s) > 0}}
    BY DEF EndOfDay
  <2>3. Accrued(a) > 0 => a \in Savings
    BY DEF Accrued
  <2>4. \A b : row(b).cr = b /\ row(b).dr = Outside /\ row(b).id = id
    OBVIOUS
  <2> HIDE DEF row
  <2>5. Credits(a)' = Credits(a) \cup (IF Accrued(a) > 0 THEN {row(a)} ELSE {})
    <3>1. \A t : t \in Credits(a)' <=> (t \in txns \/ \E b \in Savings : Accrued(b) > 0 /\ t = row(b)) /\ t.cr = a
      BY <2>2 DEF Credits
    <3>2. CASE Accrued(a) > 0
      <4>1. ASSUME NEW t PROVE t \in Credits(a)' <=> t \in Credits(a) \cup {row(a)}
        BY <2>3, <2>4, <3>1, <3>2 DEF Credits
      <4> QED
        BY <3>2, <4>1
    <3>3. CASE ~(Accrued(a) > 0)
      <4>1. ASSUME NEW t PROVE t \in Credits(a)' <=> t \in Credits(a)
        BY <2>4, <3>1, <3>3 DEF Credits
      <4> QED
        BY <3>3, <4>1
    <3> QED
      BY <3>2, <3>3
  <2>6. Debits(a)' = Debits(a)
    BY <1>0, <2>2, <2>4 DEF Debits
  <2>7. row(a) \notin Credits(a)
    BY <2>4 DEF Credits
  <2> QED
    BY <2>1, <2>5, <2>6, <2>7
<1>2. /\ balance' \in [Accounts -> Int] /\ start' = start /\ start' \in [Accounts -> Int]
      /\ \A a \in Accounts \ open' : balance'[a] = 0 /\ start'[a] = 0
  <2>1. /\ balance' = [a \in Accounts |-> balance[a] + IF Accrued(a) > 0 THEN Accrued(a) ELSE 0]
        /\ UNCHANGED <<open, start>>
    BY DEF EndOfDay
  <2>2. \A a \in Accounts \ open : Accrued(a) = 0
    BY DEF Accrued
  <2> QED
    BY <1>0, <2>1, <2>2 DEF Books
<1>3. \A t \in txns' : t.amount \in Int
  <2>1. \A t \in txns' \ txns : \E b \in Savings : t = row(b)
    BY DEF EndOfDay
  <2>2. \A b \in Savings : row(b).amount \in Int
    BY <1>0, BankAssumption
  <2> QED
    BY <2>1, <2>2 DEF Books
<1>4. \A a : row(a).amount = Accrued(a)
  OBVIOUS
<1> HIDE DEF row
<1>5. ASSUME NEW a \in Accounts
      PROVE  IsFiniteSet(Credits(a)') /\ IsFiniteSet(Debits(a)') /\ balance'[a] = start[a] + Statement(a)'
  <2>1. /\ IsFiniteSet(Credits(a)) /\ IsFiniteSet(Debits(a)) /\ balance[a] = start[a] + Statement(a)
        /\ \A t \in Credits(a) \cup Debits(a) : t.amount \in Int
    BY DEF Books, BooksBalance, Credits, Debits
  <2>2. Amounts(Credits(a)) \in Int /\ Amounts(Debits(a)) \in Int /\ start[a] \in Int /\ Accrued(a) \in Int
    BY <1>0, <2>1, AmountsAdd DEF Books
  <2>3. /\ IsFiniteSet(Credits(a)')
        /\ Amounts(Credits(a)') = Amounts(Credits(a)) + (IF Accrued(a) > 0 THEN Accrued(a) ELSE 0)
    <3>1. CASE Accrued(a) > 0
      BY <1>1, <1>4, <2>1, <2>2, <3>1, AmountsAdd
    <3>2. CASE ~(Accrued(a) > 0)
      <4>1. Credits(a)' = Credits(a)
        BY <1>1, <3>2
      <4> QED
        BY <2>1, <2>2, <3>2, <4>1
    <3> QED
      BY <3>1, <3>2
  <2>4. Debits(a)' = Debits(a)
    BY <1>1
  <2>5. Statement(a) = Amounts(Credits(a)) - Amounts(Debits(a)) /\ Statement(a)' = Amounts(Credits(a)') - Amounts(Debits(a)')
    <3>1. Statement(a) = Amounts(Credits(a)) - Amounts(Debits(a))
      BY StatementIs
    <3>2. Credits(a)' = {t \in txns' : t.cr = a} /\ Debits(a)' = {t \in txns' : t.dr = a}
      BY DEF Credits, Debits
    <3>3. Statement(a)' = Amounts({t \in txns' : t.cr = a}) - Amounts({t \in txns' : t.dr = a})
      BY Zenon DEF Statement
    <3> QED
      BY <3>1, <3>2, <3>3, Zenon
  <2>6. balance'[a] = balance[a] + (IF Accrued(a) > 0 THEN Accrued(a) ELSE 0)
    BY <1>1
  <2> QED
    BY <2>1, <2>2, <2>3, <2>4, <2>5, <2>6
<1> QED
  BY <1>2, <1>3, <1>5 DEF Books, BooksBalance

\* The core has posted for no request that it still works for, or has yet to be asked for.
OnceInv == \A t \in txns : t.id \in Requests /\ t.id \notin core /\ pc[t.id] \in {"reply", "end"}

\* Every step keeps the books, and posts for no request twice.
LEMMA BooksStep ==
  Typed /\ GovernedInv /\ LoopInv /\ Books /\ OnceInv /\ [Next]_vars => Books' /\ OnceInv'
<1> SUFFICES ASSUME Typed, GovernedInv, LoopInv, Books, OnceInv, [Next]_vars PROVE Books' /\ OnceInv'
  OBVIOUS
<1>1. ASSUME UNCHANGED <<balance, txns, start, open>> PROVE Books'
  <2>1. \A a : Credits(a)' = Credits(a) /\ Debits(a)' = Debits(a) /\ Statement(a)' = Statement(a)
    BY <1>1 DEF Credits, Debits, Statement
  <2> QED
    BY <1>1, <2>1 DEF Books, BooksBalance
<1>2. ASSUME NEW c \in Calls, pc[c] \in {"new", "loaded", "body", "core", "reply"},
             UNCHANGED bank, core' \subseteq core \cup {c}, c \in core' => pc[c] \in {"body", "core"},
             \A k \in Calls \ {c} : pc'[k] = pc[k],
             pc[c] = "reply" => pc'[c] = "end"
      PROVE  Books' /\ OnceInv'
  <2>1. UNCHANGED <<balance, txns, start, open>>
    BY <1>2 DEF bank
  <2>2. ASSUME NEW t \in txns PROVE t.id \in Requests /\ t.id \notin core' /\ pc'[t.id] \in {"reply", "end"}
    <3>1. t.id \in Requests /\ t.id \notin core /\ pc[t.id] \in {"reply", "end"} /\ t.id \in Calls
      BY DEF OnceInv, Calls
    <3> QED
      BY <1>2, <3>1
  <2> QED
    BY <1>1, <2>1, <2>2 DEF OnceInv
<1>3. ASSUME NEW c \in Calls, Load(c) PROVE Books' /\ OnceInv'
  <2>1. pc[c] = "new" /\ pc' = [pc EXCEPT ![c] = "loaded"] /\ UNCHANGED <<core, bank>>
    BY <1>3 DEF Load
  <2>2. c \notin core /\ \A k \in Calls \ {c} : pc'[k] = pc[k]
    BY <2>1 DEF Typed
  <2> QED
    BY <1>2, <2>1, <2>2
<1>4. ASSUME NEW c \in Calls, Authorize(c) PROVE Books' /\ OnceInv'
  <2>1. PICK a \in Agents, op \in Ops, granted \in BOOLEAN : Authorizes(c, a, op, granted)
    BY <1>4, AuthorizeUnfolds
  <2>2. pc[c] = "loaded" /\ UNCHANGED <<core, bank>>
    BY <1>4 DEF Authorize
  <2>3. \A k \in Calls \ {c} : pc'[k] = pc[k]
    BY <2>1 DEF Authorizes, Typed
  <2>4. c \notin core
    BY <2>2 DEF Typed
  <2> QED
    BY <1>2, <2>2, <2>3, <2>4
<1>5. ASSUME NEW c \in Calls, Switch(c) \/ Review(c) \/ (c \in Requests /\ Reply(c)) PROVE Books' /\ OnceInv'
  <2>1. pc[c] \in {"loaded", "reply"} /\ pc' = [pc EXCEPT ![c] = "end"] /\ UNCHANGED <<core, bank>>
    BY <1>5 DEF Switch, Review, Reply
  <2>2. c \notin core /\ pc'[c] = "end" /\ \A k \in Calls \ {c} : pc'[k] = pc[k]
    BY <2>1 DEF Typed
  <2> QED
    BY <1>2, <2>1, <2>2
<1>6. ASSUME NEW r \in Requests, Forward(r) PROVE Books' /\ OnceInv'
  <2>1. /\ pc[r] = "body" /\ UNCHANGED bank /\ core' \subseteq core \cup {r} /\ r \in Calls
        /\ \A k \in Calls \ {r} : pc'[k] = pc[k]
    BY <1>6 DEF Forward, Typed, Calls
  <2> QED
    BY <1>2, <2>1
<1>7. ASSUME NEW r \in Requests, TimesOut(r) PROVE Books' /\ OnceInv'
  <2>1. /\ pc[r] = "core" /\ UNCHANGED bank /\ core' \subseteq core \cup {r} /\ r \in Calls
        /\ \A k \in Calls \ {r} : pc'[k] = pc[k]
    BY <1>7 DEF TimesOut, Typed, Calls
  <2> QED
    BY <1>2, <2>1
<1>8. ASSUME NEW r \in Requests, CorePosts(r) PROVE Books' /\ OnceInv'
  <2>1. /\ r \in core /\ core' = core \ {r}
        /\ pc' = IF pc[r] = "end" THEN pc ELSE [pc EXCEPT ![r] = "reply"]
    BY <1>8 DEF CorePosts
  <2>2. /\ Shaped(req[r].op) /\ (req[r].op.kind \in Movements => Known(req[r].op))
        /\ req[r].op.id = r /\ \A t \in txns : t.id # r
    BY <2>1 DEF LoopInv, GovernedInv, OnceInv
  <2>3. Books'
    <3>1. \/ EndOfDay(r)
          \/ Post(req[r].op) /\ req[r].op.kind \notin {"eod", "read"}
          \/ UNCHANGED bank
      BY <1>8 DEF CorePosts
    <3>2. CASE EndOfDay(r)
      BY <2>2, <3>2, EndOfDayBooks
    <3>3. CASE Post(req[r].op) /\ req[r].op.kind \notin {"eod", "read"}
      <4>1. req[r].op \notin txns
        BY <2>2
      <4> QED
        BY <2>2, <3>3, <4>1, PostBooks
    <3>4. CASE UNCHANGED bank
      BY <1>1, <3>4 DEF bank
    <3> QED
      BY <3>1, <3>2, <3>3, <3>4
  <2>4. ASSUME NEW t \in txns' PROVE t.id \in Requests /\ t.id \notin core' /\ pc'[t.id] \in {"reply", "end"}
    <3>1. CASE t.id = r
      BY <2>1, <3>1 DEF Typed, Calls
    <3>2. CASE t.id # r
      <4>1. t \in txns
        BY <1>8, <2>2, <3>2, PostsItsOwn
      <4> QED
        BY <2>1, <3>2, <4>1 DEF OnceInv
    <3> QED
      BY <3>1, <3>2
  <2> QED
    BY <2>3, <2>4 DEF OnceInv
<1>9. CASE UNCHANGED vars
  <2>1. UNCHANGED <<balance, txns, start, open, core, pc>>
    BY <1>9 DEF vars, govVars, bank
  <2> QED
    BY <1>1, <2>1 DEF OnceInv
<1> QED
  BY <1>3, <1>4, <1>5, <1>6, <1>7, <1>8, <1>9 DEF Next, Calls

\* The seeded balances are the statements of an empty transactions table.
LEMMA BooksInit == Init => Books /\ OnceInv
<1> SUFFICES ASSUME Init PROVE Books /\ OnceInv
  OBVIOUS
<1>1. /\ txns = {} /\ balance = Opening /\ start = Opening /\ open = Seeded
      /\ Opening \in [Accounts -> Nat] /\ \A a \in Accounts \ Seeded : Opening[a] = 0
  BY BankAssumption DEF Init, BankInit
<1>2. Amounts({}) = 0 /\ IsFiniteSet({})
  BY FS_EmptySet, AmountsTotal, TotalNone
<1>3. \A a : Credits(a) = {} /\ Debits(a) = {}
  BY <1>1 DEF Credits, Debits
<1>4. \A a \in Accounts : Statement(a) = 0
  BY <1>2, <1>3, StatementIs
<1>5. \A a \in Accounts : Opening[a] \in Int /\ Opening[a] = Opening[a] + Statement(a)
  BY <1>1, <1>4
<1>6. Opening \in [Accounts -> Int]
  BY <1>1
<1>7. Books
  BY <1>1, <1>2, <1>3, <1>5, <1>6 DEF Books, BooksBalance
<1> QED
  BY <1>1, <1>7 DEF OnceInv

\* For any accounts, balances, requests and amounts (negative ones too), and however their
\* gates, forwards, timeouts and interest runs interleave: every balance is what the account
\* began with and what the rows of the transactions table say was moved since.
THEOREM BooksAlwaysBalance == Spec => []BooksBalance
<1>1. Init => Typed /\ GovernedInv /\ LoopInv /\ Books /\ OnceInv
  <2> SUFFICES ASSUME Init PROVE LoopInv
    BY TypedInit, GovernedInit, BooksInit
  <2> QED
    BY DEF Init, LoopInv, OnLoop, Calls
<1>2. /\ Typed /\ GovernedInv /\ LoopInv /\ Books /\ OnceInv /\ [Next]_vars
      => (Typed /\ GovernedInv /\ LoopInv /\ Books /\ OnceInv)'
  BY TypedStep, GovernedStep, LoopStep, BooksStep
<1>3. Books => BooksBalance
  BY DEF Books
<1> QED
  BY <1>1, <1>2, <1>3, PTL DEF Spec

-----------------------------------------------------------------------------
(* No overdraft *)

\* While nothing timed out, the core works for the request on the loop alone, on accounts
\* that still cover what it found them to cover, and no balance is below what it may owe.
FundsInv ==
  /\ \A a \in Accounts : Unchecked(a) \in Nat
  /\ ~timedOut => /\ \A r \in core : pc[r] = "core" /\ Covered(req[r].op)
                  /\ \A a \in Accounts : balance[a] + Debt(a) >= 0

\* The unchecked cash of account a.
UncheckedRows(a) == {t \in txns : t.dr = a /\ t.kind = "other"}

\* A posting adds to it what it debits unchecked.
LEMMA UncheckedPost ==
  ASSUME Books, NEW op, op.amount \in Int, op \notin txns,
         txns' = IF op.amount > 0 THEN txns \cup {op} ELSE txns, NEW a \in Accounts
  PROVE  /\ Unchecked(a) \in Int
         /\ Unchecked(a)' = Unchecked(a) +
              (IF op.amount > 0 /\ op.kind = "other" /\ op.dr = a THEN op.amount ELSE 0)
<1>1. IsFiniteSet(UncheckedRows(a)) /\ \A t \in UncheckedRows(a) : t.amount \in Int
  <2>1. UncheckedRows(a) \subseteq Debits(a) /\ IsFiniteSet(Debits(a))
    BY DEF UncheckedRows, Debits, Books
  <2> QED
    BY <2>1, FS_Subset DEF UncheckedRows, Books
<1>2. Unchecked(a) = Amounts(UncheckedRows(a))
  BY Zenon DEF Unchecked, UncheckedRows
<1>3. Unchecked(a)' = Amounts(UncheckedRows(a)')
  <2>1. UncheckedRows(a)' = {t \in txns' : t.dr = a /\ t.kind = "other"}
    BY DEF UncheckedRows
  <2>2. Unchecked(a)' = Amounts({t \in txns' : t.dr = a /\ t.kind = "other"})
    BY Zenon DEF Unchecked
  <2> QED
    BY <2>1, <2>2, Zenon
<1>4. Amounts(UncheckedRows(a)) \in Int
  BY <1>1, AmountsAdd
<1>5. CASE op.amount > 0 /\ op.kind = "other" /\ op.dr = a
  <2>1. UncheckedRows(a)' = UncheckedRows(a) \cup {op} /\ op \notin UncheckedRows(a)
    BY <1>5 DEF UncheckedRows
  <2>2. Amounts(UncheckedRows(a) \cup {op}) = Amounts(UncheckedRows(a)) + op.amount
    BY <1>1, <2>1, AmountsAdd
  <2> QED
    BY <1>2, <1>3, <1>4, <1>5, <2>1, <2>2
<1>6. CASE ~(op.amount > 0 /\ op.kind = "other" /\ op.dr = a)
  <2>1. UncheckedRows(a)' = UncheckedRows(a)
    BY <1>6 DEF UncheckedRows
  <2> QED
    BY <1>2, <1>3, <1>4, <1>6, <2>1
<1> QED
  BY <1>5, <1>6

\* What the core found covered can be posted without an account owing more than it may.
LEMMA PostCovered ==
  ASSUME Books, NEW op, Shaped(op), op.kind \in Movements => Known(op), op.kind \notin {"eod", "read"},
         op \notin txns, Post(op), \A a \in Accounts : Unchecked(a) \in Nat
  PROVE  \A a \in Accounts :
           /\ Unchecked(a)' \in Nat
           /\ balance[a] + Debt(a) >= 0 /\ Covered(op) => balance'[a] + Debt(a)' >= 0
<1>1. CASE op.kind = "open" /\ op.cr \in open
  <2>1. UNCHANGED <<balance, txns, start>>
    BY <1>1 DEF Post, bank
  <2> QED
    BY <2>1 DEF Unchecked, Debt
<1>2. CASE ~(op.kind = "open" /\ op.cr \in open)
  <2> SUFFICES ASSUME NEW a \in Accounts
               PROVE  /\ Unchecked(a)' \in Nat
                      /\ balance[a] + Debt(a) >= 0 /\ Covered(op) => balance'[a] + Debt(a)' >= 0
    OBVIOUS
  <2>1. /\ balance'[a] = balance[a] - (IF a = op.dr THEN op.amount ELSE 0) + (IF a = op.cr THEN op.amount ELSE 0)
        /\ txns' = IF op.amount > 0 THEN txns \cup {op} ELSE txns
        /\ start'[a] = IF op.amount <= 0 /\ a = op.cr THEN op.amount ELSE start[a]
    BY <1>2 DEF Post, Moved, Books, Shaped
  <2>2. /\ Unchecked(a) \in Nat /\ op.amount \in Int /\ balance[a] \in Int /\ start[a] \in Int
        /\ Unchecked(a)' = Unchecked(a) +
             (IF op.amount > 0 /\ op.kind = "other" /\ op.dr = a THEN op.amount ELSE 0)
    <3>1. op.amount \in Int
      BY DEF Shaped
    <3> QED
      BY <2>1, <3>1, UncheckedPost DEF Books
  <2>3. /\ Debt(a) = (IF start[a] < 0 THEN -start[a] ELSE 0) + Unchecked(a)
        /\ Debt(a)' = (IF start'[a] < 0 THEN -start'[a] ELSE 0) + Unchecked(a)'
    BY DEF Debt
  <2>4. Unchecked(a)' \in Nat
    BY <2>2
  <2>5. ASSUME balance[a] + Debt(a) >= 0, Covered(op) PROVE balance'[a] + Debt(a)' >= 0
    <3>0. a # Outside
      BY BankAssumption
    <3>1. CASE op.kind = "open"
      <4>1. op.dr = Outside /\ op.cr \in Accounts \ open
        BY <1>2, <3>1 DEF Shaped
      <4>2. CASE a = op.cr
        <5>1. balance[a] = 0 /\ start[a] = 0
          BY <4>1, <4>2 DEF Books
        <5>2. balance'[a] = op.amount
          BY <2>1, <2>2, <3>0, <4>1, <4>2, <5>1
        <5>3. start'[a] = IF op.amount <= 0 THEN op.amount ELSE 0
          BY <2>1, <4>2, <5>1
        <5> QED
          BY <2>2, <2>3, <2>4, <5>2, <5>3
      <4>3. CASE a # op.cr
        <5>1. balance'[a] = balance[a] /\ start'[a] = start[a] /\ Unchecked(a)' = Unchecked(a)
          BY <2>1, <2>2, <3>0, <3>1, <4>1, <4>3
        <5> QED
          BY <2>3, <2>5, <5>1
      <4> QED
        BY <4>2, <4>3
    <3>2. CASE op.kind # "open"
      <4>1. op.kind \in Movements /\ op.amount > 0
        BY <3>2 DEF Shaped, OpKinds, Movements, Known
      <4>2. start'[a] = start[a]
        BY <2>1, <2>2, <4>1
      <4>3. CASE a # op.dr
        <5>1. balance'[a] >= balance[a] /\ Unchecked(a)' = Unchecked(a) /\ balance'[a] \in Int
          BY <2>1, <2>2, <4>1, <4>3
        <5> QED
          BY <2>2, <2>3, <2>5, <4>2, <5>1
      <4>4. CASE a = op.dr /\ op.kind \in {"withdraw", "transfer"}
        <5>1. balance[a] >= op.amount
          BY <2>5, <4>1, <4>4 DEF Covered
        <5>2. balance'[a] >= 0 /\ balance'[a] \in Int
          BY <2>1, <2>2, <4>1, <4>4, <5>1
        <5> QED
          BY <2>2, <2>3, <2>4, <4>2, <5>2
      <4>5. CASE a = op.dr /\ op.kind = "other"
        <5>1. op.cr = Outside
          BY <4>5 DEF Shaped
        <5>2. balance'[a] = balance[a] - op.amount
          BY <2>1, <2>2, <3>0, <4>5, <5>1
        <5>3. Unchecked(a)' = Unchecked(a) + op.amount
          BY <2>2, <4>1, <4>5
        <5> QED
          BY <2>2, <2>3, <2>5, <4>2, <5>2, <5>3
      <4>6. CASE a = op.dr /\ op.kind = "deposit"
        BY <3>0, <4>6 DEF Shaped
      <4> QED
        BY <4>1, <4>3, <4>4, <4>5, <4>6 DEF Movements
    <3> QED
      BY <3>1, <3>2
  <2> QED
    BY <2>4, <2>5
<1> QED
  BY <1>1, <1>2

\* Interest is only ever credited.
LEMMA InterestCredits ==
  ASSUME Books, NEW id, EndOfDay(id)
  PROVE  \A a \in Accounts :
           /\ Unchecked(a)' = Unchecked(a)
           /\ Unchecked(a) \in Nat /\ balance[a] + Debt(a) >= 0 => balance'[a] + Debt(a)' >= 0
<1> SUFFICES ASSUME NEW a \in Accounts
             PROVE  /\ Unchecked(a)' = Unchecked(a)
                    /\ Unchecked(a) \in Nat /\ balance[a] + Debt(a) >= 0 => balance'[a] + Debt(a)' >= 0
  OBVIOUS
<1>1. balance[a] \in Int /\ start[a] \in Int /\ Accrued(a) \in Int
  <2>1. balance[a] \in Int /\ Yield \in Nat \ {0} /\ start[a] \in Int
    BY BankAssumption DEF Books
  <2>2. balance[a] \div Yield \in Int
    BY <2>1
  <2> QED
    BY <2>1, <2>2 DEF Accrued
<1>2. balance'[a] = balance[a] + (IF Accrued(a) > 0 THEN Accrued(a) ELSE 0) /\ start' = start
  BY DEF EndOfDay
<1>3. balance'[a] >= balance[a] /\ balance'[a] \in Int
  BY <1>1, <1>2
<1>4. UncheckedRows(a)' = UncheckedRows(a)
  BY DEF EndOfDay, UncheckedRows
<1>5. Unchecked(a)' = Unchecked(a)
  <2>1. Unchecked(a) = Amounts({t \in txns : t.dr = a /\ t.kind = "other"})
        /\ Unchecked(a)' = Amounts({t \in txns' : t.dr = a /\ t.kind = "other"})
    BY Zenon DEF Unchecked
  <2>2. {t \in txns' : t.dr = a /\ t.kind = "other"} = {t \in txns : t.dr = a /\ t.kind = "other"}
    BY <1>4 DEF UncheckedRows
  <2> QED
    BY <2>1, <2>2, Zenon
<1>6. /\ Debt(a) = (IF start[a] < 0 THEN -start[a] ELSE 0) + Unchecked(a)
      /\ Debt(a)' = (IF start'[a] < 0 THEN -start'[a] ELSE 0) + Unchecked(a)'
  BY DEF Debt
<1> QED
  BY <1>1, <1>2, <1>3, <1>5, <1>6

\* Every step keeps the funds.
LEMMA FundsStep ==
  Typed /\ GovernedInv /\ LoopInv /\ Books /\ OnceInv /\ FundsInv /\ [Next]_vars => FundsInv'
<1> SUFFICES ASSUME Typed, GovernedInv, LoopInv, Books, OnceInv, FundsInv, [Next]_vars PROVE FundsInv'
  OBVIOUS
<1>0. ASSUME UNCHANGED bank
      PROVE  /\ UNCHANGED <<balance, open>>
             /\ \A a \in Accounts : Unchecked(a)' = Unchecked(a) /\ Debt(a)' = Debt(a)
  <2>1. UNCHANGED <<balance, open, txns, start>>
    BY <1>0 DEF bank
  <2> QED
    BY <2>1 DEF Unchecked, Debt
<1>1. ASSUME NEW c \in Calls, pc[c] \notin {"core"}, c \notin core \/ timedOut,
             UNCHANGED <<core, timedOut, bank>>,
             \A k \in Calls \ {c} : pc'[k] = pc[k] /\ req'[k] = req[k]
      PROVE  FundsInv'
  <2>1. UNCHANGED <<balance, open>> /\ \A a \in Accounts : Unchecked(a)' = Unchecked(a) /\ Debt(a)' = Debt(a)
    BY <1>0, <1>1
  <2>2. ASSUME ~timedOut, NEW r \in core PROVE pc'[r] = "core" /\ Covered(req[r].op) /\ req'[r] = req[r]
    BY <1>1, <2>2 DEF FundsInv, Typed, Calls
  <2>3. \A r \in core : req'[r] = req[r] => (Covered(req[r].op) => Covered(req[r].op)')
    BY <2>1 DEF Covered, Known
  <2> QED
    BY <1>1, <2>1, <2>2, <2>3 DEF FundsInv
<1>2. ASSUME NEW c \in Calls, Load(c) PROVE FundsInv'
  <2>1. pc[c] = "new" /\ pc' = [pc EXCEPT ![c] = "loaded"] /\ UNCHANGED <<req, core, timedOut, bank>>
    BY <1>2 DEF Load
  <2>2. c \notin core /\ \A k \in Calls \ {c} : pc'[k] = pc[k] /\ req'[k] = req[k]
    BY <2>1 DEF Typed
  <2> QED
    BY <1>1, <2>1, <2>2
<1>3. ASSUME NEW c \in Calls, Authorize(c) PROVE FundsInv'
  <2>1. PICK a \in Agents, op \in Ops, granted \in BOOLEAN : Authorizes(c, a, op, granted)
    BY <1>3, AuthorizeUnfolds
  <2>2. pc[c] = "loaded" /\ UNCHANGED <<core, timedOut, bank>>
    BY <1>3 DEF Authorize
  <2>3. \A k \in Calls \ {c} : pc'[k] = pc[k] /\ req'[k] = req[k]
    BY <2>1 DEF Authorizes, Typed
  <2>4. c \notin core
    BY <2>2 DEF Typed
  <2> QED
    BY <1>1, <2>2, <2>3, <2>4
<1>4. ASSUME NEW c \in Calls, Switch(c) \/ Review(c) \/ (c \in Requests /\ Reply(c)) PROVE FundsInv'
  <2>1. pc[c] \in {"loaded", "reply"} /\ pc' = [pc EXCEPT ![c] = "end"] /\ UNCHANGED <<req, core, timedOut, bank>>
    BY <1>4 DEF Switch, Review, Reply
  <2>2. c \notin core /\ \A k \in Calls \ {c} : pc'[k] = pc[k] /\ req'[k] = req[k]
    BY <2>1 DEF Typed
  <2> QED
    BY <1>1, <2>1, <2>2
<1>5. ASSUME NEW c \in Requests, Forward(c) PROVE FundsInv'
  <2>1. /\ UNCHANGED <<balance, open, req, timedOut>> /\ c \in Calls
        /\ \A a \in Accounts : Unchecked(a)' = Unchecked(a) /\ Debt(a)' = Debt(a)
    BY <1>0, <1>5 DEF Forward, Calls
  <2>2. ASSUME NEW r \in core', ~timedOut PROVE pc'[r] = "core" /\ Covered(req[r].op)
    <3>1. CASE r = c
      <4>1. c \notin core
        BY <1>5 DEF Forward, Typed
      <4> QED
        BY <1>5, <2>1, <2>2, <3>1, <4>1 DEF Forward, Typed
    <3>2. CASE r # c
      <4>1. r \in core
        BY <1>5, <2>2, <3>2 DEF Forward
      <4>2. pc'[r] = pc[r]
        BY <1>5, <2>1, <3>2, <4>1 DEF Forward, Typed, Calls
      <4> QED
        BY <2>2, <4>1, <4>2 DEF FundsInv
    <3> QED
      BY <3>1, <3>2
  <2>3. \A r \in core' : Covered(req[r].op) => Covered(req[r].op)'
    BY <2>1 DEF Covered, Known
  <2> QED
    BY <2>1, <2>2, <2>3 DEF FundsInv
<1>6. ASSUME NEW c \in Requests, CorePosts(c) PROVE FundsInv'
  <2>1. c \in core /\ core' = core \ {c} /\ UNCHANGED <<req, timedOut>>
    BY <1>6 DEF CorePosts
  <2>2. /\ Shaped(req[c].op) /\ (req[c].op.kind \in Movements => Known(req[c].op))
        /\ req[c].op.id = c /\ \A t \in txns : t.id # c
    BY <2>1 DEF LoopInv, GovernedInv, OnceInv
  <2>3. \A a \in Accounts : Unchecked(a) \in Nat
    BY DEF FundsInv
  <2>4. ~timedOut => core' = {}
    <3> SUFFICES ASSUME ~timedOut, NEW r \in core PROVE r = c
      BY <2>1
    <3>1. pc[r] = "core" /\ pc[c] = "core" /\ r \in Requests
      BY <2>1 DEF FundsInv, Typed
    <3> QED
      BY <3>1 DEF LoopInv, OnLoop
  <2>5. \A a \in Accounts :
          /\ Unchecked(a)' \in Nat
          /\ balance[a] + Debt(a) >= 0 /\ Covered(req[c].op) => balance'[a] + Debt(a)' >= 0
    <3>1. \/ EndOfDay(c)
          \/ Post(req[c].op) /\ req[c].op.kind \notin {"eod", "read"}
          \/ UNCHANGED bank
      BY <1>6 DEF CorePosts
    <3>2. CASE EndOfDay(c)
      BY <2>3, <3>2, InterestCredits
    <3>3. CASE Post(req[c].op) /\ req[c].op.kind \notin {"eod", "read"}
      <4>1. req[c].op \notin txns
        BY <2>2
      <4> QED
        BY <2>2, <2>3, <3>3, <4>1, PostCovered
    <3>4. CASE UNCHANGED bank
      BY <1>0, <2>3, <3>4
    <3> QED
      BY <3>1, <3>2, <3>3, <3>4
  <2>6. ~timedOut => Covered(req[c].op) /\ \A a \in Accounts : balance[a] + Debt(a) >= 0
    BY <2>1 DEF FundsInv
  <2> QED
    BY <2>1, <2>4, <2>5, <2>6 DEF FundsInv
<1>7. ASSUME NEW c \in Requests, TimesOut(c) PROVE FundsInv'
  <2>1. timedOut' /\ \A a \in Accounts : Unchecked(a)' = Unchecked(a)
    BY <1>0, <1>7 DEF TimesOut
  <2> QED
    BY <2>1 DEF FundsInv
<1>8. CASE UNCHANGED vars
  <2>1. /\ UNCHANGED <<balance, open, req, pc, core, timedOut>>
        /\ \A a \in Accounts : Unchecked(a)' = Unchecked(a) /\ Debt(a)' = Debt(a)
    BY <1>0, <1>8 DEF vars, govVars
  <2>2. \A r \in core : Covered(req[r].op) => Covered(req[r].op)'
    BY <2>1 DEF Covered, Known
  <2> QED
    BY <2>1, <2>2 DEF FundsInv
<1> QED
  BY <1>2, <1>3, <1>4, <1>5, <1>6, <1>7, <1>8 DEF Next, Calls

\* For any requests, accounts, amounts and opening balances: as long as no forward has timed
\* out, no order of requests, gates and replies makes an account owe more than the core let it
\* owe unchecked (an initial deposit below zero, cash of a kind it does not know), though the
\* core checks the funds in one step and moves them in another; for the gateway holds its
\* event loop over both.
THEOREM NeverOverdrawn == Spec => []NoOverdraft
<1>1. Init => Typed /\ GovernedInv /\ LoopInv /\ Books /\ OnceInv /\ FundsInv
  <2> SUFFICES ASSUME Init PROVE LoopInv /\ FundsInv
    BY TypedInit, GovernedInit, BooksInit
  <2>1. core = {} /\ (\A c \in Calls : pc[c] = "new") /\ txns = {} /\ balance = Opening /\ start = Opening
    BY DEF Init, BankInit
  <2>2. LoopInv
    BY <2>1 DEF LoopInv, OnLoop, Calls
  <2>3. \A a \in Accounts : Unchecked(a) = 0
    <3>1. Amounts({}) = 0
      BY FS_EmptySet, AmountsTotal, TotalNone
    <3>2. \A a : {t \in txns : t.dr = a /\ t.kind = "other"} = {}
      BY <2>1
    <3> QED
      BY <3>1, <3>2, Zenon DEF Unchecked
  <2>4. \A a \in Accounts : balance[a] + Debt(a) >= 0
    BY <2>1, <2>3, BankAssumption DEF Debt
  <2> QED
    BY <2>1, <2>2, <2>3, <2>4 DEF FundsInv
<1>2. /\ Typed /\ GovernedInv /\ LoopInv /\ Books /\ OnceInv /\ FundsInv /\ [Next]_vars
      => (Typed /\ GovernedInv /\ LoopInv /\ Books /\ OnceInv /\ FundsInv)'
  BY TypedStep, GovernedStep, LoopStep, BooksStep, FundsStep
<1>3. FundsInv => NoOverdraft
  BY DEF FundsInv, NoOverdraft
<1> QED
  BY <1>1, <1>2, <1>3, PTL DEF Spec

-----------------------------------------------------------------------------
(* The activity ledger of a key *)

\* What a record is while it is made, and the lines of the file.
Kinds == {"login", "chat", "pipeline_run"}
Records == [at : {"check", "append"}, kind : Kinds, status : {"", "started", "closed"}, ts : Nat,
            run : Runs \cup {NoRun}, seen : Nat]
FileLines == [whole : BOOLEAN, kind : Kinds, status : {"", "started", "closed"}, ts : Nat,
              run : Runs \cup {NoRun}, seen : Nat]

ActTyped ==
  /\ clock \in Nat /\ given \in Nat /\ failures \in Nat /\ cut \in BOOLEAN
  /\ lines \in Seq(FileLines)
  /\ recording \in [Writers -> Records \cup {NoRecord}]
  /\ runs \in [Runs -> {"new", "starting", "running", "closing", "closed"}]

\* A line that was cut is the last, and nobody can parse it.
CutIsLast == cut => Len(lines) > 0 /\ ~lines[Len(lines)].whole

\* The file t is s with the line l at its end, place n: a new one, or the last one of s.
Placed(s, n, l, t) ==
  /\ n \in {Len(s), Len(s) + 1} /\ n \in Nat \ {0}
  /\ t \in Seq(FileLines) /\ Len(t) = n /\ t[n] = l
  /\ \A i \in 1 .. (n - 1) : i \in 1 .. Len(s) /\ t[i] = s[i]

\* A line of a record.
LEMMA LineIs ==
  ASSUME NEW e \in Records
  PROVE  /\ LineOf(e, TRUE) \in FileLines /\ LineOf(e, FALSE) \in FileLines
         /\ LineOf(e, TRUE).whole /\ ~LineOf(e, FALSE).whole
<1>1. ASSUME NEW b \in BOOLEAN PROVE LineOf(e, b) \in FileLines
  BY DEF LineOf, Records, FileLines
<1> QED
  BY <1>1 DEF LineOf

\* The last line is written over.
LEMMA OverIs ==
  ASSUME NEW s \in Seq(FileLines), Len(s) > 0, NEW l \in FileLines
  PROVE  Placed(s, Len(s), l, [s EXCEPT ![Len(s)] = l])
<1>1. PICK n : n = Len(s)
  OBVIOUS
<1>2. PICK t : t = [s EXCEPT ![n] = l]
  OBVIOUS
<1>3. n \in Nat \ {0} /\ n \in 1 .. Len(s)
  BY <1>1
<1>4. t \in Seq(FileLines) /\ Len(t) = n
  BY <1>1, <1>2, <1>3
<1>5. t[n] = l /\ \A i \in 1 .. n : i # n => t[i] = s[i]
  BY <1>1, <1>2, <1>3
<1>6. \A i \in 1 .. (n - 1) : i \in 1 .. n /\ i # n
  BY <1>3
<1>7. Placed(s, n, l, t)
  BY <1>1, <1>3, <1>4, <1>5, <1>6 DEF Placed
<1> QED
  BY <1>1, <1>2, <1>7

\* A line follows the last.
LEMMA AppendIs ==
  ASSUME NEW s \in Seq(FileLines), NEW l \in FileLines
  PROVE  Placed(s, Len(s) + 1, l, Append(s, l))
<1>1. PICK t : t = Append(s, l)
  OBVIOUS
<1>2. t \in Seq(FileLines) /\ Len(t) = Len(s) + 1 /\ Len(s) \in Nat
  BY <1>1
<1>3. t[Len(s) + 1] = l /\ \A i \in 1 .. Len(s) : t[i] = s[i]
  BY <1>1, <1>2
<1> QED
  BY <1>1, <1>2, <1>3 DEF Placed

\* What an attempt to write leaves: nothing, the end of a line that was cut or a second cut of it, a
\* line of its own, or a part of one.
Nothing == UNCHANGED <<lines, cut, given, failures>>
CutAgain == cut /\ failures' = failures + 1 /\ UNCHANGED <<lines, cut, given>>
Ended(e) ==
  cut /\ Placed(lines, Len(lines), LineOf(e, FALSE), lines') /\ ~cut' /\ cut' = FALSE /\ given' = given + 1 /\ UNCHANGED failures
OwnLine(e) ==
  ~cut /\ Placed(lines, Len(lines) + 1, LineOf(e, TRUE), lines') /\ ~cut' /\ cut' = FALSE /\ given' = given + 1 /\ UNCHANGED failures
PartOf(e) ==
  ~cut /\ Placed(lines, Len(lines) + 1, LineOf(e, FALSE), lines') /\ cut' /\ cut' = TRUE /\ failures' = failures + 1 /\ UNCHANGED given

\* These are all, and what follows the attempt is the same.
LEMMA Filing ==
  ASSUME ActTyped, CutIsLast, NEW w \in Writers, AppendLine(w) \/ \E part \in BOOLEAN : AppendFails(w, part)
  PROVE  /\ recording[w] \in Records /\ recording[w].at = "append" /\ Recorded(w) /\ clock' = clock
         /\ Nothing \/ CutAgain \/ Ended(recording[w]) \/ OwnLine(recording[w]) \/ PartOf(recording[w])
<1>1. ASSUME recording[w].at = "append" PROVE recording[w] \in Records
  BY <1>1 DEF ActTyped, NoRecord
<1>2. lines \in Seq(FileLines) /\ (cut => Len(lines) > 0)
  BY DEF ActTyped, CutIsLast
<1>3. CASE AppendLine(w)
  <2>1. /\ recording[w].at = "append" /\ Recorded(w) /\ clock' = clock
        /\ lines' = Written(recording[w]) /\ cut' = FALSE /\ given' = given + 1 /\ UNCHANGED failures
    BY <1>3 DEF AppendLine
  <2>2. recording[w] \in Records
    BY <1>1, <2>1
  <2>3. CASE cut
    <3>1. lines' = [lines EXCEPT ![Len(lines)] = LineOf(recording[w], FALSE)]
      BY <2>1, <2>3 DEF Written
    <3>2. Placed(lines, Len(lines), LineOf(recording[w], FALSE), lines')
      BY <1>2, <2>2, <2>3, <3>1, LineIs, OverIs
    <3> QED
      BY <2>1, <2>2, <2>3, <3>2 DEF Ended
  <2>4. CASE ~cut
    <3>1. lines' = Append(lines, LineOf(recording[w], TRUE))
      BY <2>1, <2>4 DEF Written
    <3>2. Placed(lines, Len(lines) + 1, LineOf(recording[w], TRUE), lines')
      BY <1>2, <2>2, <3>1, LineIs, AppendIs
    <3> QED
      BY <2>1, <2>2, <2>4, <3>2 DEF OwnLine
  <2> QED
    BY <2>3, <2>4
<1>4. CASE \E part \in BOOLEAN : AppendFails(w, part)
  <2>1. PICK part \in BOOLEAN : AppendFails(w, part)
    BY <1>4
  <2>2. recording[w] \in Records /\ recording[w].at = "append" /\ Recorded(w) /\ clock' = clock /\ given' = given
    BY <1>1, <2>1 DEF AppendFails
  <2>3. CASE part
    <3>1. /\ failures' = failures + 1 /\ cut' = TRUE
          /\ lines' = IF cut THEN lines ELSE Append(lines, LineOf(recording[w], FALSE))
      BY <2>1, <2>3 DEF AppendFails
    <3>2. CASE cut
      <4>1. cut' = cut /\ lines' = lines
        BY <3>1, <3>2 DEF ActTyped
      <4> QED
        BY <2>2, <3>1, <3>2, <4>1 DEF CutAgain
    <3>3. CASE ~cut
      <4>1. Placed(lines, Len(lines) + 1, LineOf(recording[w], FALSE), lines')
        BY <1>2, <2>2, <3>1, <3>3, LineIs, AppendIs
      <4> QED
        BY <2>2, <3>1, <3>3, <4>1 DEF PartOf
    <3> QED
      BY <3>2, <3>3
  <2>4. CASE ~part
    BY <2>1, <2>2, <2>4 DEF AppendFails, Nothing
  <2> QED
    BY <2>3, <2>4
<1> QED
  BY <1>3, <1>4

\* Types are kept.
LEMMA ActTypedInit == ActInit => ActTyped /\ CutIsLast
<1> SUFFICES ASSUME ActInit PROVE ActTyped /\ CutIsLast
  OBVIOUS
<1>1. clock \in Nat /\ given \in Nat /\ failures \in Nat /\ cut \in BOOLEAN /\ ~cut
  BY DEF ActInit
<1>2. lines \in Seq(FileLines)
  BY DEF ActInit
<1>3. /\ recording \in [Writers -> Records \cup {NoRecord}]
      /\ runs \in [Runs -> {"new", "starting", "running", "closing", "closed"}]
  BY DEF ActInit
<1> QED
  BY <1>1, <1>2, <1>3 DEF ActTyped, CutIsLast

\* What follows a record keeps the types of what is being recorded and of the runs.
LEMMA RecordedTyped ==
  ASSUME ActTyped, NEW w \in Writers, recording[w] \in Records, Recorded(w)
  PROVE  /\ recording' = [recording EXCEPT ![w] = NoRecord]
         /\ recording' \in [Writers -> Records \cup {NoRecord}]
         /\ runs' \in [Runs -> {"new", "starting", "running", "closing", "closed"}]
         /\ \A r \in Runs : runs'[r] = IF r # recording[w].run THEN runs[r] ELSE IF w = r THEN "closed" ELSE "running"
<1>1. recording[w].run \in Runs \cup {NoRun}
  BY DEF Records
<1>2. recording' = [recording EXCEPT ![w] = NoRecord]
  BY DEF Recorded
<1>3. recording' \in [Writers -> Records \cup {NoRecord}]
  BY <1>2 DEF ActTyped
<1>4. runs' = IF recording[w].run = NoRun THEN runs
              ELSE [runs EXCEPT ![recording[w].run] = IF w = recording[w].run THEN "closed" ELSE "running"]
  BY DEF Recorded
<1>5. CASE recording[w].run = NoRun
  BY <1>2, <1>3, <1>4, <1>5, ActivityAssumption DEF ActTyped
<1>6. CASE recording[w].run # NoRun
  <2>1. recording[w].run \in Runs
    BY <1>1, <1>6
  <2> QED
    BY <1>2, <1>3, <1>4, <1>6, <2>1 DEF ActTyped
<1> QED
  BY <1>5, <1>6

\* A record begins.
LEMMA RecordTyped ==
  ASSUME ActTyped, NEW w \in Writers, NEW kind \in Kinds, NEW status \in {"", "started", "closed"}, NEW r \in Runs \cup {NoRun},
         Record(w, kind, status, r)
  PROVE  /\ recording[w] = NoRecord /\ UNCHANGED <<clock, lines, cut, given, failures>>
         /\ Entry(kind, status, r) \in Records
         /\ recording' = [recording EXCEPT ![w] = Entry(kind, status, r)]
         /\ recording' \in [Writers -> Records \cup {NoRecord}]
<1>1. Entry(kind, status, r) \in Records
  BY DEF Entry, Records, ActTyped
<1>2. /\ recording[w] = NoRecord /\ UNCHANGED <<clock, lines, cut, given, failures>>
      /\ recording' = [recording EXCEPT ![w] = Entry(kind, status, r)]
  BY DEF Record
<1> QED
  BY <1>1, <1>2 DEF ActTyped

\* A sign-in that is no repetition goes on to be written.
LEMMA CheckIs ==
  ASSUME ActTyped, NEW w \in Writers, Check(w)
  PROVE  /\ recording[w] \in Records /\ recording[w].at = "check" /\ UNCHANGED <<clock, lines, cut, given, failures>>
         /\ \/ Recorded(w)
            \/ /\ ~RecentLogin(recording[w].ts) /\ UNCHANGED runs
               /\ recording' = [recording EXCEPT ![w] = [recording[w] EXCEPT !.at = "append", !.seen = Len(lines)]]
               /\ [recording[w] EXCEPT !.at = "append", !.seen = Len(lines)] \in Records
               /\ recording' \in [Writers -> Records \cup {NoRecord}]
<1>1. recording[w].at = "check" /\ UNCHANGED <<clock, lines, cut, given, failures>>
  BY DEF Check
<1>2. recording[w] \in Records
  BY <1>1 DEF ActTyped, NoRecord
<1>3. CASE RecentLogin(recording[w].ts)
  BY <1>1, <1>2, <1>3 DEF Check
<1>4. CASE ~RecentLogin(recording[w].ts)
  <2>1. UNCHANGED runs /\ recording' = [recording EXCEPT ![w].at = "append", ![w].seen = Len(lines)]
    BY <1>4 DEF Check
  <2>2. recording' = [recording EXCEPT ![w] = [recording[w] EXCEPT !.at = "append", !.seen = Len(lines)]]
    BY <2>1 DEF ActTyped
  <2>3. [recording[w] EXCEPT !.at = "append", !.seen = Len(lines)] \in Records
    <3>1. PICK n : n = Len(lines)
      OBVIOUS
    <3>2. PICK e : e = recording[w]
      OBVIOUS
    <3>3. n \in Nat
      BY <3>1 DEF ActTyped
    <3>4. [e EXCEPT !.at = "append", !.seen = n] \in Records
      BY <1>2, <3>2, <3>3 DEF Records
    <3> QED
      BY <3>1, <3>2, <3>4
  <2>4. recording' \in [Writers -> Records \cup {NoRecord}]
    BY <2>2, <2>3 DEF ActTyped
  <2> QED
    BY <1>1, <1>2, <1>4, <2>1, <2>2, <2>3, <2>4
<1> QED
  BY <1>3, <1>4

\* What a step may do.
LEMMA ActCases ==
  ASSUME ActNext
  PROVE  \/ Tick \/ Restart
         \/ \E h \in Handlers, kind \in {"login", "chat"} : PostActivity(h, kind)
         \/ \E h \in Handlers, r \in Runs : StartRun(h, r)
         \/ \E r \in Runs : CloseRun(r)
         \/ \E w \in Writers : Check(w)
         \/ \E w \in Writers : AppendLine(w) \/ \E part \in BOOLEAN : AppendFails(w, part)
BY Zenon DEF ActNext

\* Every step keeps the types, and what was cut at the end of the file.
LEMMA ActTypedStep == ActTyped /\ CutIsLast /\ [ActNext]_actVars => ActTyped' /\ CutIsLast'
<1> SUFFICES ASSUME ActTyped, CutIsLast, [ActNext]_actVars PROVE ActTyped' /\ CutIsLast'
  OBVIOUS
<1>1. CASE UNCHANGED actVars
  BY <1>1 DEF ActTyped, CutIsLast, actVars
<1>2. CASE Tick
  BY <1>2 DEF Tick, ActTyped, CutIsLast
<1>3. CASE Restart
  BY <1>3 DEF Restart, ActTyped, CutIsLast
<1>4. CASE \E h \in Handlers, kind \in {"login", "chat"} : PostActivity(h, kind)
  <2>1. PICK h \in Handlers, kind \in {"login", "chat"} : PostActivity(h, kind)
    BY <1>4
  <2>2. Record(h, kind, "", NoRun) /\ UNCHANGED runs /\ h \in Writers /\ kind \in Kinds
    BY <2>1 DEF PostActivity, Writers, Kinds
  <2>3. UNCHANGED <<clock, lines, cut, given, failures>> /\ recording' \in [Writers -> Records \cup {NoRecord}]
    BY <2>2, RecordTyped
  <2> QED
    BY <2>2, <2>3 DEF ActTyped, CutIsLast
<1>5. CASE \E h \in Handlers, r \in Runs : StartRun(h, r)
  <2>1. PICK h \in Handlers, r \in Runs : StartRun(h, r)
    BY <1>5
  <2>2. /\ Record(h, "pipeline_run", "started", r) /\ runs' = [runs EXCEPT ![r] = "starting"]
        /\ h \in Writers /\ "pipeline_run" \in Kinds
    BY <2>1 DEF StartRun, Writers, Kinds
  <2>3. UNCHANGED <<clock, lines, cut, given, failures>> /\ recording' \in [Writers -> Records \cup {NoRecord}]
    BY <2>2, RecordTyped
  <2> QED
    BY <2>2, <2>3 DEF ActTyped, CutIsLast
<1>6. CASE \E r \in Runs : CloseRun(r)
  <2>1. PICK r \in Runs : CloseRun(r)
    BY <1>6
  <2>2. /\ Record(r, "pipeline_run", "closed", r) /\ runs' = [runs EXCEPT ![r] = "closing"]
        /\ r \in Writers /\ "pipeline_run" \in Kinds
    BY <2>1 DEF CloseRun, Writers, Kinds
  <2>3. UNCHANGED <<clock, lines, cut, given, failures>> /\ recording' \in [Writers -> Records \cup {NoRecord}]
    BY <2>2, RecordTyped
  <2> QED
    BY <2>2, <2>3 DEF ActTyped, CutIsLast
<1>7. CASE \E w \in Writers : Check(w)
  <2>1. PICK w \in Writers : Check(w)
    BY <1>7
  <2>2. recording[w] \in Records /\ UNCHANGED <<clock, lines, cut, given, failures>>
    BY <2>1, CheckIs
  <2>3. CASE Recorded(w)
    <3>1. /\ recording' \in [Writers -> Records \cup {NoRecord}]
          /\ runs' \in [Runs -> {"new", "starting", "running", "closing", "closed"}]
      BY <2>2, <2>3, RecordedTyped
    <3> QED
      BY <2>2, <3>1 DEF ActTyped, CutIsLast
  <2>4. CASE ~Recorded(w)
    <3>1. recording' \in [Writers -> Records \cup {NoRecord}] /\ UNCHANGED runs
      BY <2>1, <2>4, CheckIs
    <3> QED
      BY <2>2, <3>1 DEF ActTyped, CutIsLast
  <2> QED
    BY <2>3, <2>4
<1>8. CASE \E w \in Writers : AppendLine(w) \/ \E part \in BOOLEAN : AppendFails(w, part)
  <2>1. PICK w \in Writers : AppendLine(w) \/ \E part \in BOOLEAN : AppendFails(w, part)
    BY <1>8
  <2>2. recording[w] \in Records /\ Recorded(w) /\ clock' = clock
    BY <2>1, Filing
  <2>3. /\ recording' \in [Writers -> Records \cup {NoRecord}]
        /\ runs' \in [Runs -> {"new", "starting", "running", "closing", "closed"}]
    BY <2>2, RecordedTyped
  <2>4. CASE Nothing \/ CutAgain
    BY <2>2, <2>3, <2>4 DEF ActTyped, CutIsLast, Nothing, CutAgain
  <2>5. CASE Ended(recording[w]) \/ OwnLine(recording[w])
    <3>1. lines' \in Seq(FileLines)
      BY <2>5 DEF Ended, OwnLine, Placed
    <3>0. given' = given + 1 /\ failures' = failures
      BY <2>5, Zenon DEF Ended, OwnLine
    <3>2. given' \in Nat /\ failures' \in Nat /\ clock' \in Nat
      BY <2>2, <3>0 DEF ActTyped
    <3>3. cut' \in BOOLEAN /\ ~cut'
      BY <2>5 DEF Ended, OwnLine
    <3> QED
      BY <2>3, <3>1, <3>2, <3>3 DEF ActTyped, CutIsLast
  <2>6. CASE PartOf(recording[w])
    <3>1. lines' \in Seq(FileLines) /\ Len(lines') > 0 /\ lines'[Len(lines')] = LineOf(recording[w], FALSE)
      BY <2>6 DEF PartOf, Placed
    <3>2. ~lines'[Len(lines')].whole
      BY <2>2, <3>1, LineIs
    <3>3. given' \in Nat /\ failures' \in Nat /\ clock' \in Nat
      BY <2>2, <2>6 DEF ActTyped, PartOf
    <3>4. cut' \in BOOLEAN
      BY <2>6 DEF PartOf
    <3> QED
      BY <2>3, <3>1, <3>2, <3>3, <3>4 DEF ActTyped, CutIsLast
  <2> QED
    BY <2>1, <2>4, <2>5, <2>6, Filing
<1> QED
  BY <1>1, <1>2, <1>3, <1>4, <1>5, <1>6, <1>7, <1>8, ActCases

\* The lines that can be parsed.
WholeAt(s) == {i \in 1 .. Len(s) : s[i].whole}

\* They can be counted.
LEMMA WholeFinite ==
  ASSUME NEW s, Len(s) \in Nat PROVE IsFiniteSet(WholeAt(s)) /\ Cardinality(WholeAt(s)) \in Nat
<1>1. IsFiniteSet(1 .. Len(s)) /\ WholeAt(s) \subseteq 1 .. Len(s)
  BY FS_Interval DEF WholeAt
<1>2. IsFiniteSet(WholeAt(s))
  BY <1>1, FS_Subset
<1> QED
  BY <1>2, FS_CardinalityType

\* A line of its own is one more of them, and the rest of one that was cut is none.
LEMMA WholeMore ==
  ASSUME NEW s \in Seq(FileLines), NEW n, NEW l, NEW t, Placed(s, n, l, t)
  PROVE  /\ n = Len(s) + 1 /\ l.whole => Cardinality(WholeAt(t)) = Cardinality(WholeAt(s)) + 1
         /\ ~l.whole /\ (n = Len(s) => ~s[n].whole) => WholeAt(t) = WholeAt(s)
<1>0. Len(s) \in Nat /\ n \in Nat \ {0} /\ Len(t) = n /\ n \in {Len(s), Len(s) + 1}
  BY DEF Placed
<1>1. ASSUME NEW i \in 1 .. n, i # n PROVE i \in 1 .. Len(s) /\ t[i] = s[i]
  <2>1. i \in 1 .. (n - 1)
    BY <1>0, <1>1
  <2> QED
    BY <2>1 DEF Placed
<1>2. t[n] = l
  BY DEF Placed
<1>3. ASSUME n = Len(s) + 1, l.whole PROVE Cardinality(WholeAt(t)) = Cardinality(WholeAt(s)) + 1
  <2>1. WholeAt(t) = WholeAt(s) \cup {n} /\ n \notin WholeAt(s)
    <3>1. \A i \in 1 .. Len(s) : i \in 1 .. n /\ i # n
      BY <1>0, <1>3
    <3>2. \A i \in 1 .. n : t[i].whole <=> (i = n \/ (i \in 1 .. Len(s) /\ s[i].whole))
      BY <1>1, <1>2, <1>3, <3>1
    <3>3. n \in 1 .. n
      BY <1>0
    <3> QED
      BY <1>0, <3>1, <3>2, <3>3 DEF WholeAt
  <2> QED
    BY <1>0, <2>1, WholeFinite, FS_AddElement
<1>4. ASSUME ~l.whole, n = Len(s) => ~s[n].whole PROVE WholeAt(t) = WholeAt(s)
  <2>1. \A i \in 1 .. n : t[i].whole <=> (i \in 1 .. Len(s) /\ s[i].whole)
    BY <1>0, <1>1, <1>2, <1>4
  <2>2. 1 .. Len(s) \subseteq 1 .. n
    BY <1>0
  <2> QED
    BY <1>0, <2>1, <2>2 DEF WholeAt
<1> QED
  BY <1>3, <1>4

\* Of the records that were answered as recorded, all but one for each write that left part of a
\* line can be parsed; while a part is at the end of the file, one of those is still to be lost.
LossInv ==
  /\ cut => given + 1 <= Cardinality(WholeAt(lines)) + failures
  /\ ~cut => given <= Cardinality(WholeAt(lines)) + failures

\* A step writes, or leaves the file and the counts alone.
LEMMA QuietOrFiles ==
  ASSUME [ActNext]_actVars
  PROVE  Nothing \/ \E w \in Writers : AppendLine(w) \/ \E part \in BOOLEAN : AppendFails(w, part)
<1>1. CASE UNCHANGED actVars
  BY <1>1 DEF actVars, Nothing
<1>2. CASE Tick \/ Restart
  BY <1>2 DEF Tick, Restart, Nothing
<1>3. CASE \E h \in Handlers, kind \in {"login", "chat"} : PostActivity(h, kind)
  BY <1>3 DEF PostActivity, Record, Nothing
<1>4. CASE \E h \in Handlers, r \in Runs : StartRun(h, r)
  BY <1>4 DEF StartRun, Record, Nothing
<1>5. CASE \E r \in Runs : CloseRun(r)
  BY <1>5 DEF CloseRun, Record, Nothing
<1>6. CASE \E w \in Writers : Check(w)
  BY <1>6 DEF Check, Nothing
<1> QED
  BY <1>1, <1>2, <1>3, <1>4, <1>5, <1>6, ActCases

\* Every step keeps the count of what can be lost.
LEMMA LossStep == ActTyped /\ CutIsLast /\ LossInv /\ [ActNext]_actVars => LossInv'
<1> SUFFICES ASSUME ActTyped, CutIsLast, LossInv, [ActNext]_actVars PROVE LossInv'
  OBVIOUS
<1>1. CASE Nothing
  BY <1>1 DEF LossInv, Nothing
<1>2. CASE \E w \in Writers : AppendLine(w) \/ \E part \in BOOLEAN : AppendFails(w, part)
  <2>1. PICK w \in Writers : AppendLine(w) \/ \E part \in BOOLEAN : AppendFails(w, part)
    BY <1>2
  <2>2. PICK e \in Records : e = recording[w]
    BY <2>1, Filing
  <2>3. Nothing \/ CutAgain \/ Ended(e) \/ OwnLine(e) \/ PartOf(e)
    BY <2>1, <2>2, Filing
  <2>4. lines \in Seq(FileLines) /\ given \in Nat /\ failures \in Nat
    BY DEF ActTyped
  <2>5. PICK m : m = Cardinality(WholeAt(lines))
    OBVIOUS
  <2>6. m \in Nat
    BY <2>4, <2>5, WholeFinite
  <2>7. CASE CutAgain
    BY <2>4, <2>5, <2>6, <2>7 DEF LossInv, CutAgain
  <2>8. CASE Ended(e)
    <3>1. WholeAt(lines') = WholeAt(lines)
      <4>1. Placed(lines, Len(lines), LineOf(e, FALSE), lines') /\ ~lines[Len(lines)].whole
        BY <2>8 DEF Ended, CutIsLast
      <4> QED
        BY <2>4, <4>1, LineIs, WholeMore
    <3>2. cut /\ ~cut' /\ given' = given + 1 /\ failures' = failures
      BY <2>8 DEF Ended
    <3> QED
      BY <2>4, <2>5, <2>6, <3>1, <3>2 DEF LossInv
  <2>9. CASE OwnLine(e)
    <3>1. Cardinality(WholeAt(lines')) = Cardinality(WholeAt(lines)) + 1
      <4>1. Placed(lines, Len(lines) + 1, LineOf(e, TRUE), lines')
        BY <2>9 DEF OwnLine
      <4> QED
        BY <2>4, <4>1, LineIs, WholeMore
    <3>2. ~cut /\ ~cut' /\ given' = given + 1 /\ failures' = failures
      BY <2>9 DEF OwnLine
    <3> QED
      BY <2>4, <2>5, <2>6, <3>1, <3>2 DEF LossInv
  <2>10. CASE PartOf(e)
    <3>1. WholeAt(lines') = WholeAt(lines)
      <4>1. Placed(lines, Len(lines) + 1, LineOf(e, FALSE), lines')
        BY <2>10, Zenon DEF PartOf
      <4>2. ~LineOf(e, FALSE).whole
        BY LineIs
      <4>3. PICK n : n = Len(lines) + 1
        OBVIOUS
      <4>4. n # Len(lines)
        BY <2>4, <4>3
      <4> QED
        BY <2>4, <4>1, <4>2, <4>3, <4>4, WholeMore
    <3>2. ~cut /\ cut' /\ given' = given /\ failures' = failures + 1
      BY <2>10 DEF PartOf
    <3> QED
      BY <2>4, <2>5, <2>6, <3>1, <3>2 DEF LossInv
  <2> QED
    BY <1>1, <2>3, <2>7, <2>8, <2>9, <2>10
<1> QED
  BY <1>1, <1>2, QuietOrFiles

\* What the screen shows is all that can be parsed, or as much as it may show.
LEMMA ReadShows ==
  ASSUME ActTyped
  PROVE  /\ IsFiniteSet(Read) /\ Read \subseteq 1 .. Len(lines)
         /\ Cardinality(Read) >= Returned \/ Read = WholeAt(lines)
<1>1. lines \in Seq(FileLines) /\ Len(lines) \in Nat /\ DOMAIN lines = 1 .. Len(lines)
  BY DEF ActTyped
<1>2. Read = {i \in WholeAt(lines) : Cardinality({j \in WholeAt(lines) : j > i}) < Returned}
  BY <1>1 DEF Read, WholeAt
<1>3. PICK W : W = WholeAt(lines)
  OBVIOUS
<1>4. PICK N : N = Len(lines)
  OBVIOUS
<1>5. N \in Nat /\ W \subseteq 1 .. N /\ IsFiniteSet(W)
  BY <1>1, <1>3, <1>4, WholeFinite DEF WholeAt
<1>6. PICK S : S = {i \in W : Cardinality({j \in W : j > i}) < Returned}
  OBVIOUS
<1>7. S \subseteq W /\ IsFiniteSet(S) /\ Cardinality(S) \in Nat
  BY <1>5, <1>6, FS_Subset, FS_CardinalityType
<1>8. ASSUME S # W PROVE Cardinality(S) >= Returned
  <2>1. PICK D : D = {d \in Nat : \E i \in W \ S : d = N - i}
    OBVIOUS
  <2>2. D \in SUBSET Nat /\ D # {}
    <3>1. PICK i \in W : i \notin S
      BY <1>7, <1>8
    <3>2. N - i \in Nat
      BY <1>5, <3>1
    <3> QED
      BY <2>1, <3>1, <3>2
  <2>3. PICK d \in D : \A m \in D : d <= m
    BY <2>2, Least
  <2>4. PICK i \in W \ S : d = N - i
    BY <2>1, <2>3
  <2>5. PICK A : A = {j \in W : j > i}
    OBVIOUS
  <2>6. IsFiniteSet(A) /\ Cardinality(A) \in Nat
    BY <1>5, <2>5, FS_Subset, FS_CardinalityType
  <2>7. Cardinality(A) >= Returned
    BY <1>6, <2>4, <2>5, <2>6, ActivityAssumption
  <2>8. A \subseteq S
    <3> SUFFICES ASSUME NEW j \in A, j \notin S PROVE FALSE
      OBVIOUS
    <3>1. j \in W \ S /\ j > i /\ i \in 1 .. N /\ j \in 1 .. N
      BY <1>5, <2>4, <2>5
    <3>2. N - j \in Nat /\ N - j < N - i
      BY <1>5, <3>1
    <3>3. N - j \in D
      BY <2>1, <3>1, <3>2
    <3> QED
      BY <1>5, <2>3, <2>4, <3>1, <3>2, <3>3
  <2>9. Cardinality(A) <= Cardinality(S)
    BY <1>7, <2>8, FS_Subset
  <2> QED
    BY <1>7, <2>6, <2>7, <2>9, ActivityAssumption
<1>9. Read = S
  BY <1>2, <1>3, <1>6
<1> QED
  BY <1>3, <1>4, <1>5, <1>7, <1>8, <1>9

\* What is counted by day is a total.
LEMMA CountedIs ==
  ASSUME NEW D, IsFiniteSet(D), NEW f, DOMAIN f = D
  PROVE  Counted(f) = Total([d \in D |-> Cardinality(f[d])], D)
<1>0. PICK F : F = [d \in D |-> Cardinality(f[d])]
  OBVIOUS
<1> DEFINE Adds(k) == k = [s \in SUBSET D |-> IF s = {} THEN 0 ELSE Cardinality(f[Picked(s)]) + k[s \ {Picked(s)}]]
<1>1. PICK h : Sums(F, D, h)
  BY SumsExist
<1>2. ASSUME NEW k PROVE Adds(k) <=> Sums(F, D, k)
  <2>1. ASSUME NEW s \in SUBSET D, s # {} PROVE Cardinality(f[Picked(s)]) = F[Picked(s)]
    <3>1. Picked(s) \in D
      BY <2>1, PickedIn
    <3> QED
      BY <1>0, <3>1
  <2>2. [s \in SUBSET D |-> IF s = {} THEN 0 ELSE Cardinality(f[Picked(s)]) + k[s \ {Picked(s)}]]
          = [s \in SUBSET D |-> IF s = {} THEN 0 ELSE F[Picked(s)] + k[s \ {Picked(s)}]]
    BY <2>1
  <2> QED
    BY <2>2, Zenon DEF Sums
<1>3. Counted(f) = (CHOOSE k : Adds(k))[D]
  BY Zenon DEF Counted, MapThenSumSet, MapThenFoldSet, Picked
<1> HIDE DEF Adds
<1>4. Adds(CHOOSE k : Adds(k))
  BY <1>1, <1>2, Zenon
<1>5. Sums(F, D, CHOOSE k : Adds(k)) /\ Sums(F, D, CHOOSE k : Sums(F, D, k))
  BY <1>1, <1>2, <1>4, Zenon
<1>6. (CHOOSE k : Adds(k))[D] = (CHOOSE k : Sums(F, D, k))[D]
  <2>1. D \in SUBSET D
    OBVIOUS
  <2> QED
    BY <1>5, <2>1, SumsOnce
<1> QED
  BY <1>0, <1>3, <1>6, Zenon DEF Total

\* The parts of a finite set add up to it.
LEMMA PartsAddUp ==
  ASSUME NEW R, IsFiniteSet(R), NEW D, IsFiniteSet(D), NEW g, \A i \in R : g[i] \in D,
         NEW F, \A d \in D : F[d] = Cardinality({i \in R : g[i] = d})
  PROVE  Total(F, D) = Cardinality(R)
<1> DEFINE Of(T) == {i \in R : g[i] \in T}
           N == {n \in Nat : \A T \in SUBSET D : Cardinality(T) = n => Total(F, T) = Cardinality(Of(T))}
<1>0. \A T \in SUBSET D : IsFiniteSet(T) /\ Cardinality(T) \in Nat
  BY FS_Subset, FS_CardinalityType
<1>1. \A T : IsFiniteSet(Of(T)) /\ Cardinality(Of(T)) \in Nat
  BY FS_Subset, FS_CardinalityType
<1>2. 0 \in N
  <2>1. ASSUME NEW T \in SUBSET D, Cardinality(T) = 0 PROVE Total(F, T) = Cardinality(Of(T))
    <3>1. T = {}
      BY <1>0, <2>1, FS_EmptySet
    <3>2. Of(T) = {}
      BY <3>1
    <3> QED
      BY <3>1, <3>2, TotalNone, FS_EmptySet
  <2> QED
    BY <2>1
<1>3. ASSUME NEW n \in Nat, n \in N PROVE n + 1 \in N
  <2>1. ASSUME NEW T \in SUBSET D, Cardinality(T) = n + 1 PROVE Total(F, T) = Cardinality(Of(T))
    <3>1. T # {}
      BY <2>1, FS_EmptySet
    <3>2. PICK d \in T : d = Picked(T)
      BY <3>1, PickedIn
    <3>3. PICK U : U = T \ {d}
      OBVIOUS
    <3>4. Total(F, T) = F[d] + Total(F, U)
      BY <1>0, <3>1, <3>2, <3>3, TotalPicked
    <3>5. U \in SUBSET D /\ Cardinality(U) = n
      <4>1. Cardinality(T) = Cardinality(U) + 1 /\ Cardinality(U) \in Nat
        BY <1>0, <3>1, <3>2, <3>3, OneLess
      <4> QED
        BY <2>1, <3>3, <4>1
    <3>6. Total(F, U) = Cardinality(Of(U))
      BY <1>3, <3>5
    <3>7. PICK A : A = {i \in R : g[i] = d}
      OBVIOUS
    <3>8. IsFiniteSet(A) /\ Cardinality(A) \in Nat /\ F[d] = Cardinality(A)
      BY <2>1, <3>2, <3>7, FS_Subset, FS_CardinalityType
    <3>9. Of(T) = A \cup Of(U) /\ A \cap Of(U) = {}
      BY <3>2, <3>3, <3>7
    <3>10. PICK B : B = Of(U)
      OBVIOUS
    <3>11. Cardinality(A \cup B) = Cardinality(A) + Cardinality(B) - Cardinality(A \cap B)
      BY <1>1, <3>8, <3>10, FS_Union
    <3>12. Cardinality(A \cap B) = 0 /\ Cardinality(B) \in Nat
      BY <1>1, <3>9, <3>10, FS_EmptySet
    <3>13. Cardinality(A \cup B) = Cardinality(A) + Cardinality(B)
      <4> HIDE DEF Of
      <4> QED
        BY <3>8, <3>11, <3>12
    <3>14. Of(T) = A \cup B
      BY <3>9, <3>10
    <3> QED
      BY <3>4, <3>6, <3>8, <3>10, <3>13, <3>14
  <2> QED
    BY <2>1
<1> HIDE DEF N
<1>4. Nat \subseteq N
  BY <1>2, <1>3, Induction
<1>5. D \in SUBSET D /\ Cardinality(D) \in N
  BY <1>0, <1>4
<1>6. Total(F, D) = Cardinality(Of(D))
  BY <1>5 DEF N
<1>7. Of(D) = R
  OBVIOUS
<1> QED
  BY <1>6, <1>7

\* The days the screen shows count every record it shows, once.
LEMMA TotalsIs == ASSUME ActTyped PROVE Totals = Cardinality(Read)
<1>1. PICK R : R = Read
  OBVIOUS
<1>2. IsFiniteSet(R)
  BY <1>1, ReadShows
<1>3. PICK g : g = [i \in R |-> Day(i)]
  OBVIOUS
<1>4. PICK D : D = {g[i] : i \in R}
  OBVIOUS
<1>5. IsFiniteSet(D)
  <2>1. g \in [R -> D] /\ \A d \in D : \E i \in R : g[i] = d
    BY <1>3, <1>4
  <2>2. g \in Surjection(R, D)
    BY <2>1 DEF Surjection
  <2> QED
    BY <1>2, <2>2, FS_Surjection
<1>6. PICK f : f = [d \in D |-> {i \in R : g[i] = d}]
  OBVIOUS
<1>7. Days = f
  <2>1. {Day(i) : i \in Read} = D
    BY <1>1, <1>3, <1>4
  <2>2. \A d \in D : {i \in Read : Day(i) = d} = {i \in R : g[i] = d}
    BY <1>1, <1>3
  <2>3. [d \in D |-> {i \in Read : Day(i) = d}] = [d \in D |-> {i \in R : g[i] = d}]
    BY <2>2, Zenon
  <2> QED
    BY <1>6, <2>1, <2>3 DEF Days
<1>8. PICK F : F = [d \in D |-> Cardinality(f[d])]
  OBVIOUS
<1>9. DOMAIN f = D
  BY <1>6
<1>10. Counted(f) = Total(F, D)
  BY <1>5, <1>8, <1>9, CountedIs
<1>11. \A d \in D : F[d] = Cardinality({i \in R : g[i] = d})
  BY <1>6, <1>8
<1>12. \A i \in R : g[i] \in D
  BY <1>4
<1>13. Total(F, D) = Cardinality(R)
  BY <1>2, <1>5, <1>11, <1>12, PartsAddUp
<1> QED
  BY <1>1, <1>7, <1>10, <1>13 DEF Totals

\* One loss for each failure is what the counts say.
LEMMA LossIs == ActTyped /\ LossInv => OneLossPerFailure
<1> SUFFICES ASSUME ActTyped, LossInv PROVE OneLossPerFailure
  OBVIOUS
<1>1. PICK k : k = Cardinality(Read)
  OBVIOUS
<1>2. Totals = k /\ k \in Nat
  BY <1>1, TotalsIs, ReadShows, FS_CardinalityType
<1>3. given \in Nat /\ failures \in Nat /\ lines \in Seq(FileLines)
  BY DEF ActTyped
<1>4. PICK x : x = given - failures
  OBVIOUS
<1>5. PICK m : m = Min({Returned, x})
  OBVIOUS
<1>6. Returned \in Int /\ x \in Int
  BY <1>3, <1>4, ActivityAssumption
<1>7. m \in Int /\ m <= Returned /\ m <= x
  <2>1. \E a \in {Returned, x} : \A b \in {Returned, x} : a <= b
    <3>1. CASE Returned <= x
      BY <1>6, <3>1
    <3>2. CASE ~(Returned <= x)
      BY <1>6, <3>2
    <3> QED
      BY <3>1, <3>2
  <2>2. m \in {Returned, x} /\ \A b \in {Returned, x} : m <= b
    BY <1>5, <2>1, Zenon DEF Min
  <2> QED
    BY <1>6, <2>2
<1>8. k >= Returned \/ k >= x
  <2>1. CASE k >= Returned
    BY <2>1
  <2>2. CASE Read = WholeAt(lines)
    BY <1>1, <1>2, <1>3, <1>4, <2>2, WholeFinite DEF LossInv
  <2> QED
    BY <1>1, <2>1, <2>2, ReadShows
<1>9. k >= m
  BY <1>2, <1>6, <1>7, <1>8
<1> QED
  BY <1>2, <1>4, <1>5, <1>9 DEF OneLossPerFailure

\* What is being recorded: something of no run; the start of a run that waits for it; or the end of
\* one that waits for it, by its own thread.  Nobody else records the same of the same run.
RecordsInv ==
  /\ \A w \in Writers :
       \/ recording[w] = NoRecord
       \/ recording[w].run = NoRun /\ recording[w].status = ""
       \/ recording[w].run \in Runs /\ recording[w].status = "started" /\ w # recording[w].run
          /\ runs[recording[w].run] = "starting"
       \/ recording[w].run \in Runs /\ recording[w].status = "closed" /\ w = recording[w].run
          /\ runs[recording[w].run] = "closing"
  /\ \A w \in Writers, v \in Writers :
       recording[w] # NoRecord /\ recording[v] # NoRecord /\ recording[w].run = recording[v].run /\ recording[w].run # NoRun
         => w = v

\* A line about a run says that it started, and the run is past that; or that it closed, and the run is.
RunLinesInv ==
  \A i \in 1 .. Len(lines) :
    \/ lines[i].run = NoRun /\ lines[i].status = ""
    \/ lines[i].run \in Runs /\ lines[i].status = "started" /\ runs[lines[i].run] \in {"running", "closing", "closed"}
    \/ lines[i].run \in Runs /\ lines[i].status = "closed" /\ runs[lines[i].run] = "closed"

RunsInv == RecordsInv /\ RunLinesInv /\ RunsCloseOnce

\* A record is something.
LEMMA IsRecord == ASSUME NEW e \in Records PROVE e # NoRecord
<1>1. e.at # "idle"
  BY DEF Records
<1>2. NoRecord.at = "idle"
  BY DEF NoRecord
<1> QED
  BY <1>1, <1>2

\* When a record is done with, the others are as they were.
LEMMA RecordedRecords ==
  ASSUME ActTyped, RecordsInv, NEW w \in Writers, recording[w] \in Records, Recorded(w)
  PROVE  RecordsInv'
<1> DEFINE e == recording[w]
<1>1. /\ recording' = [recording EXCEPT ![w] = NoRecord]
      /\ \A r \in Runs : runs'[r] = IF r # e.run THEN runs[r] ELSE IF w = r THEN "closed" ELSE "running"
  BY RecordedTyped
<1>2. e # NoRecord
  BY IsRecord
<1>3. ASSUME NEW v \in Writers PROVE recording'[v] = IF v = w THEN NoRecord ELSE recording[v]
  BY <1>1 DEF ActTyped
<1>4. ASSUME NEW v \in Writers, v # w, recording[v] # NoRecord, recording[v].run \in Runs
      PROVE  runs'[recording[v].run] = runs[recording[v].run]
  <2>1. recording[v].run # e.run
    BY <1>2, <1>4, ActivityAssumption DEF RecordsInv
  <2> QED
    BY <1>1, <1>4, <2>1
<1>5. ASSUME NEW v \in Writers
      PROVE  \/ recording'[v] = NoRecord
             \/ recording'[v].run = NoRun /\ recording'[v].status = ""
             \/ recording'[v].run \in Runs /\ recording'[v].status = "started" /\ v # recording'[v].run
                /\ runs'[recording'[v].run] = "starting"
             \/ recording'[v].run \in Runs /\ recording'[v].status = "closed" /\ v = recording'[v].run
                /\ runs'[recording'[v].run] = "closing"
  <2>1. CASE v = w \/ recording[v] = NoRecord
    BY <1>3, <2>1
  <2>2. CASE v # w /\ recording[v] # NoRecord
    <3>1. recording'[v] = recording[v]
      BY <1>3, <2>2
    <3>2. \/ recording[v].run = NoRun /\ recording[v].status = ""
          \/ recording[v].run \in Runs /\ recording[v].status = "started" /\ v # recording[v].run
             /\ runs[recording[v].run] = "starting"
          \/ recording[v].run \in Runs /\ recording[v].status = "closed" /\ v = recording[v].run
             /\ runs[recording[v].run] = "closing"
      BY <2>2 DEF RecordsInv
    <3> QED
      BY <1>4, <2>2, <3>1, <3>2
  <2> QED
    BY <2>1, <2>2
<1>6. ASSUME NEW u \in Writers, NEW v \in Writers, recording'[u] # NoRecord, recording'[v] # NoRecord,
             recording'[u].run = recording'[v].run, recording'[u].run # NoRun
      PROVE  u = v
  <2>1. recording'[u] = recording[u] /\ recording'[v] = recording[v]
    BY <1>3, <1>6
  <2> QED
    BY <1>6, <2>1 DEF RecordsInv
<1> QED
  BY <1>5, <1>6 DEF RecordsInv

\* When one begins, of a run that nobody records, or of none, the others are as they were.
LEMMA RecordRecords ==
  ASSUME ActTyped, RecordsInv, NEW w \in Writers, NEW e \in Records, recording' = [recording EXCEPT ![w] = e],
         NEW r \in Runs \cup {NoRun},
         e.run = r, \A x \in Runs : x # r => runs'[x] = runs[x],
         r # NoRun => runs[r] \in {"new", "running"},
         \/ r = NoRun /\ e.status = ""
         \/ r \in Runs /\ e.status = "started" /\ w # r /\ runs'[r] = "starting"
         \/ r \in Runs /\ e.status = "closed" /\ w = r /\ runs'[r] = "closing"
  PROVE  RecordsInv'
<1>1. e # NoRecord
  BY IsRecord
<1>2. \A v \in Writers : recording'[v] = IF v = w THEN e ELSE recording[v]
  BY DEF ActTyped
<1>3. ASSUME NEW v \in Writers, v # w, recording[v] # NoRecord, recording[v].run # NoRun
      PROVE  recording[v].run # r /\ recording[v].run \in Runs
  BY <1>3 DEF RecordsInv
<1>4. ASSUME NEW v \in Writers
      PROVE  \/ recording'[v] = NoRecord
             \/ recording'[v].run = NoRun /\ recording'[v].status = ""
             \/ recording'[v].run \in Runs /\ recording'[v].status = "started" /\ v # recording'[v].run
                /\ runs'[recording'[v].run] = "starting"
             \/ recording'[v].run \in Runs /\ recording'[v].status = "closed" /\ v = recording'[v].run
                /\ runs'[recording'[v].run] = "closing"
  <2>1. CASE v = w
    BY <1>2, <2>1
  <2>2. CASE v # w
    <3>1. recording'[v] = recording[v]
      BY <1>2, <2>2
    <3>2. CASE recording[v] = NoRecord \/ recording[v].run = NoRun
      BY <3>1, <3>2, ActivityAssumption DEF RecordsInv
    <3>3. CASE recording[v] # NoRecord /\ recording[v].run # NoRun
      <4>1. runs'[recording[v].run] = runs[recording[v].run]
        BY <1>3, <2>2, <3>3
      <4> QED
        BY <3>1, <3>3, <4>1 DEF RecordsInv
    <3> QED
      BY <3>2, <3>3
  <2> QED
    BY <2>1, <2>2
<1>5. ASSUME NEW u \in Writers, NEW v \in Writers, recording'[u] # NoRecord, recording'[v] # NoRecord,
             recording'[u].run = recording'[v].run, recording'[u].run # NoRun
      PROVE  u = v
  <2>1. CASE u # w /\ v # w
    <3>1. recording'[u] = recording[u] /\ recording'[v] = recording[v]
      BY <1>2, <2>1
    <3> QED
      BY <1>5, <3>1 DEF RecordsInv
  <2>2. CASE u = w
    BY <1>2, <1>3, <1>5, <2>2
  <2>3. CASE v = w
    BY <1>2, <1>3, <1>5, <2>3
  <2> QED
    BY <2>1, <2>2, <2>3
<1> QED
  BY <1>4, <1>5 DEF RecordsInv

\* The lines about runs stay true while the runs go on.
LEMMA LinesOnward ==
  ASSUME ActTyped, RunLinesInv, RunsCloseOnce, UNCHANGED lines,
         \A r \in Runs : /\ runs[r] \in {"running", "closing", "closed"} => runs'[r] \in {"running", "closing", "closed"}
                         /\ runs[r] = "closed" => runs'[r] = "closed"
  PROVE  RunLinesInv' /\ RunsCloseOnce'
<1>1. RunLinesInv'
  <2> SUFFICES ASSUME NEW i \in 1 .. Len(lines)
               PROVE  \/ lines[i].run = NoRun /\ lines[i].status = ""
                      \/ lines[i].run \in Runs /\ lines[i].status = "started" /\ runs'[lines[i].run] \in {"running", "closing", "closed"}
                      \/ lines[i].run \in Runs /\ lines[i].status = "closed" /\ runs'[lines[i].run] = "closed"
    BY DEF RunLinesInv
  <2> QED
    BY DEF RunLinesInv
<1> QED
  BY <1>1 DEF RunsCloseOnce

\* A line at the end of the file is the first about the start of its run, and the only one of its end.
LEMMA LinesFiled ==
  ASSUME ActTyped, RecordsInv, RunLinesInv, RunsCloseOnce, NEW w \in Writers, recording[w] \in Records, Recorded(w),
         NEW n, NEW b \in BOOLEAN, Placed(lines, n, LineOf(recording[w], b), lines')
  PROVE  RunLinesInv' /\ RunsCloseOnce'
<1>1. PICK e \in Records : e = recording[w]
  OBVIOUS
<1>2. PICK t \in Seq(FileLines) : t = lines'
  BY DEF Placed
<1>3. PICK rr : rr = runs'
  OBVIOUS
<1>4. /\ n \in Nat \ {0} /\ Len(t) = n /\ DOMAIN t = 1 .. n
      /\ t[n].run = e.run /\ t[n].status = e.status
      /\ \A i \in 1 .. (n - 1) : i \in 1 .. Len(lines) /\ t[i] = lines[i]
  BY <1>1, <1>2 DEF Placed, LineOf
<1>5. \A r \in Runs : rr[r] = IF r # e.run THEN runs[r] ELSE IF w = r THEN "closed" ELSE "running"
  BY <1>1, <1>3, RecordedTyped
<1>6. \/ e.run = NoRun /\ e.status = ""
      \/ e.run \in Runs /\ e.status = "started" /\ w # e.run /\ runs[e.run] = "starting"
      \/ e.run \in Runs /\ e.status = "closed" /\ w = e.run /\ runs[e.run] = "closing"
  <2>1. e # NoRecord
    BY IsRecord
  <2> QED
    BY <1>1, <2>1, Zenon DEF RecordsInv
<1>7. ASSUME NEW i \in 1 .. n, i # n
      PROVE  /\ i \in 1 .. Len(lines) /\ t[i] = lines[i] /\ i < n
             /\ \/ t[i].run = NoRun /\ t[i].status = ""
                \/ t[i].run \in Runs /\ t[i].status = "started" /\ runs[t[i].run] \in {"running", "closing", "closed"}
                \/ t[i].run \in Runs /\ t[i].status = "closed" /\ runs[t[i].run] = "closed"
  <2>1. i \in 1 .. (n - 1) /\ i < n
    BY <1>4, <1>7
  <2> QED
    BY <1>4, <2>1 DEF RunLinesInv
<1>8. ASSUME NEW i \in 1 .. n
      PROVE  \/ t[i].run = NoRun /\ t[i].status = ""
             \/ t[i].run \in Runs /\ t[i].status = "started" /\ rr[t[i].run] \in {"running", "closing", "closed"}
             \/ t[i].run \in Runs /\ t[i].status = "closed" /\ rr[t[i].run] = "closed"
  <2>1. CASE i = n
    BY <1>4, <1>5, <1>6, <2>1
  <2>2. CASE i # n
    <3>1. PICK x : x = t[i]
      OBVIOUS
    <3>2. \/ x.run = NoRun /\ x.status = ""
          \/ x.run \in Runs /\ x.status = "started" /\ runs[x.run] \in {"running", "closing", "closed"}
          \/ x.run \in Runs /\ x.status = "closed" /\ runs[x.run] = "closed"
      BY <1>7, <2>2, <3>1
    <3>3. x.run = e.run /\ x.run \in Runs => runs[x.run] = "starting" \/ (runs[x.run] = "closing" /\ w = x.run)
      BY <1>6, ActivityAssumption
    <3>4. x.run \in Runs /\ x.run # e.run => rr[x.run] = runs[x.run]
      BY <1>5
    <3>5. x.run \in Runs /\ x.run = e.run /\ w = x.run => rr[x.run] = "closed"
      BY <1>5
    <3>6. \/ x.run = NoRun /\ x.status = ""
          \/ x.run \in Runs /\ x.status = "started" /\ rr[x.run] \in {"running", "closing", "closed"}
          \/ x.run \in Runs /\ x.status = "closed" /\ rr[x.run] = "closed"
      BY <3>2, <3>3, <3>4, <3>5
    <3> QED
      BY <3>1, <3>6
  <2> QED
    BY <2>1, <2>2
<1>9. RunLinesInv'
  BY <1>2, <1>3, <1>4, <1>8 DEF RunLinesInv
<1>10. ASSUME NEW i \in 1 .. n, NEW j \in 1 .. n, t[i].run # NoRun, t[i].run = t[j].run, t[i].status = "closed", i # j
       PROVE  t[j].status = "started" /\ j < i
  <2>1. CASE i = n
    <3>1. e.run \in Runs /\ e.status = "closed" /\ runs[e.run] = "closing" /\ t[j].run = e.run
      BY <1>4, <1>6, <1>10, <2>1
    <3> QED
      BY <1>7, <1>10, <2>1, <3>1, ActivityAssumption
  <2>2. CASE j = n
    <3>1. runs[e.run] = "closed" /\ e.run \in Runs
      BY <1>4, <1>7, <1>10, <2>2
    <3> QED
      BY <1>6, <3>1, ActivityAssumption
  <2>3. CASE i # n /\ j # n
    <3>1. i \in 1 .. Len(lines) /\ j \in 1 .. Len(lines) /\ t[i] = lines[i] /\ t[j] = lines[j]
      BY <1>7, <2>3
    <3>2. DOMAIN lines = 1 .. Len(lines)
      BY DEF ActTyped
    <3> QED
      BY <1>10, <3>1, <3>2 DEF RunsCloseOnce
  <2> QED
    BY <2>1, <2>2, <2>3
<1>11. RunsCloseOnce'
  BY <1>2, <1>4, <1>10 DEF RunsCloseOnce
<1> QED
  BY <1>9, <1>11

\* At the start nothing is recorded.
LEMMA RunsInvInit == ActInit => RunsInv
<1> SUFFICES ASSUME ActInit PROVE RunsInv
  OBVIOUS
<1>1. \A w \in Writers : recording[w] = NoRecord
  BY DEF ActInit
<1>2. lines = <<>>
  BY DEF ActInit
<1>3. RecordsInv
  BY <1>1 DEF RecordsInv
<1> QED
  BY <1>2, <1>3 DEF RunsInv, RunLinesInv, RunsCloseOnce

\* What is recorded stays as it was when a step does not touch it.
LEMMA RecordsSame ==
  ASSUME RecordsInv, UNCHANGED runs,
         \A v \in Writers : /\ recording'[v] = NoRecord <=> recording[v] = NoRecord
                            /\ recording[v] # NoRecord => /\ recording'[v].run = recording[v].run
                                                          /\ recording'[v].status = recording[v].status
  PROVE  RecordsInv'
<1>1. ASSUME NEW w \in Writers, recording'[w] # NoRecord
      PROVE  \/ recording'[w].run = NoRun /\ recording'[w].status = ""
             \/ recording'[w].run \in Runs /\ recording'[w].status = "started" /\ w # recording'[w].run
                /\ runs'[recording'[w].run] = "starting"
             \/ recording'[w].run \in Runs /\ recording'[w].status = "closed" /\ w = recording'[w].run
                /\ runs'[recording'[w].run] = "closing"
  <2>1. PICK x : x = recording[w].run
    OBVIOUS
  <2>2. recording[w] # NoRecord /\ recording'[w].run = x /\ recording'[w].status = recording[w].status
    BY <1>1, <2>1
  <2>3. \/ x = NoRun /\ recording[w].status = ""
        \/ x \in Runs /\ recording[w].status = "started" /\ w # x /\ runs[x] = "starting"
        \/ x \in Runs /\ recording[w].status = "closed" /\ w = x /\ runs[x] = "closing"
    BY <2>1, <2>2 DEF RecordsInv
  <2> QED
    BY <2>2, <2>3
<1>2. ASSUME NEW w \in Writers, NEW v \in Writers, recording'[w] # NoRecord, recording'[v] # NoRecord,
             recording'[w].run = recording'[v].run, recording'[w].run # NoRun
      PROVE  w = v
  <2>1. /\ recording[w] # NoRecord /\ recording[v] # NoRecord
        /\ recording[w].run = recording[v].run /\ recording[w].run # NoRun
    BY <1>2
  <2> QED
    BY <2>1, Zenon DEF RecordsInv
<1> QED
  BY <1>1, <1>2 DEF RecordsInv

\* Every step keeps what is recorded of the runs.
LEMMA RunsInvStep == ActTyped /\ CutIsLast /\ RunsInv /\ [ActNext]_actVars => RunsInv'
<1> SUFFICES ASSUME ActTyped, CutIsLast, RunsInv, [ActNext]_actVars PROVE RunsInv'
  OBVIOUS
<1>0. RecordsInv /\ RunLinesInv /\ RunsCloseOnce
  BY DEF RunsInv
<1>1. CASE UNCHANGED actVars
  BY <1>0, <1>1, RecordsSame, LinesOnward DEF actVars, RunsInv
<1>2. CASE Tick
  BY <1>0, <1>2, RecordsSame, LinesOnward DEF Tick, RunsInv
<1>3. CASE Restart
  <2>1. \A w \in Writers : recording'[w] = NoRecord
    BY <1>3 DEF Restart
  <2>2. RecordsInv'
    BY <2>1 DEF RecordsInv
  <2>3. /\ UNCHANGED lines
        /\ \A r \in Runs : /\ runs[r] \in {"running", "closing", "closed"} => runs'[r] \in {"running", "closing", "closed"}
                           /\ runs[r] = "closed" => runs'[r] = "closed"
    BY <1>3 DEF Restart
  <2> QED
    BY <1>0, <2>2, <2>3, LinesOnward DEF RunsInv
<1>4. CASE \E h \in Handlers, kind \in {"login", "chat"} : PostActivity(h, kind)
  <2>1. PICK h \in Handlers, kind \in {"login", "chat"} : PostActivity(h, kind)
    BY <1>4
  <2>2. Record(h, kind, "", NoRun) /\ UNCHANGED runs /\ h \in Writers /\ kind \in Kinds
    BY <2>1 DEF PostActivity, Writers, Kinds
  <2>3. PICK e : e = Entry(kind, "", NoRun)
    OBVIOUS
  <2>4. e \in Records /\ e.run = NoRun /\ e.status = "" /\ recording' = [recording EXCEPT ![h] = e] /\ UNCHANGED lines
    <3>1. e.run = NoRun /\ e.status = ""
      BY <2>3 DEF Entry
    <3>2. "" \in {"", "started", "closed"} /\ NoRun \in Runs \cup {NoRun}
      OBVIOUS
    <3>3. e \in Records /\ recording' = [recording EXCEPT ![h] = e] /\ UNCHANGED lines
      <4>1. /\ Entry(kind, "", NoRun) \in Records /\ recording' = [recording EXCEPT ![h] = Entry(kind, "", NoRun)]
            /\ UNCHANGED <<clock, lines, cut, given, failures>>
        BY <2>2, <3>2, RecordTyped, Zenon
      <4> QED
        BY <2>3, <4>1
    <3> QED
      BY <3>1, <3>3
  <2>5. RecordsInv'
    BY <1>0, <2>2, <2>4, RecordRecords
  <2> QED
    BY <1>0, <2>2, <2>4, <2>5, LinesOnward DEF RunsInv
<1>5. CASE \E h \in Handlers, r \in Runs : StartRun(h, r)
  <2>1. PICK h \in Handlers, r \in Runs : StartRun(h, r)
    BY <1>5
  <2>2. /\ runs[r] = "new" /\ Record(h, "pipeline_run", "started", r) /\ runs' = [runs EXCEPT ![r] = "starting"]
        /\ h \in Writers /\ "pipeline_run" \in Kinds
    BY <2>1 DEF StartRun, Writers, Kinds
  <2>3. PICK e : e = Entry("pipeline_run", "started", r)
    OBVIOUS
  <2>4. e \in Records /\ e.run = r /\ e.status = "started" /\ recording' = [recording EXCEPT ![h] = e] /\ UNCHANGED lines
    <3>1. e.run = r /\ e.status = "started"
      BY <2>3 DEF Entry
    <3>2. "started" \in {"", "started", "closed"} /\ r \in Runs \cup {NoRun}
      OBVIOUS
    <3>3. e \in Records /\ recording' = [recording EXCEPT ![h] = e] /\ UNCHANGED lines
      <4>1. /\ Entry("pipeline_run", "started", r) \in Records /\ recording' = [recording EXCEPT ![h] = Entry("pipeline_run", "started", r)]
            /\ UNCHANGED <<clock, lines, cut, given, failures>>
        BY <2>2, <3>2, RecordTyped, Zenon
      <4> QED
        BY <2>3, <4>1
    <3> QED
      BY <3>1, <3>3
  <2>5. h # r /\ r # NoRun
    BY ActivityAssumption
  <2>6. runs'[r] = "starting" /\ \A x \in Runs : x # r => runs'[x] = runs[x]
    BY <2>2 DEF ActTyped
  <2>7. RecordsInv'
    BY <1>0, <2>2, <2>4, <2>5, <2>6, RecordRecords
  <2>8. \A x \in Runs : /\ runs[x] \in {"running", "closing", "closed"} => runs'[x] \in {"running", "closing", "closed"}
                        /\ runs[x] = "closed" => runs'[x] = "closed"
    BY <2>2, <2>6
  <2> QED
    BY <1>0, <2>4, <2>7, <2>8, LinesOnward DEF RunsInv
<1>6. CASE \E r \in Runs : CloseRun(r)
  <2>1. PICK r \in Runs : CloseRun(r)
    BY <1>6
  <2>2. /\ runs[r] = "running" /\ Record(r, "pipeline_run", "closed", r) /\ runs' = [runs EXCEPT ![r] = "closing"]
        /\ r \in Writers /\ "pipeline_run" \in Kinds
    BY <2>1 DEF CloseRun, Writers, Kinds
  <2>3. PICK e : e = Entry("pipeline_run", "closed", r)
    OBVIOUS
  <2>4. e \in Records /\ e.run = r /\ e.status = "closed" /\ recording' = [recording EXCEPT ![r] = e] /\ UNCHANGED lines
    <3>1. e.run = r /\ e.status = "closed"
      BY <2>3 DEF Entry
    <3>2. "closed" \in {"", "started", "closed"} /\ r \in Runs \cup {NoRun}
      OBVIOUS
    <3>3. e \in Records /\ recording' = [recording EXCEPT ![r] = e] /\ UNCHANGED lines
      <4>1. /\ Entry("pipeline_run", "closed", r) \in Records /\ recording' = [recording EXCEPT ![r] = Entry("pipeline_run", "closed", r)]
            /\ UNCHANGED <<clock, lines, cut, given, failures>>
        BY <2>2, <3>2, RecordTyped, Zenon
      <4> QED
        BY <2>3, <4>1
    <3> QED
      BY <3>1, <3>3
  <2>6. runs'[r] = "closing" /\ \A x \in Runs : x # r => runs'[x] = runs[x]
    BY <2>2 DEF ActTyped
  <2>7. RecordsInv'
    BY <1>0, <2>2, <2>4, <2>6, RecordRecords, ActivityAssumption
  <2>8. \A x \in Runs : /\ runs[x] \in {"running", "closing", "closed"} => runs'[x] \in {"running", "closing", "closed"}
                        /\ runs[x] = "closed" => runs'[x] = "closed"
    BY <2>2, <2>6
  <2> QED
    BY <1>0, <2>4, <2>7, <2>8, LinesOnward DEF RunsInv
<1>7. ASSUME NEW w \in Writers, recording[w] \in Records, Recorded(w), UNCHANGED lines PROVE RunsInv'
  <2>1. RecordsInv'
    BY <1>0, <1>7, RecordedRecords
  <2>2. \A r \in Runs : runs'[r] = IF r # recording[w].run THEN runs[r] ELSE IF w = r THEN "closed" ELSE "running"
    BY <1>7, RecordedTyped
  <2>3. \/ recording[w].run = NoRun
        \/ recording[w].run \in Runs /\ w # recording[w].run /\ runs[recording[w].run] = "starting"
        \/ recording[w].run \in Runs /\ w = recording[w].run /\ runs[recording[w].run] = "closing"
    <3>1. recording[w] # NoRecord
      BY <1>7, IsRecord
    <3> QED
      BY <1>0, <1>7, <3>1, Zenon DEF RecordsInv
  <2>4. \A r \in Runs : /\ runs[r] \in {"running", "closing", "closed"} => runs'[r] \in {"running", "closing", "closed"}
                        /\ runs[r] = "closed" => runs'[r] = "closed"
    BY <2>2, <2>3, ActivityAssumption
  <2> QED
    BY <1>0, <1>7, <2>1, <2>4, LinesOnward DEF RunsInv
<1>8. CASE \E w \in Writers : Check(w)
  <2>1. PICK w \in Writers : Check(w)
    BY <1>8
  <2>2. CASE Recorded(w)
    BY <1>7, <2>1, <2>2, CheckIs
  <2>3. CASE ~Recorded(w)
    <3>1. PICK e : e = recording[w]
      OBVIOUS
    <3>2. PICK f : f = [e EXCEPT !.at = "append", !.seen = Len(lines)]
      OBVIOUS
    <3>3. e \in Records /\ f \in Records /\ recording' = [recording EXCEPT ![w] = f] /\ UNCHANGED <<runs, lines>>
      BY <2>1, <2>3, <3>1, <3>2, CheckIs
    <3>4. f.run = e.run /\ f.status = e.status
      BY <3>2, <3>3 DEF Records
    <3>5. e # NoRecord /\ f # NoRecord
      BY <3>3, IsRecord
    <3>6. \A v \in Writers : recording'[v] = IF v = w THEN f ELSE recording[v]
      BY <3>3 DEF ActTyped
    <3>7. \A v \in Writers : /\ recording'[v] = NoRecord <=> recording[v] = NoRecord
                             /\ recording[v] # NoRecord => /\ recording'[v].run = recording[v].run
                                                           /\ recording'[v].status = recording[v].status
      BY <3>1, <3>4, <3>5, <3>6
    <3>8. RecordsInv'
      BY <1>0, <3>3, <3>7, RecordsSame
    <3> QED
      BY <1>0, <3>3, <3>8, LinesOnward DEF RunsInv
  <2> QED
    BY <2>2, <2>3
<1>9. CASE \E w \in Writers : AppendLine(w) \/ \E part \in BOOLEAN : AppendFails(w, part)
  <2>1. PICK w \in Writers : AppendLine(w) \/ \E part \in BOOLEAN : AppendFails(w, part)
    BY <1>9
  <2>2. recording[w] \in Records /\ Recorded(w)
    BY <2>1, Filing
  <2>3. CASE Nothing \/ CutAgain
    BY <1>7, <2>2, <2>3 DEF Nothing, CutAgain
  <2>4. CASE Ended(recording[w]) \/ OwnLine(recording[w]) \/ PartOf(recording[w])
    <3>1. \E n, b : b \in BOOLEAN /\ Placed(lines, n, LineOf(recording[w], b), lines')
      BY <2>4, Zenon DEF Ended, OwnLine, PartOf
    <3>2. RecordsInv'
      BY <1>0, <2>2, RecordedRecords
    <3>3. RunLinesInv' /\ RunsCloseOnce'
      BY <1>0, <2>2, <3>1, LinesFiled
    <3> QED
      BY <3>2, <3>3 DEF RunsInv
  <2> QED
    BY <2>1, <2>3, <2>4, Filing
<1> QED
  BY <1>1, <1>2, <1>3, <1>4, <1>5, <1>6, <1>8, <1>9, ActCases

\* A sign-in that can be parsed.
IsLogin(s, i) == s[i].whole /\ s[i].kind = "login"

\* Of the first lines of a file, as many as a sign-in at ts has seen, none is an earlier sign-in that
\* it repeats, but for those that one out of the order of the times stands after.
ClearIn(s, ts, seen) ==
  \A i \in 1 .. Len(s) :
    IsLogin(s, i) /\ i <= seen /\ ts - s[i].ts \in 0 .. (Collapse - 1) =>
      \E k \in 1 .. Len(s) : IsLogin(s, k) /\ i < k /\ k <= seen /\ (s[k].ts < s[i].ts \/ s[k].ts > ts)

\* The file goes on: what could be parsed is the same, what could not cannot.
Further(s, t) ==
  /\ Len(s) <= Len(t)
  /\ \A i \in 1 .. Len(s) : (t[i].whole <=> s[i].whole) /\ (s[i].whole => t[i] = s[i])

\* A sign-in that is about to be written was clear when it was looked up, and so was each on file.
LoginsInv ==
  /\ \A w \in Writers :
       recording[w].at = "append" /\ recording[w].kind = "login" =>
         recording[w].seen <= Len(lines) /\ ClearIn(lines, recording[w].ts, recording[w].seen)
  /\ \A j \in 1 .. Len(lines) :
       IsLogin(lines, j) => lines[j].seen < j /\ ClearIn(lines, lines[j].ts, lines[j].seen)

\* What is clear stays so.
LEMMA ClearStays ==
  ASSUME NEW s \in Seq(FileLines), NEW t \in Seq(FileLines), Further(s, t), NEW ts \in Nat, NEW seen \in Nat,
         seen <= Len(s), ClearIn(s, ts, seen)
  PROVE  ClearIn(t, ts, seen)
<1>0. Len(s) \in Nat /\ Len(t) \in Nat
  OBVIOUS
<1> SUFFICES ASSUME NEW i \in 1 .. Len(t), IsLogin(t, i), i <= seen, ts - t[i].ts \in 0 .. (Collapse - 1)
             PROVE  \E k \in 1 .. Len(t) : IsLogin(t, k) /\ i < k /\ k <= seen /\ (t[k].ts < t[i].ts \/ t[k].ts > ts)
  BY DEF ClearIn
<1>1. i \in 1 .. Len(s)
  BY <1>0
<1>2. t[i] = s[i] /\ IsLogin(s, i)
  BY <1>1 DEF Further, IsLogin
<1>3. PICK k \in 1 .. Len(s) : IsLogin(s, k) /\ i < k /\ k <= seen /\ (s[k].ts < s[i].ts \/ s[k].ts > ts)
  BY <1>1, <1>2 DEF ClearIn
<1>4. t[k] = s[k] /\ IsLogin(t, k) /\ k \in 1 .. Len(t)
  BY <1>0, <1>3 DEF Further, IsLogin
<1> QED
  BY <1>2, <1>3, <1>4

\* A sign-in after which none recent is on file is clear of the whole file.
LEMMA NotRecent ==
  ASSUME ActTyped, NEW ts \in Nat, ~RecentLogin(ts)
  PROVE  ClearIn(lines, ts, Len(lines))
<1>1. PICK s \in Seq(FileLines) : s = lines
  BY DEF ActTyped
<1>2. PICK L : L = Logins
  OBVIOUS
<1>3. L = {i \in 1 .. Len(s) : IsLogin(s, i)} /\ Len(s) \in Nat
  BY <1>1, <1>2 DEF Logins, IsLogin
<1> SUFFICES ASSUME NEW i \in 1 .. Len(s), IsLogin(s, i), ts - s[i].ts \in 0 .. (Collapse - 1)
             PROVE  \E k \in 1 .. Len(s) : IsLogin(s, k) /\ i < k /\ k <= Len(s) /\ (s[k].ts < s[i].ts \/ s[k].ts > ts)
  BY <1>1 DEF ClearIn
<1>4. PICK k \in L : \A j \in L : k >= j
  <2>1. PICK D : D = {d \in Nat : \E j \in L : d = Len(s) - j}
    OBVIOUS
  <2>2. \A j \in L : Len(s) - j \in Nat /\ Len(s) - j \in D
    BY <1>3, <2>1
  <2>3. i \in L
    BY <1>3
  <2>4. D \in SUBSET Nat /\ D # {}
    BY <2>1, <2>2, <2>3
  <2>5. PICK d \in D : \A m \in D : d <= m
    BY <2>4, Least
  <2>6. PICK k \in L : d = Len(s) - k
    BY <2>1, <2>5
  <2>7. \A j \in L : k >= j
    BY <1>3, <2>2, <2>5, <2>6
  <2> QED
    BY <2>7
<1>5. PICK m \in L : m = Max(L) /\ \A j \in L : m >= j
  BY <1>4, Zenon DEF Max
<1>6. ~(0 <= ts - s[m].ts /\ ts - s[m].ts < Collapse)
  BY <1>1, <1>2, <1>5, Zenon DEF RecentLogin
<1>7. i \in L /\ m >= i /\ m \in 1 .. Len(s) /\ IsLogin(s, m) /\ s[m].ts \in Nat /\ s[i].ts \in Nat
  <2>1. i \in L /\ m >= i /\ m \in 1 .. Len(s) /\ IsLogin(s, m)
    BY <1>3, <1>5
  <2>2. \A j \in 1 .. Len(s) : s[j] \in FileLines
    OBVIOUS
  <2>3. s[m] \in FileLines /\ s[i] \in FileLines
    BY <2>1, <2>2
  <2> QED
    BY <2>1, <2>3 DEF FileLines
<1>8. s[m].ts < s[i].ts \/ s[m].ts > ts
  <2>1. PICK a \in Nat, c \in Nat : a = s[i].ts /\ c = s[m].ts
    BY <1>7
  <2>2. ts - a \in 0 .. (Collapse - 1) /\ ~(0 <= ts - c /\ ts - c < Collapse) /\ Collapse \in Nat
    BY <1>6, <2>1, ActivityAssumption
  <2>3. c < a \/ c > ts
    BY <2>2
  <2> QED
    BY <2>1, <2>3
<1>9. m # i
  <2>1. s[m].ts # s[i].ts
    <3>1. PICK a \in Nat : a = s[i].ts
      BY <1>7
    <3>2. ts - a \in 0 .. (Collapse - 1) /\ Collapse \in Nat
      BY <3>1, ActivityAssumption
    <3>3. a # s[m].ts
      BY <1>6, <3>2
    <3> QED
      BY <3>1, <3>3
  <2> QED
    BY <2>1
<1> QED
  BY <1>7, <1>8, <1>9

\* A line at the end of the file changes nothing before it.
LEMMA FiledFurther ==
  ASSUME NEW s \in Seq(FileLines), NEW n, NEW l, NEW t, Placed(s, n, l, t), n = Len(s) => ~s[n].whole /\ ~l.whole
  PROVE  Further(s, t)
<1>1. /\ Len(s) \in Nat /\ n \in Nat \ {0} /\ Len(t) = n /\ n \in {Len(s), Len(s) + 1} /\ t[n] = l
      /\ \A i \in 1 .. (n - 1) : i \in 1 .. Len(s) /\ t[i] = s[i]
  BY DEF Placed
<1>2. Len(s) <= Len(t)
  BY <1>1
<1>3. ASSUME NEW i \in 1 .. Len(s) PROVE (t[i].whole <=> s[i].whole) /\ (s[i].whole => t[i] = s[i])
  <2>1. CASE i = n
    BY <1>1, <2>1
  <2>2. CASE i # n
    <3>1. i \in 1 .. (n - 1)
      BY <1>1, <2>2
    <3> QED
      BY <1>1, <3>1
  <2> QED
    BY <2>1, <2>2
<1> QED
  BY <1>2, <1>3 DEF Further

\* At the start there are no sign-ins.
LEMMA LoginsInit == ActInit => LoginsInv
<1> SUFFICES ASSUME ActInit PROVE LoginsInv
  OBVIOUS
<1>1. \A w \in Writers : recording[w] = NoRecord
  BY DEF ActInit
<1>2. lines = <<>>
  BY DEF ActInit
<1>3. NoRecord.at # "append"
  BY DEF NoRecord
<1> QED
  BY <1>1, <1>2, <1>3 DEF LoginsInv

\* What is recorded next is no sign-in to be written, or one that was being written already.
LEMMA LoginsSame ==
  ASSUME LoginsInv, UNCHANGED lines,
         \A w \in Writers : recording'[w].at = "append" /\ recording'[w].kind = "login" => recording'[w] = recording[w]
  PROVE  LoginsInv'
<1>1. ASSUME NEW w \in Writers, recording'[w].at = "append", recording'[w].kind = "login"
      PROVE  recording'[w].seen <= Len(lines) /\ ClearIn(lines, recording'[w].ts, recording'[w].seen)
  BY <1>1 DEF LoginsInv
<1> QED
  BY <1>1 DEF LoginsInv

\* Every step keeps the sign-ins apart.
LEMMA LoginsStep == ActTyped /\ CutIsLast /\ LoginsInv /\ [ActNext]_actVars => LoginsInv'
<1> SUFFICES ASSUME ActTyped, CutIsLast, LoginsInv, [ActNext]_actVars PROVE LoginsInv'
  OBVIOUS
<1>0. NoRecord.at # "append"
  BY DEF NoRecord
<1>1. CASE UNCHANGED actVars \/ Tick
  BY <1>1, LoginsSame DEF actVars, Tick
<1>2. CASE Restart
  <2>1. UNCHANGED lines /\ \A w \in Writers : recording'[w] = NoRecord
    BY <1>2 DEF Restart
  <2> QED
    BY <1>0, <2>1, LoginsSame
<1>3. ASSUME NEW w \in Writers, NEW kind, NEW status, NEW r, Record(w, kind, status, r) PROVE LoginsInv'
  <2>1. PICK e : e = Entry(kind, status, r)
    OBVIOUS
  <2>2. recording' = [recording EXCEPT ![w] = e] /\ UNCHANGED lines
    BY <1>3, <2>1 DEF Record
  <2>3. ~(e.at = "append" /\ e.kind = "login")
    BY <2>1 DEF Entry
  <2>4. \A v \in Writers : recording'[v] = IF v = w THEN e ELSE recording[v]
    BY <2>2 DEF ActTyped
  <2> QED
    BY <2>2, <2>3, <2>4, LoginsSame
<1>4. CASE \E h \in Handlers, kind \in {"login", "chat"} : PostActivity(h, kind)
  BY <1>3, <1>4 DEF PostActivity, Writers
<1>5. CASE \E h \in Handlers, r \in Runs : StartRun(h, r)
  BY <1>3, <1>5 DEF StartRun, Writers
<1>6. CASE \E r \in Runs : CloseRun(r)
  BY <1>3, <1>6 DEF CloseRun, Writers
<1>7. ASSUME NEW w \in Writers, recording[w] \in Records, Recorded(w), UNCHANGED lines PROVE LoginsInv'
  <2>1. \A v \in Writers : recording'[v] = IF v = w THEN NoRecord ELSE recording[v]
    BY <1>7, RecordedTyped DEF ActTyped
  <2> QED
    BY <1>0, <1>7, <2>1, LoginsSame
<1>8. CASE \E w \in Writers : Check(w)
  <2>1. PICK w \in Writers : Check(w)
    BY <1>8
  <2>2. CASE Recorded(w)
    BY <1>7, <2>1, <2>2, CheckIs
  <2>3. CASE ~Recorded(w)
    <3>1. PICK e : e = recording[w]
      OBVIOUS
    <3>2. PICK n : n = Len(lines)
      OBVIOUS
    <3>3. PICK f : f = [e EXCEPT !.at = "append", !.seen = n]
      OBVIOUS
    <3>4. /\ e \in Records /\ f \in Records /\ recording' = [recording EXCEPT ![w] = f] /\ UNCHANGED lines
          /\ ~RecentLogin(e.ts)
      BY <2>1, <2>3, <3>1, <3>2, <3>3, CheckIs
    <3>5. f.ts = e.ts /\ f.seen = n /\ e.ts \in Nat /\ n \in Nat
      BY <3>2, <3>3, <3>4 DEF Records, ActTyped
    <3>6. ClearIn(lines, f.ts, f.seen) /\ f.seen <= Len(lines)
      BY <3>2, <3>4, <3>5, NotRecent
    <3>7. \A v \in Writers : recording'[v] = IF v = w THEN f ELSE recording[v]
      BY <3>4 DEF ActTyped
    <3>8. ASSUME NEW v \in Writers, recording'[v].at = "append", recording'[v].kind = "login"
          PROVE  recording'[v].seen <= Len(lines) /\ ClearIn(lines, recording'[v].ts, recording'[v].seen)
      <4>1. CASE v = w
        BY <3>6, <3>7, <4>1
      <4>2. CASE v # w
        BY <3>7, <3>8, <4>2 DEF LoginsInv
      <4> QED
        BY <4>1, <4>2
    <3> QED
      BY <3>4, <3>8 DEF LoginsInv
  <2> QED
    BY <2>2, <2>3
<1>9. ASSUME NEW w \in Writers, NEW e \in Records, e = recording[w], e.at = "append", Recorded(w), NEW n, NEW l,
             l \in {LineOf(e, TRUE), LineOf(e, FALSE)},
             Placed(lines, n, l, lines'), n = Len(lines) => ~lines[n].whole /\ ~l.whole
      PROVE  LoginsInv'
  <2>1. PICK s \in Seq(FileLines) : s = lines
    BY DEF ActTyped
  <2>2. PICK t \in Seq(FileLines) : t = lines'
    BY <1>9 DEF Placed
  <2>3. Further(s, t)
    BY <1>9, <2>1, <2>2, FiledFurther
  <2>4. /\ Len(s) \in Nat /\ n \in Nat \ {0} /\ Len(t) = n /\ n \in {Len(s), Len(s) + 1} /\ t[n] = l
        /\ \A i \in 1 .. (n - 1) : i \in 1 .. Len(s) /\ t[i] = s[i]
    BY <1>9, <2>1, <2>2 DEF Placed
  <2>5. ASSUME NEW v \in Writers, recording[v].at = "append", recording[v].kind = "login"
        PROVE  recording[v].seen <= Len(s) /\ ClearIn(t, recording[v].ts, recording[v].seen)
    <3>1. PICK x : x = recording[v]
      OBVIOUS
    <3>2. x \in Records
      BY <1>0, <2>5, <3>1 DEF ActTyped
    <3>3. x.ts \in Nat /\ x.seen \in Nat
      BY <3>2 DEF Records
    <3>4. x.seen <= Len(s) /\ ClearIn(s, x.ts, x.seen)
      BY <2>1, <2>5, <3>1 DEF LoginsInv
    <3> QED
      BY <2>3, <3>1, <3>3, <3>4, ClearStays
  <2>6. \A v \in Writers : recording'[v] = IF v = w THEN NoRecord ELSE recording[v]
    BY <1>9, RecordedTyped DEF ActTyped
  <2>7. ASSUME NEW v \in Writers, recording'[v].at = "append", recording'[v].kind = "login"
        PROVE  recording'[v].seen <= Len(t) /\ ClearIn(t, recording'[v].ts, recording'[v].seen)
    <3>1. recording'[v] = recording[v]
      BY <1>0, <2>6, <2>7
    <3>2. recording[v].seen <= Len(s) /\ ClearIn(t, recording[v].ts, recording[v].seen)
      BY <2>5, <2>7, <3>1
    <3>3. recording[v] \in Records
      BY <1>0, <2>7, <3>1 DEF ActTyped
    <3>4. recording[v].seen \in Nat
      BY <3>3 DEF Records
    <3>5. Len(s) <= Len(t) /\ Len(s) \in Nat /\ Len(t) \in Nat
      BY <2>4
    <3>6. recording[v].seen <= Len(t)
      BY <3>2, <3>4, <3>5
    <3> QED
      BY <3>1, <3>2, <3>6
  <2>8. ASSUME NEW j \in 1 .. Len(t), IsLogin(t, j)
        PROVE  t[j].seen < j /\ ClearIn(t, t[j].ts, t[j].seen)
    <3>1. CASE j = n
      <4>1. l.whole /\ l.kind = "login"
        BY <2>4, <2>8, <3>1 DEF IsLogin
      <4>2. n = Len(s) + 1
        BY <1>9, <2>1, <2>4, <4>1
      <4>3. l.kind = e.kind /\ l.ts = e.ts /\ l.seen = e.seen
        BY <1>9 DEF LineOf
      <4>4. e.seen <= Len(s) /\ ClearIn(t, e.ts, e.seen)
        BY <1>9, <2>5, <4>1, <4>3
      <4>5. e.seen \in Nat
        BY DEF Records
      <4>6. e.seen < n
        BY <2>4, <4>2, <4>4, <4>5
      <4> QED
        BY <2>4, <3>1, <4>3, <4>4, <4>6
    <3>2. CASE j # n
      <4>1. j \in 1 .. (n - 1)
        BY <2>4, <2>8, <3>2
      <4>2. j \in 1 .. Len(s) /\ t[j] = s[j]
        BY <2>4, <4>1
      <4>3. IsLogin(s, j) /\ s[j] \in FileLines
        BY <2>8, <4>2 DEF IsLogin
      <4>4. s[j].seen < j /\ ClearIn(s, s[j].ts, s[j].seen)
        BY <2>1, <4>2, <4>3 DEF LoginsInv
      <4>5. s[j].ts \in Nat /\ s[j].seen \in Nat
        BY <4>3 DEF FileLines
      <4>6. s[j].seen <= Len(s)
        BY <2>4, <4>2, <4>4, <4>5
      <4>7. ClearIn(t, s[j].ts, s[j].seen)
        BY <2>3, <4>4, <4>5, <4>6, ClearStays
      <4> QED
        BY <4>2, <4>4, <4>7
    <3> QED
      BY <3>1, <3>2
  <2> QED
    BY <2>2, <2>7, <2>8 DEF LoginsInv
<1>10. CASE \E w \in Writers : AppendLine(w) \/ \E part \in BOOLEAN : AppendFails(w, part)
  <2>1. PICK w \in Writers : AppendLine(w) \/ \E part \in BOOLEAN : AppendFails(w, part)
    BY <1>10
  <2>2. PICK e \in Records : e = recording[w] /\ e.at = "append" /\ Recorded(w)
    BY <2>1, Filing
  <2>3. Nothing \/ CutAgain \/ Ended(e) \/ OwnLine(e) \/ PartOf(e)
    BY <2>1, <2>2, Filing
  <2>4. PICK n : n = Len(lines) + 1
    OBVIOUS
  <2>5. n # Len(lines) /\ ~LineOf(e, FALSE).whole
    <3>1. Len(lines) \in Nat
      BY DEF ActTyped
    <3>2. ~LineOf(e, FALSE).whole
      BY LineIs
    <3>3. n # Len(lines)
      BY <2>4, <3>1
    <3> QED
      BY <3>2, <3>3, Zenon
  <2>6. CASE Nothing \/ CutAgain
    BY <1>7, <2>2, <2>6 DEF Nothing, CutAgain
  <2>7. CASE Ended(e)
    <3>1. Placed(lines, Len(lines), LineOf(e, FALSE), lines') /\ ~lines[Len(lines)].whole
      BY <2>7 DEF Ended, CutIsLast
    <3> QED
      BY <1>9, <2>2, <2>5, <3>1
  <2>8. CASE OwnLine(e)
    <3>1. Placed(lines, n, LineOf(e, TRUE), lines')
      BY <2>4, <2>8 DEF OwnLine
    <3> QED
      BY <1>9, <2>2, <2>5, <3>1
  <2>9. CASE PartOf(e)
    <3>1. Placed(lines, n, LineOf(e, FALSE), lines')
      BY <2>4, <2>9 DEF PartOf
    <3> QED
      BY <1>9, <2>2, <2>5, <3>1
  <2> QED
    BY <2>3, <2>6, <2>7, <2>8, <2>9
<1> QED
  BY <1>1, <1>2, <1>4, <1>5, <1>6, <1>8, <1>10, ActCases

\* Each sign-in on file that repeats an earlier one has not seen it, or saw one out of order after it.
LEMMA LoginsAre == ActTyped /\ LoginsInv => LoginsAreApart
<1> SUFFICES ASSUME ActTyped, LoginsInv, NEW i \in Logins, NEW j \in Logins,
                    i < j, lines[j].ts - lines[i].ts \in 0 .. (Collapse - 1), ~(lines[j].seen < i)
             PROVE  \E k \in Logins : /\ i < k /\ k <= lines[j].seen
                                      /\ lines[k].ts < lines[i].ts \/ lines[k].ts > lines[j].ts
  BY DEF LoginsAreApart
<1>1. PICK s \in Seq(FileLines) : s = lines
  BY DEF ActTyped
<1>2. Logins = {x \in 1 .. Len(s) : IsLogin(s, x)} /\ Len(s) \in Nat
  BY <1>1 DEF Logins, IsLogin
<1>3. i \in 1 .. Len(s) /\ j \in 1 .. Len(s) /\ IsLogin(s, i) /\ IsLogin(s, j) /\ s[j] \in FileLines
  BY <1>2
<1>4. s[j].seen \in Nat
  BY <1>3 DEF FileLines
<1>5. i <= s[j].seen
  BY <1>1, <1>3, <1>4
<1>6. ClearIn(s, s[j].ts, s[j].seen)
  BY <1>1, <1>3 DEF LoginsInv
<1>7. PICK k \in 1 .. Len(s) : IsLogin(s, k) /\ i < k /\ k <= s[j].seen /\ (s[k].ts < s[i].ts \/ s[k].ts > s[j].ts)
  BY <1>1, <1>3, <1>5, <1>6 DEF ClearIn
<1> QED
  BY <1>1, <1>2, <1>7

\* The inductive invariant of the activity ledger.
ActInv == ActTyped /\ CutIsLast /\ LossInv /\ RunsInv /\ LoginsInv

\* At the start no record was answered.
LEMMA LossInit == ActInit => LossInv
<1> SUFFICES ASSUME ActInit PROVE LossInv
  OBVIOUS
<1>1. ~cut /\ given = 0 /\ failures = 0 /\ lines = <<>>
  BY DEF ActInit
<1>2. Cardinality(WholeAt(lines)) \in Nat
  BY <1>1, WholeFinite
<1> QED
  BY <1>1, <1>2 DEF LossInv

\* For any handlers, runs, times and limits of the screen: the screen shows, each under its day, every
\* record that was answered as recorded, up to its limit, but for one for each write that left part
\* of a line; a run has its start on file before its one end; and a sign-in that repeats another was
\* looked up before that was written, or after one out of the order of the times
\* (activity_ledger.py record, read and days; server.py start_run and _run_pipeline).
THEOREM ActivityIsToldAlways == ActSpec => []ActivityIsTold
<1>1. ActInit => ActInv
  BY ActTypedInit, LossInit, RunsInvInit, LoginsInit DEF ActInv
<1>2. ActInv /\ [ActNext]_actVars => ActInv'
  BY ActTypedStep, LossStep, RunsInvStep, LoginsStep DEF ActInv
<1>3. ActInv => ActivityIsTold
  BY LossIs, LoginsAre DEF ActInv, RunsInv, ActivityIsTold
<1> QED
  BY <1>1, <1>2, <1>3, PTL DEF ActSpec

-----------------------------------------------------------------------------
(* Sums of columns *)

\* The sum of a column is the total of its figures.
LEMMA SumIs == ASSUME NEW v PROVE Sum(v) = Total(v, DOMAIN v)
BY Zenon DEF Sum, MapThenSumSet, MapThenFoldSet, Total, Sums, Picked

\* Figures from one place to another add up from place to place.
LEMMA Stretch ==
  ASSUME NEW v, NEW a \in Nat, NEW n \in Nat, a <= n + 1, \A i \in a..n : v[i] \in Int
  PROVE  /\ Total(v, a..n) \in Int
         /\ a = n + 1 => Total(v, a..n) = 0
         /\ a <= n => Total(v, a..n) = Total(v, a..(n - 1)) + v[n]
<1>1. IsFiniteSet(a..n)
  BY FS_Interval
<1>2. Total(v, a..n) \in Int /\ \A y \in a..n : Total(v, a..n) = v[y] + Total(v, (a..n) \ {y})
  BY <1>1, TotalTakes
<1>3. ASSUME a = n + 1 PROVE Total(v, a..n) = 0
  <2>1. a..n = {}
    BY <1>3
  <2> QED
    BY <2>1, TotalNone
<1>4. ASSUME a <= n PROVE Total(v, a..n) = Total(v, a..(n - 1)) + v[n]
  <2>1. (a..n) \ {n} = a..(n - 1) /\ n \in a..n /\ IsFiniteSet(a..(n - 1)) /\ \A i \in a..(n - 1) : v[i] \in Int
    <3>1. n - 1 \in Int
      OBVIOUS
    <3>2. IsFiniteSet(a..(n - 1))
      BY <3>1, FS_Interval
    <3> QED
      BY <1>4, <3>2
  <2>2. Total(v, a..n) = v[n] + Total(v, a..(n - 1)) /\ v[n] \in Int
    BY <1>2, <2>1
  <2>3. Total(v, a..(n - 1)) \in Int
    BY <2>1, TotalTakes
  <2> QED
    BY <2>2, <2>3
<1> QED
  BY <1>2, <1>3, <1>4

\* The balance of each row is that of the row before, moved by what the row says.
Moves(v, B, a, n) == \A i \in a..n : v[i] \in Int /\ B[i] \in Int /\ B[i] = B[i - 1] + v[i]

\* What moves a balance from row to row adds up to what it moved by in the end.
LEMMA BalanceMoves ==
  ASSUME NEW v, NEW B, NEW a \in Nat \ {0}, NEW n \in Nat, a <= n + 1, B[a - 1] \in Int, Moves(v, B, a, n)
  PROVE  B[n] = B[a - 1] + Total(v, a..n)
<1> DEFINE Adds(m) == B[a - 1 + m] = B[a - 1] + Total(v, a..(a - 1 + m))
           N == {m \in Nat : m <= n - (a - 1) => Adds(m)}
<1>0. \A i \in a..n : v[i] \in Int /\ B[i] \in Int /\ B[i] = B[i - 1] + v[i]
  BY DEF Moves
<1>1. 0 \in N
  <2>1. Adds(0)
    <3>1. a - 1 + 0 = a - 1 /\ a..(a - 1) = {}
      OBVIOUS
    <3>2. Total(v, a..(a - 1)) = 0
      BY <3>1, TotalNone
    <3> QED
      BY <3>1, <3>2
  <2> QED
    BY <2>1
<1>2. ASSUME NEW m \in Nat, m \in N PROVE m + 1 \in N
  <2>1. ASSUME m + 1 <= n - (a - 1) PROVE Adds(m + 1)
    <3>1. PICK k \in Nat : k = a - 1 + m /\ k + 1 = a - 1 + (m + 1) /\ k + 1 \in a..n
      <4>1. a - 1 + m \in Nat
        OBVIOUS
      <4> QED
        BY <2>1, <4>1
    <3>2. B[k] = B[a - 1] + Total(v, a..k)
      <4>1. m <= n - (a - 1)
        BY <2>1
      <4> QED
        BY <1>2, <3>1, <4>1
    <3>3. B[k + 1] = B[k] + v[k + 1] /\ v[k + 1] \in Int
      <4>1. (k + 1) - 1 = k
        OBVIOUS
      <4> QED
        BY <1>0, <3>1, <4>1
    <3>4. Total(v, a..(k + 1)) = Total(v, a..k) + v[k + 1] /\ Total(v, a..k) \in Int
      <4>1. /\ k + 1 \in Nat /\ a <= k + 1 /\ (k + 1) - 1 = k /\ a <= (k + 1) + 1
            /\ \A i \in a..(k + 1) : v[i] \in Int
        BY <1>0, <3>1
      <4>2. Total(v, a..(k + 1)) = Total(v, a..((k + 1) - 1)) + v[k + 1]
        BY <4>1, Stretch
      <4>3. Total(v, a..k) \in Int
        BY <4>1, Stretch
      <4> QED
        BY <4>1, <4>2, <4>3
    <3>5. B[k + 1] = B[a - 1] + Total(v, a..(k + 1))
      BY <3>2, <3>3, <3>4
    <3> QED
      BY <3>1, <3>5
  <2> QED
    BY <2>1
<1> HIDE DEF N
<1>3. Nat \subseteq N
  BY <1>1, <1>2, Induction
<1>4. n - (a - 1) \in Nat /\ a - 1 + (n - (a - 1)) = n
  OBVIOUS
<1>5. n - (a - 1) \in N
  BY <1>3, <1>4
<1>6. Adds(n - (a - 1))
  BY <1>4, <1>5 DEF N
<1> QED
  BY <1>4, <1>6

\* Two columns add up to what the sums of their rows add up to.
LEMMA Together ==
  ASSUME NEW F, NEW G, NEW H, NEW n \in Nat, \A i \in 1..n : F[i] \in Int /\ G[i] \in Int /\ H[i] = F[i] + G[i]
  PROVE  Total(H, 1..n) = Total(F, 1..n) + Total(G, 1..n)
<1> DEFINE N == {m \in Nat : m <= n => Total(H, 1..m) = Total(F, 1..m) + Total(G, 1..m)}
<1>1. 0 \in N
  <2>1. 1..0 = {}
    OBVIOUS
  <2>2. Total(F, 1..0) = 0 /\ Total(G, 1..0) = 0 /\ Total(H, 1..0) = 0
    BY <2>1, TotalNone
  <2> QED
    BY <2>2
<1>2. ASSUME NEW m \in Nat, m \in N PROVE m + 1 \in N
  <2>1. ASSUME m + 1 <= n PROVE Total(H, 1..(m + 1)) = Total(F, 1..(m + 1)) + Total(G, 1..(m + 1))
    <3>1. ASSUME NEW f, \A i \in 1..n : f[i] \in Int
          PROVE  Total(f, 1..(m + 1)) = Total(f, 1..m) + f[m + 1] /\ Total(f, 1..m) \in Int /\ f[m + 1] \in Int
      <4>1. /\ m + 1 \in Nat /\ 1 <= m + 1 /\ (m + 1) - 1 = m /\ 1 <= (m + 1) + 1
            /\ (\A i \in 1..(m + 1) : f[i] \in Int) /\ \A i \in 1..m : f[i] \in Int
        BY <2>1, <3>1
      <4>2. Total(f, 1..(m + 1)) = Total(f, 1..((m + 1) - 1)) + f[m + 1]
        BY <4>1, Stretch
      <4>3. Total(f, 1..m) \in Int
        BY <4>1, Stretch
      <4> QED
        BY <4>1, <4>2, <4>3
    <3>2. \A i \in 1..n : F[i] \in Int /\ G[i] \in Int /\ H[i] \in Int
      OBVIOUS
    <3>3. m + 1 \in 1..n /\ Total(H, 1..m) = Total(F, 1..m) + Total(G, 1..m)
      BY <1>2, <2>1
    <3>4. H[m + 1] = F[m + 1] + G[m + 1]
      BY <3>3
    <3>5. /\ Total(F, 1..(m + 1)) = Total(F, 1..m) + F[m + 1] /\ Total(F, 1..m) \in Int /\ F[m + 1] \in Int
          /\ Total(G, 1..(m + 1)) = Total(G, 1..m) + G[m + 1] /\ Total(G, 1..m) \in Int /\ G[m + 1] \in Int
          /\ Total(H, 1..(m + 1)) = Total(H, 1..m) + H[m + 1]
      BY <3>1, <3>2
    <3> QED
      BY <3>3, <3>4, <3>5
  <2> QED
    BY <2>1
<1> HIDE DEF N
<1>3. Nat \subseteq N
  BY <1>1, <1>2, Induction
<1>4. n \in N
  BY <1>3
<1> QED
  BY <1>4 DEF N

-----------------------------------------------------------------------------
(* What is found clean *)

\* A list has the places from the first to its length.
LEMMA Places == ASSUME NEW s, IsList(s) PROVE Len(s) \in Nat /\ DOMAIN s = 1..Len(s) /\ (s # <<>> => Len(s) > 0)
BY DEF IsList

\* A column has the places of its rows.
LEMMA ColumnIs ==
  ASSUME NEW s, IsList(s), NEW field, \A i \in DOMAIN s : s[i][field] \in Int
  PROVE  /\ Sum(Column(s, field)) = Total(Column(s, field), 1..Len(s)) /\ Sum(Column(s, field)) \in Int
         /\ \A i \in 1..Len(s) : Column(s, field)[i] = s[i][field] /\ Column(s, field)[i] \in Int
<1>1. PICK v : v = Column(s, field)
  OBVIOUS
<1>2. DOMAIN v = 1..Len(s) /\ Len(s) \in Nat /\ \A i \in 1..Len(s) : v[i] = s[i][field] /\ v[i] \in Int
  BY <1>1, Places DEF Column
<1>3. Sum(v) = Total(v, DOMAIN v)
  BY SumIs
<1>4. Total(v, 1..Len(s)) \in Int
  BY <1>2, Stretch
<1> QED
  BY <1>1, <1>2, <1>3, <1>4

\* A statement that reconciles moved from what it opened with to what it closes with.
LEMMA StatementAddsUp ==
  ASSUME NEW d, IsDocument(d), d.type = "loan_statement", ParseLoanStatement(d) = {}
  PROVE  /\ d.opening # None => Closing(d) = d.opening + Sum(Column(d.rows, "debit")) - Sum(Column(d.rows, "credit"))
         /\ d.totals # None =>
              d.totals.debits = Sum(Column(d.rows, "debit")) /\ d.totals.credits = Sum(Column(d.rows, "credit"))
<1>1. /\ IsList(d.rows) /\ d.rows # <<>>
      /\ d.opening \in Int \cup {None}
      /\ \A i \in DOMAIN d.rows : d.rows[i].debit \in Int /\ d.rows[i].credit \in Int /\ d.rows[i].balance \in Int
  <2>1. d.rows # <<>>
    BY DEF ParseLoanStatement
  <2>2. /\ IsList(d.rows) /\ d.opening \in Int \cup {None}
        /\ \A i \in DOMAIN d.rows : IsRow(d.rows[i], {"debit", "credit", "balance"})
    BY DEF IsDocument
  <2> QED
    BY <2>1, <2>2 DEF IsRow
<1>2. PICK n \in Nat : n = Len(d.rows) /\ n > 0 /\ DOMAIN d.rows = 1..n
  BY <1>1, Places
<1>3. ~ \E i \in RowsToCheck(d) : d.rows[i].balance # Before(d, i) + d.rows[i].debit - d.rows[i].credit
  BY DEF ParseLoanStatement
<1>4. ~TotalsDiffer(d, StatementTotals(d))
  BY DEF ParseLoanStatement
<1>5. PICK D, C : D = Column(d.rows, "debit") /\ C = Column(d.rows, "credit")
  OBVIOUS
<1>6. /\ Sum(D) = Total(D, 1..n) /\ Sum(D) \in Int /\ \A i \in 1..n : D[i] = d.rows[i].debit /\ D[i] \in Int
      /\ Sum(C) = Total(C, 1..n) /\ Sum(C) \in Int /\ \A i \in 1..n : C[i] = d.rows[i].credit /\ C[i] \in Int
  <2>1. (\A i \in DOMAIN d.rows : d.rows[i]["debit"] \in Int) /\ \A i \in DOMAIN d.rows : d.rows[i]["credit"] \in Int
    BY <1>1
  <2> QED
    BY <1>1, <1>2, <1>5, <2>1, ColumnIs
<1>7. ASSUME d.opening # None PROVE Closing(d) = d.opening + Sum(D) - Sum(C)
  <2> DEFINE B == [i \in 0..n |-> IF i = 0 THEN d.opening ELSE d.rows[i].balance]
             v == [i \in 1..n |-> d.rows[i].debit - d.rows[i].credit]
  <2>1. B[0] = d.opening /\ B[0] \in Int /\ B[n] = Closing(d)
    BY <1>1, <1>2, <1>7 DEF Closing
  <2>2. ASSUME NEW i \in 1..n PROVE v[i] \in Int /\ B[i] \in Int /\ B[i] = B[i - 1] + v[i] /\ D[i] = v[i] + C[i]
    <3>1. i - 1 \in 0..n /\ B[i - 1] = Before(d, i) /\ Before(d, i) \in Int /\ Before(d, i) # None
      <4>1. CASE i = 1
        BY <1>1, <1>7, <4>1, ExtractAssumption DEF Before
      <4>2. CASE i # 1
        BY <1>1, <1>2, <4>2, ExtractAssumption DEF Before
      <4> QED
        BY <4>1, <4>2
    <3>2. d.rows[i].balance = Before(d, i) + d.rows[i].debit - d.rows[i].credit
      BY <1>2, <1>3, <3>1 DEF RowsToCheck
    <3>3. d.rows[i].debit \in Int /\ d.rows[i].credit \in Int /\ d.rows[i].balance \in Int
      BY <1>1, <1>2
    <3>4. v[i] = d.rows[i].debit - d.rows[i].credit /\ B[i] = d.rows[i].balance
      OBVIOUS
    <3>5. B[i] = B[i - 1] + v[i]
      BY <3>1, <3>2, <3>3, <3>4
    <3>6. D[i] = d.rows[i].debit /\ C[i] = d.rows[i].credit
      BY <1>6
    <3> HIDE DEF B, v
    <3> QED
      BY <3>3, <3>4, <3>5, <3>6
  <2> HIDE DEF B, v
  <2>3. B[n] = B[0] + Total(v, 1..n)
    <3>0. PICK a \in Nat \ {0} : a = 1
      OBVIOUS
    <3>1. a <= n + 1
      BY <3>0
    <3>2. B[a - 1] \in Int /\ Moves(v, B, a, n)
      BY <2>1, <2>2, <3>0 DEF Moves
    <3>3. B[n] = B[a - 1] + Total(v, a..n)
      BY <3>0, <3>1, <3>2, BalanceMoves
    <3> QED
      BY <3>0, <3>3
  <2>4. Total(D, 1..n) = Total(v, 1..n) + Total(C, 1..n)
    BY <1>6, <2>2, Together
  <2>5. Total(v, 1..n) \in Int
    BY <2>2, Stretch
  <2> QED
    BY <1>6, <2>1, <2>3, <2>4, <2>5
<1>8. ASSUME d.totals # None PROVE d.totals.debits = Sum(D) /\ d.totals.credits = Sum(C)
  BY <1>4, <1>5, <1>8 DEF TotalsDiffer, StatementTotals
<1> QED
  BY <1>5, <1>7, <1>8

\* A schedule that reconciles pays off what it opened with, and each instalment is interest and
\* principal.
LEMMA ScheduleAddsUp ==
  ASSUME NEW d, IsDocument(d), d.type = "emi_schedule", ParseEmiSchedule(d) = {}, d.opening # None, d.rate \notin {None, 0}
  PROVE  /\ Closing(d) = d.opening - Sum(Column(d.rows, "principal"))
         /\ Sum(Column(d.rows, "emi")) = Sum(Column(d.rows, "interest")) + Sum(Column(d.rows, "principal"))
<1>1. /\ IsList(d.rows) /\ d.rows # <<>> /\ d.opening \in Int
      /\ \A i \in DOMAIN d.rows : /\ d.rows[i].emi \in Int /\ d.rows[i].interest \in Int
                                  /\ d.rows[i].principal \in Int /\ d.rows[i].balance \in Int
  <2>1. d.rows # <<>>
    BY DEF ParseEmiSchedule
  <2>2. /\ IsList(d.rows) /\ d.opening \in Int \cup {None}
        /\ \A i \in DOMAIN d.rows : IsRow(d.rows[i], {"emi", "interest", "principal", "balance"})
    BY DEF IsDocument
  <2> QED
    BY <2>1, <2>2 DEF IsRow
<1>2. PICK n \in Nat : n = Len(d.rows) /\ n > 0 /\ DOMAIN d.rows = 1..n
  BY <1>1, Places
<1>3. \A i \in RowsToCheck(d) : /\ d.rows[i].principal = d.rows[i].emi - d.rows[i].interest
                                /\ d.rows[i].balance = Before(d, i) - d.rows[i].principal
  BY DEF ParseEmiSchedule
<1>4. PICK E, I, P : E = Column(d.rows, "emi") /\ I = Column(d.rows, "interest") /\ P = Column(d.rows, "principal")
  OBVIOUS
<1>5. /\ Sum(E) = Total(E, 1..n) /\ Sum(E) \in Int /\ \A i \in 1..n : E[i] = d.rows[i].emi /\ E[i] \in Int
      /\ Sum(I) = Total(I, 1..n) /\ Sum(I) \in Int /\ \A i \in 1..n : I[i] = d.rows[i].interest /\ I[i] \in Int
      /\ Sum(P) = Total(P, 1..n) /\ Sum(P) \in Int /\ \A i \in 1..n : P[i] = d.rows[i].principal /\ P[i] \in Int
  <2>1. /\ \A i \in DOMAIN d.rows : d.rows[i]["emi"] \in Int
        /\ \A i \in DOMAIN d.rows : d.rows[i]["interest"] \in Int
        /\ \A i \in DOMAIN d.rows : d.rows[i]["principal"] \in Int
    BY <1>1
  <2> QED
    BY <1>1, <1>2, <1>4, <2>1, ColumnIs
<1> DEFINE B == [i \in 0..n |-> IF i = 0 THEN -d.opening ELSE -d.rows[i].balance]
<1>6. B[0] = -d.opening /\ B[0] \in Int /\ B[n] = -Closing(d) /\ Closing(d) \in Int
  BY <1>1, <1>2 DEF Closing
<1>7. ASSUME NEW i \in 1..n PROVE P[i] \in Int /\ B[i] \in Int /\ B[i] = B[i - 1] + P[i] /\ E[i] = I[i] + P[i]
  <2>1. i - 1 \in 0..n /\ B[i - 1] = -Before(d, i) /\ Before(d, i) \in Int /\ Before(d, i) # None
    <3>1. CASE i = 1
      BY <1>1, <1>2, <3>1, ExtractAssumption DEF Before
    <3>2. CASE i # 1
      <4>1. i - 1 \in 1..n /\ i - 1 \in 0..n /\ i - 1 # 0
        BY <1>2, <3>2
      <4>2. Before(d, i) = d.rows[i - 1].balance
        BY <3>2 DEF Before
      <4>3. d.rows[i - 1].balance \in Int
        BY <1>1, <1>2, <4>1
      <4>4. B[i - 1] = -d.rows[i - 1].balance
        BY <4>1
      <4>5. Before(d, i) # None
        BY <4>2, <4>3, ExtractAssumption
      <4> QED
        BY <4>1, <4>2, <4>3, <4>4, <4>5
    <3> QED
      BY <3>1, <3>2
  <2>2. i \in RowsToCheck(d)
    BY <1>2, <2>1 DEF RowsToCheck
  <2>3. /\ d.rows[i].principal = d.rows[i].emi - d.rows[i].interest
        /\ d.rows[i].balance = Before(d, i) - d.rows[i].principal
    BY <1>3, <2>2
  <2>4. /\ d.rows[i].emi \in Int /\ d.rows[i].interest \in Int /\ d.rows[i].principal \in Int
        /\ d.rows[i].balance \in Int
    BY <1>1, <1>2
  <2>5. E[i] = d.rows[i].emi /\ I[i] = d.rows[i].interest /\ P[i] = d.rows[i].principal
    BY <1>5
  <2>6. B[i] = -d.rows[i].balance
    OBVIOUS
  <2> HIDE DEF B
  <2> QED
    BY <2>1, <2>3, <2>4, <2>5, <2>6
<1> HIDE DEF B
<1>8. B[n] = B[0] + Total(P, 1..n)
  <2>0. PICK a \in Nat \ {0} : a = 1
    OBVIOUS
  <2>1. a <= n + 1
    BY <2>0
  <2>2. B[a - 1] \in Int /\ Moves(P, B, a, n)
    BY <1>6, <1>7, <2>0 DEF Moves
  <2>3. B[n] = B[a - 1] + Total(P, a..n)
    BY <2>0, <2>1, <2>2, BalanceMoves
  <2> QED
    BY <2>0, <2>3
<1>9. Total(E, 1..n) = Total(I, 1..n) + Total(P, 1..n)
  BY <1>5, <1>7, Together
<1>10. Closing(d) = d.opening - Sum(P)
  BY <1>1, <1>5, <1>6, <1>8
<1>11. Sum(E) = Sum(I) + Sum(P)
  BY <1>5, <1>9
<1> QED
  BY <1>4, <1>10, <1>11

\* A CSV statement whose chain holds, every balance told, moved by what its rows after the
\* first say, in one direction or in the other.
LEMMA CsvAddsUp ==
  ASSUME NEW d, IsDocument(d), d.type = "csv_statement", ParseCsvStatement(d) = {},
         \A j \in DOMAIN d.rows : d.rows[j].balance # None
  PROVE  LET moved == Sum([j \in 2..Len(d.rows) |-> d.rows[j].credit - d.rows[j].debit])
         IN Closing(d) - d.rows[1].balance \in {moved, -moved}
<1>1. /\ IsList(d.rows) /\ d.rows # <<>>
      /\ \A i \in DOMAIN d.rows : d.rows[i].debit \in Int /\ d.rows[i].credit \in Int /\ d.rows[i].balance \in Int
  <2>1. d.rows # <<>>
    BY DEF ParseCsvStatement
  <2>2. /\ IsList(d.rows)
        /\ \A i \in DOMAIN d.rows : IsRow(d.rows[i], {"debit", "credit"}) /\ d.rows[i].balance \in Int \cup {None}
    BY DEF IsDocument
  <2> QED
    BY <2>1, <2>2 DEF IsRow
<1>2. PICK n \in Nat : n = Len(d.rows) /\ n > 0 /\ DOMAIN d.rows = 1..n
  BY <1>1, Places
<1>3. PICK v : v = [j \in 2..n |-> d.rows[j].credit - d.rows[j].debit]
  OBVIOUS
<1>4. Sum(v) = Total(v, 2..n) /\ Total(v, 2..n) \in Int /\ \A i \in 2..n : v[i] = d.rows[i].credit - d.rows[i].debit /\ v[i] \in Int
  <2>1. DOMAIN v = 2..n /\ \A i \in 2..n : v[i] = d.rows[i].credit - d.rows[i].debit
    BY <1>3
  <2>2. \A i \in 2..n : v[i] \in Int
    BY <1>1, <1>2, <2>1
  <2>3. Sum(v) = Total(v, DOMAIN v)
    BY SumIs
  <2>4. Total(v, 2..n) \in Int
    <3>1. 2 \in Nat /\ 2 <= n + 1
      BY <1>2
    <3> QED
      BY <2>2, <3>1, Stretch
  <2> QED
    BY <2>1, <2>2, <2>3, <2>4
<1>5. ASSUME NEW sign \in {-1, 1}, CsvBreaks(d, sign) = {}, NEW i \in 2..n
      PROVE  d.rows[i].balance = d.rows[i - 1].balance + sign * (d.rows[i].debit - d.rows[i].credit)
  <2>1. i \in 1..n /\ i - 1 \in 1..n /\ i - 1 < i /\ \A g \in 1..n : g <= i - 1 \/ i <= g
    OBVIOUS
  <2>2. {j \in DOMAIN d.rows : d.rows[j].balance # None} = 1..n
    BY <1>2
  <2> QED
    BY <1>5, <2>1, <2>2 DEF CsvBreaks
<1>6. PICK a \in Nat \ {0} : a = 2 /\ a - 1 = 1 /\ a <= n + 1
  BY <1>2
<1>7. CASE CsvBreaks(d, -1) = {}
  <2> DEFINE B == [i \in 1..n |-> d.rows[i].balance]
  <2>1. B[1] = d.rows[1].balance /\ B[1] \in Int /\ B[n] = Closing(d) /\ B[n] \in Int
    BY <1>1, <1>2 DEF Closing
  <2>2. ASSUME NEW i \in 2..n PROVE B[i] \in Int /\ B[i] = B[i - 1] + v[i]
    <3>1. i \in 1..n /\ i - 1 \in 1..n
      OBVIOUS
    <3>2. d.rows[i].balance = d.rows[i - 1].balance + (-1) * (d.rows[i].debit - d.rows[i].credit)
      BY <1>5, <1>7
    <3> QED
      BY <1>1, <1>2, <1>4, <3>1, <3>2
  <2> HIDE DEF B
  <2>3. B[n] = B[a - 1] + Total(v, a..n)
    <3>1. B[a - 1] \in Int /\ Moves(v, B, a, n)
      BY <1>4, <1>6, <2>1, <2>2 DEF Moves
    <3> QED
      BY <1>6, <3>1, BalanceMoves
  <2>4. Closing(d) - d.rows[1].balance = Sum(v)
    BY <1>4, <1>6, <2>1, <2>3
  <2> QED
    BY <1>2, <1>3, <2>4
<1>8. CASE CsvBreaks(d, 1) = {}
  <2> DEFINE B == [i \in 1..n |-> -d.rows[i].balance]
  <2>1. B[1] = -d.rows[1].balance /\ B[1] \in Int /\ d.rows[1].balance \in Int /\ B[n] = -Closing(d) /\ Closing(d) \in Int
    BY <1>1, <1>2 DEF Closing
  <2>2. ASSUME NEW i \in 2..n PROVE B[i] \in Int /\ B[i] = B[i - 1] + v[i]
    <3>1. i \in 1..n /\ i - 1 \in 1..n
      OBVIOUS
    <3>2. d.rows[i].balance = d.rows[i - 1].balance + 1 * (d.rows[i].debit - d.rows[i].credit)
      BY <1>5, <1>8
    <3>3. /\ d.rows[i].debit \in Int /\ d.rows[i].credit \in Int /\ d.rows[i].balance \in Int
          /\ d.rows[i - 1].balance \in Int
      BY <1>1, <1>2, <3>1
    <3>4. B[i] = -d.rows[i].balance /\ B[i - 1] = -d.rows[i - 1].balance /\ v[i] = d.rows[i].credit - d.rows[i].debit
      BY <1>4, <3>1
    <3> HIDE DEF B
    <3> QED
      BY <3>2, <3>3, <3>4
  <2> HIDE DEF B
  <2>3. B[n] = B[a - 1] + Total(v, a..n)
    <3>1. B[a - 1] \in Int /\ Moves(v, B, a, n)
      BY <1>4, <1>6, <2>1, <2>2 DEF Moves
    <3> QED
      BY <1>6, <3>1, BalanceMoves
  <2>4. -Closing(d) = -d.rows[1].balance + Sum(v) /\ Sum(v) \in Int
    BY <1>4, <1>6, <2>1, <2>3
  <2>5. Closing(d) - d.rows[1].balance = -Sum(v)
    BY <2>1, <2>4
  <2> QED
    BY <1>2, <1>3, <2>5
<1> QED
  BY <1>1, <1>7, <1>8 DEF ParseCsvStatement

\* A slip that reconciles pays what is earned less what is withheld.
LEMMA SlipAddsUp ==
  ASSUME NEW d, IsDocument(d), d.type = "salary_slip", ParseSalarySlip(d) = {}
  PROVE  d.net = d.parts - d.withheld
<1>1. d.gross # None /\ d.net # None
  BY DEF ParseSalarySlip
<1>2. PICK taken : taken = IF d.deductions = None THEN d.withheld ELSE d.deductions
  OBVIOUS
<1>3. d.parts = d.gross /\ taken = d.withheld /\ d.gross - taken = d.net
  BY <1>1, <1>2 DEF ParseSalarySlip
<1> QED
  BY <1>3

\* What is found clean adds up.
LEMMA CleanIsRight ==
  ASSUME \A i \in DOMAIN folder : IsDocument(folder[i]), results = [i \in DOMAIN folder |-> Extract(folder[i])]
  PROVE  CleanAddsUp
<1> SUFFICES ASSUME NEW i \in DOMAIN results, results[i].status = "clean", NEW d, d = folder[i]
             PROVE  /\ d.type = "loan_statement" =>
                        /\ d.opening # None => Closing(d) = d.opening + Sum(Column(d.rows, "debit")) - Sum(Column(d.rows, "credit"))
                        /\ d.totals # None =>
                             d.totals.debits = Sum(Column(d.rows, "debit")) /\ d.totals.credits = Sum(Column(d.rows, "credit"))
                    /\ d.type = "emi_schedule" /\ d.opening # None /\ d.rate \notin {None, 0} =>
                        /\ Closing(d) = d.opening - Sum(Column(d.rows, "principal"))
                        /\ Sum(Column(d.rows, "emi")) = Sum(Column(d.rows, "interest")) + Sum(Column(d.rows, "principal"))
                    /\ d.type = "csv_statement" /\ (\A j \in DOMAIN d.rows : d.rows[j].balance # None) =>
                        LET moved == Sum([j \in 2..Len(d.rows) |-> d.rows[j].credit - d.rows[j].debit])
                        IN Closing(d) - d.rows[1].balance \in {moved, -moved}
                    /\ d.type = "salary_slip" => d.net = d.parts - d.withheld
  BY Zenon DEF CleanAddsUp
<1>1. i \in DOMAIN folder /\ results[i] = Extract(d) /\ IsDocument(d)
  OBVIOUS
<1>2. Reasons(d) = {}
  <2>1. Extract(d).status = "clean"
    BY <1>1
  <2> QED
    BY <2>1 DEF Extract
<1>3. d.type = "loan_statement" => ParseLoanStatement(d) = {}
  BY <1>2 DEF Reasons
<1>4. d.type = "emi_schedule" => ParseEmiSchedule(d) = {}
  BY <1>2 DEF Reasons
<1>5. d.type = "csv_statement" => ParseCsvStatement(d) = {}
  BY <1>2 DEF Reasons
<1>6. d.type = "salary_slip" => ParseSalarySlip(d) = {}
  BY <1>2 DEF Reasons
<1> QED
  BY <1>1, <1>3, <1>4, <1>5, <1>6, StatementAddsUp, ScheduleAddsUp, CsvAddsUp, SlipAddsUp, Zenon

-----------------------------------------------------------------------------
(* Applicants *)

\* What is read of the documents of a folder.
IsResult(r) ==
  /\ r.loan \in LoanNumbers \cup {None} /\ r.name \in People \cup {None}
  /\ r.type = "salary_slip" => r.loan = None
  /\ r.emi \in Int \cup {None} /\ r.net \in Int \cup {None}
Results(rs) == IsList(rs) /\ \A i \in DOMAIN rs : IsResult(rs[i])

\* A document is known by its account, or else by its name.
LEMMA KeyIs ==
  ASSUME NEW r, IsResult(r)
  PROVE  /\ r.loan # None => Key(r) = r.loan /\ Key(r) \in LoanNumbers
         /\ r.loan = None /\ r.name # None => Key(r) = r.name /\ Key(r) \in People
         /\ r.loan = None /\ r.name = None => Key(r) = "unidentified"
         /\ Key(r) \in LoanNumbers => r.loan = Key(r)
         /\ Key(r) \in People => r.loan = None /\ r.name = Key(r)
BY ExtractAssumption DEF Key, IsResult

\* A place among the documents that others are before.
LEMMA LeastPlace ==
  ASSUME NEW rs, IsList(rs), NEW S \in SUBSET DOMAIN rs, S # {}
  PROVE  Min(S) \in S
<1>1. S \in SUBSET Nat
  BY Places
<1>2. \E n \in S : \A m \in S : n <= m
  BY <1>1, Least
<1> QED
  BY <1>2, Zenon DEF Min

\* A bundle stays where it is, or joins an account of which the one it is named after is a borrower.
LEMMA JoinsIs ==
  ASSUME NEW rs, Results(rs), NEW k
  PROVE  \/ /\ Joins(rs, k) = k
            /\ \/ k = "unidentified" \/ \E i \in Under(rs, k) : rs[i].loan # None
               \/ ~ \E i \in DOMAIN rs : Key(rs[i]) # k /\ k \in Borrowers(rs, Key(rs[i]))
         \/ /\ k # "unidentified" /\ \A i \in Under(rs, k) : rs[i].loan = None
            /\ \E i \in DOMAIN rs : Joins(rs, k) = Key(rs[i]) /\ Key(rs[i]) # k /\ k \in Borrowers(rs, Key(rs[i]))
<1> DEFINE hosts == IF k = "unidentified" \/ \E i \in Under(rs, k) : rs[i].loan # None THEN {}
                    ELSE {i \in DOMAIN rs : Key(rs[i]) # k /\ k \in Borrowers(rs, Key(rs[i]))}
<1>1. Joins(rs, k) = IF hosts = {} THEN k ELSE Key(rs[Min(hosts)])
  BY Zenon DEF Joins
<1>2. ASSUME hosts # {} PROVE Min(hosts) \in hosts
  <2>1. hosts \in SUBSET DOMAIN rs
    OBVIOUS
  <2> HIDE DEF hosts
  <2> QED
    BY <1>2, <2>1, LeastPlace DEF Results
<1>3. CASE hosts = {}
  BY <1>1, <1>3
<1>4. CASE hosts # {}
  <2>1. Joins(rs, k) = Key(rs[Min(hosts)]) /\ Min(hosts) \in hosts
    BY <1>1, <1>2, <1>4
  <2>2. PICK i : i = Min(hosts)
    OBVIOUS
  <2>3. Joins(rs, k) = Key(rs[i]) /\ i \in hosts
    BY <2>1, <2>2
  <2> QED
    BY <1>4, <2>3
<1> QED
  BY <1>3, <1>4

\* What joins has no account, is named, and joins an account.
LEMMA HostHasAccount ==
  ASSUME NEW rs, Results(rs), NEW i \in DOMAIN rs, Joins(rs, Key(rs[i])) # Key(rs[i])
  PROVE  /\ rs[i].loan = None /\ rs[i].name # None /\ Key(rs[i]) = rs[i].name
         /\ Joins(rs, Key(rs[i])) \in LoanNumbers
         /\ \E t \in DOMAIN rs : rs[t].loan = Joins(rs, Key(rs[i])) /\ rs[t].name = rs[i].name
<1>1. PICK k : k = Key(rs[i])
  OBVIOUS
<1>2. /\ k # "unidentified" /\ \A j \in Under(rs, k) : rs[j].loan = None
      /\ \E h \in DOMAIN rs : Joins(rs, k) = Key(rs[h]) /\ Key(rs[h]) # k /\ k \in Borrowers(rs, Key(rs[h]))
  BY <1>1, JoinsIs
<1>3. IsResult(rs[i]) /\ i \in Under(rs, k)
  BY <1>1 DEF Results, Under
<1>4. rs[i].loan = None /\ rs[i].name # None /\ k = rs[i].name /\ k \in People
  BY <1>1, <1>2, <1>3, KeyIs
<1>5. PICK h \in DOMAIN rs : Joins(rs, k) = Key(rs[h]) /\ Key(rs[h]) # k /\ k \in Borrowers(rs, Key(rs[h]))
  BY <1>2
<1>6. PICK t \in Under(rs, Key(rs[h])) : rs[t].name = k
  BY <1>5 DEF Borrowers
<1>7. t \in DOMAIN rs /\ IsResult(rs[t]) /\ Key(rs[t]) = Key(rs[h])
  BY <1>6 DEF Under, Results
<1>8. rs[t].loan # None
  BY <1>4, <1>5, <1>6, <1>7, KeyIs, ExtractAssumption
<1>9. rs[t].loan = Key(rs[h]) /\ Key(rs[h]) \in LoanNumbers
  BY <1>7, <1>8, KeyIs
<1> QED
  BY <1>1, <1>4, <1>5, <1>6, <1>7, <1>9

\* An account joins nothing: where a bundle joins, it stays.
LEMMA JoinsOnce ==
  ASSUME NEW rs, Results(rs), NEW i \in DOMAIN rs
  PROVE  Joins(rs, Key(rs[i])) \in Applicants(rs)
<1>1. PICK k : k = Joins(rs, Key(rs[i]))
  OBVIOUS
<1>2. CASE k = Key(rs[i])
  BY <1>1, <1>2 DEF Applicants, Keys
<1>3. CASE k # Key(rs[i])
  <2>1. k \in LoanNumbers /\ \E t \in DOMAIN rs : rs[t].loan = k
    BY <1>1, <1>3, HostHasAccount
  <2>2. PICK t \in DOMAIN rs : rs[t].loan = k
    BY <2>1
  <2>3. k = Key(rs[t]) /\ rs[t].loan # None
    BY <2>1, <2>2, KeyIs, ExtractAssumption DEF Results
  <2>4. Joins(rs, k) = k
    BY <2>2, <2>3, HostHasAccount
  <2> QED
    BY <1>1, <2>3, <2>4 DEF Applicants, Keys
<1> QED
  BY <1>2, <1>3

\* Who is in a bundle: its own, and those named like a paper of its account.
LEMMA InBundle ==
  ASSUME NEW rs, Results(rs), NEW k \in Applicants(rs), NEW i \in Bundle(rs, k)
  PROVE  /\ i \in DOMAIN rs /\ IsResult(rs[i])
         /\ \/ Key(rs[i]) = k
            \/ /\ k \in LoanNumbers /\ rs[i].loan = None /\ rs[i].name # None
               /\ \E t \in Bundle(rs, k) : rs[t].loan = k /\ rs[t].name = rs[i].name
<1>1. i \in DOMAIN rs /\ IsResult(rs[i]) /\ Joins(rs, Key(rs[i])) = k
  BY DEF Bundle, Results
<1>2. ASSUME Key(rs[i]) # k
      PROVE  /\ k \in LoanNumbers /\ rs[i].loan = None /\ rs[i].name # None
             /\ \E t \in Bundle(rs, k) : rs[t].loan = k /\ rs[t].name = rs[i].name
  <2>1. /\ k \in LoanNumbers /\ rs[i].loan = None /\ rs[i].name # None
        /\ \E t \in DOMAIN rs : rs[t].loan = k /\ rs[t].name = rs[i].name
    BY <1>1, <1>2, HostHasAccount
  <2>2. PICK t \in DOMAIN rs : rs[t].loan = k /\ rs[t].name = rs[i].name
    BY <2>1
  <2>3. k = Key(rs[t])
    BY <2>1, <2>2, KeyIs, ExtractAssumption DEF Results
  <2>4. t \in Bundle(rs, k)
    BY <2>2, <2>3 DEF Bundle, Applicants
  <2> QED
    BY <2>1, <2>2, <2>4
<1> QED
  BY <1>1, <1>2

\* The key of an applicant is of one of the folder's documents.
LEMMA ApplicantIs ==
  ASSUME NEW rs, Results(rs), NEW k \in Applicants(rs)
  PROVE  /\ Joins(rs, k) = k
         /\ \E i \in Bundle(rs, k) : Key(rs[i]) = k
BY DEF Applicants, Keys, Bundle

\* A bundle carries one account, and whoever is identified is linked by it and names.
LEMMA BundleIsOne ==
  ASSUME NEW rs, Results(rs), NEW k \in Applicants(rs), NEW i \in Bundle(rs, k), NEW j \in Bundle(rs, k)
  PROVE  /\ None \in {rs[i].loan, rs[j].loan} \/ rs[i].loan = rs[j].loan
         /\ k # "unidentified" =>
              \E t, u \in Bundle(rs, k) : Related(rs[i], rs[t]) /\ Related(rs[t], rs[u]) /\ Related(rs[u], rs[j])
<1>1. ASSUME NEW x \in Bundle(rs, k) PROVE rs[x].loan # None => rs[x].loan = k
  BY InBundle, KeyIs
<1>2. None \in {rs[i].loan, rs[j].loan} \/ rs[i].loan = rs[j].loan
  BY <1>1
<1>3. ASSUME k \in LoanNumbers, NEW x \in Bundle(rs, k)
      PROVE  \E t \in Bundle(rs, k) : rs[t].loan = k /\ Related(rs[x], rs[t]) /\ Related(rs[t], rs[x])
  <2>1. CASE Key(rs[x]) = k
    BY <1>3, <2>1, InBundle, KeyIs, ExtractAssumption DEF Related
  <2>2. CASE Key(rs[x]) # k
    BY <1>3, <2>2, InBundle DEF Related
  <2> QED
    BY <2>1, <2>2
<1>4. ASSUME k \in LoanNumbers
      PROVE  \E t, u \in Bundle(rs, k) : Related(rs[i], rs[t]) /\ Related(rs[t], rs[u]) /\ Related(rs[u], rs[j])
  <2>1. PICK t \in Bundle(rs, k) : rs[t].loan = k /\ Related(rs[i], rs[t])
    BY <1>3, <1>4
  <2>2. PICK u \in Bundle(rs, k) : rs[u].loan = k /\ Related(rs[u], rs[j])
    BY <1>3, <1>4
  <2>3. Related(rs[t], rs[u])
    BY <1>4, <2>1, <2>2, ExtractAssumption DEF Related
  <2> QED
    BY <2>1, <2>2, <2>3
<1>5. ASSUME k \notin LoanNumbers, k # "unidentified"
      PROVE  \E t, u \in Bundle(rs, k) : Related(rs[i], rs[t]) /\ Related(rs[t], rs[u]) /\ Related(rs[u], rs[j])
  <2>1. ASSUME NEW x \in Bundle(rs, k) PROVE rs[x].name = k /\ rs[x].name # None
    <3>1. Key(rs[x]) = k /\ IsResult(rs[x])
      BY <1>5, InBundle
    <3> QED
      BY <1>5, <3>1, KeyIs
  <2> QED
    BY <2>1 DEF Related
<1> QED
  BY <1>2, <1>4, <1>5

\* A slip is not left in a bundle of its own while a paper names its employee as a borrower.
LEMMA SlipIsClaimed ==
  ASSUME NEW rs, Results(rs), NEW k \in Applicants(rs), k # "unidentified",
         \A i \in Bundle(rs, k) : rs[i].type = "salary_slip", NEW i \in DOMAIN rs
  PROVE  rs[i].type = "salary_slip" \/ rs[i].name # k
<1> SUFFICES ASSUME rs[i].type # "salary_slip", rs[i].name = k PROVE FALSE
  OBVIOUS
<1>1. PICK b \in Bundle(rs, k) : Key(rs[b]) = k /\ IsResult(rs[b]) /\ rs[b].type = "salary_slip"
  BY ApplicantIs, InBundle
<1>2. rs[b].loan = None /\ rs[b].name = k /\ k \in People
  <2>1. rs[b].loan = None
    BY <1>1 DEF IsResult
  <2> QED
    BY <1>1, <2>1, KeyIs
<1>3. IsResult(rs[i])
  BY DEF Results
<1>4. Joins(rs, k) = k
  BY ApplicantIs
<1>5. Key(rs[i]) # k
  <2>1. ASSUME Key(rs[i]) = k PROVE FALSE
    <3>1. i \in Bundle(rs, k)
      BY <1>4, <2>1 DEF Bundle
    <3> QED
      BY <3>1
  <2> QED
    BY <2>1
<1>6. i \in Under(rs, Key(rs[i])) /\ k \in Borrowers(rs, Key(rs[i]))
  BY DEF Under, Borrowers
<1>7. ~ \E x \in Under(rs, k) : rs[x].loan # None
  <2>1. ASSUME NEW x \in Under(rs, k) PROVE rs[x].loan = None
    BY <1>2, KeyIs DEF Under, Results
  <2> QED
    BY <2>1
<1> QED
  BY <1>4, <1>5, <1>6, <1>7, JoinsIs

-----------------------------------------------------------------------------
(* Criteria *)

\* A set of numbers below another has a greatest.
LEMMA Greatest ==
  ASSUME NEW S \in SUBSET Nat, S # {}, NEW bound \in Nat, \A n \in S : n <= bound
  PROVE  \E n \in S : \A m \in S : m <= n
<1> DEFINE T == {bound - n : n \in S}
<1>1. T \in SUBSET Nat /\ T # {}
  <2>1. PICK n : n \in S
    OBVIOUS
  <2>2. bound - n \in T
    BY <2>1
  <2>3. ASSUME NEW m \in S PROVE bound - m \in Nat
    OBVIOUS
  <2> QED
    BY <2>2, <2>3
<1>2. PICK t \in T : \A u \in T : t <= u
  <2> HIDE DEF T
  <2> QED
    BY <1>1, Least
<1>3. PICK n \in S : t = bound - n
  BY <1>2
<1>4. ASSUME NEW m \in S PROVE m <= n
  <2>1. bound - m \in T
    OBVIOUS
  <2>2. t <= bound - m
    BY <1>2, <2>1
  <2> QED
    BY <1>3, <2>2
<1> QED
  BY <1>4

\* Products of numbers.
LEMMA Times == ASSUME NEW n \in Nat, NEW m \in Nat, m <= n PROVE n * m \in Nat /\ n * m <= n * n /\ n * n \in Nat
<1>1. PICK h \in Nat : n = m + h
  <2>1. n - m \in Nat /\ n = m + (n - m)
    OBVIOUS
  <2> QED
    BY <2>1
<1>2. n * n = n * m + n * h
  BY <1>1
<1>3. n * m \in Nat /\ n * h \in Nat
  OBVIOUS
<1> QED
  BY <1>2, <1>3

\* Every document has a rank, within the bounds of the folder.
LEMMA RankIs ==
  ASSUME NEW rs, Results(rs), NEW k, NEW i \in DOMAIN rs
  PROVE  Rank(rs, k, i) \in Nat /\ Rank(rs, k, i) <= Len(rs) * Len(rs) + Len(rs)
<1>1. PICK n \in Nat : n = Len(rs) /\ DOMAIN rs = 1..n
  BY Places DEF Results
<1>2. PICK m : m = Min(Under(rs, Key(rs[i])))
  OBVIOUS
<1>3. m \in 1..n
  <2>1. i \in Under(rs, Key(rs[i])) /\ Under(rs, Key(rs[i])) \in SUBSET DOMAIN rs
    BY DEF Under
  <2>2. Min(Under(rs, Key(rs[i]))) \in Under(rs, Key(rs[i]))
    BY <2>1, LeastPlace DEF Results
  <2> QED
    BY <1>1, <1>2, <2>1, <2>2
<1>4. n * m \in Nat /\ n * m <= n * n /\ n * n \in Nat
  BY <1>3, Times
<1>5. i \in 1..n
  BY <1>1
<1>6. PICK p \in Nat, q \in Nat : p = n * m /\ q = n * n
  BY <1>4
<1>7. Rank(rs, k, i) = i \/ Rank(rs, k, i) = p + i
  BY <1>1, <1>2, <1>6 DEF Rank
<1>8. p <= q
  BY <1>4, <1>6
<1>9. Rank(rs, k, i) \in Nat /\ Rank(rs, k, i) <= q + n
  BY <1>5, <1>7, <1>8
<1> QED
  BY <1>1, <1>6, <1>9

\* Some document of those asked for is the first of them, and some the last.
LEMMA OneSpeaks ==
  ASSUME NEW rs, Results(rs), NEW k, NEW S \in SUBSET DOMAIN rs, S # {}
  PROVE  Earliest(rs, k, S) \in S /\ Latest(rs, k, S) \in S
<1> DEFINE T == {Rank(rs, k, i) : i \in S}
<1>1. \A i \in S : Rank(rs, k, i) \in Nat /\ Rank(rs, k, i) <= Len(rs) * Len(rs) + Len(rs)
  BY RankIs
<1>2. T \in SUBSET Nat /\ T # {}
  BY <1>1
<1>3. PICK bound \in Nat : bound = Len(rs) * Len(rs) + Len(rs)
  <2>1. Len(rs) \in Nat
    BY Places DEF Results
  <2>2. Len(rs) * Len(rs) \in Nat
    BY <2>1, Times
  <2> QED
    BY <2>1, <2>2
<1>4. \A n \in T : n <= bound
  BY <1>1, <1>3
<1>5. (\E n \in T : \A m \in T : n <= m) /\ \E n \in T : \A m \in T : m <= n
  <2> HIDE DEF T
  <2>1. \E n \in T : \A m \in T : n <= m
    BY <1>2, Least
  <2>2. \E n \in T : \A m \in T : m <= n
    BY <1>2, <1>4, Greatest
  <2> QED
    BY <2>1, <2>2
<1>6. \E i \in S : \A j \in S : Rank(rs, k, i) <= Rank(rs, k, j)
  BY <1>5
<1>7. \E i \in S : \A j \in S : Rank(rs, k, j) <= Rank(rs, k, i)
  BY <1>5
<1>8. Earliest(rs, k, S) \in S
  BY <1>6, Zenon DEF Earliest
<1>9. Latest(rs, k, S) \in S
  BY <1>7, Zenon DEF Latest
<1> QED
  BY <1>8, <1>9

\* Who speaks for a type is a document of it in the bundle, or nobody.
LEMMA FirstIs ==
  ASSUME NEW rs, Results(rs), NEW k, NEW type
  PROVE  \/ FirstOf(rs, k, type) = Absent
         \/ \E i \in Bundle(rs, k) : i \in DOMAIN rs /\ rs[i].type = type /\ FirstOf(rs, k, type) = rs[i]
<1>1. OfType(rs, k, type) \in SUBSET DOMAIN rs
  BY DEF OfType, Bundle
<1>2. ASSUME OfType(rs, k, type) # {}
      PROVE  \E i \in OfType(rs, k, type) : FirstOf(rs, k, type) = rs[i]
  <2>1. Earliest(rs, k, OfType(rs, k, type)) \in OfType(rs, k, type)
    BY <1>1, <1>2, OneSpeaks
  <2>2. FirstOf(rs, k, type) = rs[Earliest(rs, k, OfType(rs, k, type))]
    BY <1>2, Zenon DEF FirstOf
  <2> QED
    BY <2>1, <2>2
<1>3. OfType(rs, k, type) = {} => FirstOf(rs, k, type) = Absent
  BY Zenon DEF FirstOf
<1> QED
  BY <1>2, <1>3 DEF OfType, Bundle

\* An obligation is met on an EMI and a pay of the bundle.
LEMMA ObligationIsEarned ==
  ASSUME NEW rs, Results(rs), NEW k \in Applicants(rs), ChecksForOneApplicant(rs, k).foir = "met"
  PROVE  \E i, j \in Bundle(rs, k) :
           rs[i].emi # None /\ rs[j].net # None /\ (2 * rs[i].emi <= rs[j].net \/ rs[j].net < 0)
<1>1. PICK letter, schedule, slip :
        /\ letter = FirstOf(rs, k, "sanction_letter") /\ schedule = FirstOf(rs, k, "emi_schedule")
        /\ slip = FirstOf(rs, k, "salary_slip")
  OBVIOUS
<1>2. ObligationRatio(letter, schedule, slip) = "met"
  BY <1>1 DEF ChecksForOneApplicant
<1>3. PICK emi : emi = IF Given(letter.emi) THEN letter.emi ELSE schedule.emi
  OBVIOUS
<1>4. Given(emi) /\ Given(slip.net) /\ AtMost(50, emi, slip.net)
  BY <1>2, <1>3 DEF ObligationRatio
<1>5. ASSUME NEW r, r = letter \/ r = schedule \/ r = slip
      PROVE  r = Absent \/ \E i \in Bundle(rs, k) : IsResult(rs[i]) /\ r = rs[i]
  BY <1>1, <1>5, FirstIs DEF Results
<1>6. emi # None /\ slip.net # None
  BY <1>4 DEF Given
<1>7. PICK i \in Bundle(rs, k) : IsResult(rs[i]) /\ rs[i].emi = emi
  <2>1. emi = letter.emi \/ emi = schedule.emi
    BY <1>3
  <2> QED
    BY <1>5, <1>6, <2>1 DEF Absent
<1>8. PICK j \in Bundle(rs, k) : IsResult(rs[j]) /\ rs[j].net = slip.net
  BY <1>5, <1>6 DEF Absent
<1>9. emi \in Int /\ slip.net \in Int
  BY <1>6, <1>7, <1>8 DEF IsResult
<1>10. 2 * emi <= slip.net \/ slip.net < 0
  BY <1>4, <1>9 DEF AtMost, Given
<1> QED
  BY <1>6, <1>7, <1>8, <1>10

\* What agrees says the same, twice at least.
LEMMA AgreeIs ==
  ASSUME NEW v, Agree(v) = "met"
  PROVE  (\E s, t \in DOMAIN v : s # t) /\ \A s, t \in DOMAIN v : v[s] = v[t]
<1>1. ~ \A s, t \in DOMAIN v : s = t
  BY DEF Agree
<1>2. \A s, t \in DOMAIN v : v[s] = v[t]
  BY <1>1 DEF Agree
<1> QED
  BY <1>1, <1>2

\* The name of a type is told by a document of it in the bundle.
LEMMA NamedIs ==
  ASSUME NEW rs, Results(rs), NEW k, NEW i \in Bundle(rs, k)
  PROVE  \E j \in Bundle(rs, k) : rs[j].type = rs[i].type /\ rs[j].name = Named(rs, k, rs[i].type)
<1>1. OfType(rs, k, rs[i].type) \in SUBSET DOMAIN rs /\ i \in OfType(rs, k, rs[i].type)
  BY DEF OfType, Bundle
<1>2. PICK j \in OfType(rs, k, rs[i].type) : j = Latest(rs, k, OfType(rs, k, rs[i].type))
  BY <1>1, OneSpeaks
<1>3. rs[j].name = Named(rs, k, rs[i].type)
  BY <1>2 DEF Named
<1> QED
  BY <1>2, <1>3 DEF OfType

\* A name is met by two types that tell the same, and by all there are if each is there once.
LEMMA NameIsEarned ==
  ASSUME NEW rs, Results(rs), NEW k \in Applicants(rs), ChecksForOneApplicant(rs, k).name = "met"
  PROVE  /\ \E i, j \in Bundle(rs, k) : rs[i].type # rs[j].type /\ rs[i].name # None /\ rs[i].name = rs[j].name
         /\ (\A i, j \in Bundle(rs, k) : rs[i].type = rs[j].type => i = j) =>
              \A i, j \in Bundle(rs, k) : None \in {rs[i].name, rs[j].name} \/ rs[i].name = rs[j].name
<1> DEFINE told == {rs[i].type : i \in {j \in Bundle(rs, k) : Named(rs, k, rs[j].type) # None}}
<1>1. PICK v : v = LastNames(rs, k)
  OBVIOUS
<1>2. DOMAIN v = told /\ \A t \in told : v[t] = Named(rs, k, t)
  BY <1>1, Zenon DEF LastNames
<1>3. (\E s, t \in told : s # t) /\ \A s, t \in told : Named(rs, k, s) = Named(rs, k, t)
  <2>1. Agree(v) = "met"
    BY <1>1 DEF ChecksForOneApplicant
  <2>2. (\E s, t \in DOMAIN v : s # t) /\ \A s, t \in DOMAIN v : v[s] = v[t]
    BY <2>1, AgreeIs
  <2> HIDE DEF told
  <2> QED
    BY <1>2, <2>2
<1>4. \A t \in told : Named(rs, k, t) # None /\ \E j \in Bundle(rs, k) : rs[j].type = t /\ rs[j].name = Named(rs, k, t)
  BY NamedIs
<1>5. ASSUME NEW i \in Bundle(rs, k), \A p, q \in Bundle(rs, k) : rs[p].type = rs[q].type => p = q
      PROVE  rs[i].name = Named(rs, k, rs[i].type)
  BY <1>5, NamedIs
<1>6. ASSUME NEW i \in Bundle(rs, k), rs[i].name # None, rs[i].name = Named(rs, k, rs[i].type)
      PROVE  rs[i].type \in told
  BY <1>6
<1> HIDE DEF told
<1>7. PICK s \in told, t \in told : s # t
  BY <1>3
<1>8. PICK i \in Bundle(rs, k) : rs[i].type = s /\ rs[i].name = Named(rs, k, s)
  BY <1>4
<1>9. PICK j \in Bundle(rs, k) : rs[j].type = t /\ rs[j].name = Named(rs, k, t)
  BY <1>4
<1>10. rs[i].type # rs[j].type /\ rs[i].name # None /\ rs[i].name = rs[j].name
  BY <1>3, <1>4, <1>7, <1>8, <1>9
<1>11. ASSUME \A p, q \in Bundle(rs, k) : rs[p].type = rs[q].type => p = q,
              NEW p \in Bundle(rs, k), NEW q \in Bundle(rs, k), rs[p].name # None, rs[q].name # None
       PROVE  rs[p].name = rs[q].name
  <2>1. rs[p].name = Named(rs, k, rs[p].type) /\ rs[q].name = Named(rs, k, rs[q].type)
    BY <1>5, <1>11
  <2>2. rs[p].type \in told /\ rs[q].type \in told
    BY <1>6, <1>11, <2>1
  <2> QED
    BY <1>3, <2>1, <2>2
<1> QED
  BY <1>10, <1>11

\* What the documents of an applicant establish is earned.
LEMMA VerdictsHold ==
  ASSUME Results(results), criteria = CrossDocumentChecks(results)
  PROVE  VerdictsAreEarned
<1>1. DOMAIN criteria = Applicants(results) /\ \A k \in Applicants(results) : criteria[k] = ChecksForOneApplicant(results, k)
  BY DEF CrossDocumentChecks
<1>2. ASSUME NEW i \in DOMAIN results PROVE \E k \in DOMAIN criteria : i \in Bundle(results, k)
  <2>1. Joins(results, Key(results[i])) \in DOMAIN criteria
    BY <1>1, JoinsOnce
  <2>2. i \in Bundle(results, Joins(results, Key(results[i])))
    BY DEF Bundle
  <2> QED
    BY <2>1, <2>2
<1>3. ASSUME NEW k \in DOMAIN criteria, NEW b, b = {results[i] : i \in Bundle(results, k)}, NEW c, c = criteria[k]
      PROVE  VerdictIsEarned(k, b, c)
  <2>1. k \in Applicants(results) /\ c = ChecksForOneApplicant(results, k)
    BY <1>1, <1>3
  <2>2. \A r \in b : \E i \in Bundle(results, k) : r = results[i]
    BY <1>3
  <2>3. \A i \in Bundle(results, k) : results[i] \in b
    BY <1>3
  <2>4. ASSUME NEW r \in b, NEW s \in b
        PROVE  /\ None \in {r.loan, s.loan} \/ r.loan = s.loan
               /\ k # "unidentified" => \E t, u \in b : Related(r, t) /\ Related(t, u) /\ Related(u, s)
    <3>1. PICK i \in Bundle(results, k), j \in Bundle(results, k) : r = results[i] /\ s = results[j]
      BY <2>2
    <3>2. /\ None \in {results[i].loan, results[j].loan} \/ results[i].loan = results[j].loan
          /\ k # "unidentified" =>
               \E t, u \in Bundle(results, k) : /\ Related(results[i], results[t])
                                                /\ Related(results[t], results[u]) /\ Related(results[u], results[j])
      BY <2>1, BundleIsOne
    <3> QED
      BY <2>3, <3>1, <3>2
  <2>5. ASSUME c.foir = "met" PROVE \E r, s \in b : r.emi # None /\ s.net # None /\ (2 * r.emi <= s.net \/ s.net < 0)
    <3>1. PICK i \in Bundle(results, k), j \in Bundle(results, k) :
            /\ results[i].emi # None /\ results[j].net # None
            /\ 2 * results[i].emi <= results[j].net \/ results[j].net < 0
      BY <2>1, <2>5, ObligationIsEarned
    <3> QED
      BY <2>3, <3>1
  <2>6. ASSUME \A r \in b : r.type = "salary_slip", k # "unidentified", NEW i \in DOMAIN results
        PROVE  results[i].type = "salary_slip" \/ results[i].name # k
    <3>1. \A j \in Bundle(results, k) : results[j].type = "salary_slip"
      BY <2>3, <2>6
    <3> QED
      BY <2>1, <2>6, <3>1, SlipIsClaimed
  <2>7. ASSUME c.name = "met"
        PROVE  /\ \E r, s \in b : r.type # s.type /\ r.name # None /\ r.name = s.name
               /\ (\A i, j \in Bundle(results, k) : results[i].type = results[j].type => i = j) =>
                    \A r, s \in b : None \in {r.name, s.name} \/ r.name = s.name
    <3>1. /\ \E i, j \in Bundle(results, k) : /\ results[i].type # results[j].type
                                              /\ results[i].name # None /\ results[i].name = results[j].name
          /\ (\A i, j \in Bundle(results, k) : results[i].type = results[j].type => i = j) =>
               \A i, j \in Bundle(results, k) :
                 None \in {results[i].name, results[j].name} \/ results[i].name = results[j].name
      BY <2>1, <2>7, NameIsEarned
    <3>2. \E r, s \in b : r.type # s.type /\ r.name # None /\ r.name = s.name
      BY <2>3, <3>1
    <3>3. ASSUME \A i, j \in Bundle(results, k) : results[i].type = results[j].type => i = j, NEW r \in b, NEW s \in b
          PROVE  None \in {r.name, s.name} \/ r.name = s.name
      <4>1. PICK i \in Bundle(results, k), j \in Bundle(results, k) : r = results[i] /\ s = results[j]
        BY <2>2
      <4> QED
        BY <3>1, <3>3, <4>1
    <3> QED
      BY <3>2, <3>3
  <2> QED
    BY <2>4, <2>5, <2>6, <2>7 DEF VerdictIsEarned
<1>4. ASSUME NEW k \in DOMAIN criteria PROVE VerdictIsEarned(k, {results[i] : i \in Bundle(results, k)}, criteria[k])
  BY <1>3, Zenon
<1> QED
  BY <1>2, <1>4, Zenon DEF VerdictsAreEarned

-----------------------------------------------------------------------------
(* The report *)

\* The folder is of documents, and all the rest is worked out from it.
ExtractInv ==
  /\ IsList(folder) /\ \A i \in DOMAIN folder : IsDocument(folder[i])
  /\ results = [i \in DOMAIN folder |-> Extract(folder[i])]
  /\ criteria = CrossDocumentChecks(results)

\* What is extracted from a list of documents is a list of results.
LEMMA ExtractIs ==
  ASSUME NEW ds, IsList(ds), \A i \in DOMAIN ds : IsDocument(ds[i]), NEW rs, rs = [i \in DOMAIN ds |-> Extract(ds[i])]
  PROVE  Results(rs)
<1>1. ASSUME NEW d, IsDocument(d) PROVE IsResult(Extract(d))
  <2>1. /\ Extract(d).type = d.type /\ Extract(d).loan = d.loan /\ Extract(d).name = d.name
        /\ Extract(d).emi = IF d.type \in {"sanction_letter", "emi_schedule"} THEN d.emi ELSE None
        /\ Extract(d).net = IF d.type = "salary_slip" THEN d.net ELSE None
    BY DEF Extract
  <2>2. /\ d.loan \in LoanNumbers \cup {None} /\ d.name \in People \cup {None}
        /\ d.type = "sanction_letter" => d.emi \in Int \cup {None}
        /\ d.type = "salary_slip" => d.loan = None /\ d.net \in Int \cup {None}
        /\ d.type = "emi_schedule" => d.emi \in Int \cup {None}
    BY <1>1 DEF IsDocument
  <2> QED
    BY <2>1, <2>2 DEF IsResult
<1>2. \A i \in DOMAIN rs : IsResult(rs[i])
  BY <1>1
<1>3. IsList(rs)
  <2>1. Len(ds) \in Nat /\ DOMAIN ds = 1..Len(ds)
    BY Places
  <2> QED
    BY <2>1 DEF IsList
<1> QED
  BY <1>2, <1>3 DEF Results

\* The report says of the folder what is earned.
LEMMA ReportHolds == ExtractInv => ReportIsEarned
<1> SUFFICES ASSUME ExtractInv PROVE ReportIsEarned
  OBVIOUS
<1>1. CleanAddsUp
  BY CleanIsRight DEF ExtractInv
<1>2. Results(results)
  BY ExtractIs DEF ExtractInv
<1>3. VerdictsAreEarned
  BY <1>2, VerdictsHold DEF ExtractInv
<1> QED
  BY <1>1, <1>3 DEF ReportIsEarned

\* At first, and from then on, the results are those of the folder.
LEMMA ExtractInitial == LoanInit => ExtractInv
<1> SUFFICES ASSUME LoanInit PROVE ExtractInv
  OBVIOUS
<1>1. IsList(folder) /\ DOMAIN folder = {} /\ results = <<>>
  BY DEF LoanInit, IsList
<1>2. results = [i \in DOMAIN folder |-> Extract(folder[i])]
  <2>1. [i \in {} |-> Extract(folder[i])] = <<>>
    OBVIOUS
  <2> QED
    BY <1>1, <2>1
<1> QED
  BY <1>1, <1>2 DEF LoanInit, ExtractInv

\* Establishing the facts of a folder keeps to it.
LEMMA ExtractSteps == ExtractInv /\ [Establish]_loanVars => ExtractInv'
<1> SUFFICES ASSUME ExtractInv, [Establish]_loanVars PROVE ExtractInv'
  OBVIOUS
<1>1. CASE Establish
  BY <1>1, ExtractAssumption DEF Establish, ExtractInv
<1>2. CASE UNCHANGED loanVars
  BY <1>2 DEF loanVars, ExtractInv
<1> QED
  BY <1>1, <1>2

\* Whatever documents a folder holds, what is called clean adds up, and what is called met
\* rests on papers of one applicant.
THEOREM ReportIsEarnedAlways == ExtractSpec => []ReportIsEarned
<1>1. ExtractSpec => []ExtractInv
  BY ExtractInitial, ExtractSteps, PTL DEF ExtractSpec
<1> QED
  BY <1>1, ReportHolds, PTL
=============================================================================
