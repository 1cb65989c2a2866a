------------------------- MODULE EmailIntakeProofs -------------------------
(***************************************************************************)
(* Proofs about the mail connector, its pending store and the reviewers,   *)
(* for any number of mails, mailboxes, documents, reviewers, jobs, crashes *)
(* and errors; and about the verdict on a mail, for any templates, sets of *)
(* documents and settings that can be saved.                               *)
(***************************************************************************)
EXTENDS EmailIntake, DocumentRules, FiniteSetTheorems, WellFoundedInduction, TLAPS

Docs == DOMAIN NameOf
Statuses == {"pending", "processed", "discarded"}
Kinds == {"process", "rerun", "discard"}
Manifests == [docs : SUBSET Docs, status : Statuses, job : Nat, runs : SUBSET Nat]
Reads == [status : Statuses \cup {"none"}, job : Nat, runs : SUBSET Nat]
Steps == {"idle", "accepted", "taken", "seen", "answered", "handled"}
Places == [step : Steps, box : Boxes \cup {NoMail}, mail : Mails \cup {NoMail}, docs : SUBSET Docs,
           label : Labels \cup {"none"}]
Requests == [step : {"idle", "checked", "posted"}, intake : Nat, kind : Kinds \cup {"none"}, job : Nat,
             read : Reads]

\* The types of the connector's state, and of the reviewers'.
ConnectorTypes ==
  /\ at \in Places /\ (at.step # "idle" => at.box \in Boxes /\ at.mail \in Mails /\ at.label \in Labels)
  /\ batches \in Seq(SUBSET Docs)
  /\ faults \in Nat
StoreTypes ==
  /\ intakes \in Seq(Manifests)
  /\ rev \in [Reviewers -> Requests]
  /\ \A r \in Reviewers : rev[r].step # "idle" => rev[r].intake \in DOMAIN intakes
  /\ jobs \in Seq(Nat)
  /\ \A j \in DOMAIN jobs : jobs[j] \in DOMAIN intakes
Types == ConnectorTypes /\ StoreTypes

\* A document that is in memory, or has just been taken, has been taken once more than the
\* faults account for; one that was accepted is not in memory.
Counted(d) == d \in seen \/ (at.step = "taken" /\ d \in at.docs)
TakenInv ==
  /\ \A d \in UNION Range(DocsOf) : Copies(d) <= faults + (IF Counted(d) THEN 1 ELSE 0)
  /\ at.step = "accepted" => at.docs \cap seen = {}

\* What was accepted is on record, and once taken it is kept.
KeptInv ==
  /\ at.step \in {"accepted", "taken", "seen"} => \E e \in audit : e.docs = at.docs
  /\ at.step \in {"taken", "seen"} => \A d \in at.docs : Covered(d, at.docs)

\* So are the documents that count as seen, and the mails that are answered, handled or moved.
SeenOnRecord(d) == \E e \in audit : d \in e.docs /\ Covered(d, e.docs)
Remembered(b, m) == \E label \in Labels : Told(b, m, label)
Accounted(b, m) == \E label \in Labels : <<b, m, label>> \in filed \cup uncopied /\ Told(b, m, label)
RecordInv ==
  /\ \A d \in seen \cup seenFile : SeenOnRecord(d)
  /\ at.step \in {"answered", "handled"} => Told(at.box, at.mail, at.label)
  /\ \A b \in Boxes : \A m \in Arriving[b] :
       /\ m \notin folder[b] => Accounted(b, m)
       /\ <<b, m>> \in handled \cup handledFile => Remembered(b, m)

\* A request that had its intake to itself knows what the manifest says.
Alone(r) ==
  LET i == rev[r].intake IN
  rev[r].step # "idle" /\ i \notin raced =>
    /\ \A o \in Reviewers \ {r} : rev[o].step # "idle" => rev[o].intake # i
    /\ rev[r].read = [status |-> intakes[i].status, job |-> intakes[i].job, runs |-> intakes[i].runs]
    /\ intakes[i].status = IF rev[r].kind = "rerun" THEN "processed" ELSE "pending"

\* The job of a request is the one it started for its intake.
Holds(r) ==
  IF rev[r].step = "posted"
  THEN rev[r].kind = "process" /\ rev[r].job \in DOMAIN jobs /\ jobs[rev[r].job] = rev[r].intake
  ELSE rev[r].job = 0

\* An intake that is not processed has no current run.
NoJobYet(i) == i \notin raced /\ intakes[i].status # "processed" => intakes[i].job = 0

JobsInv ==
  /\ \A r \in Reviewers : Alone(r) /\ Holds(r)
  /\ \A i \in DOMAIN intakes : NoJobYet(i)
  /\ JobsAreOnRecord

-----------------------------------------------------------------------------
(* Types *)

\* The connector's actions, and one reviewer's.
ConnectorStep == (\E b \in Boxes, m \in Mails : Fetch(b, m)) \/ Deliver \/ PollFails \/ Crash
ReviewerStep(r) ==
  \/ \E i \in DOMAIN intakes, kind \in Kinds : Check(r, i, kind)
  \/ Rerun(r) \/ Post(r) \/ Processed(r) \/ Discard(r)

LEMMA Steppers == Next => ConnectorStep \/ \E r \in Reviewers : ReviewerStep(r)
  BY DEF Next, ConnectorStep, ReviewerStep, Kinds

\* Initially.
LEMMA TypesInit == Init => Types
<1> SUFFICES ASSUME Init PROVE Types
  OBVIOUS
<1>1. ConnectorTypes
  BY DEF Init, ConnectorTypes, Places, Steps, Rest
<1>2. StoreTypes
  BY DEF Init, StoreTypes, Requests, Reads, Statuses, Kinds, Away, NoRun
<1> QED BY <1>1, <1>2 DEF Types

\* A step of the connector's place.
LEMMA PlaceMoves ==
  ASSUME ConnectorTypes, NEW step \in Steps, To(step), at.step # "idle"
  PROVE  /\ at' \in Places /\ at'.step = step
         /\ at'.box = at.box /\ at'.mail = at.mail /\ at'.docs = at.docs /\ at'.label = at.label
         /\ at'.box \in Boxes /\ at'.mail \in Mails /\ at'.label \in Labels
  BY DEF ConnectorTypes, Places, To

\* The connector keeps its types.
LEMMA ConnectorKeepsTypes ==
  ASSUME Types, ConnectorStep PROVE ConnectorTypes'
<1> USE IntakeAssumption DEF Types
<1>1. CASE \E b \in Boxes, m \in Mails : Fetch(b, m)
  <2> PICK b \in Boxes, m \in Mails : Fetch(b, m)
    BY <1>1
  <2> PICK docs \in {{}, New(m)} :
        at' = [step |-> IF docs # {} THEN "accepted" ELSE "answered", box |-> b, mail |-> m, docs |-> docs,
               label |-> IF docs # {} THEN "processed" ELSE "rejected"]
    BY DEF Fetch
  <2>1. docs \in SUBSET Docs
    BY DEF New, Docs
  <2>2. at' \in Places /\ at'.box \in Boxes /\ at'.mail \in Mails /\ at'.label \in Labels
    BY <2>1 DEF Places, Steps, Labels
  <2> QED BY <2>2 DEF Fetch, ConnectorTypes
<1>2. CASE Park
  BY <1>2, PlaceMoves DEF Park, ConnectorTypes, Steps
<1>3. CASE Submit
  <2>1. at.docs \in SUBSET Docs
    BY DEF ConnectorTypes, Places
  <2>2. Ingested \in Seq(SUBSET Docs)
    BY <2>1 DEF Ingested, ConnectorTypes
  <2>3. batches' \in Seq(SUBSET Docs)
    BY <1>3, <2>2 DEF Submit, ConnectorTypes
  <2>4. faults' \in Nat
    BY <1>3 DEF Submit, Fault, ConnectorTypes
  <2>5. at.step = "accepted" /\ (To("taken") \/ at' = [at EXCEPT !.step = "answered", !.label = "rejected"])
    BY <1>3 DEF Submit
  <2>6. at' \in Places /\ at'.box \in Boxes /\ at'.mail \in Mails /\ at'.label \in Labels
    <3>1. CASE To("taken")
      BY <2>5, <3>1, PlaceMoves DEF Steps
    <3>2. CASE at' = [at EXCEPT !.step = "answered", !.label = "rejected"]
      BY <2>5, <3>2 DEF ConnectorTypes, Places, Steps, Labels
    <3> QED BY <2>5, <3>1, <3>2
  <2> QED BY <2>3, <2>4, <2>6 DEF ConnectorTypes
<1>4. CASE SaveSeen
  BY <1>4, PlaceMoves DEF SaveSeen, ConnectorTypes, Steps
<1>5. CASE SealTaken
  BY <1>5, PlaceMoves DEF SealTaken, ConnectorTypes, Steps
<1>6. CASE MarkHandled
  BY <1>6, PlaceMoves DEF MarkHandled, ConnectorTypes, Steps
<1>7. CASE Move \/ PollFails \/ Crash
  <2>1. at' = Rest
    BY <1>7 DEF Move, PollFails, Crash
  <2>2. faults' \in Nat /\ batches' = batches
    BY <1>7 DEF Move, PollFails, Crash, Fault, ConnectorTypes
  <2> QED BY <2>1, <2>2 DEF ConnectorTypes, Rest, Places, Steps
<1> QED BY <1>1, <1>2, <1>3, <1>4, <1>5, <1>6, <1>7 DEF ConnectorStep, Deliver

\* What the connector does to the pending store: it appends a manifest or leaves it alone.
LEMMA ConnectorAppends ==
  ASSUME Types, ConnectorStep
  PROVE  /\ UNCHANGED <<jobs, rev, raced>>
         /\ late' = late
         /\ \/ intakes' = intakes
            \/ \E m \in Manifests :
                 /\ m.status = "pending" /\ m.job = 0
                 /\ intakes' = Append(intakes, m)
<1> USE DEF reviewers
<1>1. CASE Park
  <2> PICK kept \in Stored(at.docs) :
        intakes' = Append(intakes, [docs |-> kept, status |-> "pending", job |-> 0, runs |-> {}])
    BY <1>1 DEF Park
  <2>1. at.docs \in SUBSET Docs
    BY DEF Types, ConnectorTypes, Places
  <2>2. kept \in SUBSET Docs
    BY <2>1 DEF Stored
  <2>3. [docs |-> kept, status |-> "pending", job |-> 0, runs |-> {}] \in Manifests
    BY <2>2 DEF Manifests, Statuses
  <2> QED BY <1>1, <2>3 DEF Park
<1>2. CASE ~Park
  BY <1>2 DEF ConnectorStep, Deliver, Fetch, Submit, SaveSeen, SealTaken, MarkHandled, Move, PollFails,
     Crash
<1> QED BY <1>1, <1>2

\* A longer pending store has the old manifests where they were.
LEMMA LongerStore ==
  ASSUME StoreTypes, NEW m \in Manifests, intakes' = Append(intakes, m)
  PROVE  /\ intakes' \in Seq(Manifests)
         /\ DOMAIN intakes' = DOMAIN intakes \cup {Len(intakes) + 1}
         /\ Len(intakes) + 1 \notin DOMAIN intakes
         /\ intakes'[Len(intakes) + 1] = m
         /\ \A i \in DOMAIN intakes : intakes'[i] = intakes[i]
  BY DEF StoreTypes

LEMMA ConnectorKeepsStore ==
  ASSUME Types, ConnectorStep PROVE StoreTypes'
<1> USE DEF Types
<1>1. UNCHANGED <<jobs, rev, raced>>
  BY ConnectorAppends
<1>2. CASE intakes' = intakes
  BY <1>1, <1>2 DEF StoreTypes
<1>3. CASE \E m \in Manifests : intakes' = Append(intakes, m)
  <2>1. intakes' \in Seq(Manifests) /\ DOMAIN intakes \subseteq DOMAIN intakes'
    BY <1>3, LongerStore
  <2> QED BY <1>1, <2>1 DEF StoreTypes
<1> QED BY <1>2, <1>3, ConnectorAppends

\* A manifest is rewritten in place.
LEMMA Rewritten ==
  ASSUME StoreTypes, NEW r \in Reviewers, rev[r].step # "idle", NEW m \in Manifests, SetStatus(r, m)
  PROVE  /\ intakes' \in Seq(Manifests)
         /\ rev[r].intake \in DOMAIN intakes
         /\ DOMAIN intakes' = DOMAIN intakes
         /\ intakes'[rev[r].intake] = m
         /\ \A i \in DOMAIN intakes \ {rev[r].intake} : intakes'[i] = intakes[i]
<1>1. rev[r].intake \in DOMAIN intakes
  BY DEF StoreTypes
<1> QED BY <1>1 DEF StoreTypes, SetStatus

\* A request of one reviewer changes.
LEMMA RequestMoves ==
  ASSUME StoreTypes, NEW r \in Reviewers, NEW q \in Requests, rev' = [rev EXCEPT ![r] = q],
         jobs' \in Seq(Nat), \A j \in DOMAIN jobs' : jobs'[j] \in DOMAIN intakes',
         intakes' \in Seq(Manifests), DOMAIN intakes' = DOMAIN intakes,
         q.step # "idle" => q.intake \in DOMAIN intakes
  PROVE  StoreTypes'
<1>1. rev' \in [Reviewers -> Requests]
  BY DEF StoreTypes
<1>2. \A o \in Reviewers : rev'[o].step # "idle" => rev'[o].intake \in DOMAIN intakes'
  <2> TAKE o \in Reviewers
  <2>1. CASE o = r
    BY <2>1 DEF StoreTypes
  <2>2. CASE o # r
    BY <2>2 DEF StoreTypes
  <2> QED BY <2>1, <2>2
<1> QED BY <1>1, <1>2 DEF StoreTypes

LEMMA AwayIsRequest == Away \in Requests /\ Away.step = "idle" /\ Away.job = 0
  BY DEF Away, Requests, Reads, NoRun, Kinds

\* What the request of r becomes: when it checks, when it puts a rerun back, when its job has
\* started.
Checked(i, kind) ==
  [step |-> "checked", intake |-> i, kind |-> kind, job |-> 0,
   read |-> [status |-> intakes[i].status, job |-> intakes[i].job, runs |-> intakes[i].runs]]
AllRuns(r) == rev[r].read.runs \cup {rev[r].read.job}
PutBack(r) == [rev[r] EXCEPT !.kind = "process", !.read = [status |-> "pending", job |-> 0, runs |-> AllRuns(r)]]
Posted(r) == [rev[r] EXCEPT !.step = "posted", !.job = Len(jobs')]

LEMMA CheckedIsRequest ==
  ASSUME StoreTypes, NEW i \in DOMAIN intakes, NEW kind \in Kinds
  PROVE  Checked(i, kind) \in Requests
<1>1. intakes[i] \in Manifests /\ i \in Nat
  BY DEF StoreTypes
<1>2. [status |-> intakes[i].status, job |-> intakes[i].job, runs |-> intakes[i].runs] \in Reads
  BY <1>1 DEF Manifests, Reads
<1> QED BY <1>1, <1>2 DEF Checked, Requests

LEMMA PutBackIsRequest ==
  ASSUME StoreTypes, NEW r \in Reviewers
  PROVE  /\ PutBack(r) \in Requests /\ AllRuns(r) \in SUBSET Nat
         /\ PutBack(r).step = rev[r].step /\ PutBack(r).intake = rev[r].intake
         /\ PutBack(r).job = rev[r].job /\ PutBack(r).kind = "process"
         /\ PutBack(r).read = [status |-> "pending", job |-> 0, runs |-> AllRuns(r)]
<1>1. rev[r] \in Requests /\ rev[r].read \in Reads
  BY DEF StoreTypes, Requests
<1>2. AllRuns(r) \in SUBSET Nat
  BY <1>1 DEF AllRuns, Reads
<1>3. [status |-> "pending", job |-> 0, runs |-> AllRuns(r)] \in Reads
  BY <1>2 DEF Reads, Statuses
<1> QED BY <1>1, <1>2, <1>3 DEF PutBack, Requests, Kinds

LEMMA PostedIsRequest ==
  ASSUME StoreTypes, NEW r \in Reviewers, jobs' \in Seq(Nat)
  PROVE  /\ Posted(r) \in Requests
         /\ Posted(r).step = "posted" /\ Posted(r).intake = rev[r].intake
         /\ Posted(r).job = Len(jobs') /\ Posted(r).kind = rev[r].kind
         /\ Posted(r).read = rev[r].read
<1> DEFINE n == Len(jobs')
<1>1. rev[r] \in Requests
  BY DEF StoreTypes
<1>2. n \in Nat
  OBVIOUS
<1>3. Posted(r) = [rev[r] EXCEPT !.step = "posted", !.job = n]
  BY DEF Posted
<1> HIDE DEF n
<1>4. /\ Posted(r) \in Requests /\ Posted(r).step = "posted" /\ Posted(r).intake = rev[r].intake
      /\ Posted(r).job = n /\ Posted(r).kind = rev[r].kind /\ Posted(r).read = rev[r].read
  BY <1>1, <1>2, <1>3 DEF Requests
<1> QED BY <1>4 DEF n

\* A reviewer's step moves that reviewer's request only.
LEMMA ReviewerMoves ==
  ASSUME StoreTypes, NEW r \in Reviewers
  PROVE  /\ \A i, kind : Check(r, i, kind) => rev' = [rev EXCEPT ![r] = Checked(i, kind)]
         /\ Rerun(r) => rev' = [rev EXCEPT ![r] = PutBack(r)]
         /\ Post(r) =>
              \/ rev' = [rev EXCEPT ![r] = Posted(r)] /\ jobs' = Append(jobs, rev[r].intake) /\ late' = late
              \/ /\ rev' = [rev EXCEPT ![r] = Away]
                 /\ \/ jobs' = jobs /\ late' = late
                    \/ jobs' = Append(jobs, rev[r].intake) /\ late' = late \cup {Len(jobs')}
         /\ Processed(r) \/ Discard(r) => rev' = [rev EXCEPT ![r] = Away]
<1>0. rev \in [Reviewers -> Requests]
  BY DEF StoreTypes
<1>1. \A i, kind : Check(r, i, kind) => rev' = [rev EXCEPT ![r] = Checked(i, kind)]
  BY DEF Check, Checked
<1>2. Rerun(r) => rev' = [rev EXCEPT ![r] = PutBack(r)]
  <2> HAVE Rerun(r)
  <2> DEFINE read == [status |-> "pending", job |-> 0, runs |-> AllRuns(r)]
  <2>1. rev' = [rev EXCEPT ![r].kind = "process", ![r].read = read]
    BY DEF Rerun, AllRuns
  <2> HIDE DEF read
  <2>2. rev[r] \in Requests
    BY <1>0
  <2>3. [rev EXCEPT ![r].kind = "process", ![r].read = read]
          = [rev EXCEPT ![r] = [rev[r] EXCEPT !.kind = "process", !.read = read]]
    BY <1>0, <2>2
  <2> QED BY <2>1, <2>3 DEF PutBack, read
<1>3. Post(r) =>
        \/ rev' = [rev EXCEPT ![r] = Posted(r)] /\ jobs' = Append(jobs, rev[r].intake) /\ late' = late
        \/ /\ rev' = [rev EXCEPT ![r] = Away]
           /\ \/ jobs' = jobs /\ late' = late
              \/ jobs' = Append(jobs, rev[r].intake) /\ late' = late \cup {Len(jobs')}
  <2> HAVE Post(r)
  <2> DEFINE n == Len(jobs')
  <2>1. rev' = [rev EXCEPT ![r].step = "posted", ![r].job = n] \/ rev' = [rev EXCEPT ![r] = Away]
    BY DEF Post, Starts, Refuses
  <2>2. /\ rev' = [rev EXCEPT ![r].step = "posted", ![r].job = n]
        /\ jobs' = Append(jobs, rev[r].intake) /\ late' = late
        \/ /\ rev' = [rev EXCEPT ![r] = Away]
           /\ \/ jobs' = jobs /\ late' = late
              \/ jobs' = Append(jobs, rev[r].intake) /\ late' = late \cup {n}
    BY DEF Post, Starts, Refuses
  <2> HIDE DEF n
  <2>3. [rev EXCEPT ![r].step = "posted", ![r].job = n]
          = [rev EXCEPT ![r] = [rev[r] EXCEPT !.step = "posted", !.job = n]]
    BY <1>0
  <2>4. Posted(r) = [rev[r] EXCEPT !.step = "posted", !.job = n]
    BY DEF Posted, n
  <2> QED BY <2>2, <2>3, <2>4 DEF n
<1>4. Processed(r) \/ Discard(r) => rev' = [rev EXCEPT ![r] = Away]
  BY DEF Processed, Discard
<1> QED BY <1>1, <1>2, <1>3, <1>4

\* The manifests the three rewriting steps leave.
LEMMA RewrittenManifest ==
  ASSUME StoreTypes, NEW r \in Reviewers, rev[r].step # "idle",
         NEW status \in Statuses, NEW job \in Nat, NEW runs \in SUBSET Nat
  PROVE  LET i == intakes[rev[r].intake]
             m == [i EXCEPT !.status = status, !.job = job, !.runs = runs]
         IN  m \in Manifests /\ m.docs = i.docs /\ m.status = status /\ m.job = job /\ m.runs = runs
<1>1. intakes[rev[r].intake] \in Manifests
  BY DEF StoreTypes
<1> QED BY <1>1 DEF Manifests

\* A rewritten manifest is that of the step's request, and keeps its documents.
LEMMA ReviewerRewrites ==
  ASSUME StoreTypes, NEW r \in Reviewers
  PROVE  /\ Rerun(r) =>
              LET i == intakes[rev[r].intake]
                  m == [i EXCEPT !.status = "pending", !.job = 0, !.runs = AllRuns(r)]
              IN  m \in Manifests /\ SetStatus(r, m)
         /\ Processed(r) =>
              LET i == intakes[rev[r].intake]
                  m == [i EXCEPT !.status = "processed", !.job = rev[r].job, !.runs = i.runs]
              IN  m \in Manifests /\ SetStatus(r, m)
         /\ Discard(r) =>
              LET i == intakes[rev[r].intake]
                  m == [i EXCEPT !.status = "discarded", !.job = i.job, !.runs = i.runs]
              IN  m \in Manifests /\ SetStatus(r, m)
<1> DEFINE i == intakes[rev[r].intake]
<1>1. rev[r] \in Requests /\ (rev[r].step # "idle" => i \in Manifests)
  BY DEF StoreTypes
<1>2. rev[r].job \in Nat
  BY <1>1 DEF Requests
<1>3. AllRuns(r) \in SUBSET Nat
  BY PutBackIsRequest
<1>4. Rerun(r) => LET m == [i EXCEPT !.status = "pending", !.job = 0, !.runs = AllRuns(r)]
                  IN  m \in Manifests /\ SetStatus(r, m)
  <2> HAVE Rerun(r)
  <2>1. SetStatus(r, [i EXCEPT !.status = "pending", !.job = 0, !.runs = AllRuns(r)])
    BY DEF Rerun, AllRuns
  <2> QED BY <1>1, <1>3, <2>1 DEF Rerun, Manifests, Statuses
<1>5. Processed(r) => LET m == [i EXCEPT !.status = "processed", !.job = rev[r].job, !.runs = i.runs]
                      IN  m \in Manifests /\ SetStatus(r, m)
  <2> HAVE Processed(r)
  <2>1. SetStatus(r, [i EXCEPT !.status = "processed", !.job = rev[r].job])
    BY DEF Processed
  <2>2. i \in Manifests
    BY <1>1 DEF Processed
  <2>3. [i EXCEPT !.status = "processed", !.job = rev[r].job]
          = [i EXCEPT !.status = "processed", !.job = rev[r].job, !.runs = i.runs]
    BY <2>2 DEF Manifests
  <2>4. [i EXCEPT !.status = "processed", !.job = rev[r].job, !.runs = i.runs] \in Manifests
    BY <1>2, <2>2 DEF Manifests, Statuses
  <2> QED BY <2>1, <2>3, <2>4
<1>6. Discard(r) => LET m == [i EXCEPT !.status = "discarded", !.job = i.job, !.runs = i.runs]
                    IN  m \in Manifests /\ SetStatus(r, m)
  <2> HAVE Discard(r)
  <2>1. SetStatus(r, [i EXCEPT !.status = "discarded"])
    BY DEF Discard
  <2>2. i \in Manifests
    BY <1>1 DEF Discard
  <2>3. [i EXCEPT !.status = "discarded"] = [i EXCEPT !.status = "discarded", !.job = i.job, !.runs = i.runs]
    BY <2>2 DEF Manifests
  <2>4. [i EXCEPT !.status = "discarded", !.job = i.job, !.runs = i.runs] \in Manifests
    BY <2>2 DEF Manifests, Statuses
  <2> QED BY <2>1, <2>3, <2>4
<1> QED BY <1>4, <1>5, <1>6

\* A reviewer's step keeps the types of the store.
LEMMA ReviewerKeepsStore ==
  ASSUME StoreTypes, NEW r \in Reviewers, ReviewerStep(r)
  PROVE  StoreTypes'
<1>0. jobs \in Seq(Nat) /\ intakes \in Seq(Manifests) /\ \A j \in DOMAIN jobs : jobs[j] \in DOMAIN intakes
  BY DEF StoreTypes
<1>1. CASE \E i \in DOMAIN intakes, kind \in Kinds : Check(r, i, kind)
  <2> PICK i \in DOMAIN intakes, kind \in Kinds : Check(r, i, kind)
    BY <1>1
  <2>1. jobs' = jobs /\ intakes' = intakes
    BY DEF Check
  <2>2. Checked(i, kind).intake = i
    BY DEF Checked
  <2>3. rev' = [rev EXCEPT ![r] = Checked(i, kind)] /\ Checked(i, kind) \in Requests
    BY ReviewerMoves, CheckedIsRequest
  <2> QED BY <1>0, <2>1, <2>2, <2>3, RequestMoves
<1>2. CASE Rerun(r)
  <2>1. rev[r].step # "idle" /\ jobs' = jobs
    BY <1>2 DEF Rerun
  <2>2. /\ intakes' \in Seq(Manifests) /\ DOMAIN intakes' = DOMAIN intakes
        /\ rev[r].intake \in DOMAIN intakes
    BY <1>2, <2>1, ReviewerRewrites, Rewritten
  <2>3. rev' = [rev EXCEPT ![r] = PutBack(r)] /\ PutBack(r) \in Requests /\ PutBack(r).intake = rev[r].intake
    BY <1>2, ReviewerMoves, PutBackIsRequest
  <2> QED BY <1>0, <2>1, <2>2, <2>3, RequestMoves
<1>3. CASE Post(r)
  <2>1. rev[r].step # "idle" /\ intakes' = intakes
    BY <1>3 DEF Post
  <2>2. rev[r].intake \in DOMAIN intakes /\ rev[r].intake \in Nat
    BY <2>1 DEF StoreTypes
  <2>3. jobs' = jobs \/ jobs' = Append(jobs, rev[r].intake)
    BY <1>3, ReviewerMoves
  <2>4. jobs' \in Seq(Nat) /\ \A j \in DOMAIN jobs' : jobs'[j] \in DOMAIN intakes'
    <3>1. CASE jobs' = jobs
      BY <3>1, <1>0, <2>1
    <3>2. CASE jobs' = Append(jobs, rev[r].intake)
      <4>1. jobs' \in Seq(Nat)
        BY <3>2, <1>0, <2>2
      <4>2. \A j \in DOMAIN jobs' : jobs'[j] = rev[r].intake \/ (j \in DOMAIN jobs /\ jobs'[j] = jobs[j])
        BY <3>2, <1>0, <2>2
      <4> QED BY <4>1, <4>2, <1>0, <2>1, <2>2
    <3> QED BY <2>3, <3>1, <3>2
  <2>5. Posted(r) \in Requests /\ Posted(r).intake = rev[r].intake
    BY <2>4, PostedIsRequest
  <2>6. rev' = [rev EXCEPT ![r] = Posted(r)] \/ rev' = [rev EXCEPT ![r] = Away]
    BY <1>3, ReviewerMoves
  <2> QED BY <1>0, <2>1, <2>2, <2>4, <2>5, <2>6, RequestMoves, AwayIsRequest
<1>4. CASE Processed(r) \/ Discard(r)
  <2>1. rev[r].step # "idle" /\ jobs' = jobs
    BY <1>4 DEF Processed, Discard
  <2>2. intakes' \in Seq(Manifests) /\ DOMAIN intakes' = DOMAIN intakes
    BY <1>4, <2>1, ReviewerRewrites, Rewritten
  <2>3. rev' = [rev EXCEPT ![r] = Away]
    BY <1>4, ReviewerMoves
  <2> QED BY <1>0, <2>1, <2>2, <2>3, RequestMoves, AwayIsRequest
<1> QED BY <1>1, <1>2, <1>3, <1>4 DEF ReviewerStep

\* What a reviewer's step does to the connector, and to the documents of the pending store.
LEMMA ReviewerKeepsDocs ==
  ASSUME StoreTypes, NEW r \in Reviewers, ReviewerStep(r)
  PROVE  /\ UNCHANGED <<mailbox, seen, seenFile, handled, handledFile, at, batches, audit>>
         /\ DOMAIN intakes' = DOMAIN intakes
         /\ \A i \in DOMAIN intakes : intakes'[i].docs = intakes[i].docs
<1>1. UNCHANGED <<mailbox, seen, seenFile, handled, handledFile, at, batches, audit>>
  BY DEF ReviewerStep, Check, Rerun, Post, Processed, Discard, connector
<1>2. CASE intakes' = intakes
  BY <1>1, <1>2
<1>3. CASE Rerun(r) \/ Processed(r) \/ Discard(r)
  <2>1. rev[r].step # "idle"
    BY <1>3 DEF Rerun, Processed, Discard
  <2>2. intakes[rev[r].intake] \in Manifests
    BY <2>1 DEF StoreTypes
  <2>3. PICK m \in Manifests : m.docs = intakes[rev[r].intake].docs /\ SetStatus(r, m)
    <3>1. CASE Rerun(r)
      BY <3>1, <2>2, ReviewerRewrites DEF Manifests
    <3>2. CASE Processed(r)
      BY <3>2, <2>2, ReviewerRewrites DEF Manifests
    <3>3. CASE Discard(r)
      BY <3>3, <2>2, ReviewerRewrites DEF Manifests
    <3> QED BY <1>3, <3>1, <3>2, <3>3
  <2> QED BY <1>1, <2>1, <2>3, Rewritten
<1> QED BY <1>2, <1>3 DEF ReviewerStep, Check, Post

\* A reviewer's faults are counted.
LEMMA ReviewerFaults ==
  ASSUME ConnectorTypes, NEW r \in Reviewers, ReviewerStep(r)
  PROVE  faults' \in Nat /\ faults' >= faults
  BY DEF ConnectorTypes, ReviewerStep, Check, Rerun, Post, Starts, Refuses, Processed, Discard, Fault

\* The types are kept.
LEMMA TypesStep ==
  ASSUME Types, [Next]_vars PROVE Types'
<1>1. CASE ConnectorStep
  BY <1>1, ConnectorKeepsTypes, ConnectorKeepsStore DEF Types
<1>2. CASE \E r \in Reviewers : ReviewerStep(r)
  <2> PICK r \in Reviewers : ReviewerStep(r)
    BY <1>2
  <2>1. UNCHANGED <<at, batches>> /\ faults' \in Nat
    BY ReviewerKeepsDocs, ReviewerFaults DEF Types
  <2>2. ConnectorTypes'
    BY <2>1 DEF Types, ConnectorTypes
  <2> QED BY <2>2, ReviewerKeepsStore DEF Types
<1>3. CASE UNCHANGED vars
  BY <1>3 DEF vars, connector, reviewers, Types, ConnectorTypes, StoreTypes
<1> QED BY <1>1, <1>2, <1>3, Steppers

-----------------------------------------------------------------------------
(* Documents are taken once *)

\* Of indices up to n, one more is at most one more.
LEMMA OneMore ==
  ASSUME NEW n \in Nat, NEW S \in SUBSET (1..n), NEW R, R \subseteq S \cup {n + 1}
  PROVE  /\ Cardinality(S) \in Nat /\ Cardinality(R) \in Nat
         /\ Cardinality(R) <= Cardinality(S) + 1
<1>0. IsFiniteSet(1..n)
  BY FS_Interval
<1>1. IsFiniteSet(S)
  BY <1>0, FS_Subset
<1>2. /\ IsFiniteSet(S \cup {n + 1})
      /\ Cardinality(S \cup {n + 1}) = Cardinality(S) + 1
  BY <1>1, FS_AddElement
<1>3. IsFiniteSet(R) /\ Cardinality(R) <= Cardinality(S \cup {n + 1})
  BY <1>2, FS_Subset
<1> QED BY <1>1, <1>2, <1>3, FS_CardinalityType

InStore(d) == {i \in DOMAIN intakes : d \in intakes[i].docs}
InBatches(d) == {i \in DOMAIN batches : d \in batches[i]}

LEMMA CopiesAre ==
  ASSUME Types, NEW d
  PROVE  /\ Copies(d) = Cardinality(InStore(d)) + Cardinality(InBatches(d))
         /\ InStore(d) \in SUBSET (1..Len(intakes)) /\ Len(intakes) \in Nat
         /\ InBatches(d) \in SUBSET (1..Len(batches)) /\ Len(batches) \in Nat
         /\ Cardinality(InStore(d)) \in Nat /\ Cardinality(InBatches(d)) \in Nat
         /\ Copies(d) \in Nat
<1>1. Copies(d) = Cardinality(InStore(d)) + Cardinality(InBatches(d))
  BY DEF Copies, InStore, InBatches
<1>2. InStore(d) \in SUBSET (1..Len(intakes)) /\ Len(intakes) \in Nat
  BY DEF InStore, Types, StoreTypes
<1>3. InBatches(d) \in SUBSET (1..Len(batches)) /\ Len(batches) \in Nat
  BY DEF InBatches, Types, ConnectorTypes
<1>4. Cardinality(InStore(d)) \in Nat /\ Cardinality(InBatches(d)) \in Nat
  BY <1>2, <1>3, OneMore
<1> QED BY <1>1, <1>2, <1>3, <1>4

\* Where the documents of manifests and batches stay, so do the copies.
LEMMA SameCopies ==
  ASSUME NEW d, batches' = batches, DOMAIN intakes' = DOMAIN intakes,
         \A i \in DOMAIN intakes : intakes'[i].docs = intakes[i].docs
  PROVE  Copies(d)' = Copies(d)
<1>1. InStore(d)' = InStore(d)
  BY DEF InStore
<1>2. InBatches(d)' = InBatches(d)
  BY DEF InBatches
<1> QED BY <1>1, <1>2 DEF Copies, InStore, InBatches

\* Parking a document makes one more copy of it at most, and none of others.
LEMMA ParkCopies ==
  ASSUME Types, Park, NEW d
  PROVE  Copies(d)' <= Copies(d) + (IF d \in at.docs THEN 1 ELSE 0) /\ Copies(d)' \in Nat
<1>1. PICK kept \in Stored(at.docs) :
        intakes' = Append(intakes, [docs |-> kept, status |-> "pending", job |-> 0, runs |-> {}])
  BY DEF Park
<1> DEFINE m == [docs |-> kept, status |-> "pending", job |-> 0, runs |-> {}]
<1>2. kept \subseteq at.docs /\ at.docs \in SUBSET Docs
  BY DEF Stored, Types, ConnectorTypes, Places
<1>3. m \in Manifests /\ m.docs = kept
  BY <1>2 DEF Manifests, Statuses
<1> HIDE DEF m
<1>4. intakes' = Append(intakes, m)
  BY <1>1 DEF m
<1>5. /\ DOMAIN intakes' = DOMAIN intakes \cup {Len(intakes) + 1}
      /\ intakes'[Len(intakes) + 1] = m
      /\ \A i \in DOMAIN intakes : intakes'[i] = intakes[i]
  BY <1>3, <1>4, LongerStore DEF Types
<1>6. InStore(d)' \subseteq InStore(d) \cup {Len(intakes) + 1}
  BY <1>5 DEF InStore
<1>7. InBatches(d)' = InBatches(d)
  BY DEF InBatches, Park
<1>8. Copies(d)' = Cardinality(InStore(d)') + Cardinality(InBatches(d)')
  BY DEF Copies, InStore, InBatches
<1>9. CASE d \in at.docs
  BY <1>6, <1>7, <1>8, <1>9, CopiesAre, OneMore
<1>10. CASE d \notin at.docs
  <2>1. InStore(d)' = InStore(d)
    BY <1>2, <1>3, <1>5, <1>10 DEF InStore, Types, StoreTypes
  <2> QED BY <2>1, <1>7, <1>8, <1>10, CopiesAre
<1> QED BY <1>9, <1>10

\* So does submitting it.
LEMMA SubmitCopies ==
  ASSUME Types, intakes' = intakes, batches' \in {batches, Ingested}, NEW d
  PROVE  Copies(d)' <= Copies(d) + (IF d \in at.docs THEN 1 ELSE 0) /\ Copies(d)' \in Nat
<1>1. InStore(d)' = InStore(d)
  BY DEF InStore
<1>2. Copies(d)' = Cardinality(InStore(d)') + Cardinality(InBatches(d)')
  BY DEF Copies, InStore, InBatches
<1>3. CASE batches' = batches
  <2>1. InBatches(d)' = InBatches(d)
    BY <1>3 DEF InBatches
  <2> QED BY <2>1, <1>1, <1>2, CopiesAre
<1>4. CASE batches' = Ingested
  <2>0. batches \in Seq(SUBSET Docs) /\ at.docs \in SUBSET Docs
    BY DEF Types, ConnectorTypes, Places
  <2>1. /\ DOMAIN batches' = DOMAIN batches \cup {Len(batches) + 1}
        /\ batches'[Len(batches) + 1] = at.docs
        /\ \A i \in DOMAIN batches : batches'[i] = batches[i]
    BY <1>4, <2>0 DEF Ingested
  <2>2. InBatches(d)' \subseteq InBatches(d) \cup {Len(batches) + 1}
    BY <2>1 DEF InBatches
  <2>3. CASE d \in at.docs
    <3>1. /\ InBatches(d) \in SUBSET (1..Len(batches)) /\ Len(batches) \in Nat
      BY CopiesAre
    <3>2. /\ Cardinality(InBatches(d)') \in Nat
          /\ Cardinality(InBatches(d)') <= Cardinality(InBatches(d)) + 1
      BY <2>2, <3>1, OneMore
    <3> QED BY <1>1, <1>2, <2>3, <3>2, CopiesAre
  <2>4. CASE d \notin at.docs
    <3>1. InBatches(d)' = InBatches(d)
      BY <2>0, <2>1, <2>4 DEF InBatches
    <3> QED BY <3>1, <1>1, <1>2, <2>4, CopiesAre
  <2> QED BY <2>3, <2>4
<1> QED BY <1>3, <1>4

LEMMA TakenInit == Init => TakenInv
<1> SUFFICES ASSUME Init PROVE TakenInv
  OBVIOUS
<1>1. ASSUME NEW d PROVE Copies(d) = 0
  <2>1. InStore(d) = {} /\ InBatches(d) = {}
    BY DEF Init, InStore, InBatches
  <2> QED BY <2>1, FS_EmptySet DEF Copies, InStore, InBatches
<1> QED BY <1>1 DEF Init, TakenInv, Rest

\* While the documents taken stay, what counts as taken does not shrink without a fault.
LEMMA TakenKept ==
  ASSUME Types, TakenInv, Types',
         \A d : Copies(d)' = Copies(d),
         \A d : Counted(d) => Counted(d)' \/ faults' >= faults + 1,
         faults' >= faults, at'.step = "accepted" => at'.docs \cap seen' = {}
  PROVE  TakenInv'
<1>1. ASSUME NEW d \in UNION Range(DocsOf)
      PROVE  Copies(d)' <= faults' + (IF Counted(d)' THEN 1 ELSE 0)
  <2>1. faults \in Nat /\ faults' \in Nat
    BY DEF Types, ConnectorTypes
  <2>2. Copies(d) \in Nat /\ Copies(d)' = Copies(d)
    BY CopiesAre
  <2>3. Copies(d) <= faults + (IF Counted(d) THEN 1 ELSE 0)
    BY DEF TakenInv
  <2>4. Counted(d) => Counted(d)' \/ faults' >= faults + 1
    OBVIOUS
  <2> HIDE DEF Counted
  <2>5. CASE Counted(d)
    BY <2>1, <2>2, <2>3, <2>4, <2>5
  <2>6. CASE ~Counted(d)
    BY <2>1, <2>2, <2>3, <2>6
  <2> QED BY <2>5, <2>6
<1> QED BY <1>1 DEF TakenInv

LEMMA TakenStep ==
  ASSUME Types, Types', TakenInv, [Next]_vars PROVE TakenInv'
<1>0. faults \in Nat /\ at \in Places
  BY DEF Types, ConnectorTypes
<1>1. CASE \E b \in Boxes, m \in Mails : Fetch(b, m)
  <2>1. UNCHANGED <<intakes, batches, seen, faults>> /\ at.step = "idle"
    BY <1>1 DEF Fetch
  <2>2. at'.step # "taken" /\ at'.docs \cap seen = {}
    BY <1>1 DEF Fetch, New
  <2>3. \A d : Copies(d)' = Copies(d)
    BY <2>1, SameCopies
  <2>4. \A d : Counted(d) => Counted(d)'
    BY <2>1 DEF Counted
  <2> QED BY <2>1, <2>2, <2>3, <2>4, <1>0, TakenKept
<1>2. CASE Park
  <2>1. at.step = "accepted" /\ To("taken") /\ UNCHANGED <<seen, faults>>
    BY <1>2 DEF Park
  <2>2. at'.step = "taken" /\ at'.docs = at.docs /\ at.docs \cap seen = {}
    BY <2>1, <1>0 DEF Places, To, TakenInv
  <2>3. ASSUME NEW d \in UNION Range(DocsOf)
        PROVE  Copies(d)' <= faults' + (IF Counted(d)' THEN 1 ELSE 0)
    <3>1. Copies(d)' <= Copies(d) + (IF d \in at.docs THEN 1 ELSE 0) /\ Copies(d)' \in Nat /\ Copies(d) \in Nat
      BY <1>2, ParkCopies, CopiesAre
    <3>2. Copies(d) <= faults + (IF Counted(d) THEN 1 ELSE 0)
      BY DEF TakenInv
    <3>3. CASE d \in at.docs
      <4>1. ~Counted(d) /\ Counted(d)'
        BY <2>1, <2>2, <3>3 DEF Counted
      <4> QED BY <4>1, <3>1, <3>2, <3>3, <2>1, <1>0
    <3>4. CASE d \notin at.docs
      <4>1. Counted(d)' <=> Counted(d)
        BY <2>1, <2>2, <3>4 DEF Counted
      <4> QED BY <4>1, <3>1, <3>2, <3>4, <2>1, <1>0
    <3> QED BY <3>3, <3>4
  <2> QED BY <2>2, <2>3 DEF TakenInv
<1>3. CASE Submit
  <2>1. /\ at.step = "accepted" /\ UNCHANGED <<seen, intakes>> /\ batches' \in {batches, Ingested}
        /\ \/ To("taken") /\ UNCHANGED faults
           \/ at' = [at EXCEPT !.step = "answered", !.label = "rejected"] /\ faults' = faults + 1
    BY <1>3 DEF Submit, Fault
  <2>2. at'.docs = at.docs /\ at'.step # "accepted" /\ at.docs \cap seen = {}
    BY <2>1, <1>0 DEF Places, To, TakenInv
  <2>3. ASSUME NEW d \in UNION Range(DocsOf)
        PROVE  Copies(d)' <= faults' + (IF Counted(d)' THEN 1 ELSE 0)
    <3>1. Copies(d)' <= Copies(d) + (IF d \in at.docs THEN 1 ELSE 0) /\ Copies(d)' \in Nat /\ Copies(d) \in Nat
      BY <2>1, SubmitCopies, CopiesAre
    <3>2. Copies(d) <= faults + (IF Counted(d) THEN 1 ELSE 0)
      BY DEF TakenInv
    <3>3. CASE at' = [at EXCEPT !.step = "answered", !.label = "rejected"] /\ faults' = faults + 1
      <4>1. Counted(d)' <=> Counted(d)
        BY <2>1, <3>3, <1>0 DEF Counted, Places
      <4> QED BY <4>1, <3>1, <3>2, <3>3, <1>0
    <3>4. CASE To("taken") /\ UNCHANGED faults /\ d \in at.docs
      <4>1. ~Counted(d) /\ Counted(d)'
        BY <2>1, <2>2, <3>4, <1>0 DEF Counted, To, Places
      <4> QED BY <4>1, <3>1, <3>2, <3>4, <1>0
    <3>5. CASE To("taken") /\ UNCHANGED faults /\ d \notin at.docs
      <4>1. Counted(d)' <=> Counted(d)
        BY <2>1, <2>2, <3>5, <1>0 DEF Counted, To, Places
      <4> QED BY <4>1, <3>1, <3>2, <3>5, <1>0
    <3> QED BY <2>1, <3>3, <3>4, <3>5
  <2> QED BY <2>2, <2>3 DEF TakenInv
<1>4. CASE SaveSeen \/ SealTaken \/ MarkHandled \/ Move
  <2>1. UNCHANGED <<intakes, batches, faults>>
    BY <1>4 DEF SaveSeen, SealTaken, MarkHandled, Move
  <2>2. at'.step # "accepted" /\ \A d : Counted(d) => Counted(d)'
    BY <1>4, <1>0 DEF SaveSeen, SealTaken, MarkHandled, Move, To, Places, Rest, Counted
  <2>3. \A d : Copies(d)' = Copies(d)
    BY <2>1, SameCopies
  <2> QED BY <2>1, <2>2, <2>3, <1>0, TakenKept
<1>5. CASE PollFails \/ Crash
  <2>1. UNCHANGED <<intakes, batches>> /\ faults' = faults + 1 /\ at' = Rest
    BY <1>5 DEF PollFails, Crash, Fault
  <2>2. \A d : Copies(d)' = Copies(d)
    BY <2>1, SameCopies
  <2> QED BY <2>1, <2>2, <1>0, TakenKept DEF Rest
<1>6. CASE \E r \in Reviewers : ReviewerStep(r)
  <2> PICK r \in Reviewers : ReviewerStep(r)
    BY <1>6
  <2>1. /\ UNCHANGED <<seen, at, batches>> /\ DOMAIN intakes' = DOMAIN intakes
        /\ \A i \in DOMAIN intakes : intakes'[i].docs = intakes[i].docs
    BY ReviewerKeepsDocs DEF Types
  <2>2. \A d : Copies(d)' = Copies(d)
    BY <2>1, SameCopies
  <2>3. faults' >= faults
    BY ReviewerFaults DEF Types
  <2> QED BY <2>1, <2>2, <2>3, TakenKept DEF Counted, TakenInv
<1>7. CASE UNCHANGED vars
  <2>1. UNCHANGED <<seen, at, batches, intakes, faults>>
    BY <1>7 DEF vars, connector
  <2>2. \A d : Copies(d)' = Copies(d)
    BY <2>1, SameCopies
  <2> QED BY <2>1, <2>2, <1>0, TakenKept DEF Counted, TakenInv
<1> QED BY <1>1, <1>2, <1>3, <1>4, <1>5, <1>6, <1>7, Steppers DEF ConnectorStep, Deliver

\* A document is taken once, and once more for each fault at most.
THEOREM DocumentsTakenOnce == Spec => []TakenOnce
<1>1. Init => Types /\ TakenInv
  BY TypesInit, TakenInit
<1>2. Types /\ TakenInv /\ [Next]_vars => (Types /\ TakenInv)'
  BY TypesStep, TakenStep
<1>3. Types /\ TakenInv => TakenOnce
  <2> SUFFICES ASSUME Types, TakenInv, NEW d \in UNION Range(DocsOf) PROVE Copies(d) <= 1 + faults
    BY DEF TakenOnce
  <2>1. Copies(d) <= faults + (IF Counted(d) THEN 1 ELSE 0)
    BY DEF TakenInv
  <2>2. Copies(d) \in Nat /\ faults \in Nat
    BY CopiesAre DEF Types, ConnectorTypes
  <2>3. CASE Counted(d)
    BY <2>1, <2>2, <2>3
  <2>4. CASE ~Counted(d)
    BY <2>1, <2>2, <2>4
  <2> QED BY <2>3, <2>4
<1> QED BY <1>1, <1>2, <1>3, PTL DEF Spec

-----------------------------------------------------------------------------
(* No mail is dropped *)

LEMMA TakenMembers ==
  ASSUME NEW d
  PROVE  d \in Taken <=>
           \/ \E i \in DOMAIN intakes : d \in intakes[i].docs
           \/ \E i \in DOMAIN batches : d \in batches[i]
  BY DEF Taken, Range

\* What is taken stays taken.
LEMMA TakenGrows ==
  ASSUME Types, [Next]_vars PROVE Taken \subseteq Taken'
<1>1. CASE ConnectorStep
  <2>1. DOMAIN intakes \subseteq DOMAIN intakes' /\ \A i \in DOMAIN intakes : intakes'[i] = intakes[i]
    <3>1. CASE intakes' = intakes
      BY <3>1
    <3>2. CASE \E m \in Manifests : intakes' = Append(intakes, m)
      BY <3>2, LongerStore DEF Types
    <3> QED BY <1>1, <3>1, <3>2, ConnectorAppends
  <2>2. batches' = batches \/ batches' = Ingested
    BY <1>1 DEF ConnectorStep, Deliver, Fetch, Park, Submit, SaveSeen, SealTaken, MarkHandled, Move,
       PollFails, Crash
  <2>3. DOMAIN batches \subseteq DOMAIN batches' /\ \A i \in DOMAIN batches : batches'[i] = batches[i]
    BY <2>2 DEF Ingested, Types, ConnectorTypes
  <2>4. ASSUME NEW d \in Taken PROVE d \in Taken'
    <3>1. (\E i \in DOMAIN intakes : d \in intakes[i].docs) \/ \E i \in DOMAIN batches : d \in batches[i]
      BY <2>4, TakenMembers
    <3>2. (\E i \in DOMAIN intakes' : d \in intakes'[i].docs) \/ \E i \in DOMAIN batches' : d \in batches'[i]
      BY <3>1, <2>1, <2>3
    <3> QED BY <3>2 DEF Taken, Range
  <2> QED BY <2>4
<1>2. CASE \E r \in Reviewers : ReviewerStep(r)
  <2>1. /\ batches' = batches /\ DOMAIN intakes' = DOMAIN intakes
        /\ \A i \in DOMAIN intakes : intakes'[i].docs = intakes[i].docs
    BY <1>2, ReviewerKeepsDocs DEF Types
  <2> QED BY <2>1 DEF Taken, Range
<1>3. CASE UNCHANGED vars
  BY <1>3 DEF vars, connector, Taken
<1> QED BY <1>1, <1>2, <1>3, Steppers

LEMMA AuditGrows == [Next]_vars => audit \subseteq audit'
<1> SUFFICES ASSUME [Next]_vars PROVE audit \subseteq audit'
  OBVIOUS
<1>1. CASE ConnectorStep
  BY <1>1 DEF ConnectorStep, Deliver, Fetch, Park, Submit, Note, SaveSeen, SealTaken, MarkHandled, Move,
     PollFails, Crash
<1>2. CASE \E r \in Reviewers : ReviewerStep(r)
  BY <1>2 DEF ReviewerStep, Check, Rerun, Post, Processed, Discard, connector
<1>3. CASE UNCHANGED vars
  BY <1>3 DEF vars, connector
<1> QED BY <1>1, <1>2, <1>3, Steppers

\* So what is on record stays on record.
LEMMA RecordGrows ==
  ASSUME Taken \subseteq Taken', audit \subseteq audit'
  PROVE  /\ \A d, docs : Covered(d, docs) => Covered(d, docs)'
         /\ \A d : SeenOnRecord(d) => SeenOnRecord(d)'
         /\ \A b, m, label : Told(b, m, label) => Told(b, m, label)'
<1>1. \A d, docs : Covered(d, docs) => Covered(d, docs)'
  BY DEF Covered
<1>2. \A d : SeenOnRecord(d) => SeenOnRecord(d)'
  <2> SUFFICES ASSUME NEW d, SeenOnRecord(d) PROVE SeenOnRecord(d)'
    OBVIOUS
  <2> PICK e \in audit : d \in e.docs /\ Covered(d, e.docs)
    BY DEF SeenOnRecord
  <2>1. Covered(d, e.docs)'
    BY <1>1
  <2> QED BY <2>1 DEF SeenOnRecord
<1>3. \A b, m, label : Told(b, m, label) => Told(b, m, label)'
  <2> SUFFICES ASSUME NEW b, NEW m, NEW label, Told(b, m, label) PROVE Told(b, m, label)'
    OBVIOUS
  <2> PICK e \in audit :
        /\ e.box = b /\ e.mail = m
        /\ e.event \in IF label = "processed" THEN {"taken"} ELSE {"rejected", "submit_failed"}
        /\ e.event = "taken" => \A d \in e.docs : Covered(d, e.docs)
    BY DEF Told
  <2>1. e.event = "taken" => \A d \in e.docs : Covered(d, e.docs)'
    BY <1>1
  <2> QED BY <2>1 DEF Told
<1> QED BY <1>1, <1>2, <1>3

\* The documents of an accepted mail are covered once they are parked or submitted.
LEMMA ParkCovers ==
  ASSUME Types, Park, NEW d \in at.docs, NEW docs, docs = at.docs
  PROVE  Covered(d, docs)'
<1>1. PICK kept \in Stored(at.docs) :
        intakes' = Append(intakes, [docs |-> kept, status |-> "pending", job |-> 0, runs |-> {}])
  BY DEF Park
<1> DEFINE sameName == {k \in kept : NameOf[k] = NameOf[d]}
<1>2. kept \subseteq at.docs /\ Cardinality(sameName) = 1
  BY DEF Stored
<1>3. sameName # {}
  <2> HIDE DEF sameName
  <2> QED BY <1>2, FS_EmptySet
<1>4. PICK k \in kept : NameOf[k] = NameOf[d]
  BY <1>3
<1>5. intakes \in Seq(Manifests)
  BY DEF Types, StoreTypes
<1>6. Len(intakes) + 1 \in DOMAIN intakes' /\ intakes'[Len(intakes) + 1].docs = kept
  BY <1>1, <1>5
<1>7. k \in Taken'
  BY <1>4, <1>6 DEF Taken, Range
<1> QED BY <1>2, <1>4, <1>7 DEF Covered

LEMMA SubmitCovers ==
  ASSUME Types, batches' = Ingested, NEW d \in at.docs, NEW docs, docs = at.docs
  PROVE  Covered(d, docs)'
<1>1. batches \in Seq(SUBSET Docs) /\ at.docs \in SUBSET Docs
  BY DEF Types, ConnectorTypes, Places
<1>2. Len(batches) + 1 \in DOMAIN batches' /\ batches'[Len(batches) + 1] = at.docs
  BY <1>1 DEF Ingested
<1>3. d \in Taken'
  BY <1>2 DEF Taken, Range
<1> QED BY <1>3 DEF Covered

\* A fetched mail is on record with its verdict.
LEMMA FetchRecords ==
  ASSUME NEW b, NEW m, Fetch(b, m)
  PROVE  /\ at'.box = b /\ at'.mail = m
         /\ \/ /\ at'.step = "accepted"
               /\ [event |-> "accepted", box |-> b, mail |-> m, docs |-> at'.docs] \in audit'
            \/ /\ at'.step = "answered" /\ at'.label = "rejected"
               /\ [event |-> "rejected", box |-> b, mail |-> m, docs |-> {}] \in audit'
<1> PICK docs \in {{}, New(m)} :
      LET ok == docs # {}
      IN /\ at' = [step |-> IF ok THEN "accepted" ELSE "answered", box |-> b, mail |-> m, docs |-> docs,
                   label |-> IF ok THEN "processed" ELSE "rejected"]
         /\ audit' = audit \cup {[event |-> IF ok THEN "accepted" ELSE "rejected",
                                  box |-> b, mail |-> m, docs |-> docs]}
  BY DEF Fetch
<1>1. CASE docs = {}
  <2>1. at' = [step |-> "answered", box |-> b, mail |-> m, docs |-> {}, label |-> "rejected"]
    BY <1>1
  <2>2. audit' = audit \cup {[event |-> "rejected", box |-> b, mail |-> m, docs |-> {}]}
    BY <1>1
  <2> QED BY <2>1, <2>2
<1>2. CASE docs # {}
  <2>1. at' = [step |-> "accepted", box |-> b, mail |-> m, docs |-> docs, label |-> "processed"]
    BY <1>2
  <2>2. audit' = audit \cup {[event |-> "accepted", box |-> b, mail |-> m, docs |-> docs]}
    BY <1>2
  <2> QED BY <2>1, <2>2
<1> QED BY <1>1, <1>2

LEMMA KeptStep ==
  ASSUME Types, Types', KeptInv, [Next]_vars PROVE KeptInv'
<1>0. at \in Places /\ Taken \subseteq Taken' /\ audit \subseteq audit'
  BY TakenGrows, AuditGrows DEF Types, ConnectorTypes
<1> DEFINE Listed(docs) == \E e \in audit : e.docs = docs
           AllCovered(docs) == \A d \in docs : Covered(d, docs)
<1>a. \A docs : (Listed(docs) => Listed(docs)') /\ (AllCovered(docs) => AllCovered(docs)')
  BY <1>0, RecordGrows
<1>b. /\ at.step \in {"accepted", "taken", "seen"} => Listed(at.docs)
      /\ at.step \in {"taken", "seen"} => AllCovered(at.docs)
  BY DEF KeptInv
<1> SUFFICES ASSUME NEW docs, docs = at'.docs
             PROVE  /\ at'.step \in {"accepted", "taken", "seen"} => Listed(docs)'
                    /\ at'.step \in {"taken", "seen"} => AllCovered(docs)'
  BY DEF KeptInv
<1>1. CASE \E b \in Boxes, m \in Mails : Fetch(b, m)
  <2>1. CASE at'.step = "accepted"
    <3> PICK b \in Boxes, m \in Mails : Fetch(b, m)
      BY <1>1
    <3>2. [event |-> "accepted", box |-> b, mail |-> m, docs |-> docs] \in audit'
      BY <2>1, FetchRecords
    <3>1. \E e \in audit' : e.docs = docs
      BY <3>2
    <3> QED BY <2>1, <3>1
  <2>2. CASE at'.step = "answered"
    BY <2>2
  <2> QED BY <1>1, <2>1, <2>2, FetchRecords
<1>2. CASE Park
  <2>1. at.step = "accepted" /\ docs = at.docs
    BY <1>2, <1>0 DEF Park, To, Places
  <2>2. AllCovered(docs)'
    BY <1>2, <2>1, ParkCovers
  <2> QED BY <2>1, <2>2, <1>a, <1>b
<1>3. CASE Submit
  <2>1. at.step = "accepted" /\ docs = at.docs
    BY <1>3, <1>0 DEF Submit, To, Places
  <2>2. CASE batches' = Ingested /\ To("taken")
    <3>1. AllCovered(docs)'
      BY <2>1, <2>2, SubmitCovers
    <3> QED BY <2>1, <3>1, <1>a, <1>b
  <2>3. CASE at' = [at EXCEPT !.step = "answered", !.label = "rejected"]
    BY <2>3, <1>0 DEF Places
  <2> QED BY <1>3, <2>2, <2>3 DEF Submit
<1>4. CASE SaveSeen
  <2>1. at.step = "taken" /\ docs = at.docs
    BY <1>4, <1>0 DEF SaveSeen, To, Places
  <2> QED BY <2>1, <1>a, <1>b
<1>5. CASE SealTaken \/ MarkHandled \/ Move \/ PollFails \/ Crash
  BY <1>5, <1>0 DEF SealTaken, MarkHandled, Move, PollFails, Crash, To, Places, Rest
<1>6. CASE at' = at
  BY <1>6, <1>a, <1>b
<1>7. CASE \E r \in Reviewers : ReviewerStep(r)
  BY <1>7, <1>6, ReviewerKeepsDocs DEF Types
<1>8. CASE UNCHANGED vars
  BY <1>8, <1>6 DEF vars, connector
<1> QED BY <1>1, <1>2, <1>3, <1>4, <1>5, <1>7, <1>8, Steppers DEF ConnectorStep, Deliver

\* A mail leaves its folder for a label, or for nowhere when the server refused the copy.
LEMMA MoveAccounts ==
  ASSUME Move, folder \in [Boxes -> SUBSET Mails], NEW b \in Boxes, NEW m, m \notin folder'[b]
  PROVE  \/ m \notin folder[b]
         \/ b = at.box /\ m = at.mail /\ <<b, m, at.label>> \in filed' \cup uncopied'
<1>1. CASE UNCHANGED folder
  BY <1>1
<1>2. CASE folder' = [folder EXCEPT ![at.box] = @ \ {at.mail}]
  <2>1. m \notin folder[b] \/ (b = at.box /\ m = at.mail)
    BY <1>2
  <2>2. CASE <<at.box, at.mail, at.label>> \in filed' \cup uncopied'
    BY <2>1, <2>2
  <2>3. CASE UNCHANGED folder
    BY <2>3
  <2> QED BY <2>2, <2>3 DEF Move, mailbox
<1> QED BY <1>1, <1>2 DEF Move, mailbox

\* Nothing else removes a mail, and what was copied or refused stays so.
LEMMA OnlyMoveRemoves == ASSUME Types, [Next]_vars PROVE UNCHANGED folder \/ Move
<1>1. CASE ConnectorStep
  BY <1>1 DEF ConnectorStep, Deliver, Fetch, Park, Submit, SaveSeen, SealTaken, MarkHandled, PollFails,
     Crash, mailbox
<1>2. CASE \E r \in Reviewers : ReviewerStep(r)
  BY <1>2, ReviewerKeepsDocs DEF Types, mailbox
<1>3. CASE UNCHANGED vars
  BY <1>3 DEF vars, connector, mailbox
<1> QED BY <1>1, <1>2, <1>3, Steppers

LEMMA MailboxGrows == ASSUME Types, [Next]_vars PROVE filed \subseteq filed' /\ uncopied \subseteq uncopied'
<1>1. CASE ConnectorStep
  BY <1>1 DEF ConnectorStep, Deliver, Fetch, Park, Submit, SaveSeen, SealTaken, MarkHandled, Move, PollFails,
     Crash, mailbox
<1>2. CASE \E r \in Reviewers : ReviewerStep(r)
  BY <1>2, ReviewerKeepsDocs DEF Types, mailbox
<1>3. CASE UNCHANGED vars
  BY <1>3 DEF vars, connector, mailbox
<1> QED BY <1>1, <1>2, <1>3, Steppers

\* Until its outcome is known, an accepted mail is bound for the label of the accepted.
LabelInv == at.step \in {"accepted", "taken", "seen"} => at.label = "processed"

LEMMA LabelStep == ASSUME Types, LabelInv, [Next]_vars PROVE LabelInv'
<1>0. at \in Places
  BY DEF Types, ConnectorTypes
<1>1. CASE \E b \in Boxes, m \in Mails : Fetch(b, m)
  <2> PICK b \in Boxes, m \in Mails : Fetch(b, m)
    BY <1>1
  <2> PICK docs \in {{}, New(m)} :
        at' = [step |-> IF docs # {} THEN "accepted" ELSE "answered", box |-> b, mail |-> m, docs |-> docs,
               label |-> IF docs # {} THEN "processed" ELSE "rejected"]
    BY DEF Fetch
  <2> QED BY DEF LabelInv
<1>2. CASE Park \/ SaveSeen \/ SealTaken \/ MarkHandled \/ (Submit /\ To("taken"))
  <2>1. /\ at'.label = at.label
        /\ at'.step \in {"accepted", "taken", "seen"} => at.step \in {"accepted", "taken", "seen"}
    BY <1>0, <1>2 DEF Park, Submit, SaveSeen, SealTaken, MarkHandled, To, Places
  <2> QED BY <2>1 DEF LabelInv
<1>6. CASE Submit /\ ~To("taken")
  <2>1. at' = [at EXCEPT !.step = "answered", !.label = "rejected"]
    BY <1>6 DEF Submit
  <2>2. at'.step = "answered"
    BY <1>0, <2>1 DEF Places
  <2> QED BY <2>2 DEF LabelInv
<1>7. CASE Move \/ PollFails \/ Crash
  <2>1. at' = Rest
    BY <1>7 DEF Move, PollFails, Crash
  <2> QED BY <2>1 DEF Rest, LabelInv
<1>3. CASE at' = at
  BY <1>3 DEF LabelInv
<1>4. CASE \E r \in Reviewers : ReviewerStep(r)
  BY <1>3, <1>4, ReviewerKeepsDocs DEF Types
<1>5. CASE UNCHANGED vars
  BY <1>3, <1>5 DEF vars, connector
<1> QED BY <1>1, <1>2, <1>4, <1>5, <1>6, <1>7, Steppers DEF ConnectorStep, Deliver

\* Every step keeps the record.
LEMMA RecordStep ==
  ASSUME Types, Types', KeptInv, LabelInv, RecordInv, folder \in [Boxes -> SUBSET Mails], [Next]_vars
  PROVE  RecordInv'
<1>0. at \in Places /\ Taken \subseteq Taken' /\ audit \subseteq audit'
  BY TakenGrows, AuditGrows DEF Types, ConnectorTypes
<1>a. /\ \A d : SeenOnRecord(d) => SeenOnRecord(d)'
      /\ \A b, m, label : Told(b, m, label) => Told(b, m, label)'
  BY <1>0, RecordGrows
<1>b. at.step \in {"taken", "seen"} => \A d \in at.docs : SeenOnRecord(d)
  BY DEF KeptInv, SeenOnRecord
<1>1. ASSUME NEW d \in seen' \cup seenFile' PROVE SeenOnRecord(d)'
  <2>1. d \in seen \cup seenFile \/ (at.step = "taken" /\ d \in at.docs)
    <3>1. CASE ConnectorStep
      BY <3>1, <1>1 DEF ConnectorStep, Deliver, Fetch, Park, Submit, SaveSeen, SealTaken, MarkHandled, Move,
         PollFails, Crash
    <3>2. CASE \E r \in Reviewers : ReviewerStep(r)
      BY <3>2, <1>1, ReviewerKeepsDocs DEF Types
    <3>3. CASE UNCHANGED vars
      BY <3>3, <1>1 DEF vars, connector
    <3> QED BY <3>1, <3>2, <3>3, Steppers
  <2>2. SeenOnRecord(d)
    BY <2>1, <1>b DEF RecordInv
  <2> QED BY <2>2, <1>a
<1>2. ASSUME at'.step \in {"answered", "handled"}, NEW b, NEW m, NEW label,
             b = at'.box, m = at'.mail, label = at'.label
      PROVE  Told(b, m, label)'
  <2>1. CASE at' = at
    BY <2>1, <1>2, <1>a DEF RecordInv
  <2>2. CASE \E c \in Boxes, n \in Mails : Fetch(c, n)
    <3>1. [event |-> "rejected", box |-> b, mail |-> m, docs |-> {}] \in audit' /\ label = "rejected"
      BY <2>2, <1>2, FetchRecords
    <3> QED BY <3>1 DEF Told
  <2>3. CASE Submit
    <3>1. at' = [at EXCEPT !.step = "answered", !.label = "rejected"] /\ Note("submit_failed")
      BY <2>3, <1>2, <1>0 DEF Submit, To, Places
    <3>2. b = at.box /\ m = at.mail /\ label = "rejected"
      BY <3>1, <1>2, <1>0 DEF Places
    <3>3. [event |-> "submit_failed", box |-> b, mail |-> m, docs |-> at.docs] \in audit'
      BY <3>1, <3>2 DEF Note
    <3> QED BY <3>2, <3>3 DEF Told
  <2>4. CASE SealTaken
    <3>1. To("answered") /\ Note("taken") /\ at.step = "seen"
      BY <2>4 DEF SealTaken
    <3>2. b = at.box /\ m = at.mail /\ label = "processed"
      BY <3>1, <1>2, <1>0 DEF To, Places, LabelInv
    <3>3. PICK docs : docs = at.docs
      OBVIOUS
    <3>4. [event |-> "taken", box |-> b, mail |-> m, docs |-> docs] \in audit'
      BY <3>1, <3>2, <3>3 DEF Note
    <3>5. \A d \in docs : Covered(d, docs)
      BY <3>1, <3>3 DEF KeptInv
    <3>6. \A d \in docs : Covered(d, docs)'
      BY <3>5, <1>0, RecordGrows
    <3> QED BY <3>2, <3>4, <3>6 DEF Told
  <2>5. CASE MarkHandled
    <3>1. at.step = "answered" /\ b = at.box /\ m = at.mail /\ label = at.label
      BY <2>5, <1>2, <1>0 DEF MarkHandled, To, Places
    <3> QED BY <3>1, <1>a DEF RecordInv
  <2>6. CASE Park \/ SaveSeen \/ Move \/ PollFails \/ Crash
    BY <2>6, <1>0, <1>2 DEF Park, SaveSeen, Move, PollFails, Crash, To, Places, Rest
  <2>7. CASE \E r \in Reviewers : ReviewerStep(r)
    BY <2>7, <2>1, ReviewerKeepsDocs DEF Types
  <2>8. CASE UNCHANGED vars
    BY <2>8, <2>1 DEF vars, connector
  <2> QED BY <2>2, <2>3, <2>4, <2>5, <2>6, <2>7, <2>8, Steppers DEF ConnectorStep, Deliver
<1>3. ASSUME NEW b \in Boxes, NEW m \in Arriving[b], m \notin folder'[b] PROVE Accounted(b, m)'
  <2>1. filed \subseteq filed' /\ uncopied \subseteq uncopied'
    BY MailboxGrows
  <2>2. CASE m \notin folder[b]
    <3>1. PICK label \in Labels : <<b, m, label>> \in filed \cup uncopied /\ Told(b, m, label)
      BY <2>2 DEF RecordInv, Accounted
    <3> QED BY <1>a, <2>1, <3>1 DEF Accounted
  <2>3. CASE m \in folder[b]
    <3>1. Move
      BY <1>3, <2>3, OnlyMoveRemoves DEF Types
    <3>2. at.step = "handled" /\ b = at.box /\ m = at.mail /\ <<b, m, at.label>> \in filed' \cup uncopied'
      BY <1>3, <2>3, <3>1, MoveAccounts DEF Move
    <3>3. PICK label \in Labels : label = at.label
      BY <3>2 DEF Types, ConnectorTypes
    <3>4. Told(b, m, label)
      BY <3>2, <3>3 DEF RecordInv
    <3> QED BY <1>a, <3>2, <3>3, <3>4 DEF Accounted
  <2> QED BY <2>2, <2>3
<1>4. ASSUME NEW b \in Boxes, NEW m \in Arriving[b], <<b, m>> \in handled' \cup handledFile'
      PROVE  Remembered(b, m)'
  <2>1. <<b, m>> \in handled \cup handledFile \/ (at.step = "answered" /\ b = at.box /\ m = at.mail)
    <3>1. CASE MarkHandled
      BY <3>1, <1>4 DEF MarkHandled
    <3>2. CASE Move
      BY <3>2, <1>4 DEF Move
    <3>3. CASE PollFails
      BY <3>3, <1>4 DEF PollFails
    <3>4. CASE Crash \/ Park \/ Submit \/ SaveSeen \/ SealTaken \/ \E c \in Boxes, n \in Mails : Fetch(c, n)
      BY <3>4, <1>4 DEF Crash, Park, Submit, SaveSeen, SealTaken, Fetch
    <3>5. CASE \E r \in Reviewers : ReviewerStep(r)
      BY <3>5, <1>4, ReviewerKeepsDocs DEF Types
    <3>6. CASE UNCHANGED vars
      BY <3>6, <1>4 DEF vars, connector
    <3> QED BY <3>1, <3>2, <3>3, <3>4, <3>5, <3>6, Steppers DEF ConnectorStep, Deliver
  <2>2. PICK label \in Labels : Told(b, m, label)
    BY <2>1 DEF RecordInv, Remembered, Types, ConnectorTypes
  <2> QED BY <1>a, <2>2 DEF Remembered
<1> QED BY <1>1, <1>2, <1>3, <1>4 DEF RecordInv

LEMMA FolderTypes ==
  ASSUME folder \in [Boxes -> SUBSET Mails], [Next]_vars PROVE folder' \in [Boxes -> SUBSET Mails]
<1>1. CASE ConnectorStep
  BY <1>1 DEF ConnectorStep, Deliver, Fetch, Park, Submit, SaveSeen, SealTaken, MarkHandled, Move,
     PollFails, Crash, mailbox
<1>2. CASE \E r \in Reviewers : ReviewerStep(r)
  BY <1>2 DEF ReviewerStep, Check, Rerun, Post, Processed, Discard, connector, mailbox
<1>3. CASE UNCHANGED vars
  BY <1>3 DEF vars, connector, mailbox
<1> QED BY <1>1, <1>2, <1>3, Steppers

\* No mail is dropped: what left its folder is under a label, unless the server refused the
\* copy, and on record, as is what counts as handled or as seen; and the documents taken are
\* kept, whatever crashed or failed.
THEOREM MailsAreKept == Spec => []NoMailDropped
<1> DEFINE Inv == Types /\ KeptInv /\ LabelInv /\ RecordInv /\ folder \in [Boxes -> SUBSET Mails]
<1>1. Init => Inv
  <2> SUFFICES ASSUME Init PROVE Inv
    OBVIOUS
  <2>1. KeptInv /\ LabelInv /\ RecordInv /\ folder \in [Boxes -> SUBSET Mails]
    BY IntakeAssumption DEF Init, KeptInv, LabelInv, RecordInv, Rest
  <2> QED BY <2>1, TypesInit
<1>2. Inv /\ [Next]_vars => Inv'
  BY TypesStep, KeptStep, LabelStep, RecordStep, FolderTypes
<1>3. Inv => NoMailDropped
  BY DEF RecordInv, NoMailDropped, SeenOnRecord, Accounted, Remembered
<1> QED BY <1>1, <1>2, <1>3, PTL DEF Spec

-----------------------------------------------------------------------------
(* Jobs are on record *)

\* The record of one job.
OnRecord(j) ==
  \/ j \in late \/ jobs[j] \in raced
  \/ \E r \in Reviewers : rev[r].job = j
  \/ /\ j \in {intakes[jobs[j]].job} \cup intakes[jobs[j]].runs
     /\ intakes[jobs[j]].status = "discarded" => j # intakes[jobs[j]].job

LEMMA JobsInit == Init => JobsInv
<1> SUFFICES ASSUME Init PROVE JobsInv
  OBVIOUS
<1>1. \A r \in Reviewers : Alone(r) /\ Holds(r)
  BY DEF Init, Alone, Holds, Away
<1> QED BY <1>1 DEF Init, JobsInv, JobsAreOnRecord

\* The connector disturbs no job's record: the manifests stay where they are, and a new one
\* has no job.
LEMMA JobsConnector ==
  ASSUME Types, JobsInv, ConnectorStep PROVE JobsInv'
<1>1. UNCHANGED <<jobs, rev, raced, late>>
  BY ConnectorAppends
<1>2. CASE intakes' = intakes
  BY <1>1, <1>2 DEF JobsInv, Alone, Holds, NoJobYet, JobsAreOnRecord
<1>3. CASE \E m \in Manifests : m.job = 0 /\ intakes' = Append(intakes, m)
  <2>1. /\ DOMAIN intakes' = DOMAIN intakes \cup {Len(intakes) + 1}
        /\ intakes'[Len(intakes) + 1].job = 0
        /\ \A i \in DOMAIN intakes : intakes'[i] = intakes[i]
    BY <1>3, LongerStore DEF Types
  <2>2. /\ \A r \in Reviewers : rev[r].step # "idle" => rev[r].intake \in DOMAIN intakes
        /\ \A j \in DOMAIN jobs : jobs[j] \in DOMAIN intakes
    BY DEF Types, StoreTypes
  <2>3. \A r \in Reviewers : Alone(r)' /\ Holds(r)'
    BY <1>1, <2>1, <2>2 DEF JobsInv, Alone, Holds
  <2>4. \A i \in DOMAIN intakes' : NoJobYet(i)'
    BY <1>1, <2>1 DEF JobsInv, NoJobYet
  <2>5. ASSUME NEW j \in DOMAIN jobs PROVE OnRecord(j)'
    <3>1. OnRecord(j)
      BY DEF JobsInv, JobsAreOnRecord, OnRecord
    <3>2. intakes'[jobs[j]] = intakes[jobs[j]]
      BY <2>1, <2>2
    <3> QED BY <1>1, <3>1, <3>2 DEF OnRecord
  <2> QED BY <1>1, <2>3, <2>4, <2>5 DEF JobsInv, JobsAreOnRecord, OnRecord
<1> QED BY <1>2, <1>3, ConnectorAppends

\* A request begins.
LEMMA JobsCheck ==
  ASSUME StoreTypes, JobsInv, NEW r \in Reviewers, NEW i \in DOMAIN intakes, NEW kind \in Kinds,
         Check(r, i, kind)
  PROVE  JobsInv'
<1>a. rev \in [Reviewers -> Requests] /\ rev' = [rev EXCEPT ![r] = Checked(i, kind)]
  BY ReviewerMoves DEF StoreTypes
<1>b. rev[r].step = "idle" /\ jobs' = jobs /\ intakes' = intakes /\ late' = late /\ Ready(i, kind)
  BY DEF Check
<1>1. /\ rev \in [Reviewers -> Requests] /\ rev' = [rev EXCEPT ![r] = Checked(i, kind)]
      /\ rev[r].step = "idle" /\ jobs' = jobs /\ intakes' = intakes /\ late' = late
      /\ Ready(i, kind)
  BY <1>a, <1>b
<1>2. /\ raced \subseteq raced'
      /\ \A o \in Reviewers : rev[o].step # "idle" /\ rev[o].intake = i => i \in raced'
  BY DEF Check
<1>3. rev'[r] = Checked(i, kind) /\ \A o \in Reviewers \ {r} : rev'[o] = rev[o]
  BY <1>1
<1>c. /\ Checked(i, kind).step = "checked" /\ Checked(i, kind).intake = i /\ Checked(i, kind).kind = kind
      /\ Checked(i, kind).job = 0
      /\ Checked(i, kind).read
           = [status |-> intakes[i].status, job |-> intakes[i].job, runs |-> intakes[i].runs]
  BY DEF Checked
<1>4. ASSUME NEW o \in Reviewers PROVE Alone(o)' /\ Holds(o)'
  <2>1. CASE o = r
    <3>1. Holds(o)'
      BY <2>1, <1>3, <1>c DEF Holds
    <3>2. Alone(o)'
      <4> SUFFICES ASSUME i \notin raced'
                   PROVE  /\ \A p \in Reviewers \ {r} : rev'[p].step # "idle" => rev'[p].intake # i
                          /\ intakes[i].status = IF kind = "rerun" THEN "processed" ELSE "pending"
        BY <2>1, <1>1, <1>3, <1>c DEF Alone
      <4> QED BY <1>1, <1>2, <1>3 DEF Ready
    <3> QED BY <3>1, <3>2
  <2>2. CASE o # r
    <3>1. Alone(o) /\ Holds(o) /\ rev'[o] = rev[o]
      BY <2>2, <1>3 DEF JobsInv
    <3>2. Holds(o)'
      BY <3>1, <1>1 DEF Holds
    <3>3. Alone(o)'
      <4> SUFFICES ASSUME rev[o].step # "idle", rev[o].intake \notin raced'
                   PROVE  /\ \A p \in Reviewers \ {o} : rev'[p].step # "idle" => rev'[p].intake # rev[o].intake
                          /\ rev[o].read = [status |-> intakes[rev[o].intake].status,
                                            job |-> intakes[rev[o].intake].job,
                                            runs |-> intakes[rev[o].intake].runs]
                          /\ intakes[rev[o].intake].status
                               = IF rev[o].kind = "rerun" THEN "processed" ELSE "pending"
        BY <3>1, <1>1 DEF Alone
      <4>1. rev[o].intake # i
        BY <1>2
      <4>2. \A p \in Reviewers \ {o} : rev[p].step # "idle" => rev[p].intake # rev[o].intake
        BY <3>1, <1>2 DEF Alone
      <4>3. \A p \in Reviewers \ {o} : rev'[p].step # "idle" => rev'[p].intake # rev[o].intake
        BY <4>1, <4>2, <1>3, <1>c
      <4> QED BY <4>3, <3>1, <1>2 DEF Alone
    <3> QED BY <3>2, <3>3
  <2> QED BY <2>1, <2>2
<1>5. \A k \in DOMAIN intakes' : NoJobYet(k)'
  BY <1>1, <1>2 DEF JobsInv, NoJobYet
<1>6. ASSUME NEW j \in DOMAIN jobs PROVE OnRecord(j)'
  <2>1. OnRecord(j) /\ j \in Nat /\ j # 0
    BY DEF JobsInv, JobsAreOnRecord, OnRecord, StoreTypes
  <2>2. rev[r].job = 0
    BY <1>1 DEF JobsInv, Holds
  <2>3. \A o \in Reviewers : rev[o].job = j => rev'[o].job = j
    BY <2>1, <2>2, <1>3
  <2> QED BY <1>1, <1>2, <2>1, <2>3 DEF OnRecord
<1> QED BY <1>1, <1>4, <1>5, <1>6 DEF JobsInv, JobsAreOnRecord, OnRecord

\* A request's step on its intake: the other requests do not see it, or had raced for it.
LEMMA OthersKept ==
  ASSUME StoreTypes, JobsInv, NEW r \in Reviewers, rev[r].step # "idle",
         NEW q \in Requests, rev' = [rev EXCEPT ![r] = q],
         q.step # "idle" => q.intake = rev[r].intake, raced' = raced,
         \A i \in DOMAIN intakes \ {rev[r].intake} : intakes'[i] = intakes[i],
         DOMAIN jobs \subseteq DOMAIN jobs', \A j \in DOMAIN jobs : jobs'[j] = jobs[j]
  PROVE  /\ rev'[r] = q /\ \A o \in Reviewers \ {r} : rev'[o] = rev[o]
         /\ \A o \in Reviewers \ {r} : Alone(o)' /\ Holds(o)'
         /\ q.step # "idle" /\ rev[r].intake \notin raced =>
              \A o \in Reviewers \ {r} : rev'[o].step # "idle" => rev'[o].intake # q.intake
<1>1. rev'[r] = q /\ \A o \in Reviewers \ {r} : rev'[o] = rev[o]
  BY DEF StoreTypes
<1>2. rev[r].intake \notin raced =>
        \A o \in Reviewers \ {r} : rev[o].step # "idle" => rev[o].intake # rev[r].intake
  BY DEF JobsInv, Alone
<1>3. ASSUME NEW o \in Reviewers \ {r} PROVE Alone(o)' /\ Holds(o)'
  <2>1. Alone(o) /\ Holds(o) /\ rev'[o] = rev[o]
    BY <1>1 DEF JobsInv
  <2>2. Holds(o)'
    BY <2>1 DEF Holds
  <2>3. Alone(o)'
    <3> SUFFICES ASSUME rev[o].step # "idle", rev[o].intake \notin raced
                 PROVE  /\ \A p \in Reviewers \ {o} : rev'[p].step # "idle" => rev'[p].intake # rev[o].intake
                        /\ rev[o].read = [status |-> intakes'[rev[o].intake].status,
                                          job |-> intakes'[rev[o].intake].job,
                                          runs |-> intakes'[rev[o].intake].runs]
                        /\ intakes'[rev[o].intake].status
                             = IF rev[o].kind = "rerun" THEN "processed" ELSE "pending"
      BY <2>1 DEF Alone
    <3>1. \A p \in Reviewers \ {o} : rev[p].step # "idle" => rev[p].intake # rev[o].intake
      BY <2>1 DEF Alone
    <3>2. rev[r].intake # rev[o].intake
      BY <3>1
    <3>3. rev[o].intake \in DOMAIN intakes
      BY DEF StoreTypes
    <3>4. intakes'[rev[o].intake] = intakes[rev[o].intake]
      BY <3>2, <3>3
    <3>5. \A p \in Reviewers \ {o} : rev'[p].step # "idle" => rev'[p].intake # rev[o].intake
      BY <1>1, <3>1, <3>2
    <3> QED BY <2>1, <3>4, <3>5 DEF Alone
  <2> QED BY <2>2, <2>3
<1> QED BY <1>1, <1>2, <1>3

\* The run that is put back is among the earlier ones.
LEMMA JobsRerun ==
  ASSUME StoreTypes, JobsInv, NEW r \in Reviewers, Rerun(r) PROVE JobsInv'
<1> DEFINE i == rev[r].intake
<1>1. rev[r].step = "checked" /\ rev[r].kind = "rerun" /\ jobs' = jobs /\ raced' = raced /\ late' = late
  BY DEF Rerun
<1>2. PICK m \in Manifests :
        m.status = "pending" /\ m.job = 0 /\ m.runs = AllRuns(r) /\ SetStatus(r, m)
  <2>1. intakes[i] \in Manifests
    BY <1>1 DEF StoreTypes
  <2> QED BY <2>1, ReviewerRewrites DEF Manifests
<1>3. /\ i \in DOMAIN intakes /\ DOMAIN intakes' = DOMAIN intakes /\ intakes'[i] = m
      /\ \A k \in DOMAIN intakes \ {i} : intakes'[k] = intakes[k]
  BY <1>1, <1>2, Rewritten
<1> DEFINE q == PutBack(r)
<1>4. /\ q \in Requests /\ rev' = [rev EXCEPT ![r] = q] /\ q.step = "checked" /\ q.intake = i
      /\ q.kind = "process" /\ q.read = [status |-> "pending", job |-> 0, runs |-> AllRuns(r)]
      /\ q.job = 0
  BY <1>1, PutBackIsRequest, ReviewerMoves DEF JobsInv, Holds
<1> HIDE DEF q
<1>a. /\ rev[r].step # "idle" /\ q \in Requests /\ rev' = [rev EXCEPT ![r] = q]
      /\ q.step # "idle" => q.intake = rev[r].intake
      /\ raced' = raced
      /\ \A k \in DOMAIN intakes \ {rev[r].intake} : intakes'[k] = intakes[k]
      /\ DOMAIN jobs \subseteq DOMAIN jobs' /\ \A j \in DOMAIN jobs : jobs'[j] = jobs[j]
  BY <1>1, <1>3, <1>4
<1>b. /\ rev'[r] = q /\ \A o \in Reviewers \ {r} : rev'[o] = rev[o]
      /\ \A o \in Reviewers \ {r} : Alone(o)' /\ Holds(o)'
      /\ q.step # "idle" /\ rev[r].intake \notin raced =>
           \A o \in Reviewers \ {r} : rev'[o].step # "idle" => rev'[o].intake # q.intake
  BY <1>a, OthersKept
<1>5. /\ rev'[r] = q /\ \A o \in Reviewers \ {r} : rev'[o] = rev[o]
      /\ \A o \in Reviewers \ {r} : Alone(o)' /\ Holds(o)'
      /\ i \notin raced => \A o \in Reviewers \ {r} : rev'[o].step # "idle" => rev'[o].intake # i
  BY <1>b, <1>4
<1>6. Holds(r)'
  BY <1>4, <1>5 DEF Holds
<1>7. Alone(r)'
  BY <1>1, <1>2, <1>3, <1>4, <1>5 DEF Alone
<1>8. \A k \in DOMAIN intakes' : NoJobYet(k)'
  BY <1>1, <1>2, <1>3 DEF JobsInv, NoJobYet
<1>9. ASSUME NEW j \in DOMAIN jobs PROVE OnRecord(j)'
  <2>1. OnRecord(j) /\ j # 0 /\ jobs[j] \in DOMAIN intakes
    BY DEF JobsInv, JobsAreOnRecord, OnRecord, StoreTypes
  <2>2. CASE j \in late \/ jobs[j] \in raced
    BY <2>2, <1>1 DEF OnRecord
  <2>3. CASE \E o \in Reviewers : rev[o].job = j
    <3>1. rev[r].job = 0
      BY <1>1 DEF JobsInv, Holds
    <3> QED BY <2>1, <2>3, <3>1, <1>5 DEF OnRecord
  <2>4. CASE /\ jobs[j] \notin raced
             /\ j \in {intakes[jobs[j]].job} \cup intakes[jobs[j]].runs
             /\ intakes[jobs[j]].status = "discarded" => j # intakes[jobs[j]].job
    <3>1. CASE jobs[j] # i
      BY <3>1, <2>1, <2>4, <1>1, <1>3 DEF OnRecord
    <3>2. CASE jobs[j] = i
      <4>1. rev[r].read = [status |-> intakes[i].status, job |-> intakes[i].job, runs |-> intakes[i].runs]
        BY <3>2, <2>4, <1>1 DEF JobsInv, Alone
      <4>2. j \in AllRuns(r)
        BY <4>1, <3>2, <2>4 DEF AllRuns
      <4> QED BY <4>2, <3>2, <1>1, <1>2, <1>3 DEF OnRecord
    <3> QED BY <3>1, <3>2
  <2> QED BY <2>1, <2>2, <2>3, <2>4 DEF OnRecord
<1> QED BY <1>1, <1>5, <1>6, <1>7, <1>8, <1>9 DEF JobsInv, JobsAreOnRecord, OnRecord

\* A job that starts is held by its request, or late.
LEMMA JobsPost ==
  ASSUME StoreTypes, StoreTypes', JobsInv, NEW r \in Reviewers, Post(r) PROVE JobsInv'
<1> DEFINE i == rev[r].intake
<1>1. rev[r].step = "checked" /\ rev[r].kind = "process" /\ intakes' = intakes /\ raced' = raced
  BY DEF Post
<1>2. jobs \in Seq(Nat) /\ jobs' \in Seq(Nat) /\ i \in Nat
  <2>1. rev[r] \in Requests
    BY DEF StoreTypes
  <2> QED BY <2>1 DEF StoreTypes, Requests
<1>3. \/ /\ rev' = [rev EXCEPT ![r] = Posted(r)] /\ jobs' = Append(jobs, i) /\ late' = late
      \/ /\ rev' = [rev EXCEPT ![r] = Away]
         /\ \/ jobs' = jobs /\ late' = late
            \/ jobs' = Append(jobs, i) /\ late' = late \cup {Len(jobs')}
  BY ReviewerMoves
<1>4. PICK q \in Requests :
        /\ rev' = [rev EXCEPT ![r] = q]
        /\ q.step # "idle" => q.intake = i
        /\ \/ q.step = "idle" /\ q.job = 0
           \/ q = Posted(r) /\ jobs' = Append(jobs, i)
  BY <1>2, <1>3, AwayIsRequest, PostedIsRequest
<1>5. DOMAIN jobs \subseteq DOMAIN jobs' /\ \A j \in DOMAIN jobs : jobs'[j] = jobs[j]
  <2>1. jobs' = jobs \/ jobs' = Append(jobs, i)
    BY <1>3
  <2> QED BY <2>1, <1>2
<1>a. /\ rev[r].step # "idle" /\ q \in Requests /\ rev' = [rev EXCEPT ![r] = q]
      /\ q.step # "idle" => q.intake = rev[r].intake
      /\ raced' = raced
      /\ \A k \in DOMAIN intakes \ {rev[r].intake} : intakes'[k] = intakes[k]
      /\ DOMAIN jobs \subseteq DOMAIN jobs' /\ \A j \in DOMAIN jobs : jobs'[j] = jobs[j]
  BY <1>1, <1>4, <1>5
<1>b. /\ rev'[r] = q /\ \A o \in Reviewers \ {r} : rev'[o] = rev[o]
      /\ \A o \in Reviewers \ {r} : Alone(o)' /\ Holds(o)'
      /\ q.step # "idle" /\ rev[r].intake \notin raced =>
           \A o \in Reviewers \ {r} : rev'[o].step # "idle" => rev'[o].intake # q.intake
  BY <1>a, OthersKept
<1>6. /\ rev'[r] = q /\ \A o \in Reviewers \ {r} : rev'[o] = rev[o]
      /\ \A o \in Reviewers \ {r} : Alone(o)' /\ Holds(o)'
      /\ q.step # "idle" /\ i \notin raced =>
           \A o \in Reviewers \ {r} : rev'[o].step # "idle" => rev'[o].intake # i
  BY <1>b, <1>4
<1>7. Holds(r)' /\ Alone(r)'
  <2>1. CASE q.step = "idle" /\ q.job = 0
    BY <2>1, <1>6 DEF Holds, Alone
  <2>2. CASE q = Posted(r) /\ jobs' = Append(jobs, i)
    <3>1. /\ q.step = "posted" /\ q.intake = i /\ q.job = Len(jobs') /\ q.kind = "process"
          /\ q.read = rev[r].read
      BY <2>2, <1>1, <1>2, PostedIsRequest
    <3>2. Len(jobs') \in DOMAIN jobs' /\ jobs'[Len(jobs')] = i
      BY <2>2, <1>2
    <3>3. Holds(r)'
      BY <3>1, <3>2, <1>6 DEF Holds
    <3>4. Alone(r)
      BY DEF JobsInv
    <3>5. Alone(r)'
      BY <3>1, <3>4, <1>1, <1>6 DEF Alone
    <3> QED BY <3>3, <3>5
  <2> QED BY <1>4, <2>1, <2>2
<1>8. \A k \in DOMAIN intakes' : NoJobYet(k)'
  BY <1>1 DEF JobsInv, NoJobYet
<1>9. ASSUME NEW j \in DOMAIN jobs' PROVE OnRecord(j)'
  <2>1. CASE j \in DOMAIN jobs
    <3>1. OnRecord(j) /\ j # 0 /\ jobs'[j] = jobs[j]
      BY <2>1, <1>5 DEF JobsInv, JobsAreOnRecord, OnRecord, StoreTypes
    <3>2. rev[r].job = 0
      BY <1>1 DEF JobsInv, Holds
    <3>3. \A o \in Reviewers : rev[o].job = j => rev'[o].job = j
      BY <3>1, <3>2, <1>6
    <3>4. late \subseteq late'
      BY <1>3
    <3> QED BY <3>1, <3>3, <3>4, <1>1 DEF OnRecord
  <2>2. CASE j \notin DOMAIN jobs
    <3>1. jobs' = Append(jobs, i) /\ j = Len(jobs')
      BY <2>2, <1>2, <1>3
    <3>2. CASE rev' = [rev EXCEPT ![r] = Posted(r)]
      <4>1. rev'[r].job = j
        BY <3>1, <3>2, <1>2, PostedIsRequest DEF StoreTypes
      <4> QED BY <4>1 DEF OnRecord
    <3>3. CASE rev' = [rev EXCEPT ![r] = Away] /\ late' = late \cup {Len(jobs')}
      BY <3>1, <3>3 DEF OnRecord
    <3>4. jobs' # jobs
      BY <3>1, <1>2
    <3> QED BY <3>2, <3>3, <3>4, <1>3
  <2> QED BY <2>1, <2>2
<1> QED BY <1>6, <1>7, <1>8, <1>9 DEF JobsInv, JobsAreOnRecord, OnRecord

\* The end of a request that rewrites its manifest and goes: the manifest it leaves has the runs
\* and, unless it is processed, no current one.
LEMMA JobsEnd ==
  ASSUME StoreTypes, JobsInv, NEW r \in Reviewers, Processed(r) \/ Discard(r)
  PROVE  JobsInv'
<1> DEFINE i == rev[r].intake
           old == intakes[i]
<1>1. /\ rev[r].step # "idle" /\ jobs' = jobs /\ raced' = raced /\ late' = late
      /\ rev' = [rev EXCEPT ![r] = Away]
  BY DEF Processed, Discard
<1>0. old \in Manifests /\ i \in DOMAIN intakes
  BY <1>1 DEF StoreTypes
<1>2. PICK m \in Manifests :
        /\ SetStatus(r, m) /\ m.runs = old.runs
        /\ \/ Processed(r) /\ m.status = "processed" /\ m.job = rev[r].job
           \/ Discard(r) /\ m.status = "discarded" /\ m.job = old.job
  <2>1. CASE Processed(r)
    BY <2>1, <1>0, ReviewerRewrites DEF Manifests
  <2>2. CASE Discard(r)
    BY <2>2, <1>0, ReviewerRewrites DEF Manifests
  <2> QED BY <2>1, <2>2
<1>3. /\ DOMAIN intakes' = DOMAIN intakes /\ intakes'[i] = m
      /\ \A k \in DOMAIN intakes \ {i} : intakes'[k] = intakes[k]
  BY <1>1, <1>2, Rewritten
<1>4. /\ rev'[r] = Away /\ \A o \in Reviewers \ {r} : rev'[o] = rev[o]
      /\ \A o \in Reviewers \ {r} : Alone(o)' /\ Holds(o)'
  BY <1>1, <1>3, AwayIsRequest, OthersKept
<1>5. Alone(r)' /\ Holds(r)'
  BY <1>4, AwayIsRequest DEF Alone, Holds
<1>6. Alone(r) /\ Holds(r) /\ NoJobYet(i)
  BY <1>0 DEF JobsInv
<1>7. i \notin raced => old.status = "pending" /\ old.job = 0
  <2>1. CASE Processed(r)
    BY <2>1, <1>6, <1>1 DEF Processed, Alone, Holds, NoJobYet
  <2>2. CASE Discard(r)
    BY <2>2, <1>6, <1>1 DEF Discard, Alone, NoJobYet
  <2> QED BY <2>1, <2>2
<1>8. \A k \in DOMAIN intakes' : NoJobYet(k)'
  BY <1>1, <1>2, <1>3, <1>7 DEF JobsInv, NoJobYet
<1>9. ASSUME NEW j \in DOMAIN jobs PROVE OnRecord(j)'
  <2>1. OnRecord(j) /\ j # 0 /\ jobs[j] \in DOMAIN intakes
    BY DEF JobsInv, JobsAreOnRecord, OnRecord, StoreTypes
  <2>2. CASE j \in late \/ jobs[j] \in raced
    BY <2>2, <1>1 DEF OnRecord
  <2>3. CASE \E o \in Reviewers \ {r} : rev[o].job = j
    BY <2>3, <1>4 DEF OnRecord
  <2>4. CASE rev[r].job = j /\ jobs[j] \notin raced
    <3>1. Processed(r) /\ jobs[j] = i
      BY <2>1, <2>4, <1>1, <1>6 DEF Holds, Processed, Discard
    <3>2. m.job = j /\ m.status = "processed"
      BY <3>1, <2>4, <1>2 DEF Processed, Discard
    <3> QED BY <3>1, <3>2, <1>1, <1>3 DEF OnRecord
  <2>5. CASE /\ jobs[j] \notin raced
             /\ j \in {intakes[jobs[j]].job} \cup intakes[jobs[j]].runs
             /\ intakes[jobs[j]].status = "discarded" => j # intakes[jobs[j]].job
    <3>1. CASE jobs[j] # i
      BY <3>1, <2>1, <2>5, <1>1, <1>3 DEF OnRecord
    <3>2. CASE jobs[j] = i
      <4>1. old.job = 0 /\ j \in m.runs
        BY <3>2, <2>1, <2>5, <1>2, <1>7
      <4>2. m.status = "discarded" => j # m.job
        BY <4>1, <2>1, <1>2
      <4> QED BY <4>1, <4>2, <3>2, <1>1, <1>3 DEF OnRecord
    <3> QED BY <3>1, <3>2
  <2> QED BY <2>1, <2>2, <2>3, <2>4, <2>5 DEF OnRecord
<1> QED BY <1>1, <1>4, <1>5, <1>8, <1>9 DEF JobsInv, JobsAreOnRecord, OnRecord

\* Every job of the engine is on record, but where an answer was lost or two requests worked on
\* the intake at once.
THEOREM EveryJobOnRecord == Spec => []JobsAreOnRecord
<1>1. Init => Types /\ JobsInv
  BY TypesInit, JobsInit
<1>2. Types /\ JobsInv /\ [Next]_vars => (Types /\ JobsInv)'
  <2> SUFFICES ASSUME Types, JobsInv, [Next]_vars PROVE (Types /\ JobsInv)'
    OBVIOUS
  <2>1. Types' /\ StoreTypes /\ StoreTypes'
    BY TypesStep DEF Types
  <2>2. CASE ConnectorStep
    BY <2>1, <2>2, JobsConnector
  <2>3. CASE \E r \in Reviewers : ReviewerStep(r)
    <3> PICK r \in Reviewers : ReviewerStep(r)
      BY <2>3
    <3>1. CASE \E i \in DOMAIN intakes, kind \in Kinds : Check(r, i, kind)
      BY <3>1, <2>1, JobsCheck
    <3>2. CASE Rerun(r)
      BY <3>2, <2>1, JobsRerun
    <3>3. CASE Post(r)
      BY <3>3, <2>1, JobsPost
    <3>4. CASE Processed(r) \/ Discard(r)
      BY <3>4, <2>1, JobsEnd
    <3> QED BY <2>1, <3>1, <3>2, <3>3, <3>4 DEF ReviewerStep
  <2>4. CASE UNCHANGED vars
    BY <2>1, <2>4 DEF vars, reviewers, JobsInv, Alone, Holds, NoJobYet, JobsAreOnRecord
  <2> QED BY <2>2, <2>3, <2>4, Steppers
<1>3. JobsInv => JobsAreOnRecord
  BY DEF JobsInv
<1> QED BY <1>1, <1>2, <1>3, PTL DEF Spec


-----------------------------------------------------------------------------
(* Numbers *)

\* The order of the numbers is well-founded.
LEMMA LessWF == IsWellFoundedOn({ss \in Nat \X Nat : ss[1] < ss[2]}, Nat)
BY NatLessThanWellFounded, Zenon DEF OpToRel

\* A set of numbers has a least.
LEMMA Least == ASSUME NEW S \in SUBSET Nat, S # {} PROVE \E n \in S : \A m \in S : n <= m
<1>2. PICK n \in S : \A m \in S : ~(<<m, n>> \in {ss \in Nat \X Nat : ss[1] < ss[2]})
  BY LessWF, WFMin, Zenon
<1>3. ASSUME NEW m \in S PROVE n <= m
  <2>1. <<m, n>> \in Nat \X Nat /\ <<m, n>>[1] = m /\ <<m, n>>[2] = n
    OBVIOUS
  <2>2. ~(<<m, n>>[1] < <<m, n>>[2])
    BY <1>2, <2>1, Zenon
  <2> QED
    BY <2>1, <2>2
<1> QED
  BY <1>3

\* What holds of 0, and of the next number with each, holds of all.
LEMMA Induction == ASSUME NEW S, 0 \in S, \A n \in Nat : n \in S => n + 1 \in S PROVE Nat \subseteq S
<1> SUFFICES ASSUME Nat \ S # {} PROVE FALSE
  OBVIOUS
<1>1. PICK n \in Nat \ S : \A m \in Nat \ S : n <= m
  BY Least
<1>2. n # 0 /\ n - 1 \in Nat /\ n - 1 \in S
  BY <1>1
<1>3. (n - 1) + 1 \in S /\ (n - 1) + 1 = n
  BY <1>2
<1> QED
  BY <1>1, <1>3

\* A nonempty part of the first n numbers has a largest, which Max picks.
LEMMA MaxAmong ==
  ASSUME NEW n \in Nat, NEW s, s \subseteq 1 .. n, s # {}
  PROVE  Max(s) \in s /\ \A k \in s : Max(s) >= k
<1> DEFINE P == {k \in Nat : s \cap 1 .. k # {} => \E x \in s \cap 1 .. k : \A y \in s \cap 1 .. k : x >= y}
<1>1. 0 \in P
  OBVIOUS
<1>2. ASSUME NEW k \in Nat, k \in P PROVE k + 1 \in P
  <2>1. CASE k + 1 \in s
    <3>1. k + 1 \in s \cap 1 .. (k + 1) /\ \A y \in s \cap 1 .. (k + 1) : k + 1 >= y
      BY <2>1
    <3> QED
      BY <3>1
  <2>2. CASE k + 1 \notin s
    <3>1. s \cap 1 .. (k + 1) = s \cap 1 .. k
      BY <2>2
    <3> QED
      BY <1>2, <3>1
  <2> QED
    BY <2>1, <2>2
<1>3. Nat \subseteq P
  <2> HIDE DEF P
  <2> QED
    BY <1>1, <1>2, Induction
<1>4. s \cap 1 .. n = s /\ n \in P
  BY <1>3
<1>5. \E x \in s : \A y \in s : x >= y
  BY <1>4
<1> QED
  BY <1>5 DEF Max

\* What has more than one element has two.
LEMMA TwoOf == ASSUME NEW S, Cardinality(S) > 1 PROVE \E p, q \in S : p # q
<1> SUFFICES ASSUME \A p, q \in S : p = q PROVE FALSE
  OBVIOUS
<1>1. CASE S = {}
  BY <1>1, FS_EmptySet
<1>2. CASE S # {}
  <2>1. PICK x : S = {x}
    BY <1>2
  <2> QED
    BY <2>1, FS_Singleton
<1> QED
  BY <1>1, <1>2

\* And what has two elements has more than one.
LEMMA OneOf == ASSUME NEW S, IsFiniteSet(S), NEW p \in S, NEW q \in S, p # q PROVE Cardinality(S) > 1
<1>1. IsFiniteSet({p, q}) /\ Cardinality({p, q}) = 2
  <2>1. IsFiniteSet({p}) /\ Cardinality({p}) = 1 /\ q \notin {p} /\ {p, q} = {p} \cup {q}
    BY FS_Singleton
  <2>2. {p} \cup {q} = {p, q} /\ IsFiniteSet({p} \cup {q}) /\ Cardinality({p} \cup {q}) = Cardinality({p}) + 1
    BY <2>1, FS_AddElement
  <2> QED
    BY <2>1, <2>2
<1>2. Cardinality({p, q}) <= Cardinality(S) /\ Cardinality(S) \in Nat
  BY <1>1, FS_Subset, FS_CardinalityType
<1> QED
  BY <1>1, <1>2

-----------------------------------------------------------------------------
(* The verdict on a mail *)

\* The files of the connector are some that may be saved.
FilesHold(files) ==
  /\ files \in [settings : Settings, catalog : Catalogs]
  /\ Savable(files.settings)

\* The documents of a mail that are kept, what they are, and what they count as.
KeptOf(m) == {i \in Usable(m, before) : Classify(m.docs[i]) # None}
Kept(m) == {m.docs[i] : i \in KeptOf(m)}
CountedAs(m) == {TypeOf(m, Usable(m, before), i) : i \in KeptOf(m)} \ {None}

\* The first of the routes that let a mail in decides.
LEMMA FirstDoor ==
  RouteFor(cfg, mail.from, mail.box) = IF Doors = {} THEN {} ELSE {Door}
<1>1. {i \in Bound(cfg, mail.box) : Admits(cfg.routes[i], mail.from)} = Doors
  BY DEF Bound, Doors
<1> QED
  BY <1>1 DEF RouteFor, Door

\* The documents of a mail are numbered.
LEMMA Numbered ==
  ASSUME NEW m \in Messages
  PROVE  /\ Len(m.docs) \in Nat /\ DOMAIN m.docs = 1 .. Len(m.docs)
         /\ Usable(m, before) \subseteq 1 .. Len(m.docs)
         /\ IsFiniteSet(Usable(m, before)) /\ Cardinality(Usable(m, before)) <= Len(m.docs)
<1>1. Len(m.docs) \in Nat /\ DOMAIN m.docs = 1 .. Len(m.docs)
  BY RulesAssumption
<1>2. Usable(m, before) \subseteq 1 .. Len(m.docs)
  BY <1>1 DEF Usable
<1>3. IsFiniteSet(1 .. Len(m.docs)) /\ Cardinality(1 .. Len(m.docs)) = Len(m.docs)
  BY <1>1, FS_Interval
<1> QED
  BY <1>1, <1>2, <1>3, FS_Subset

\* A kept document counts as what it is, if its name is its own, and else as what another is.
LEMMA Counts ==
  ASSUME mail \in Messages
  PROVE  /\ CountedAs(mail) \subseteq TypesOf(Kept(mail))
         /\ Apart => CountedAs(mail) = TypesOf(Kept(mail))
<1> DEFINE named(i) == {j \in Usable(mail, before) : mail.docs[j].name = mail.docs[i].name}
<1>1. ASSUME NEW i \in KeptOf(mail) PROVE Max(named(i)) \in named(i)
  <2>1. named(i) \subseteq 1 .. Len(mail.docs) /\ i \in named(i) /\ Len(mail.docs) \in Nat
    BY Numbered DEF KeptOf
  <2> HIDE DEF named
  <2> QED
    BY <2>1, MaxAmong
<1>2. ASSUME NEW i \in KeptOf(mail)
      PROVE  TypeOf(mail, Usable(mail, before), i) = Classify(mail.docs[Max(named(i))])
  BY DEF TypeOf
<1>3. ASSUME NEW i \in KeptOf(mail), Classify(mail.docs[Max(named(i))]) # None
      PROVE  Classify(mail.docs[Max(named(i))]) \in TypesOf(Kept(mail))
  <2>1. Max(named(i)) \in KeptOf(mail)
    BY <1>1, <1>3 DEF KeptOf
  <2> QED
    BY <2>1 DEF TypesOf, Kept
<1>4. CountedAs(mail) \subseteq TypesOf(Kept(mail))
  <2> HIDE DEF named
  <2> QED
    BY <1>2, <1>3 DEF CountedAs
<1>5. ASSUME Apart, NEW i \in KeptOf(mail) PROVE Max(named(i)) = i
  <2>1. Max(named(i)) \in DOMAIN mail.docs /\ i \in DOMAIN mail.docs
    BY <1>1, Numbered DEF KeptOf
  <2> QED
    BY <1>1, <1>5, <2>1 DEF Apart
<1>6. ASSUME Apart PROVE TypesOf(Kept(mail)) \subseteq CountedAs(mail)
  <2> SUFFICES ASSUME NEW i \in KeptOf(mail) PROVE Classify(mail.docs[i]) \in CountedAs(mail)
    BY DEF TypesOf, Kept
  <2>1. TypeOf(mail, Usable(mail, before), i) = Classify(mail.docs[i]) /\ Classify(mail.docs[i]) # None
    BY <1>2, <1>5, <1>6 DEF KeptOf
  <2> QED
    BY <2>1 DEF CountedAs
<1> QED
  BY <1>4, <1>6

\* What the sets of a catalog ask for can be counted.
LEMMA SetsCount ==
  ASSUME loaded.catalog \in Catalogs
  PROVE  IsFiniteSet(DOMAIN DocSets) /\ None \notin DOMAIN DocSets /\ \A p \in DOMAIN DocSets : Cardinality(DocSets[p]) \in Nat
<1>1. IsFiniteSet(DOMAIN DocSets) /\ None \notin DOMAIN DocSets /\ \A p \in DOMAIN DocSets : IsFiniteSet(DocSets[p])
  BY RulesAssumption DEF DocSets
<1> QED
  BY <1>1, FS_CardinalityType

\* The product found is the one the subject names; or the one with the largest set that is
\* complete; or, if none is, one of the others; or none, as two complete ones are as large.
LEMMA ProductFound ==
  ASSUME loaded.catalog \in Catalogs, NEW subject, NEW types, NEW p \in Detected(subject, types)
  PROVE  /\ FromSubject(subject, DOMAIN DocSets) # None => p = FromSubject(subject, DOMAIN DocSets)
         /\ FromSubject(subject, DOMAIN DocSets) = None =>
              /\ p = None =>
                   \E a, b \in DOMAIN DocSets :
                     /\ a # b /\ Missing(a, types) = {} /\ Missing(b, types) = {}
                     /\ Cardinality(DocSets[a]) = Cardinality(DocSets[b])
              /\ p # None /\ Missing(p, types) # {} => \A q \in DOMAIN DocSets : Missing(q, types) # {}
              /\ p # None /\ Missing(p, types) = {} =>
                   \A q \in DOMAIN DocSets \ {p} :
                     Missing(q, types) = {} => Cardinality(DocSets[q]) < Cardinality(DocSets[p])
<1> DEFINE complete == {a \in DOMAIN DocSets : Missing(a, types) = {}}
           size(a) == Cardinality(DocSets[a])
           largest == {a \in complete : \A b \in complete : size(b) <= size(a)}
           lacks(a) == Cardinality(Missing(a, types))
           nearest == {a \in DOMAIN DocSets : \A b \in DOMAIN DocSets : lacks(a) <= lacks(b)}
<1>1. CASE FromSubject(subject, DOMAIN DocSets) # None
  BY <1>1 DEF Detected
<1>2. CASE FromSubject(subject, DOMAIN DocSets) = None
  <2>1. p \in IF complete = {} THEN nearest
              ELSE IF Cardinality(largest) > 1 THEN {None} ELSE largest
    BY <1>2, Zenon DEF Detected
  <2>2. None \notin DOMAIN DocSets /\ \A a \in complete : size(a) \in Nat
    BY SetsCount
  <2>3. IsFiniteSet(largest)
    <3>1. largest \subseteq DOMAIN DocSets
      OBVIOUS
    <3> QED
      BY <3>1, SetsCount, FS_Subset
  <2>4. CASE complete = {}
    <3>1. p \in DOMAIN DocSets /\ \A q \in DOMAIN DocSets : Missing(q, types) # {}
      BY <2>1, <2>4
    <3> QED
      BY <1>2, <2>2, <3>1
  <2>5. CASE complete # {} /\ Cardinality(largest) > 1
    <3>1. p = None
      BY <2>1, <2>5
    <3>2. PICK a \in largest, b \in largest : a # b
      <4> HIDE DEF largest
      <4> QED
        BY <2>5, TwoOf
    <3>3. size(a) = size(b) /\ a \in complete /\ b \in complete
      BY <2>2, <3>2
    <3> QED
      BY <1>2, <3>1, <3>2, <3>3
  <2>6. CASE complete # {} /\ ~(Cardinality(largest) > 1)
    <3>1. p \in largest
      BY <2>1, <2>6
    <3>2. p \in complete /\ p # None
      BY <2>2, <3>1
    <3>3. ASSUME NEW q \in complete, q # p PROVE size(q) < size(p)
      <4>1. q \notin largest
        <5> HIDE DEF largest
        <5> QED
          BY <2>3, <2>6, <3>1, <3>3, OneOf
      <4>2. size(q) <= size(p) /\ size(p) \in Nat /\ size(q) \in Nat
        BY <2>2, <3>1, <3>3
      <4>3. size(q) # size(p)
        BY <3>1, <3>3, <4>1
      <4> QED
        BY <4>2, <4>3
    <3> QED
      BY <1>2, <3>2, <3>3
  <2> QED
    BY <2>4, <2>5, <2>6
<1> QED
  BY <1>1, <1>2

\* The products a mail with these documents may be for.
Allowed(m, types) == IF Door.product # "auto" THEN {Door.product} ELSE Detected(m.subject, types)

\* What documents are found for makes a verdict, by what they count as.
LEMMA OnKept ==
  ASSUME mail \in Messages, NEW v, v \in OnDocuments(Door, mail, before)
  PROVE  \/ Usable(mail, before) = {} /\ v = Refused("attachments")
         \/ Cardinality(Usable(mail, before)) > MaxDocs /\ v = Refused("too many")
         \/ Usable(mail, before) # {} /\ ~cfg.templates /\ v = Unclassified(Door, mail, Usable(mail, before))
         \/ cfg.templates /\ KeptOf(mail) = {} /\ v = Refused("attachments")
         \/ /\ cfg.templates /\ KeptOf(mail) # {}
            /\ \E p \in Allowed(mail, CountedAs(mail)) : v = Resolved(Door, p, CountedAs(mail), Kept(mail))
<1> DEFINE usable == Usable(mail, before)
           kept == {i \in usable : Classify(mail.docs[i]) # None}
           types == {TypeOf(mail, usable, i) : i \in kept} \ {None}
<1>1. v \in IF usable = {} THEN {Refused("attachments")}
            ELSE IF Cardinality(usable) > MaxDocs THEN {Refused("too many")}
            ELSE IF ~cfg.templates THEN {Unclassified(Door, mail, usable)}
            ELSE IF kept = {} THEN {Refused("attachments")}
            ELSE {Resolved(Door, p, types, {mail.docs[i] : i \in kept}) :
                    p \in IF Door.product # "auto" THEN {Door.product} ELSE Detected(mail.subject, types)}
  BY Zenon DEF OnDocuments
<1>2. kept = KeptOf(mail) /\ types = CountedAs(mail) /\ {mail.docs[i] : i \in kept} = Kept(mail)
  BY DEF KeptOf, CountedAs, Kept
<1> HIDE DEF kept, types, usable
<1>3. v \in IF usable = {} THEN {Refused("attachments")}
            ELSE IF Cardinality(usable) > MaxDocs THEN {Refused("too many")}
            ELSE IF ~cfg.templates THEN {Unclassified(Door, mail, usable)}
            ELSE IF KeptOf(mail) = {} THEN {Refused("attachments")}
            ELSE {Resolved(Door, p, CountedAs(mail), Kept(mail)) : p \in Allowed(mail, CountedAs(mail))}
  BY <1>1, <1>2 DEF Allowed
<1> QED
  BY <1>3 DEF usable

\* The new documents of a mail are those that are usable, the known ones those that are kept.
LEMMA NewOnes ==
  ASSUME mail \in Messages
  PROVE  /\ {d \in Range(mail.docs) : d.fit /\ d \notin before} = {mail.docs[i] : i \in Usable(mail, before)}
         /\ {d \in {e \in Range(mail.docs) : e.fit /\ e \notin before} : Classify(d) # None} = Kept(mail)
<1>1. Range(mail.docs) = {mail.docs[i] : i \in DOMAIN mail.docs}
  BY DEF Range
<1>2. {d \in Range(mail.docs) : d.fit /\ d \notin before} = {mail.docs[i] : i \in Usable(mail, before)}
  BY <1>1 DEF Usable
<1>3. Kept(mail) = {d \in {mail.docs[i] : i \in Usable(mail, before)} : Classify(d) # None}
  BY DEF Kept, KeptOf
<1> QED
  BY <1>2, <1>3

\* A mail is refused for want of documents, of a product or of types only if it lacks them.
LEMMA RefusedLacks ==
  ASSUME mail \in Messages, loaded.catalog \in Catalogs, MaxDocs \in Nat,
         NEW v, v \in OnDocuments(Door, mail, before), ~v.ok
  PROVE  Lacking
<1> DEFINE may == IF Door.product # "auto" THEN {Door.product}
                  ELSE IF Named # None THEN {Named} ELSE DOMAIN DocSets
           done == {p \in may : Missing(p, TypesOf(Kept(mail))) = {}}
<1>1. \/ Usable(mail, before) = {} \/ Len(mail.docs) > MaxDocs \/ ~Apart
      \/ cfg.templates /\ Kept(mail) = {}
      \/ cfg.templates /\ cfg.sets /\ done = {}
      \/ cfg.templates /\ \E p, q \in done : p # q /\ Cardinality(DocSets[p]) = Cardinality(DocSets[q])
      => Lacking
  <2>1. Usable(mail, before) = {} => {d \in Range(mail.docs) : d.fit /\ d \notin before} = {}
    BY NewOnes
  <2>2. Kept(mail) = {d \in {e \in Range(mail.docs) : e.fit /\ e \notin before} : Classify(d) # None}
    BY NewOnes
  <2> QED
    BY <2>1, <2>2, Zenon DEF Lacking
<1> HIDE DEF done
<1>2. CASE Usable(mail, before) = {}
  BY <1>1, <1>2
<1>3. CASE Cardinality(Usable(mail, before)) > MaxDocs
  <2>1. Len(mail.docs) > MaxDocs
    <3>1. Cardinality(Usable(mail, before)) \in Nat
      BY Numbered, FS_CardinalityType
    <3> QED
      BY <1>3, <3>1, Numbered
  <2> QED
    BY <1>1, <2>1
<1>4. CASE v = Unclassified(Door, mail, Usable(mail, before))
  BY <1>4 DEF Unclassified, Accepted
<1>5. CASE cfg.templates /\ KeptOf(mail) = {}
  <2>1. Kept(mail) = {}
    BY <1>5 DEF Kept
  <2> QED
    BY <1>1, <1>5, <2>1
<1>6. ASSUME cfg.templates, NEW p \in Allowed(mail, CountedAs(mail)), v = Resolved(Door, p, CountedAs(mail), Kept(mail))
      PROVE  Lacking
  <2>1. CASE ~Apart
    BY <1>1, <2>1
  <2>2. CASE Apart
    <3>1. CountedAs(mail) = TypesOf(Kept(mail))
      BY <2>2, Counts
    <3> DEFINE types == TypesOf(Kept(mail))
    <3>2. p \in Allowed(mail, types) /\ v = Resolved(Door, p, types, Kept(mail))
      BY <1>6, <3>1
    <3> HIDE DEF types
    <3>3. \/ p = None /\ Door.product = "auto"
          \/ cfg.sets /\ Missing(p, types) # {} /\ (p # None \/ Door.product # "auto")
      BY <3>2 DEF Resolved, Accepted
    <3>4. CASE Door.product # "auto"
      <4>1. p = Door.product
        BY <3>2, <3>4 DEF Allowed
      <4>2. done = {}
        BY <3>3, <3>4, <4>1 DEF done, types
      <4> QED
        BY <1>1, <1>6, <3>3, <3>4, <4>2
    <3>5. CASE Door.product = "auto"
      <4>1. p \in Detected(mail.subject, types) /\ Named = FromSubject(mail.subject, DOMAIN DocSets)
        BY <3>2, <3>5 DEF Allowed, Named
      <4>2. CASE Named # None
        <5>1. p = Named
          BY <4>1, <4>2, ProductFound
        <5>2. done = {}
          BY <3>3, <3>5, <4>2, <5>1 DEF done, types
        <5> QED
          BY <1>1, <1>6, <3>3, <3>5, <4>2, <5>1, <5>2
      <4>3. CASE Named = None
        <5>1. done = {q \in DOMAIN DocSets : Missing(q, types) = {}}
          BY <3>5, <4>3 DEF done, types
        <5>2. CASE p = None
          <6>1. PICK a, b \in DOMAIN DocSets :
                  /\ a # b /\ Missing(a, types) = {} /\ Missing(b, types) = {}
                  /\ Cardinality(DocSets[a]) = Cardinality(DocSets[b])
            BY <4>1, <4>3, <5>2, ProductFound
          <6>2. a \in done /\ b \in done
            BY <5>1, <6>1
          <6> QED
            BY <1>1, <1>6, <6>1, <6>2
        <5>3. CASE p # None
          <6>1. cfg.sets /\ Missing(p, types) # {}
            BY <3>3, <5>3
          <6>2. \A q \in DOMAIN DocSets : Missing(q, types) # {}
            BY <4>1, <4>3, <5>3, <6>1, ProductFound
          <6>3. done = {}
            BY <5>1, <6>2
          <6> QED
            BY <1>1, <1>6, <6>1, <6>3
        <5> QED
          BY <5>2, <5>3
      <4> QED
        BY <4>2, <4>3
    <3> QED
      BY <3>4, <3>5
  <2> QED
    BY <2>1, <2>2
<1>7. CASE \E p \in Allowed(mail, CountedAs(mail)) : cfg.templates /\ v = Resolved(Door, p, CountedAs(mail), Kept(mail))
  BY <1>6, <1>7
<1> QED
  BY <1>2, <1>3, <1>4, <1>5, <1>7, OnKept

\* A mail is accepted only if it may be.
LEMMA AcceptedIsSound ==
  ASSUME mail \in Messages, loaded.catalog \in Catalogs, Doors # {}, Authentic(mail),
         verdict \in OnDocuments(Door, mail, before), verdict.ok
  PROVE  Sound
<1>1. CASE Usable(mail, before) # {} /\ ~cfg.templates /\ verdict = Unclassified(Door, mail, Usable(mail, before))
  <2>1. verdict.client = Door.client /\ verdict.docs = {mail.docs[i] : i \in Usable(mail, before)}
    BY <1>1 DEF Unclassified, Accepted
  <2>2. verdict.docs # {} /\ verdict.docs \cap before = {}
    BY <1>1, <2>1 DEF Usable
  <2> QED
    BY <1>1, <2>1, <2>2 DEF Sound
<1>2. ASSUME cfg.templates, KeptOf(mail) # {}, NEW p \in Allowed(mail, CountedAs(mail)),
             verdict = Resolved(Door, p, CountedAs(mail), Kept(mail))
      PROVE  Sound
  <2> DEFINE types == CountedAs(mail)
  <2>1. /\ verdict = Accepted(Door, p, Kept(mail)) /\ (cfg.sets => Missing(p, types) = {})
        /\ (p # None \/ Door.product # "auto")
    BY <1>2 DEF Resolved, Refused
  <2>2. verdict.client = Door.client /\ verdict.docs = Kept(mail) /\ verdict.product = p
    BY <2>1 DEF Accepted
  <2>3. verdict.docs # {} /\ verdict.docs \cap before = {} /\ None \notin TypesOf(verdict.docs)
    BY <1>2, <2>2 DEF Kept, KeptOf, Usable, TypesOf
  <2>4. cfg.sets => Missing(p, TypesOf(verdict.docs)) = {}
    BY <2>1, <2>2, Counts DEF Missing
  <2>5. Door.product # "auto" => p = Door.product
    BY <1>2 DEF Allowed
  <2>6. ASSUME Door.product = "auto"
        PROVE  /\ Named # None => p = Named
               /\ Named = None /\ cfg.sets /\ Apart =>
                    \A q \in DOMAIN DocSets \ {p} :
                      Missing(q, TypesOf(verdict.docs)) = {} => Cardinality(DocSets[q]) < Cardinality(DocSets[p])
    <3>1. p \in Detected(mail.subject, types) /\ Named = FromSubject(mail.subject, DOMAIN DocSets) /\ p # None
      BY <1>2, <2>1, <2>6 DEF Allowed, Named
    <3>2. Apart => types = TypesOf(verdict.docs)
      BY <2>2, Counts
    <3> HIDE DEF types
    <3>3. Named # None => p = Named
      BY <3>1, ProductFound
    <3>4. ASSUME Named = None, cfg.sets, Apart,
                 NEW q \in DOMAIN DocSets \ {p}, Missing(q, TypesOf(verdict.docs)) = {}
          PROVE  Cardinality(DocSets[q]) < Cardinality(DocSets[p])
      <4>1. Missing(p, types) = {} /\ Missing(q, types) = {}
        BY <2>1, <3>2, <3>4
      <4> QED
        BY <3>1, <3>4, <4>1, ProductFound
    <3> QED
      BY <3>3, <3>4
  <2> QED
    BY <1>2, <2>2, <2>3, <2>4, <2>5, <2>6 DEF Sound
<1>3. CASE \E p \in Allowed(mail, CountedAs(mail)) :
             cfg.templates /\ KeptOf(mail) # {} /\ verdict = Resolved(Door, p, CountedAs(mail), Kept(mail))
  BY <1>2, <1>3
<1>4. verdict # Refused("attachments") /\ verdict # Refused("too many")
  <2>1. ~Refused("attachments").ok /\ ~Refused("too many").ok
    BY DEF Refused
  <2> QED
    BY <2>1, Zenon
<1> QED
  BY <1>1, <1>3, <1>4, OnKept

\* What a verdict says of the mail it is on.
Judged == IF verdict.ok THEN Sound ELSE Doors = {} \/ ~Authentic(mail) \/ Lacking

\* Every verdict that validate_message returns is right.
LEMMA VerdictJudges ==
  ASSUME mail \in Messages, loaded.catalog \in Catalogs, verdict \in Verdicts(mail, before)
  PROVE  Judged
<1>1. CASE Doors = {}
  <2>1. verdict = Refused("sender")
    BY <1>1, FirstDoor DEF Verdicts
  <2>2. ~verdict.ok
    BY <2>1 DEF Refused
  <2> QED
    BY <1>1, <2>2 DEF Judged
<1>2. CASE Doors # {} /\ ~Authentic(mail)
  <2>1. verdict = Refused("authenticity")
    BY <1>2, FirstDoor DEF Verdicts
  <2>2. ~verdict.ok
    BY <2>1 DEF Refused
  <2> QED
    BY <1>2, <2>2 DEF Judged
<1>3. CASE Doors # {} /\ Authentic(mail)
  <2>1. verdict \in OnDocuments(Door, mail, before)
    <3>1. RouteFor(cfg, mail.from, mail.box) = {Door}
      BY <1>3, FirstDoor
    <3> QED
      BY <1>3, <3>1 DEF Verdicts
  <2>2. CASE verdict.ok
    BY <1>3, <2>1, <2>2, AcceptedIsSound DEF Judged
  <2>3. CASE ~verdict.ok
    BY <2>1, <2>3, RefusedLacks, RulesAssumption DEF Judged
  <2> QED
    BY <2>2, <2>3
<1> QED
  BY <1>1, <1>2, <1>3

\* Of settings that may be saved, a mailbox that a route names is polled.
LEMMA RoutesPolled ==
  ASSUME NEW s \in Settings, Savable(s), WellFormed(DefaultBox(s)), NEW i \in DOMAIN s.routes
  PROVE  s.routes[i].box \in Polled(s)
<1>1. s.boxes \in Seq(Range(s.boxes))
  BY RulesAssumption
<1>2. AllBoxes(s) = <<DefaultBox(s)>> \o s.boxes
  BY DEF AllBoxes
<1>3. /\ 1 \in DOMAIN AllBoxes(s) /\ AllBoxes(s)[1] = DefaultBox(s)
      /\ \A j \in DOMAIN s.boxes : j + 1 \in DOMAIN AllBoxes(s) /\ AllBoxes(s)[j + 1] = s.boxes[j]
  <2> DEFINE box == DefaultBox(s)
             R == Range(s.boxes) \cup {box}
  <2>1. <<box>> \in Seq(R) /\ s.boxes \in Seq(R) /\ Len(<<box>>) = 1 /\ <<box>>[1] = box
    BY <1>1
  <2> HIDE DEF R, box
  <2>2. /\ Len(<<box>> \o s.boxes) = 1 + Len(s.boxes) /\ <<box>> \o s.boxes \in Seq(R)
        /\ (<<box>> \o s.boxes)[1] = box
        /\ \A j \in 1 .. Len(s.boxes) : (<<box>> \o s.boxes)[j + 1] = s.boxes[j]
        /\ DOMAIN s.boxes = 1 .. Len(s.boxes) /\ Len(s.boxes) \in Nat
    BY <2>1
  <2> QED
    BY <1>2, <2>2 DEF box
<1>4. s.routes[i].box \in {Default} \cup {s.boxes[j].id : j \in DOMAIN s.boxes}
  BY DEF Savable, Loads, BindingsHold
<1>5. \E k \in DOMAIN AllBoxes(s) : AllBoxes(s)[k].id = s.routes[i].box
  <2>1. CASE s.routes[i].box = Default
    BY <1>3, <2>1 DEF DefaultBox
  <2>2. CASE \E j \in DOMAIN s.boxes : s.boxes[j].id = s.routes[i].box
    BY <1>3, <2>2
  <2> QED
    BY <1>4, <2>1, <2>2
<1>6. i \in Bound(s, s.routes[i].box)
  BY DEF Bound
<1> QED
  BY <1>5, <1>6 DEF Polled

\* The connector works by files that may be saved, and shows the verdict that it returned for
\* the mail, with the documents that had been taken before.
VerdictInv ==
  /\ FilesHold(saved) /\ FilesHold(loaded)
  /\ mail # None => mail \in Messages /\ verdict \in Verdicts(mail, before)

\* What a mail is judged to be changes only with what the connector has loaded.
LEMMA SameVerdicts ==
  ASSUME loaded' = loaded, NEW m, NEW d
  PROVE  Verdicts(m, d)' = Verdicts(m, d)
<1>1. cfg' = cfg /\ Templates' = Templates /\ DocSets' = DocSets
  BY DEF cfg, Templates, DocSets
<1>2. \A doc : Classify(doc)' = Classify(doc)
  BY <1>1 DEF Classify
<1>3. \A p, t : Missing(p, t)' = Missing(p, t)
  BY <1>1 DEF Missing
<1>4. \A s, t : Detected(s, t)' = Detected(s, t)
  BY <1>1, <1>3, Zenon DEF Detected
<1>5. Authentic(m)' = Authentic(m)
  BY <1>1 DEF Authentic
<1>6. \A u, i : TypeOf(m, u, i)' = TypeOf(m, u, i)
  BY <1>2 DEF TypeOf
<1>7. \A r, p, t, x : Resolved(r, p, t, x)' = Resolved(r, p, t, x)
  BY <1>1, <1>3 DEF Resolved
<1>8. \A r : OnDocuments(r, m, d)' = OnDocuments(r, m, d)
  <2> SUFFICES ASSUME NEW r PROVE OnDocuments(r, m, d)' = OnDocuments(r, m, d)
    OBVIOUS
  <2>1. {i \in Usable(m, d) : Classify(m.docs[i])' # None} = {i \in Usable(m, d) : Classify(m.docs[i]) # None}
    BY <1>2
  <2>2. PICK kept : kept = {i \in Usable(m, d) : Classify(m.docs[i]) # None}
    OBVIOUS
  <2>3. {TypeOf(m, Usable(m, d), i)' : i \in kept} = {TypeOf(m, Usable(m, d), i) : i \in kept}
    BY <1>6
  <2>4. PICK types : types = {TypeOf(m, Usable(m, d), i) : i \in kept} \ {None}
    OBVIOUS
  <2>5. PICK may : may = IF r.product # "auto" THEN {r.product} ELSE Detected(m.subject, types)
    OBVIOUS
  <2>6. may = IF r.product # "auto" THEN {r.product} ELSE Detected(m.subject, types)'
    BY <1>4, <2>5
  <2>7. PICK docs : docs = {m.docs[i] : i \in kept}
    OBVIOUS
  <2>8. {Resolved(r, p, types, docs)' : p \in may} = {Resolved(r, p, types, docs) : p \in may}
    BY <1>7
  <2>9. OnDocuments(r, m, d) =
          IF Usable(m, d) = {} THEN {Refused("attachments")}
          ELSE IF Cardinality(Usable(m, d)) > MaxDocs THEN {Refused("too many")}
          ELSE IF ~cfg.templates THEN {Unclassified(r, m, Usable(m, d))}
          ELSE IF kept = {} THEN {Refused("attachments")}
          ELSE {Resolved(r, p, types, docs) : p \in may}
    BY <2>2, <2>4, <2>5, <2>7, Zenon DEF OnDocuments
  <2>10. OnDocuments(r, m, d)' =
          IF Usable(m, d) = {} THEN {Refused("attachments")}
          ELSE IF Cardinality(Usable(m, d)) > MaxDocs THEN {Refused("too many")}
          ELSE IF ~cfg'.templates THEN {Unclassified(r, m, Usable(m, d))}
          ELSE IF kept = {} THEN {Refused("attachments")}
          ELSE {Resolved(r, p, types, docs)' : p \in may}
    BY <2>1, <2>2, <2>3, <2>4, <2>6, <2>7, Zenon DEF OnDocuments
  <2> QED
    BY <1>1, <2>8, <2>9, <2>10, Zenon
<1> QED
  BY <1>1, <1>5, <1>8 DEF Verdicts

\* Every step keeps the verdict that is shown.
LEMMA VerdictStep == VerdictInv /\ [RulesNext]_rvars => VerdictInv'
<1> SUFFICES ASSUME VerdictInv, [RulesNext]_rvars PROVE VerdictInv'
  OBVIOUS
<1>1. CASE Judge
  <2>1. PICK m \in Messages : mail' = m /\ \E v \in Verdicts(m, taken) : verdict' = v
    BY <1>1 DEF Judge
  <2>2. PICK d : d = taken
    OBVIOUS
  <2>3. before' = d /\ saved' = saved /\ loaded' = loaded /\ verdict' \in Verdicts(m, d)
    BY <1>1, <2>1, <2>2 DEF Judge
  <2>4. Verdicts(m, d)' = Verdicts(m, d)
    BY <2>3, SameVerdicts
  <2>5. (Verdicts(mail, before))' = Verdicts(m, d)'
    BY <2>1, <2>3
  <2> QED
    BY <2>1, <2>3, <2>4, <2>5 DEF VerdictInv
<1>2. CASE PutSettings \/ PutTemplates
  <2>1. /\ FilesHold(saved)' /\ UNCHANGED <<loaded, mail, verdict, before>>
    BY <1>2 DEF PutSettings, PutTemplates, Put, FilesHold, VerdictInv
  <2>2. Verdicts(mail, before)' = Verdicts(mail, before)
    BY <2>1, SameVerdicts
  <2> QED
    BY <2>1, <2>2 DEF VerdictInv
<1>3. CASE Reload
  BY <1>3 DEF Reload, Unjudged, VerdictInv
<1>4. CASE UNCHANGED rvars
  <2>1. UNCHANGED <<saved, loaded, mail, verdict, before>>
    BY <1>4 DEF rvars
  <2>2. Verdicts(mail, before)' = Verdicts(mail, before)
    BY <2>1, SameVerdicts
  <2> QED
    BY <2>1, <2>2 DEF VerdictInv
<1> QED
  BY <1>1, <1>2, <1>3, <1>4 DEF RulesNext

\* For any settings, templates, routes, product hints and mails, and whatever was judged and
\* saved before: a mail is accepted only if it may be and refused only if it lacks something,
\* by the settings and templates the connector was started with, and the mailboxes its routes
\* name are polled.
THEOREM VerdictsAreRight == RulesSpec => []VerdictIsRight
<1>1. RulesInit => VerdictInv
  BY DEF RulesInit, VerdictInv, FilesHold
<1>2. VerdictInv => VerdictIsRight
  <2> SUFFICES ASSUME VerdictInv PROVE VerdictIsRight
    OBVIOUS
  <2>1. mail # None => Judged
    BY VerdictJudges DEF VerdictInv, FilesHold
  <2>2. WellFormed(DefaultBox(cfg)) => \A i \in DOMAIN cfg.routes : cfg.routes[i].box \in Polled(cfg)
    BY RoutesPolled DEF VerdictInv, FilesHold, cfg
  <2> QED
    BY <2>1, <2>2, Zenon DEF VerdictIsRight, Judged
<1> QED
  BY <1>1, <1>2, VerdictStep, PTL DEF RulesSpec
=============================================================================
