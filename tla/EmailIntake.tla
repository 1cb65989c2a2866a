---------------------------- MODULE EmailIntake ----------------------------
(***************************************************************************)
(* From a mailbox to a processing job: the connector of email_ingest.py    *)
(* (EmailIngestor), which may crash between any two of its writes and      *)
(* starts again from its files, the pending store, and the reviewers'      *)
(* routes of email_review.py, which run beside each other in a thread pool *)
(* of another process.                                                     *)
(*                                                                         *)
(* A mail holds documents, named by their hash; the same document may come *)
(* in several mails, and one mail in several mailboxes.  Documents that no *)
(* verdict accepts are left out; of the others a verdict accepts all that  *)
(* were not seen before, or refuses the mail, which is DocumentRules'      *)
(* subject.                                                                *)
(***************************************************************************)
EXTENDS Integers, Sequences, FiniteSets, Functions

CONSTANTS Mails, Boxes, Reviewers, NoMail,
          Arriving,    \* the mails that arrive in each mailbox
          DocsOf,      \* the documents of each mail
          NameOf,      \* the file name of each document
          NoId,        \* mails without a Message-ID
          MaxFaults,   \* bound: faults of the connector, lost answers of an API, refused copies
          MaxJobs      \* bound: jobs started from the pending store

ASSUME IntakeAssumption ==
  /\ Arriving \in [Boxes -> SUBSET Mails] /\ NoMail \notin Mails
  /\ NoId \subseteq Mails
  /\ \A m \in Mails : DocsOf[m] \subseteq DOMAIN NameOf
  /\ MaxFaults \in Nat /\ MaxJobs \in Nat

VARIABLES
  review,             \* review_mode of the configuration
  folder,             \* the mails in the folder of each mailbox
  filed,              \* the copies under a mailbox's labels: <<mailbox, mail, label>>
  seen, seenFile,     \* hashes taken: in memory, in seen_hashes.json
  handled, handledFile, \* <<mailbox, mail>> done: in memory, in handled_message_ids.json
  at,                 \* the connector's place: step, mailbox, mail, documents accepted, label
  intakes,            \* the manifests of the pending store
  batches,            \* documents submitted to the ingest API, one set per batch
  audit,              \* the events of email_audit.jsonl that name a mail
  jobs,               \* the intake of each job of the engine
  rev,                \* each reviewer's request: step, intake, kind, job, and the manifest it read
  faults,
  \* history, not part of the program
  late,               \* jobs that were started although the reviewer saw an error
  raced,              \* intakes that two requests worked on at once
  uncopied, unmoved   \* as filed: copies the server answered NO to, copies of mails that stayed

mailbox == <<folder, filed, uncopied, unmoved>>
connector == <<mailbox, seen, seenFile, handled, handledFile, at, batches, audit>>
reviewers == <<jobs, rev, raced>>
vars == <<review, connector, intakes, reviewers, faults, late>>

Labels == {"processed", "rejected"}
MayFail == faults + Cardinality(uncopied) + Cardinality(unmoved) < MaxFaults
Fault == MayFail /\ faults' = faults + 1
Rest == [step |-> "idle", box |-> NoMail, mail |-> NoMail, docs |-> {}, label |-> "none"]
NoRun == [status |-> "none", job |-> 0, runs |-> {}]
Away == [step |-> "idle", intake |-> 0, kind |-> "none", job |-> 0, read |-> NoRun]
Taken == UNION ({i.docs : i \in Range(intakes)} \cup Range(batches))

Init ==
  /\ review \in BOOLEAN
  /\ folder = Arriving /\ filed = {} /\ uncopied = {} /\ unmoved = {}
  /\ seen = {} /\ seenFile = {} /\ handled = {} /\ handledFile = {}
  /\ at = Rest /\ intakes = <<>> /\ batches = <<>> /\ audit = {}
  /\ jobs = <<>> /\ rev = [r \in Reviewers |-> Away]
  /\ faults = 0 /\ late = {} /\ raced = {}

-----------------------------------------------------------------------------
(* The connector *)

To(step) == at' = [at EXCEPT !.step = step]
Note(event) == audit' = audit \cup {[event |-> event, box |-> at.box, mail |-> at.mail, docs |-> at.docs]}

\* Mutant: an accepted document is not looked up among those seen.
NewUnseen(m) == DocsOf[m]

\* The documents of a mail that are new to the connector.
New(m) == DocsOf[m] \ seen

\* _poll_mailbox fetches a mail that is not handled yet; handle_message validates it
\* against the hashes in memory and records the verdict.
Fetch(b, m) ==
  /\ at.step = "idle" /\ m \in folder[b] /\ <<b, m>> \notin handled
  /\ \E docs \in {{}, New(m)} :
       LET ok == docs # {}
       IN /\ at' = [step |-> IF ok THEN "accepted" ELSE "answered", box |-> b, mail |-> m,
                    docs |-> docs, label |-> IF ok THEN "processed" ELSE "rejected"]
          /\ audit' = audit \cup {[event |-> IF ok THEN "accepted" ELSE "rejected",
                                   box |-> b, mail |-> m, docs |-> docs]}
  /\ UNCHANGED <<review, mailbox, seen, seenFile, handled, handledFile, batches, intakes,
                 reviewers, faults, late>>

\* park writes the documents by their file names: of those with the same name, the last
\* attachment's stays.
Stored(docs) ==
  {kept \in SUBSET docs : \A d \in docs : Cardinality({k \in kept : NameOf[k] = NameOf[d]}) = 1}

\* PendingStore.park: the documents, then the manifest that makes the intake visible.
Park ==
  /\ at.step = "accepted" /\ review
  /\ \E kept \in Stored(at.docs) :
       intakes' = Append(intakes, [docs |-> kept, status |-> "pending", job |-> 0, runs |-> {}])
  /\ To("taken")
  /\ UNCHANGED <<review, mailbox, seen, seenFile, handled, handledFile, batches, audit,
                 reviewers, faults, late>>

\* The ingest API takes what submit_to_ingest posts as one batch.
Ingested == Append(batches, at.docs)

\* Without review the documents are submitted; on an error the mail is refused, although
\* the API may have taken them when its answer was lost.
Submit ==
  /\ at.step = "accepted" /\ ~review
  /\ \/ batches' = Ingested /\ To("taken") /\ UNCHANGED <<audit, faults>>
     \/ /\ Fault
        /\ batches' \in {batches, Ingested}
        /\ Note("submit_failed") /\ at' = [at EXCEPT !.step = "answered", !.label = "rejected"]
  /\ UNCHANGED <<review, mailbox, seen, seenFile, handled, handledFile, intakes, reviewers,
                 late>>

\* The hashes are remembered, in memory and in the file.
SaveSeen ==
  /\ at.step = "taken"
  /\ seen' = seen \cup at.docs /\ seenFile' = seen'
  /\ To("seen")
  /\ UNCHANGED <<review, mailbox, handled, handledFile, batches, audit, intakes, reviewers,
                 faults, late>>

\* email_pending_review or batch_submitted is recorded and handle_message returns.
SealTaken ==
  /\ at.step = "seen"
  /\ Note("taken") /\ To("answered")
  /\ UNCHANGED <<review, mailbox, seen, seenFile, handled, handledFile, batches, intakes,
                 reviewers, faults, late>>

\* The Message-ID, if the mail has one, is remembered as handled.
MarkHandled ==
  /\ at.step = "answered"
  /\ handled' = IF at.mail \in NoId THEN handled ELSE handled \cup {<<at.box, at.mail>>}
  /\ handledFile' = IF at.mail \in NoId THEN handledFile ELSE handled'
  /\ To("handled")
  /\ UNCHANGED <<review, mailbox, seen, seenFile, batches, audit, intakes, reviewers,
                 faults, late>>

\* Mutant: after an error of the copy too the mail is flagged deleted.
MoveAnyway ==
  /\ at.step = "handled"
  /\ LET copy == <<at.box, at.mail, at.label>>
         copied == filed' = filed \cup {copy}
         removed == folder' = [folder EXCEPT ![at.box] = @ \ {at.mail}]
     IN \/ copied /\ removed /\ UNCHANGED <<uncopied, unmoved>>
        \/ MayFail /\ uncopied' = uncopied \cup {copy} /\ removed /\ UNCHANGED <<filed, unmoved>>
        \/ MayFail /\ unmoved' = unmoved \cup {copy} /\ copied /\ UNCHANGED <<folder, uncopied>>
        \/ removed /\ UNCHANGED <<filed, uncopied, unmoved>>
  /\ at' = Rest
  /\ UNCHANGED <<review, seen, seenFile, handled, handledFile, batches, audit, intakes, reviewers,
                 faults, late>>

\* _move copies the mail to the label of its outcome and flags it deleted, even when the
\* server answered NO to the copy, which imaplib does not raise; and what is flagged is
\* expunged.  On an error the mail stays in the folder, copied or not.
Move ==
  /\ at.step = "handled"
  /\ LET copy == <<at.box, at.mail, at.label>>
         copied == filed' = filed \cup {copy}
         removed == folder' = [folder EXCEPT ![at.box] = @ \ {at.mail}]
     IN \/ copied /\ removed /\ UNCHANGED <<uncopied, unmoved>>
        \/ MayFail /\ uncopied' = uncopied \cup {copy} /\ removed /\ UNCHANGED <<filed, unmoved>>
        \/ MayFail /\ unmoved' = unmoved \cup {copy} /\ copied /\ UNCHANGED <<folder, uncopied>>
        \/ UNCHANGED mailbox
  /\ at' = Rest
  /\ UNCHANGED <<review, seen, seenFile, handled, handledFile, batches, audit, intakes, reviewers,
                 faults, late>>

\* An error of the mailbox or of a file ends a mailbox's cycle anywhere, and poll_once goes on
\* with the next: what was about to be saved is then in memory only.
PollFails ==
  /\ at.step # "idle" /\ (at.step = "accepted" => review) /\ Fault
  /\ at' = Rest
  /\ seen' = IF at.step = "taken" THEN seen \cup at.docs ELSE seen
  /\ handled' \in {handled, IF at.step = "answered" /\ at.mail \notin NoId
                           THEN handled \cup {<<at.box, at.mail>>} ELSE handled}
  /\ UNCHANGED <<review, mailbox, seenFile, handledFile, batches, audit, intakes, reviewers, late>>

\* The connector stops anywhere and starts again from its files.
Crash ==
  /\ Fault
  /\ at' = Rest /\ seen' = seenFile /\ handled' = handledFile
  /\ UNCHANGED <<review, mailbox, seenFile, handledFile, batches, audit, intakes, reviewers, late>>

-----------------------------------------------------------------------------
(* The reviewers *)

\* set_status reads the manifest again and changes fields of it.
SetStatus(r, manifest) == intakes' = [intakes EXCEPT ![rev[r].intake] = manifest]

\* Mutant: any status will do.
AnyStatus(i, kind) == kind # "none"

\* What process_intake and discard_intake require of the manifest they read.
Ready(i, kind) == intakes[i].status = IF kind = "rerun" THEN "processed" ELSE "pending"

\* A request reads the manifest and passes its checks.  Before a rerun it asks the engine
\* whether the run is over, and takes it to be when the engine does not answer; the engine's
\* progress is not modelled, so that this may pass at any time.
Check(r, i, kind) ==
  /\ rev[r].step = "idle" /\ i \in DOMAIN intakes /\ Ready(i, kind)
  /\ kind # "discard" => Len(jobs) < MaxJobs
  /\ rev' = [rev EXCEPT ![r] = [step |-> "checked", intake |-> i, kind |-> kind, job |-> 0,
                                read |-> [status |-> intakes[i].status, job |-> intakes[i].job,
                                          runs |-> intakes[i].runs]]]
  /\ raced' = IF \E o \in Reviewers : rev[o].step # "idle" /\ rev[o].intake = i
              THEN raced \cup {i} ELSE raced
  /\ UNCHANGED <<review, connector, intakes, jobs, faults, late>>

\* rerun: the run the request read is moved to "runs" and the intake is pending again.
Rerun(r) ==
  /\ rev[r].step = "checked" /\ rev[r].kind = "rerun"
  /\ LET runs == rev[r].read.runs \cup {rev[r].read.job}
     IN /\ SetStatus(r, [intakes[rev[r].intake] EXCEPT !.status = "pending", !.job = 0, !.runs = runs])
        /\ rev' = [rev EXCEPT ![r].kind = "process",
                              ![r].read = [status |-> "pending", job |-> 0, runs |-> runs]]
  /\ UNCHANGED <<review, connector, jobs, raced, faults, late>>

\* _run_via_engine: the engine starts a job, whose answer may be lost.
Starts(r) ==
  /\ Len(jobs) < MaxJobs
  /\ jobs' = Append(jobs, rev[r].intake)
  /\ \/ rev' = [rev EXCEPT ![r].step = "posted", ![r].job = Len(jobs')] /\ UNCHANGED <<late, faults>>
     \/ /\ Fault
        /\ rev' = [rev EXCEPT ![r] = Away] /\ late' = late \cup {Len(jobs')}

\* The Governor denies the release, or the engine or the queue refuses.
Refuses(r) == rev' = [rev EXCEPT ![r] = Away] /\ UNCHANGED <<jobs, late, faults>>

\* process_intake posts the intake to the loan engine or, as the settings say at that moment,
\* through the Governor to the ingest queue, whose batch is a job like the engine's; a lost
\* answer is reported like a refusal.
Post(r) ==
  /\ rev[r].step = "checked" /\ rev[r].kind = "process"
  /\ Starts(r) \/ Refuses(r)
  /\ UNCHANGED <<review, connector, intakes, raced>>

\* The job is written into the manifest.
Processed(r) ==
  /\ rev[r].step = "posted"
  /\ SetStatus(r, [intakes[rev[r].intake] EXCEPT !.status = "processed", !.job = rev[r].job])
  /\ rev' = [rev EXCEPT ![r] = Away]
  /\ UNCHANGED <<review, connector, jobs, raced, faults, late>>

Discard(r) ==
  /\ rev[r].step = "checked" /\ rev[r].kind = "discard"
  /\ SetStatus(r, [intakes[rev[r].intake] EXCEPT !.status = "discarded"])
  /\ rev' = [rev EXCEPT ![r] = Away]
  /\ UNCHANGED <<review, connector, jobs, raced, faults, late>>

Deliver == Park \/ Submit \/ SaveSeen \/ SealTaken \/ MarkHandled \/ Move

Next ==
  \/ \E b \in Boxes, m \in Mails : Fetch(b, m)
  \/ Deliver \/ PollFails \/ Crash
  \/ \E r \in Reviewers :
       \/ \E i \in DOMAIN intakes, kind \in {"process", "rerun", "discard"} : Check(r, i, kind)
       \/ Rerun(r) \/ Post(r) \/ Processed(r) \/ Discard(r)

Spec == Init /\ [][Next]_vars

-----------------------------------------------------------------------------
(* Properties *)

Copies(d) == Cardinality({i \in DOMAIN intakes : d \in intakes[i].docs})
             + Cardinality({i \in DOMAIN batches : d \in batches[i]})

\* A document is taken once, in whatever mails and mailboxes it comes ("doc-hash dedupe
\* stops a double submission"), and once more for each crash or lost answer at most.
TakenOnce == \A d \in UNION Range(DocsOf) : Copies(d) <= 1 + faults

\* The document was taken, or another one of the mail with its name.
Covered(d, docs) == \E k \in docs \cap Taken : NameOf[k] = NameOf[d]

\* What the record says of a mail under a label: that it was refused or its submission
\* failed, or which documents were accepted; and those are in the pending store or were
\* submitted, of each file name at least one.
Told(b, m, label) ==
  \E e \in audit :
    /\ e.box = b /\ e.mail = m
    /\ e.event \in IF label = "processed" THEN {"taken"} ELSE {"rejected", "submit_failed"}
    /\ e.event = "taken" => \A d \in e.docs : Covered(d, e.docs)

\* No mail is dropped ("never lose mail"): a mail that left its folder is under a label,
\* unless the server refused the copy; the record tells what the label does, of such a mail
\* as of one that counts as handled; and likewise of the hashes that count as seen.  Across
\* crashes at any point.
NoMailDropped ==
  /\ \A d \in seenFile : \E e \in audit : d \in e.docs /\ Covered(d, e.docs)
  /\ \A b \in Boxes : \A m \in Arriving[b] :
       /\ m \notin folder[b] =>
            \E label \in Labels : <<b, m, label>> \in filed \cup uncopied /\ Told(b, m, label)
       /\ <<b, m>> \in handledFile => \E label \in Labels : Told(b, m, label)

\* Every job of the engine is on record: the manifest names it as the current run or a
\* previous one, or its request is still under way; and a discarded intake has no current
\* run.  Except where an answer was lost, or two
\* requests worked on the intake at once.
JobsAreOnRecord ==
  \A j \in DOMAIN jobs : LET i == intakes[jobs[j]] IN
    \/ j \in late \/ jobs[j] \in raced
    \/ \E r \in Reviewers : rev[r].job = j
    \/ /\ j \in {i.job} \cup i.runs
       /\ i.status = "discarded" => j # i.job

=============================================================================
