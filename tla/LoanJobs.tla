----------------------------- MODULE LoanJobs ------------------------------
(***************************************************************************)
(* Document jobs: the thread of each job in loan_processing.py, the routes *)
(* of server.py (/loan/...), and one processing box of the browser tab     *)
(* (loanJobStore.js), which may be reloaded or lose its connection.        *)
(*                                                                         *)
(* A job puts its events on one queue, which every stream of the job       *)
(* empties: an event reaches one stream.  The stream of a tab that is gone *)
(* lives on until a write fails, and takes events until then.              *)
(***************************************************************************)
EXTENDS Integers, Sequences, FiniteSets

CONSTANTS Docs,        \* documents of a job
          Retained,    \* MAX_RETAINED_JOBS
          Mode,        \* bound: the modes of the jobs, in the order they start
          MaxTurns     \* bound: reloads, broken connections and cancellations, together

ASSUME LoanAssumption ==
  /\ {Docs, Retained, MaxTurns} \subseteq Nat
  /\ Mode \in Seq({"deterministic", "ai_first"})

MaxJobs == Len(Mode)

VARIABLES
  jobs,      \* of each job: mode, step of its thread, status, documents done, of them
             \* reconciled (or read), exceptions resolved, agents alive, cancelled, report, queue
  known,     \* the jobs in _jobs
  box,       \* job, status and progress the box shows; of it localStorage keeps the job
             \* and the status as long as that is active
  src,       \* the job whose stream the tab has open, 0 for none
  dead,      \* per job: streams whose tab is gone but which still read the queue
  net,       \* the tab's request or its answer: kind, job, status, done
  activity,  \* the activity ledger: <<job, what>> in order
  turns,
  \* history, not part of the program
  late,      \* per job: calls to the model begun after it was cancelled
  blind,     \* jobs of whose end the tab has no way left to hear
  gaveUp     \* jobs the tab gave up because the server did not know them

server == <<jobs, known, late>>
tab == <<box, src, net, gaveUp>>
vars == <<server, tab, dead, activity, turns, blind>>

Ended == {"completed", "failed", "cancelled"}
Active == {"starting", "running"}
NoNet == [kind |-> "none", job |-> 0, status |-> "", done |-> 0]
NoReport == [processed |-> 0, failed |-> 0, clean |-> 0, escalated |-> 0]
Event(type, status, done) == [type |-> type, status |-> status, done |-> done]

Init ==
  /\ jobs = <<>> /\ known = {}
  /\ box = [job |-> 0, status |-> "idle", done |-> 0] /\ src = 0 /\ net = NoNet
  /\ dead = [j \in 1..MaxJobs |-> 0] /\ activity = <<>> /\ turns = 0
  /\ late = [j \in 1..MaxJobs |-> 0] /\ blind = {} /\ gaveUp = {}

-----------------------------------------------------------------------------
(* The thread of a job *)

Put(j, new, e) == jobs' = [jobs EXCEPT ![j] = [new EXCEPT !.q = Append(@, e)]]
ThreadOnly == UNCHANGED <<known, tab, dead, activity, turns, blind>>
Alone == UNCHANGED late /\ ThreadOnly

\* _finish sets the status, and puts the events of the end only after it rewrote
\* summary.json (see End).
Finish(j, status) == jobs' = [jobs EXCEPT ![j].step = "ending", ![j].status = status]

\* AgentTeam: the processor joins; the planner is there for its one call only.
Hire(j, step) == jobs' = [jobs EXCEPT ![j].step = step, ![j].alive = {"processor"}]
Dismiss(j, step) == jobs' = [jobs EXCEPT ![j].step = step, ![j].alive = {}]

\* A call to the model.
Calls(j) == late' = IF jobs[j].cancelled THEN [late EXCEPT ![j] = @ + 1] ELSE late

Begin(j) ==
  /\ jobs[j].step = "queued"
  /\ Put(j, [jobs[j] EXCEPT !.status = "running",
                            !.step = IF jobs[j].mode = "ai_first" THEN "plan" ELSE "docs"],
         Event("started", "running", 0))
  /\ Alone

To(j, step) == jobs' = [jobs EXCEPT ![j].step = step]
Escalated(j) == jobs[j].done - jobs[j].read

\* doc_completed: one more document is done, well or not.
DocumentDone(j, good, step) ==
  Put(j, [jobs[j] EXCEPT !.done = @ + 1, !.read = IF good THEN @ + 1 ELSE @, !.step = step],
      Event("doc", "running", jobs[j].done + 1))

(* Parse first: code reads the documents, the model gets those that did not reconcile. *)

\* The next document is parsed and reconciled, or escalated.
Parse(j) ==
  /\ jobs[j].mode = "deterministic" /\ jobs[j].step = "docs"
  /\ jobs[j].done < Docs /\ ~jobs[j].cancelled
  /\ \E good \in BOOLEAN : DocumentDone(j, good, "docs")
  /\ Alone

\* The facts are written down.
FactsReady(j) ==
  /\ jobs[j].mode = "deterministic" /\ jobs[j].step = "docs"
  /\ jobs[j].done = Docs /\ ~jobs[j].cancelled
  /\ To(j, "plan") /\ Alone

\* The planner's call, whose failure is not the job's; then the processor is spawned.
PlanFromFacts(j) ==
  /\ jobs[j].mode = "deterministic" /\ jobs[j].step = "plan"
  /\ Calls(j) /\ Hire(j, "exceptions") /\ ThreadOnly

\* Mutant: the loop over the exceptions does not look at the cancellation.
NextExceptionAnyway(j) ==
  /\ jobs[j].step = "exceptions" /\ jobs[j].resolved < Escalated(j)
  /\ To(j, "resolve") /\ Alone

NextException(j) ==
  /\ jobs[j].step = "exceptions" /\ jobs[j].resolved < Escalated(j) /\ ~jobs[j].cancelled
  /\ To(j, "resolve") /\ Alone

\* The processor's call on a document that was escalated.
Resolve(j) ==
  /\ jobs[j].step = "resolve"
  /\ Calls(j)
  /\ jobs' = [jobs EXCEPT ![j].step = "exceptions", ![j].resolved = @ + 1]
  /\ ThreadOnly

\* The decision from the facts, straight after the last exception: no look at the cancellation.
AssessFacts(j) ==
  /\ jobs[j].step = "exceptions" /\ jobs[j].resolved = Escalated(j)
  /\ Calls(j) /\ Dismiss(j, "report") /\ ThreadOnly

FactsReport(j) ==
  [processed |-> jobs[j].done, failed |-> 0, clean |-> jobs[j].read, escalated |-> Escalated(j)]

(* AI first: the model reads every document. *)

\* The planner's call; no processor is spawned for a job that is cancelled by then.
PlanFromNames(j) ==
  /\ jobs[j].mode = "ai_first" /\ jobs[j].step = "plan"
  /\ Calls(j) /\ IF jobs[j].cancelled THEN To(j, "docs") ELSE Hire(j, "docs")
  /\ ThreadOnly

\* The text of the next document, if there is one.
Read(j) ==
  /\ jobs[j].mode = "ai_first" /\ jobs[j].step = "docs"
  /\ jobs[j].done < Docs /\ ~jobs[j].cancelled
  /\ To(j, "ask") \/ DocumentDone(j, FALSE, "docs")
  /\ Alone

\* The processor's call on it, which may fail.
Ask(j) ==
  /\ jobs[j].step = "ask"
  /\ Calls(j)
  /\ \E good \in BOOLEAN : DocumentDone(j, good, "docs")
  /\ ThreadOnly

FindingsReady(j) ==
  /\ jobs[j].mode = "ai_first" /\ jobs[j].step = "docs"
  /\ jobs[j].done = Docs /\ ~jobs[j].cancelled
  /\ To(j, "assess") /\ Alone

\* The decision, none if no document could be read.
AssessFindings(j) ==
  /\ jobs[j].step = "assess"
  /\ IF jobs[j].read = 0 THEN UNCHANGED late ELSE Calls(j)
  /\ Dismiss(j, "report") /\ ThreadOnly

FindingsReport(j) ==
  [processed |-> jobs[j].read, failed |-> Escalated(j), clean |-> 0, escalated |-> jobs[j].done]

(* Both *)

\* Where the thread looks at the cancellation: before each document, after the last, before
\* each exception.
SeesCancel(j) ==
  /\ jobs[j].cancelled
  /\ \/ jobs[j].step = "docs"
     \/ jobs[j].step = "exceptions" /\ jobs[j].resolved < Escalated(j)
  /\ Finish(j, "cancelled") /\ Alone

\* The reports are written, and the job completes.
Report(j) ==
  /\ jobs[j].step = "report"
  /\ jobs' = [jobs EXCEPT ![j].step = "ending", ![j].status = "completed",
       ![j].report = IF jobs[j].mode = "ai_first" THEN FindingsReport(j) ELSE FactsReport(j)]
  /\ Alone

\* Anything _run_job catches: no key for the model, no role card, a report that fails.
Crash(j) ==
  /\ jobs[j].step \in {"docs", "plan", "exceptions", "assess", "report"}
  /\ Finish(j, "failed") /\ Alone

\* _finish puts the two last events; the thread tears down whoever is alive, of which a tab
\* hears nothing any more.
End(j) ==
  /\ jobs[j].step = "ending"
  /\ jobs' = [jobs EXCEPT ![j].step = "over", ![j].alive = {},
                          ![j].q = @ \o <<Event("ended", jobs[j].status, jobs[j].done),
                                          Event("stream_end", "", 0)>>]
  /\ Alone

Work(j) ==
  \/ Begin(j) \/ SeesCancel(j) \/ Report(j) \/ Crash(j) \/ End(j)
  \/ Parse(j) \/ FactsReady(j) \/ PlanFromFacts(j) \/ NextException(j) \/ Resolve(j) \/ AssessFacts(j)
  \/ PlanFromNames(j) \/ Read(j) \/ Ask(j) \/ FindingsReady(j) \/ AssessFindings(j)

-----------------------------------------------------------------------------
(* The routes *)

\* _register forgets ended jobs, the oldest first, while a further one is too many.
Forgotten ==
  LET over == {j \in known : jobs[j].status \in Ended}
  IN {j \in over : Cardinality({i \in over : i < j}) < Cardinality(known) + 1 - Retained}

\* start_job: the job it registers for a form it accepts.
NewJob(mode) ==
  [mode |-> mode, step |-> "queued", status |-> "queued", done |-> 0, read |-> 0, resolved |-> 0,
   alive |-> {}, cancelled |-> FALSE, report |-> NoReport, q |-> <<>>]

\* POST /loan/process: start_job refuses the form, or registers the job and starts its
\* thread; the start is recorded in the activity ledger.
Process ==
  /\ net.kind = "post"
  /\ \/ /\ Len(jobs) < MaxJobs
        /\ LET j == Len(jobs) + 1 IN
           /\ jobs' = Append(jobs, NewJob(Mode[j]))
           /\ known' = {j} \cup (known \ Forgotten)
           /\ activity' = Append(activity, <<j, "started">>)
           /\ net' = [NoNet EXCEPT !.kind = "posted", !.job = j]
     \/ /\ net' = [NoNet EXCEPT !.kind = "refused"]
        /\ UNCHANGED <<jobs, known, activity>>
  /\ UNCHANGED <<box, src, dead, turns, late, blind, gaveUp>>

\* LoanJob.snapshot: also what the event of the end carries.
StateOf(j) == [status |-> jobs[j].status, done |-> jobs[j].done]

\* GET /loan/jobs/<id>: the snapshot, or 404.
Snapshot ==
  /\ net.kind \in {"reattach", "fallback"} /\ net.status = ""
  /\ net' = IF net.job \in known
            THEN [net EXCEPT !.status = StateOf(net.job).status, !.done = StateOf(net.job).done]
            ELSE [net EXCEPT !.status = "gone"]
  /\ UNCHANGED <<server, box, src, gaveUp, dead, activity, turns, blind>>

\* POST /loan/cancel/<id> with the job the box shows, which is the previous one while the
\* next is starting.
Cancel ==
  /\ box.job \in known /\ jobs[box.job].status \in {"queued", "running"}
  /\ ~jobs[box.job].cancelled /\ turns < MaxTurns /\ turns' = turns + 1
  /\ jobs' = [jobs EXCEPT ![box.job].cancelled = TRUE]
  /\ UNCHANGED <<known, late, tab, dead, activity, blind>>

\* The oldest event of the job's queue is taken.
Taken(j) == jobs[j].q # <<>> /\ jobs' = [jobs EXCEPT ![j].q = Tail(@)]

\* /loan/stream/<id> of a tab that is gone: the event is lost, and with it the stream, unless
\* the write seemed to succeed.
Steal(j) ==
  /\ dead[j] > 0 /\ Taken(j)
  /\ \/ dead' = [dead EXCEPT ![j] = @ - 1]
     \/ Head(jobs[j].q).type # "stream_end" /\ UNCHANGED dead
  /\ blind' = IF Head(jobs[j].q).type = "ended" THEN blind \cup {j} ELSE blind
  /\ UNCHANGED <<known, late, tab, activity, turns>>

\* Its heartbeat fails.
Notice(j) ==
  /\ dead[j] > 0 /\ jobs[j].q = <<>>
  /\ dead' = [dead EXCEPT ![j] = @ - 1]
  /\ UNCHANGED <<server, tab, activity, turns, blind>>

-----------------------------------------------------------------------------
(* The tab *)

\* attachStream closes the stream the box had.
Attach(j) ==
  /\ src' = j
  /\ dead' = IF src = 0 THEN dead ELSE [dead EXCEPT ![src] = @ + 1]

\* start: the box keeps the previous job's id until the answer.
Start ==
  /\ box.status \notin Active /\ net.kind = "none" /\ Len(jobs) < MaxJobs
  /\ box' = [box EXCEPT !.status = "starting", !.done = 0]
  /\ net' = [NoNet EXCEPT !.kind = "post"]
  /\ UNCHANGED <<server, src, gaveUp, dead, activity, turns, blind>>

Started ==
  /\ net.kind = "posted"
  /\ box' = [box EXCEPT !.job = net.job, !.status = "running"]
  /\ Attach(net.job) /\ net' = NoNet
  /\ UNCHANGED <<server, gaveUp, activity, turns, blind>>

Refused ==
  /\ net.kind = "refused"
  /\ box' = [box EXCEPT !.status = "failed"] /\ net' = NoNet
  /\ UNCHANGED <<server, src, gaveUp, dead, activity, turns, blind>>

\* Mutant: the stream is not opened again after a reload.
ResumedOnce ==
  /\ net.kind \in {"reattach", "fallback"} /\ net.status \notin {"", "gone"}
  /\ box' = [job |-> net.job, status |-> net.status, done |-> net.done]
  /\ blind' = IF net.status = "queued" THEN blind \cup {net.job} ELSE blind
  /\ net' = NoNet
  /\ UNCHANGED <<server, src, dead, gaveUp, activity, turns>>

\* applyJobSnapshot, after a reload or a lost stream; the stream is opened again if the job
\* is active, which a queued one is not for the tab.
Resumed ==
  /\ net.kind \in {"reattach", "fallback"} /\ net.status \notin {"", "gone"}
  /\ box' = [job |-> net.job, status |-> net.status, done |-> net.done]
  /\ IF net.status \in Active THEN Attach(net.job) ELSE UNCHANGED <<src, dead>>
  /\ blind' = IF net.status = "queued" THEN blind \cup {net.job} ELSE blind
  /\ net' = NoNet
  /\ UNCHANGED <<server, gaveUp, activity, turns>>

\* The server does not know the job.
Gone ==
  /\ net.status = "gone"
  /\ box' = IF net.kind = "reattach" THEN [box EXCEPT !.job = 0, !.status = "idle"]
            ELSE [box EXCEPT !.status = "failed"]
  /\ gaveUp' = gaveUp \cup {net.job} /\ net' = NoNet
  /\ UNCHANGED <<server, src, dead, activity, turns, blind>>

\* Mutant: the tab counts the documents it hears of.
HandleCounts(e) ==
  CASE e.type = "started" -> [box EXCEPT !.status = "running", !.done = 0]
    [] e.type = "doc" -> [box EXCEPT !.done = @ + 1]
    [] OTHER -> [box EXCEPT !.status = e.status, !.done = e.done]

\* handleEvent: what an event makes of the box.
Handle(e) ==
  CASE e.type = "started" -> [box EXCEPT !.status = "running", !.done = 0]
    [] e.type = "doc" -> [box EXCEPT !.done = e.done]
    [] OTHER -> [box EXCEPT !.status = e.status, !.done = e.done]

\* The stream passes the next event on; the tab records the end of the job in the activity
\* ledger, and closes the stream at its end.
Deliver ==
  /\ src # 0 /\ Taken(src)
  /\ LET e == Head(jobs[src].q) IN
     /\ box' = IF e.type = "stream_end" THEN box ELSE Handle(e)
     /\ src' = IF e.type = "stream_end" THEN 0 ELSE src
     /\ activity' = IF e.type = "ended" THEN Append(activity, <<src, e.status>>) ELSE activity
  /\ UNCHANGED <<known, late, net, gaveUp, dead, turns, blind>>

\* Fifteen seconds without an event: the stream of an ended job ends by itself.
StreamTimesOut ==
  /\ src # 0 /\ jobs[src].q = <<>> /\ jobs[src].status \in Ended
  /\ src' = 0
  /\ blind' = IF box.status \in Active THEN blind \cup {src} ELSE blind
  /\ UNCHANGED <<server, box, net, gaveUp, dead, activity, turns>>

\* The connection breaks; the browser opens the stream again, or finds the job gone and asks
\* for its state.
Break ==
  /\ src # 0 /\ turns < MaxTurns /\ turns' = turns + 1
  /\ dead' = [dead EXCEPT ![src] = @ + 1]
  /\ IF src \in known THEN UNCHANGED <<src, net>>
     ELSE /\ net.kind = "none" /\ src' = 0
          /\ net' = [NoNet EXCEPT !.kind = "fallback", !.job = src]
  /\ UNCHANGED <<server, box, gaveUp, activity, blind>>

\* The tab is reloaded: a box that was active is picked up from localStorage, and the job it
\* shows is asked for.
Reload ==
  /\ turns < MaxTurns /\ turns' = turns + 1
  /\ dead' = IF src = 0 THEN dead ELSE [dead EXCEPT ![src] = @ + 1]
  /\ src' = 0
  /\ IF box.job # 0 /\ box.status \in Active
     THEN box' = [box EXCEPT !.done = 0] /\ net' = [NoNet EXCEPT !.kind = "reattach", !.job = box.job]
     ELSE box' = [job |-> 0, status |-> "idle", done |-> 0] /\ net' = NoNet
  /\ UNCHANGED <<server, gaveUp, activity, blind>>

Follow == Process \/ Snapshot \/ Started \/ Refused \/ Resumed \/ Gone \/ Deliver \/ StreamTimesOut

Next ==
  \/ Start \/ Cancel \/ Break \/ Reload \/ Follow
  \/ \E j \in DOMAIN jobs : Work(j) \/ Steal(j) \/ Notice(j)

\* Some thread of the server runs if one can, and the tab goes on with what it asked for.
Fair == WF_vars(Follow) /\ WF_vars(\E j \in DOMAIN jobs : Work(j))
Spec == Init /\ [][Next]_vars /\ Fair

-----------------------------------------------------------------------------
(* Properties *)

Ends(j) == {i \in DOMAIN activity : activity[i][1] = j /\ activity[i][2] # "started"}

\* What the box shows and the tab records of a job's end is how it ended, and is recorded
\* once and after its start; the box never shows more documents done than are; and the tab
\* gives up no job that has not ended.  Through reloads, broken connections and a next job
\* started while the stream of the last is open.
BoxTellsTheTruth ==
  /\ box.status \in {"completed", "cancelled"} =>
       /\ box.status = jobs[box.job].status
       /\ box.done = jobs[box.job].done
  /\ box.status = "running" => box.done <= jobs[box.job].done
  /\ \A j \in DOMAIN jobs :
       /\ Cardinality(Ends(j)) <= 1
       /\ \A i \in Ends(j) : /\ activity[i][2] = jobs[j].status
                             /\ \E k \in 1..(i - 1) : activity[k] = <<j, "started">>
  /\ \A j \in gaveUp : jobs[j].status \in Ended

\* A cancelled job stops, and one that completes left no document out: after the cancellation
\* at most one call to the model is begun, or two if the model gets the escalations only (the
\* last of them, or the plan, and then the decision); the counts of the report add up, and
\* whoever worked on the job is dismissed before it completes.
CancelStopsTheCalls ==
  \A j \in DOMAIN jobs :
    /\ late[j] <= IF jobs[j].mode = "deterministic" THEN 2 ELSE 1
    /\ jobs[j].status = "completed" => jobs[j].alive = {}
    /\ jobs[j].status = "completed" =>
         LET r == jobs[j].report
         IN r.processed + r.failed = Docs /\ r.clean + r.escalated = Docs

\* The box shows a job as not ended that is over, and the tab can still hear of its end.
OutOfDate ==
  /\ box.job # 0 /\ box.status \notin Ended /\ box.job \notin blind
  /\ jobs[box.job].step = "over"

\* A run is not lost: a box that shows a job running comes to show something else once the
\* job is over, unless a stream of a tab that is gone took the event of its end, or its own
\* stream gave up between the end and its event.
RunIsNotLost == OutOfDate ~> ~OutOfDate
=============================================================================
