----------------------------- MODULE ActivityLog -----------------------------
(***************************************************************************)
(* activity_ledger.py: the file of one access key, to which the request    *)
(* handlers of the server and the threads of its runs append a line for    *)
(* everything done with that key.                                          *)
(*                                                                         *)
(* A line is [whole, kind, status, ts, run, seen]: whole says that it can  *)
(* be parsed, and seen is history, the length of the file when a sign-in   *)
(* looked for an earlier one.  Writing is best effort: a write that        *)
(* fails may leave a line without its end, and the next record goes on     *)
(* that line, which nobody can then parse.                                 *)
(***************************************************************************)
EXTENDS Integers, Sequences, FiniteSets, FiniteSetsExt

CONSTANTS
  Handlers,    \* request handlers at work at one time
  Runs,        \* pipeline runs started with this key
  NoRun,
  Collapse,    \* the minutes within which sign-ins are one: 15
  DayLength,   \* the minutes of a day
  Returned,    \* MAX_RECORDS_RETURNED
  MaxClock, MaxLines, MaxFailures

ASSUME ActivityAssumption ==
  /\ Collapse \in Nat /\ DayLength \in Nat \ {0} /\ Returned \in Nat \ {0}
  /\ NoRun \notin Runs /\ Handlers \cap Runs = {}

VARIABLES
  clock,      \* minutes
  lines,      \* the file
  cut,        \* the file does not end at the end of a line
  recording,  \* by writer, what it is recording
  runs,       \* by run, how far it is
  given,      \* history: how many records were answered as recorded
  failures    \* history: how many writes left part of a line
actVars == <<clock, lines, cut, recording, runs, given, failures>>

Writers == Handlers \cup Runs
NoRecord == [at |-> "idle"]

ActInit ==
  /\ clock = 0 /\ lines = <<>> /\ cut = FALSE /\ given = 0 /\ failures = 0
  /\ recording = [w \in Writers |-> NoRecord]
  /\ runs = [r \in Runs |-> "new"]

Logins == {i \in DOMAIN lines : lines[i].whole /\ lines[i].kind = "login"}

\* _recent_login: the last sign-in on file is less than Collapse minutes before ts, and not after it.
RecentLogin(ts) ==
  Logins # {} /\ LET d == ts - lines[Max(Logins)].ts IN 0 <= d /\ d < Collapse

\* record: the time is taken first; only a sign-in looks at the file before it is written.
Entry(kind, status, r) ==
  [at |-> IF kind = "login" THEN "check" ELSE "append",
   kind |-> kind, status |-> status, ts |-> clock, run |-> r, seen |-> 0]
Record(w, kind, status, r) ==
  /\ recording[w] = NoRecord
  /\ recording' = [recording EXCEPT ![w] = Entry(kind, status, r)]
  /\ UNCHANGED <<clock, lines, cut, given, failures>>

\* POST /ledger/activity, and what the server records of questions, jobs, prompts and decisions.
PostActivity(h, kind) == Record(h, kind, "", NoRun) /\ UNCHANGED runs

\* start_run: the run's thread starts when its first record was tried.
StartRun(h, r) ==
  /\ runs[r] = "new"
  /\ Record(h, "pipeline_run", "started", r)
  /\ runs' = [runs EXCEPT ![r] = "starting"]

\* _run_pipeline's finally: every outcome of a run.
CloseRun(r) ==
  /\ runs[r] = "running"
  /\ Record(r, "pipeline_run", "closed", r)
  /\ runs' = [runs EXCEPT ![r] = "closing"]

\* What follows a record: the run's thread, or nothing.
Recorded(w) ==
  LET e == recording[w]
  IN /\ recording' = [recording EXCEPT ![w] = NoRecord]
     /\ runs' = IF e.run = NoRun THEN runs
                ELSE [runs EXCEPT ![e.run] = IF w = e.run THEN "closed" ELSE "running"]

Check(w) ==
  /\ recording[w].at = "check"
  /\ IF RecentLogin(recording[w].ts)
     THEN Recorded(w)
     ELSE /\ recording' = [recording EXCEPT ![w].at = "append", ![w].seen = Len(lines)]
          /\ UNCHANGED runs
  /\ UNCHANGED <<clock, lines, cut, given, failures>>

LineOf(e, whole) ==
  [whole |-> whole, kind |-> e.kind, status |-> e.status, ts |-> e.ts, run |-> e.run, seen |-> e.seen]

\* Mutant: a record is written without the end of its line.
WrittenOn(e) ==
  IF lines # <<>> THEN [lines EXCEPT ![Len(lines)] = LineOf(e, FALSE)] ELSE <<LineOf(e, TRUE)>>

\* One write under the lock: a line of its own, or the rest of one that was cut.
Written(e) ==
  IF cut THEN [lines EXCEPT ![Len(lines)] = LineOf(e, FALSE)] ELSE Append(lines, LineOf(e, TRUE))
AppendLine(w) ==
  /\ recording[w].at = "append" /\ Len(lines) < MaxLines
  /\ lines' = Written(recording[w])
  /\ cut' = FALSE
  /\ given' = given + 1
  /\ Recorded(w)
  /\ UNCHANGED <<clock, failures>>

\* The write fails: nothing, or part of a line, is on file; the caller goes on.
AppendFails(w, part) ==
  /\ recording[w].at = "append" /\ Len(lines) < MaxLines
  /\ IF part THEN /\ failures < MaxFailures /\ failures' = failures + 1
                  /\ lines' = IF cut THEN lines ELSE Append(lines, LineOf(recording[w], FALSE))
                  /\ cut' = TRUE
             ELSE UNCHANGED <<lines, cut, failures>>
  /\ Recorded(w)
  /\ UNCHANGED <<clock, given>>

\* The server is started anew: its handlers and the threads of its runs are gone.
Restart ==
  /\ recording' = [w \in Writers |-> NoRecord]
  /\ runs' = [r \in Runs |-> IF runs[r] = "new" THEN "new" ELSE "closed"]
  /\ UNCHANGED <<clock, lines, cut, given, failures>>

Tick ==
  /\ clock < MaxClock
  /\ clock' = clock + 1
  /\ UNCHANGED <<lines, cut, recording, runs, given, failures>>

ActNext ==
  \/ Tick \/ Restart
  \/ \E h \in Handlers : \/ \E kind \in {"login", "chat"} : PostActivity(h, kind)
                         \/ \E r \in Runs : StartRun(h, r)
  \/ \E r \in Runs : CloseRun(r)
  \/ \E w \in Writers : Check(w) \/ AppendLine(w) \/ \E part \in BOOLEAN : AppendFails(w, part)

ActSpec == ActInit /\ [][ActNext]_actVars

(***************************************************************************)
(* What the ledger screen shows.                                           *)
(***************************************************************************)
\* read: the lines that can be parsed, newest first, no more than Returned; here as positions.
Read ==
  LET readable == {i \in DOMAIN lines : lines[i].whole}
  IN {i \in readable : Cardinality({j \in readable : j > i}) < Returned}

\* days: the records of each day, with how many they are.
Day(i) == lines[i].ts \div DayLength
Days == [d \in {Day(i) : i \in Read} |-> {i \in Read : Day(i) = d}]
Counted(days) == MapThenSumSet(LAMBDA d : Cardinality(days[d]), DOMAIN days)
Totals == Counted(Days)

(***************************************************************************)
(* Properties.                                                             *)
(***************************************************************************)
\* Two sign-ins less than 15 minutes apart are on file only if the second was looked up before the
\* first was written, or if one was written between them out of the order of their times
\* (_recent_login is asked outside the lock, and only of the last sign-in on file).
LoginsAreApart ==
  \A i, j \in Logins :
    (i < j /\ lines[j].ts - lines[i].ts \in 0..(Collapse - 1)) =>
      \/ lines[j].seen < i
      \/ \E k \in Logins : /\ i < k /\ k <= lines[j].seen
                           /\ lines[k].ts < lines[i].ts \/ lines[k].ts > lines[j].ts

\* A run has one closing record at most, and its first record stands before it (start_run starts
\* the thread when it has recorded the start; every outcome passes the one finally).
RunsCloseOnce ==
  \A i, j \in DOMAIN lines :
    (lines[i].run # NoRun /\ lines[i].run = lines[j].run /\ lines[i].status = "closed" /\ i # j) =>
      lines[j].status = "started" /\ j < i

\* The screen shows every record that was answered as recorded, up to its limit and under its day,
\* but for one record for each write that left part of a line.
OneLossPerFailure ==
  Totals >= Min({Returned, given - failures})

\* The screen tells what was done with the key: every record once, but for those a failed write
\* cost, the start of a run before its end, and sign-ins that are not repetitions.
ActivityIsTold == OneLossPerFailure /\ RunsCloseOnce /\ LoginsAreApart
=============================================================================
