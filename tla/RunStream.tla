----------------------------- MODULE RunStream -----------------------------
(***************************************************************************)
(* How a run and its streams come to an end: the tail of _run_pipeline in  *)
(* server.py, which sets the status before it launches the application     *)
(* and emits stream_end last; GET /stream, which ends on stream_end, or    *)
(* when it waited 15 seconds in vain and the status says the run is over;  *)
(* a dashboard, which reconnects until it is told the end; and a restart   *)
(* of the server, after which runs are replayed from events.jsonl.         *)
(*                                                                         *)
(* An emit is one step here and its write to events.jsonl succeeds;        *)
(* RunEvents has the rest of it.                                           *)
(***************************************************************************)
EXTENDS Naturals, Sequences, FiniteSets

CONSTANTS Dashboards,
          MaxLog,   \* bound: events of the run
          MaxDrops     \* bound: connections lost, and windows reloaded

ASSUME StreamAssumption == MaxLog \in Nat /\ MaxDrops \in Nat

VARIABLES
  pc,      \* the pipeline thread: "run", "tail" (status is set), "ended"
  status,  \* RunContext.status
  up,      \* the server process that ran it is up
  log,     \* the events, in memory and in events.jsonl
  conn,    \* each dashboard's connection, see Conn
  pos,     \* events it has received
  drops

streamVars == <<pc, status, up, log, conn, pos, drops>>

\* A window that was just opened ("new"), follows the run ("live"), replays it
\* from the file ("past"), lost such a connection ("retry", "retry past") or
\* was told the end ("over").
Conn == {"new", "live", "past", "retry", "retry past", "over"}
Kinds == {"work", "request", "stream_end"}

StreamInit ==
  /\ pc = "run" /\ status = "running" /\ up = TRUE /\ log = <<>>
  /\ conn = [d \in Dashboards |-> "new"] /\ pos = [d \in Dashboards |-> 0] /\ drops = 0

Emits(kind) == log' = Append(log, kind)

-----------------------------------------------------------------------------
(* The server *)

\* The stages, and after the status is set the launch of the application,
\* emit; both may take any time.
Work ==
  /\ up /\ pc # "ended" /\ Len(log) < MaxLog
  /\ Emits("work")
  /\ UNCHANGED <<pc, status, up, conn, pos, drops>>

\* Completed, failed or cancelled.
SetStatus ==
  /\ up /\ pc = "run"
  /\ \E outcome \in {"completed", "failed", "cancelled"} : status' = outcome
  /\ pc' = "tail"
  /\ UNCHANGED <<up, log, conn, pos, drops>>

\* The finally clause.
EndStream ==
  /\ up /\ pc = "tail"
  /\ Emits("stream_end")
  /\ pc' = "ended"
  /\ UNCHANGED <<status, up, conn, pos, drops>>

\* A request thread emits at any time, also after the end: /approve
\* (approval_decided), /pause, /resume, /stop (app_stopped).
RequestEmits ==
  /\ up /\ Len(log) < MaxLog
  /\ Emits("request")
  /\ UNCHANGED <<pc, status, up, conn, pos, drops>>

\* The process dies, with the run and all connections; another one comes up,
\* which knows the run by its project directory.
Restart ==
  /\ up
  /\ up' = FALSE
  /\ conn' = [d \in Dashboards |-> IF conn[d] = "live" THEN "retry" ELSE conn[d]]
  /\ UNCHANGED <<pc, status, log, pos, drops>>

-----------------------------------------------------------------------------
(* GET /stream *)

\* A dashboard attaches to the run in memory, from where it was.
Subscribe(d) ==
  /\ conn[d] \in {"new", "retry"} /\ up
  /\ conn' = [conn EXCEPT ![d] = "live"]
  /\ UNCHANGED <<pc, status, up, log, pos, drops>>

\* A new window finds the run among the past ones of /live-runs, under the
\* name of its directory.
AttachPast(d) ==
  /\ conn[d] = "new" /\ ~up /\ log # <<>>
  /\ conn' = [conn EXCEPT ![d] = "past"]
  /\ UNCHANGED <<pc, status, up, log, pos, drops>>

\* 404, at which the window gives the run up: the id is that of a run the
\* server has forgotten, or there is nothing left to replay.
NotFound(d) ==
  /\ \/ conn[d] = "retry" /\ ~up
     \/ conn[d] = "retry past" /\ pos[d] = Len(log)
  /\ conn' = [conn EXCEPT ![d] = "over"]
  /\ UNCHANGED <<pc, status, up, log, pos, drops>>

\* replay_from_disk finds events after the last one the window has.
RetryPast(d) ==
  /\ conn[d] = "retry past" /\ pos[d] < Len(log)
  /\ conn' = [conn EXCEPT ![d] = "past"]
  /\ UNCHANGED <<pc, status, up, log, pos, drops>>

\* It gets the next event; on stream_end it closes the stream.
GetsEvent(d) ==
  /\ conn[d] \in {"live", "past"} /\ pos[d] < Len(log)
  /\ pos' = [pos EXCEPT ![d] = pos[d] + 1]
  /\ conn' = IF log[pos[d] + 1] = "stream_end" THEN [conn EXCEPT ![d] = "over"] ELSE conn
  /\ UNCHANGED <<pc, status, up, log, drops>>

\* Mutant: a silent run is over.
TimeoutAnyStatus(d) ==
  /\ conn[d] = "live" /\ pos[d] = Len(log)
  /\ conn' = [conn EXCEPT ![d] = "over"]
  /\ UNCHANGED <<pc, status, up, log, pos, drops>>

\* Mutant: the subscriber waits for stream_end, whatever the status.
TimeoutHeartbeatOnly(d) ==
  /\ conn[d] = "live" /\ pos[d] = Len(log)
  /\ UNCHANGED streamVars

\* Fifteen seconds without an event.  A run that is over has no more to say;
\* otherwise a heartbeat is sent, which changes nothing.
Timeout(d) ==
  /\ conn[d] = "live" /\ pos[d] = Len(log)
  /\ status \in {"completed", "failed", "cancelled"}
  /\ conn' = [conn EXCEPT ![d] = "over"]
  /\ UNCHANGED <<pc, status, up, log, pos, drops>>

\* replay_only has sent the file, which does not end with stream_end.
ReplayOver(d) ==
  /\ conn[d] = "past" /\ pos[d] = Len(log)
  /\ conn' = [conn EXCEPT ![d] = "over"]
  /\ UNCHANGED <<pc, status, up, log, pos, drops>>

\* The connection is lost; EventSource reconnects with the last id it has.
Drop(d) ==
  /\ conn[d] \in {"live", "past"} /\ drops < MaxDrops
  /\ conn' = [conn EXCEPT ![d] = IF conn[d] = "live" THEN "retry" ELSE "retry past"]
  /\ drops' = drops + 1
  /\ UNCHANGED <<pc, status, up, log, pos>>

\* The window is reloaded: it adopts the run again, from the start.
Reload(d) ==
  /\ drops < MaxDrops
  /\ conn' = [conn EXCEPT ![d] = "new"] /\ pos' = [pos EXCEPT ![d] = 0]
  /\ drops' = drops + 1
  /\ UNCHANGED <<pc, status, up, log>>

Connect(d) == Subscribe(d) \/ AttachPast(d) \/ NotFound(d) \/ RetryPast(d)
Stream(d) == GetsEvent(d) \/ Timeout(d) \/ ReplayOver(d)

StreamNext ==
  \/ Work \/ SetStatus \/ EndStream \/ RequestEmits \/ Restart
  \/ \E d \in Dashboards : Connect(d) \/ Stream(d) \/ Drop(d) \/ Reload(d)

StreamSpec == StreamInit /\ [][StreamNext]_streamVars

\* A dashboard keeps reconnecting, and its stream makes progress: it has an
\* event to send or its fifteen seconds run out.
FairStreams == StreamSpec /\ \A d \in Dashboards : WF_streamVars(Connect(d)) /\ WF_streamVars(Stream(d))

-----------------------------------------------------------------------------
(* Properties *)

\* Over: the run has a result, or the process that ran it is gone.
Over == status # "running" \/ ~up

\* No dashboard is told the end of a run that goes on, however often it drops,
\* reloads or times out.
NoEndBeforeTheResult == \A d \in Dashboards : conn[d] = "over" => Over

\* "tell late or reconnecting clients to stop instead of holding a zombie
\* connection on heartbeats forever": once a run is over, every dashboard is
\* told so, also one that attaches when stream_end is long past, and one whose
\* server died before the end.  (A run of which not even one event was written
\* is not listed after a restart.)
EveryStreamEnds ==
  \A d \in Dashboards : [](Over /\ log # <<>> => <>(conn[d] = "over"))

=============================================================================
