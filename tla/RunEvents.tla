----------------------------- MODULE RunEvents -----------------------------
(***************************************************************************)
(* RunEventStore of run_events.py with the threads that emit into it (the  *)
(* pipeline thread and the request threads of /approve, /pause, /resume    *)
(* and /stop), and the dashboards that follow it through GET /stream.      *)
(*                                                                         *)
(* emit holds the store's lock only while it numbers and records the       *)
(* event; telling the subscribers and writing events.jsonl come after, and *)
(* each put and each write is a step that other threads may overtake.      *)
(* An event is represented by its seq.                                     *)
(***************************************************************************)
EXTENDS Naturals, Sequences, SequencesExt

CONSTANTS Emitters,    \* threads that emit
          Binder,      \* the emitter that binds the store: the pipeline thread
          Clients,     \* dashboards
          MaxMemory,   \* MAX_MEMORY_EVENTS
          MaxEvents,   \* bound: events emitted
          MaxAttaches  \* bound: GET /stream requests

ASSUME EventAssumption ==
  /\ Binder \in Emitters
  /\ MaxMemory \in Nat \ {0} /\ MaxEvents \in Nat /\ MaxAttaches \in Nat

VARIABLES
  seq, trimmed,      \* _seq and _trimmed; _history holds trimmed + 1 .. seq
  bound, persisted,  \* _path is set; _persisted
  disk, eol,         \* the lines of events.jsonl that parse; it ends with a newline
  subs,              \* _subs: the clients whose queue is registered
  queue,             \* the queue of each client's connection
  at,                \* where each emitter is in emit or bind
  ev,                \* the event it is emitting
  targets,           \* the subscribers it has still to tell
  backlog,           \* bind's local: the events to flush
  lastId,            \* the Last-Event-ID each browser would send
  attaches,          \* GET /stream requests so far
  \* history, not part of the program
  got,               \* events each client has received, over all connections
  rcvd,              \* those received over the present connection, in order
  floor,             \* where that connection's backlog started
  damaged            \* events lost to a write that failed, or trimmed before the bind

file == <<persisted, disk, eol, damaged>>
store == <<seq, trimmed, bound, file>>
emitter == <<at, ev, targets, backlog>>
client == <<lastId, attaches, got, rcvd, floor>>
vars == <<store, subs, queue, emitter, client>>

Events == 1 .. MaxEvents
History == (trimmed + 1) .. seq

Init ==
  /\ seq = 0 /\ trimmed = 0 /\ bound = FALSE /\ persisted = 0 /\ disk = <<>> /\ eol = TRUE
  /\ subs = {} /\ queue = [c \in Clients |-> <<>>]
  /\ at = [e \in Emitters |-> IF e = Binder THEN "unbound" ELSE "idle"]
  /\ ev = [e \in Emitters |-> 0] /\ targets = [e \in Emitters |-> {}] /\ backlog = <<>>
  /\ lastId = [c \in Clients |-> 0] /\ attaches = 0
  /\ got = [c \in Clients |-> {}] /\ rcvd = [c \in Clients |-> <<>>]
  /\ floor = [c \in Clients |-> 0] /\ damaged = {}

\* The events lo + 1 .. hi in order.
Interval(lo, hi) == [k \in 1 .. (IF hi > lo THEN hi - lo ELSE 0) |-> lo + k]

Higher(a, b) == IF a > b THEN a ELSE b

-----------------------------------------------------------------------------
(* emit and bind *)

\* Mutant: the subscribers are not copied under the lock (an event emitted
\* while a client attaches is then lost to it: nobody is told).
RecordTellsNobody(e) ==
  /\ at[e] = "idle" /\ seq < MaxEvents
  /\ seq' = seq + 1
  /\ trimmed' = IF seq' - trimmed > MaxMemory THEN seq' - MaxMemory ELSE trimmed
  /\ at' = [at EXCEPT ![e] = "put"] /\ ev' = [ev EXCEPT ![e] = seq']
  /\ targets' = [targets EXCEPT ![e] = {}]
  /\ UNCHANGED <<bound, file, subs, queue, backlog, client>>

\* emit under the lock: number the event, record it, trim the buffer and copy
\* the set of subscribers.
Record(e) ==
  /\ at[e] = "idle" /\ seq < MaxEvents
  /\ seq' = seq + 1
  /\ trimmed' = IF seq' - trimmed > MaxMemory THEN seq' - MaxMemory ELSE trimmed
  /\ at' = [at EXCEPT ![e] = "put"] /\ ev' = [ev EXCEPT ![e] = seq']
  /\ targets' = [targets EXCEPT ![e] = subs]
  /\ UNCHANGED <<bound, file, subs, queue, backlog, client>>

\* Tell one of them (a set has no order).
Put(e) ==
  /\ at[e] = "put"
  /\ \E c \in targets[e] :
       /\ queue' = [queue EXCEPT ![c] = Append(queue[c], ev[e])]
       /\ targets' = [targets EXCEPT ![e] = targets[e] \ {c}]
  /\ UNCHANGED <<store, subs, at, ev, backlog, client>>

\* All told.  _append_to_disk: nothing is written before the store is bound.
AllTold(e) ==
  /\ at[e] = "put" /\ targets[e] = {}
  /\ at' = [at EXCEPT ![e] = IF bound THEN "write" ELSE "idle"]
  /\ UNCHANGED <<store, subs, queue, ev, targets, backlog, client>>

\* The first n of the lines evs reach the file.  A line that was left without
\* its newline swallows the first of them: neither parses any more.
AppendLines(evs, n) ==
  /\ disk' = disk \o SubSeq(evs, IF eol THEN 1 ELSE 2, n)
  /\ damaged' = damaged \cup (ToSet(evs) \ ToSet(disk'))

\* _append_to_disk under _wlock.  An exception is swallowed, wherever in the
\* lines it happened.
AppendToDisk(evs) ==
  \/ /\ AppendLines(evs, Len(evs))
     /\ eol' = (eol \/ evs # <<>>)
     /\ persisted' = IF evs = <<>> THEN persisted ELSE Higher(persisted, Last(evs))
  \/ /\ evs # <<>>
     /\ \E n \in 0 .. Len(evs) - 1 :
          /\ AppendLines(evs, n)
          /\ eol' \in {FALSE, IF n = 0 THEN eol ELSE TRUE}
     /\ UNCHANGED persisted

Write(e) ==
  /\ at[e] = "write"
  /\ AppendToDisk(<<ev[e]>>)
  /\ at' = [at EXCEPT ![e] = "idle"]
  /\ UNCHANGED <<seq, trimmed, bound, subs, queue, ev, targets, backlog, client>>

\* Mutant: only later events are written.
BindForgetsBacklog ==
  /\ at[Binder] = "unbound"
  /\ bound' = TRUE /\ backlog' = <<>>
  /\ at' = [at EXCEPT ![Binder] = "flush"]
  /\ UNCHANGED <<seq, trimmed, file, subs, queue, ev, targets, client>>

\* bind under the lock; _persidx skips what is already written.
Bind ==
  /\ at[Binder] = "unbound"
  /\ bound' = TRUE
  /\ backlog' = Interval(Higher(persisted, trimmed), seq)
  /\ damaged' = damaged \cup ((persisted + 1) .. trimmed)
  /\ at' = [at EXCEPT ![Binder] = "flush"]
  /\ UNCHANGED <<seq, trimmed, persisted, disk, eol, subs, queue, ev, targets, client>>

\* bind's _append_to_disk: the whole backlog at once.
Flush ==
  /\ at[Binder] = "flush"
  /\ AppendToDisk(backlog)
  /\ backlog' = <<>>
  /\ at' = [at EXCEPT ![Binder] = "idle"]
  /\ UNCHANGED <<seq, trimmed, bound, subs, queue, ev, targets, client>>

Emit(e) == Put(e) \/ AllTold(e) \/ Write(e)

-----------------------------------------------------------------------------
(* The dashboards *)

\* Mutant: "after" is taken as the first event to send.
AttachFrom(c) ==
  /\ c \notin subs /\ attaches < MaxAttaches
  /\ attaches' = attaches + 1
  /\ floor' = [floor EXCEPT ![c] = Higher(lastId[c], trimmed)]
  /\ queue' = [queue EXCEPT ![c] = Interval(Higher(Higher(lastId[c], 1) - 1, trimmed), seq)]
  /\ rcvd' = [rcvd EXCEPT ![c] = <<>>]
  /\ subs' = subs \cup {c}
  /\ UNCHANGED <<store, emitter, lastId, got>>

\* GET /stream: subscribe seeds the queue with what is remembered after
\* Last-Event-ID and registers it, all under the lock.
Attach(c) ==
  /\ c \notin subs /\ attaches < MaxAttaches
  /\ attaches' = attaches + 1
  /\ floor' = [floor EXCEPT ![c] = Higher(lastId[c], trimmed)]
  /\ queue' = [queue EXCEPT ![c] = Interval(floor'[c], seq)]
  /\ rcvd' = [rcvd EXCEPT ![c] = <<>>]
  /\ subs' = subs \cup {c}
  /\ UNCHANGED <<store, emitter, lastId, got>>

\* generate() takes the next event; its seq is the SSE id the browser keeps.
Receive(c) ==
  /\ c \in subs /\ queue[c] # <<>>
  /\ queue' = [queue EXCEPT ![c] = Tail(queue[c])]
  /\ lastId' = [lastId EXCEPT ![c] = Head(queue[c])]
  /\ got' = [got EXCEPT ![c] = got[c] \cup {Head(queue[c])}]
  /\ rcvd' = [rcvd EXCEPT ![c] = Append(rcvd[c], Head(queue[c]))]
  /\ UNCHANGED <<store, subs, emitter, attaches, floor>>

\* The connection is lost: generate() ends and unsubscribes.  An emitter that
\* holds the old set of subscribers only tells a queue nobody reads.
Detach(c) ==
  /\ c \in subs
  /\ subs' = subs \ {c}
  /\ queue' = [queue EXCEPT ![c] = <<>>]
  /\ rcvd' = [rcvd EXCEPT ![c] = <<>>]
  /\ targets' = [e \in Emitters |-> targets[e] \ {c}]
  /\ UNCHANGED <<store, at, ev, backlog, lastId, attaches, got, floor>>

Next ==
  \/ \E e \in Emitters : Record(e) \/ Emit(e)
  \/ Bind \/ Flush
  \/ \E c \in Clients : Attach(c) \/ Receive(c) \/ Detach(c)

Spec == Init /\ [][Next]_vars

\* The threads run, and a dashboard that is attached reads its stream.
FairSpec ==
  /\ Spec
  /\ WF_vars(Bind) /\ WF_vars(Flush)
  /\ \A e \in Emitters : WF_vars(Emit(e))
  /\ \A c \in Clients : WF_vars(Receive(c))

-----------------------------------------------------------------------------
(* Properties *)

\* The events on their way to client c in the hands of the emitters.
InHand(c) == {ev[e] : e \in {x \in Emitters : at[x] = "put" /\ c \in targets[x]}}

\* subscribe: "an event emitted concurrently lands either in the backlog or in
\* the queue - never in both, never in neither".  Whatever the emitters are
\* doing, each event after the client's resume point has been received, is in
\* its queue or is being put there, and is so exactly once.
ExactlyOnce ==
  \A c \in subs :
    LET s == rcvd[c] \o queue[c]
    IN /\ \A i, j \in 1 .. Len(s) : s[i] = s[j] => i = j
       /\ {s[i] : i \in 1 .. Len(s)} \cap InHand(c) = {}
       /\ {s[i] : i \in 1 .. Len(s)} \cup InHand(c) = (floor[c] + 1) .. seq

\* What a crash costs: once the store is bound, the only events missing from
\* events.jsonl are those an emitter is on its way to write, the backlog, those
\* whose write failed and those trimmed from memory before the bind.
CrashLosesOnlyInFlight ==
  bound => (1 .. seq) \ ToSet(disk) \subseteq
             {ev[e] : e \in {x \in Emitters : at[x] \in {"put", "write"}}}
             \cup ToSet(backlog) \cup damaged

\* The store is the log it promises to be, and a dashboard that stays attached
\* gets every event: in whatever order the emitters number, tell and write.
Log == INSTANCE EventLog WITH
         Readers <- Clients, length <- seq, attached <- subs,
         read <- [c \in Clients |-> IF c \in subs THEN (1 .. floor[c]) \cup ToSet(rcvd[c]) ELSE {}]

ImplementsLog == Log!Spec
=============================================================================
