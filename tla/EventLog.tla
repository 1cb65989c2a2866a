------------------------------ MODULE EventLog ------------------------------
(***************************************************************************)
(* What run_events.py promises to the dashboards of a run: one log that    *)
(* grows, and readers that come and go.  A reader attaches behind some     *)
(* event and is given each later one once, "with no gaps and no            *)
(* duplicates".  With several threads emitting, the order in which two     *)
(* concurrent events are read is not promised.                             *)
(***************************************************************************)
EXTENDS Naturals

CONSTANT Readers

VARIABLES length,    \* events in the log
          read,      \* events behind each reader: skipped or read
          attached   \* readers that are reading

vars == <<length, read, attached>>

Init == length = 0 /\ read = [r \in Readers |-> {}] /\ attached = {}

Write == length' = length + 1 /\ UNCHANGED <<read, attached>>

Attach(r) ==
  /\ r \notin attached
  /\ attached' = attached \cup {r}
  /\ \E behind \in 0 .. length : read' = [read EXCEPT ![r] = 1 .. behind]
  /\ UNCHANGED length

Read(r) ==
  /\ r \in attached
  /\ \E event \in (1 .. length) \ read[r] : read' = [read EXCEPT ![r] = @ \cup {event}]
  /\ UNCHANGED <<length, attached>>

Detach(r) ==
  /\ r \in attached
  /\ attached' = attached \ {r} /\ read' = [read EXCEPT ![r] = {}]
  /\ UNCHANGED length

Next == Write \/ \E r \in Readers : Attach(r) \/ Read(r) \/ Detach(r)

Safety == Init /\ [][Next]_vars

\* A reader that stays attached goes on reading.
Spec == Safety /\ \A r \in Readers : WF_vars(Read(r))
=============================================================================
