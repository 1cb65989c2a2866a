--------------------------- MODULE DecisionLedger ---------------------------
(***************************************************************************)
(* DecisionLedger objects of decision_ledger.py that share one file.       *)
(*                                                                         *)
(* Each object caches the tail of the file (_seq, _head) when it is built  *)
(* and from then on trusts its cache: append never looks at the file       *)
(* again.  The object's lock serialises the threads that share it, so one  *)
(* append is one step; nothing serialises two objects.  The web server     *)
(* builds one object for the pipeline and one more in every POST /approve. *)
(***************************************************************************)
EXTENDS LedgerChain

CONSTANTS Instances,   \* the DecisionLedger objects that may be built
          MaxHashed    \* bound: entries hashed in a behaviour

ASSUME BoundAssumption == MaxHashed \in Nat

VARIABLES
  file,      \* the lines of decision_ledger.jsonl
  eol,       \* the file ends with a newline
  live,      \* the objects that have been built
  seq,       \* _seq of each object
  head,      \* _head of each object
  hashed,    \* entries hashed so far; the last one's entry_hash
  \* history, not part of the program
  overtaken, \* objects some other object has appended past
  broken,    \* an entry was chained from an overtaken cache, or a line is damaged
  lost       \* lines at the end of the file were lost

code == <<file, eol, live, seq, head, hashed>>
vars == <<file, eol, live, seq, head, hashed, overtaken, broken, lost>>

TypeOK ==
  /\ file \in Seq(Line)
  /\ eol \in BOOLEAN
  /\ live \in SUBSET Instances
  /\ seq \in [Instances -> Nat]
  /\ head \in [Instances -> Nat]
  /\ hashed \in Nat
  /\ overtaken \in SUBSET Instances
  /\ broken \in BOOLEAN
  /\ lost \in BOOLEAN

Init ==
  /\ file = <<>> /\ eol = TRUE
  /\ live = {}
  /\ seq = [i \in Instances |-> 0]
  /\ head = [i \in Instances |-> GENESIS_HASH]
  /\ hashed = 0
  /\ overtaken = {} /\ broken = FALSE /\ lost = FALSE

\* DecisionLedger(project_dir): resume seq and head from the file.
Open(i) ==
  /\ i \notin live
  /\ live' = live \cup {i}
  /\ LET tail == LoadTail(file)
     IN /\ seq' = [seq EXCEPT ![i] = tail.seq]
        /\ head' = [head EXCEPT ![i] = tail.head]
  /\ overtaken' = overtaken \ {i}
  /\ UNCHANGED <<file, eol, hashed, broken, lost>>

\* The object becomes garbage (a request ends, a run ends).
Drop(i) ==
  /\ i \in live
  /\ live' = live \ {i}
  /\ UNCHANGED <<file, eol, seq, head, hashed, overtaken, broken, lost>>

\* append: the entry is chained from the cache, written, and only then cached.
AppendEntry(i) ==
  /\ i \in live /\ hashed < MaxHashed
  /\ LET e == NextEntry(seq[i], head[i], hashed + 1)
     IN /\ file' = WriteLine(file, eol, e)
        /\ seq' = [seq EXCEPT ![i] = e.seq]
        /\ head' = [head EXCEPT ![i] = e.hash]
  /\ eol' = TRUE
  /\ hashed' = hashed + 1
  /\ overtaken' = overtaken \cup (live \ {i})
  /\ broken' = (broken \/ i \in overtaken \/ ~eol)
  /\ UNCHANGED <<live, lost>>

\* append raises OSError (a full disk) after part of the line reached the file:
\* either a proper prefix of it, or all of it but the newline.  record()
\* swallows the error and the cache keeps the old tail.
AppendFails(i) ==
  /\ i \in live /\ hashed < MaxHashed
  /\ \E whole \in BOOLEAN :
       LET e == NextEntry(seq[i], head[i], hashed + 1)
       IN /\ file' = WriteLine(file, eol, IF whole THEN e ELSE Torn(e))
          /\ broken' = (broken \/ i \in overtaken \/ ~eol \/ ~whole)
  /\ eol' = FALSE
  /\ hashed' = hashed + 1
  /\ overtaken' = overtaken \cup live
  /\ UNCHANGED <<live, seq, head, lost>>

\* The machine stops.  Nothing is fsynced, so lines written shortly before may
\* be missing when it comes back, and no object survives.
PowerLoss ==
  /\ \E n \in 0 .. Len(file) :
       /\ file' = SubSeq(file, 1, n)
       /\ eol' = (eol \/ n < Len(file))
       /\ lost' = (lost \/ n < Len(file))
  /\ live' = {}
  /\ UNCHANGED <<seq, head, hashed, overtaken, broken>>

Next ==
  \/ \E i \in Instances : Open(i) \/ Drop(i) \/ AppendEntry(i) \/ AppendFails(i)
  \/ PowerLoss

Spec == Init /\ [][Next]_vars

-----------------------------------------------------------------------------
(* Properties *)

\* A chain verifies for as long as every append came from an object nobody had
\* appended past, onto an undamaged file: sessions that follow each other
\* (--resume, a restarted server, a power loss in between) keep one chain.
IntactUnlessBroken == ~broken => VerifyFile(file)

\* An object that is up to date caches exactly the tail of the file; this is
\* what makes the next append link (the comment "resume seq/head from an
\* existing file" of _load_tail).
CacheIsTail ==
  ~broken => \A i \in live \ overtaken :
                /\ seq[i] = Len(file)
                /\ head[i] = LastHash(file)

\* Every append from an overtaken cache and every damaged line is found by
\* verify_file, whatever is appended afterwards.
BrokenIsDetected == broken /\ ~lost => ~VerifyFile(file)

\* verify_file is right both ways: it accepts what was not broken and refuses what was.
VerifyTellsTheTruth == IntactUnlessBroken /\ BrokenIsDetected
=============================================================================
