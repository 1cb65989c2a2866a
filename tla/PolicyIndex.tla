---------------------------- MODULE PolicyIndex ----------------------------
(***************************************************************************)
(* The index of a policy pack: loan_policy.ensure_indexed over a RagStore  *)
(* of rag_pipeline.py.  The threads of a process (jobs that retrieve,      *)
(* chats, the index route) share one store in memory; the processes (the   *)
(* server, and the command line of loan_policy.py) share its files.        *)
(*                                                                         *)
(* A version of a file of the pack is what its size and second of change   *)
(* tell apart, and one chunk stands for the chunks of a version.           *)
(***************************************************************************)
EXTENDS Integers, Sequences, FiniteSets, FiniteSetsExt

CONSTANTS
  Files,       \* of the pack
  Scanned,     \* those that scan_documents returns: of a type it reads, the first MAX_DOCS
  Procs, Threads,
  Of,          \* the process of each thread
  MayForce,    \* threads that may ask for a new index: the route, the command line
  MaxBusy,     \* bound: threads at work at once
  MaxEdits,    \* bound: edits of the pack
  MaxFaults    \* bound: restarts and failing writes

ASSUME IndexAssumption ==
  Scanned \subseteq Files /\ Of \in [Threads -> Procs] /\ {MaxBusy, MaxEdits, MaxFaults} \subseteq Nat

VARIABLES
  pack,      \* version of each file of the operator's folder
  rows,      \* chunks.jsonl: the chunks of its lines that can be read
  torn,      \* its last line stops half way
  memory,    \* _chunks of each process
  manifest,  \* pack.json: signature, files that failed, number of chunks; who wrote it
  th,        \* per thread: step, signature, files left, files that failed, chunk to add, and
             \* the process that indexed what it searches
  faults,
  lost       \* history: chunks a process had whose line cannot be read
indexVars == <<pack, rows, torn, memory, manifest, th, faults, lost>>

NoSig == [f \in Files |-> 0]
NoManifest == [sig |-> NoSig, failed |-> {}, chunks |-> 0, by |-> {}]
Idle == [step |-> "idle", sig |-> NoSig, todo |-> {}, failed |-> {}, by |-> {}, chunk |-> <<>>]

IndexInit ==
  /\ pack = [f \in Files |-> 1] /\ rows = {} /\ torn = FALSE
  /\ memory = [p \in Procs |-> {}] /\ manifest = NoManifest
  /\ th = [t \in Threads |-> Idle] /\ faults = 0 /\ lost = {}

-----------------------------------------------------------------------------
(* ensure_indexed *)

Go(t, new) == th' = [th EXCEPT ![t] = new]
Store == <<rows, torn, memory, lost>>
World == <<pack, faults>>

\* The signature of the folder; if it cannot be found a job goes on without clauses, a chat
\* with what is in the store.
Signature(t) ==
  /\ th[t].step = "idle" /\ Cardinality({u \in Threads : th[u].step # "idle"}) < MaxBusy
  /\ \E seen \in BOOLEAN :
       Go(t, IF seen THEN [Idle EXCEPT !.step = "compare", !.sig = pack]
             ELSE [Idle EXCEPT !.step = "query"])
  /\ UNCHANGED <<Store, World, manifest>>

Unchanged(t) == manifest.sig = th[t].sig /\ manifest.chunks > 0
Reuse(t) == [th[t] EXCEPT !.step = "query", !.failed = manifest.failed, !.by = manifest.by]

\* The manifest of the last indexing spares this one if no file of the pack has changed since,
\* and the route did not ask for it; what is read are the files of the scan.
Compare(t) ==
  /\ th[t].step = "compare"
  /\ \/ Unchanged(t) /\ Go(t, Reuse(t))
     \/ /\ ~Unchanged(t) \/ t \in MayForce
        /\ Go(t, [th[t] EXCEPT !.step = "ingest", !.todo = Scanned])
  /\ UNCHANGED <<Store, World, manifest>>

\* A file is read, which may fail, and its chunk added unless the store of the process has
\* it: the look at the store is outside its lock.
ReadFile(t) ==
  /\ th[t].step = "ingest"
  /\ \E f \in th[t].todo :
       LET left == [th[t] EXCEPT !.todo = @ \ {f}]
           chunk == <<f, pack[f]>>
       IN \/ Go(t, [left EXCEPT !.failed = @ \cup {f}])
          \/ Go(t, IF chunk \in memory[Of[t]] THEN left
                   ELSE [left EXCEPT !.step = "add", !.chunk = chunk])
  /\ UNCHANGED <<Store, World, manifest>>

\* add_chunks: under the lock of the store the file is opened, the line goes to its buffer and
\* the chunk to memory; or the file cannot be opened.
Locked(p) == \E t \in Threads : Of[t] = p /\ th[t].step = "flush"
AddChunk(t) ==
  /\ th[t].step = "add" /\ ~Locked(Of[t])
  /\ memory' = [memory EXCEPT ![Of[t]] = @ \cup {th[t].chunk}]
  /\ Go(t, [th[t] EXCEPT !.step = "flush"])
  /\ UNCHANGED <<rows, torn, lost, World, manifest>>

OpenFails(t) ==
  /\ th[t].step = "add" /\ ~Locked(Of[t]) /\ faults < MaxFaults /\ faults' = faults + 1
  /\ Go(t, Idle)
  /\ UNCHANGED <<pack, Store, manifest>>

\* A line reaches the file: behind a torn one it cannot be read.
Line(chunk) ==
  /\ IF torn THEN lost' = lost \cup ({chunk} \ rows) /\ UNCHANGED rows
             ELSE rows' = rows \cup {chunk} /\ UNCHANGED lost
  /\ torn' = FALSE

\* A line does not, or not whole.
NoLine(chunk) == lost' = lost \cup ({chunk} \ rows) /\ torn' \in {torn, TRUE} /\ UNCHANGED rows

\* The buffer is written at the end of the block.
Flush(t) ==
  /\ th[t].step = "flush"
  /\ Line(th[t].chunk)
  /\ Go(t, [th[t] EXCEPT !.step = "ingest"])
  /\ UNCHANGED <<memory, World, manifest>>

\* The write fails, and the whole indexing with it: the caller goes on without clauses.
FlushFails(t) ==
  /\ th[t].step = "flush" /\ faults < MaxFaults /\ faults' = faults + 1
  /\ NoLine(th[t].chunk)
  /\ Go(t, Idle)
  /\ UNCHANGED <<memory, pack, manifest>>

\* Mutant: the signature is taken when the manifest is written.
WriteManifestLate(t) ==
  /\ th[t].step = "ingest" /\ th[t].todo = {}
  /\ \/ manifest' = [sig |-> pack, failed |-> th[t].failed, by |-> {Of[t]},
                     chunks |-> Cardinality(memory[Of[t]])]
     \/ faults < MaxFaults /\ UNCHANGED manifest
  /\ Go(t, [th[t] EXCEPT !.step = "query", !.by = {Of[t]}])
  /\ UNCHANGED <<Store, World>>

\* The manifest is written when every file was read, or cannot be.
WriteManifest(t) ==
  /\ th[t].step = "ingest" /\ th[t].todo = {}
  /\ \/ manifest' = [sig |-> th[t].sig, failed |-> th[t].failed, by |-> {Of[t]},
                     chunks |-> Cardinality(memory[Of[t]])]
     \/ faults < MaxFaults /\ UNCHANGED manifest
  /\ Go(t, [th[t] EXCEPT !.step = "query", !.by = {Of[t]}])
  /\ UNCHANGED <<Store, World>>

-----------------------------------------------------------------------------
(* retrieve *)

\* The thread searches the store of its process, and is done.
Search(t) ==
  /\ th[t].step = "query"
  /\ Go(t, Idle)
  /\ UNCHANGED <<Store, World, manifest>>

-----------------------------------------------------------------------------
(* The operator and the processes *)

\* A file of the pack is changed.
EditsMade == MapThenSumSet(LAMBDA f : pack[f] - 1, Files)
Edit ==
  /\ EditsMade < MaxEdits
  /\ \E f \in Files : pack' = [pack EXCEPT ![f] = @ + 1]
  /\ UNCHANGED <<faults, Store, manifest, th>>

\* A process starts again and loads the lines that can be read.  A line it was writing may have
\* reached the file or not.
Restart(p) ==
  /\ faults < MaxFaults /\ faults' = faults + 1
  /\ \/ ~Locked(p) /\ UNCHANGED <<rows, torn, lost>>
     \/ \E t \in Threads : Of[t] = p /\ th[t].step = "flush" /\ (Line(th[t].chunk) \/ NoLine(th[t].chunk))
  /\ memory' = [memory EXCEPT ![p] = rows']
  /\ th' = [t \in Threads |-> IF Of[t] = p THEN Idle ELSE th[t]]
  /\ UNCHANGED <<pack, manifest>>

Index(t) == \/ Signature(t) \/ Compare(t) \/ ReadFile(t) \/ AddChunk(t) \/ OpenFails(t) \/ Flush(t)
            \/ FlushFails(t) \/ WriteManifest(t) \/ Search(t)

IndexNext == Edit \/ (\E t \in Threads : Index(t)) \/ (\E p \in Procs : Restart(p))

IndexSpec == IndexInit /\ [][IndexNext]_indexVars

-----------------------------------------------------------------------------
(* Properties *)

\* What is searched covers the scan of the pack: of every file of the scan a thread saw in the
\* folder the store it searches has that version or a newer one, unless the file could not be
\* read when it was indexed, its line in chunks.jsonl was lost to a write that failed or was
\* torn, or another process wrote the manifest that spared this one the indexing.
SearchCoversPack ==
  \A t \in Threads : th[t].step = "query" /\ th[t].by \subseteq {Of[t]} =>
    \A f \in Scanned \ th[t].failed :
      \/ th[t].sig[f] = 0
      \/ \E c \in memory[Of[t]] \cup lost : c[1] = f /\ c[2] >= th[t].sig[f]
=============================================================================
