---------------------------- MODULE LoanProofs -----------------------------
(***************************************************************************)
(* Proofs about the document jobs and what they search: the index of a     *)
(* policy pack, for any files, processes, threads, edits and faults; the   *)
(* threads of jobs, for any number of jobs and documents; the operators'   *)
(* prompts, for any types, texts, operators and failed saves; and the      *)
(* checks by a policy's rules, for any policies, bands and figures.        *)
(***************************************************************************)
EXTENDS LoanJobs, PolicyIndex, PromptStore, PolicyRules, FiniteSetTheorems, WellFoundedInduction, TLAPS

-----------------------------------------------------------------------------
(* The index of a policy *)

Chunks == Files \X Nat
Sigs == [Files -> Nat]
Doing == [step : {"idle", "compare", "ingest", "add", "flush", "query"}, sig : Sigs, todo : SUBSET Files,
          failed : SUBSET Files, by : SUBSET Procs, chunk : Chunks \cup {<<>>}]
IndexTypes ==
  /\ pack \in Sigs /\ memory \in [Procs -> SUBSET Chunks]
  /\ rows \subseteq Chunks /\ lost \subseteq Chunks
  /\ manifest.sig \in Sigs /\ manifest.failed \subseteq Files /\ manifest.by \subseteq Procs
  /\ th \in [Threads -> Doing]

\* The chunk a process has in memory and in its buffer, of which there is one at most.
Pending(p) == {th[t].chunk : t \in {u \in Threads : Of[u] = p /\ th[u].step = "flush"}}
Exclusive ==
  \A t, u \in Threads : Of[t] = Of[u] /\ th[t].step = "flush" /\ th[u].step = "flush" => t = u

\* What a process has in memory can be read from the file, is lost or is about to be written.
Persisted == \A p \in Procs : memory[p] \subseteq rows \cup lost \cup Pending(p)

\* The store of p has the version of f that a signature names, or a newer one.
Spans(p, sig, f) == sig[f] = 0 \/ \E c \in memory[p] \cup lost : c[1] = f /\ c[2] >= sig[f]

\* The manifest covers its signature in the store of who wrote it; before the first it names none.
ManifestCovers ==
  /\ manifest.by = {} => manifest.sig = NoSig
  /\ \A p \in manifest.by : \A f \in Scanned \ manifest.failed : Spans(p, manifest.sig, f)

\* A thread that indexes has covered the files it is done with; its signature is not newer than
\* the pack.
Covering(t) ==
  /\ \A f \in Files : th[t].sig[f] <= pack[f]
  /\ th[t].step = "add" => th[t].chunk[2] >= th[t].sig[th[t].chunk[1]]
  /\ th[t].step \in {"add", "flush"} => th[t].chunk \in Chunks
  /\ th[t].step \in {"ingest", "add", "flush"} =>
       \A f \in Scanned \ (th[t].todo \cup th[t].failed) :
         Spans(Of[t], th[t].sig, f) \/ (th[t].step = "add" /\ th[t].chunk[1] = f)
  /\ th[t].step = "query" /\ th[t].by \subseteq {Of[t]} =>
       \A f \in Scanned \ th[t].failed : Spans(Of[t], th[t].sig, f)

IndexInv == IndexTypes /\ Persisted /\ Exclusive /\ ManifestCovers /\ \A t \in Threads : Covering(t)

LEMMA IndexInitial == IndexInit => IndexInv
<1> SUFFICES ASSUME IndexInit PROVE IndexInv
  OBVIOUS
<1>1. IndexTypes
  BY DEF IndexInit, IndexTypes, Sigs, Chunks, NoManifest, NoSig, Doing, Idle
<1>2. Persisted /\ Exclusive /\ ManifestCovers
  BY DEF IndexInit, Persisted, Exclusive, ManifestCovers, NoManifest, Idle
<1>3. \A t \in Threads : Covering(t)
  BY DEF IndexInit, Covering, Idle, NoSig
<1> QED BY <1>1, <1>2, <1>3 DEF IndexInv

\* The chunk of the version a thread sees.
LEMMA ChunkSeen == ASSUME IndexTypes, NEW f \in Files PROVE <<f, pack[f]>> \in Chunks
  BY DEF IndexTypes, Sigs, Chunks

\* What a thread is about to do.
LEMMA DoingMoves ==
  ASSUME IndexTypes, NEW t \in Threads
  PROVE  /\ Signature(t) => \E new \in Doing :
              Go(t, new) /\ new.step \in {"compare", "query"} /\ new.sig \in {pack, NoSig}
              /\ (new.step = "query" => new.sig = NoSig)
         /\ Compare(t) => \E new \in Doing :
              /\ Go(t, new) /\ new.sig = th[t].sig
              /\ \/ Unchanged(t) /\ new.step = "query" /\ new.failed = manifest.failed /\ new.by = manifest.by
                 \/ new.step = "ingest" /\ new.todo = Scanned
         /\ AddChunk(t) => \E new \in Doing :
              /\ Go(t, new) /\ new.step = "flush" /\ new.sig = th[t].sig
              /\ new.todo = th[t].todo /\ new.failed = th[t].failed /\ new.chunk = th[t].chunk
         /\ Flush(t) => \E new \in Doing :
              /\ Go(t, new) /\ new.step = "ingest" /\ new.sig = th[t].sig
              /\ new.todo = th[t].todo /\ new.failed = th[t].failed
         /\ WriteManifest(t) => \E new \in Doing :
              /\ Go(t, new) /\ new.step = "query" /\ new.sig = th[t].sig /\ new.failed = th[t].failed
              /\ new.by = {Of[t]}
<1>0. th[t] \in Doing /\ NoSig \in Sigs /\ pack \in Sigs /\ Of[t] \in Procs /\ Scanned \subseteq Files
  BY IndexAssumption DEF IndexTypes, NoSig, Sigs
<1>1. Signature(t) => \E new \in Doing :
        /\ Go(t, new) /\ new.step \in {"compare", "query"} /\ new.sig \in {pack, NoSig}
        /\ new.step = "query" => new.sig = NoSig
  <2> HAVE Signature(t)
  <2>1. Go(t, [Idle EXCEPT !.step = "compare", !.sig = pack]) \/ Go(t, [Idle EXCEPT !.step = "query"])
    BY DEF Signature
  <2>2. [Idle EXCEPT !.step = "compare", !.sig = pack] \in Doing /\ [Idle EXCEPT !.step = "query"] \in Doing
    BY <1>0 DEF Idle, Doing
  <2> QED BY <2>1, <2>2 DEF Idle
<1>2. Compare(t) => \E new \in Doing :
        /\ Go(t, new) /\ new.sig = th[t].sig
        /\ \/ Unchanged(t) /\ new.step = "query" /\ new.failed = manifest.failed /\ new.by = manifest.by
           \/ new.step = "ingest" /\ new.todo = Scanned
  <2> HAVE Compare(t)
  <2>1. CASE Unchanged(t) /\ Go(t, Reuse(t))
    <3>1. /\ Reuse(t) \in Doing /\ Reuse(t).sig = th[t].sig /\ Reuse(t).step = "query"
          /\ Reuse(t).failed = manifest.failed /\ Reuse(t).by = manifest.by
      BY <1>0 DEF Reuse, Doing, IndexTypes
    <3> QED BY <2>1, <3>1
  <2>2. CASE Go(t, [th[t] EXCEPT !.step = "ingest", !.todo = Scanned])
    <3> DEFINE new == [th[t] EXCEPT !.step = "ingest", !.todo = Scanned]
    <3>1. new \in Doing /\ new.sig = th[t].sig /\ new.step = "ingest" /\ new.todo = Scanned
      BY <1>0 DEF Doing
    <3> QED BY <2>2, <3>1
  <2> QED BY <2>1, <2>2 DEF Compare
<1>3. AddChunk(t) => \E new \in Doing :
        /\ Go(t, new) /\ new.step = "flush" /\ new.sig = th[t].sig
        /\ new.todo = th[t].todo /\ new.failed = th[t].failed /\ new.chunk = th[t].chunk
  <2> HAVE AddChunk(t)
  <2> DEFINE new == [th[t] EXCEPT !.step = "flush"]
  <2>1. /\ new \in Doing /\ new.sig = th[t].sig /\ new.step = "flush"
        /\ new.todo = th[t].todo /\ new.failed = th[t].failed /\ new.chunk = th[t].chunk
    BY <1>0 DEF Doing
  <2> QED BY <2>1 DEF AddChunk
<1>5. Flush(t) => \E new \in Doing :
        /\ Go(t, new) /\ new.step = "ingest" /\ new.sig = th[t].sig
        /\ new.todo = th[t].todo /\ new.failed = th[t].failed
  <2> HAVE Flush(t)
  <2> DEFINE new == [th[t] EXCEPT !.step = "ingest"]
  <2>1. /\ new \in Doing /\ new.sig = th[t].sig /\ new.step = "ingest"
        /\ new.todo = th[t].todo /\ new.failed = th[t].failed
    BY <1>0 DEF Doing
  <2> QED BY <2>1 DEF Flush
<1>4. WriteManifest(t) => \E new \in Doing :
        /\ Go(t, new) /\ new.step = "query" /\ new.sig = th[t].sig /\ new.failed = th[t].failed
        /\ new.by = {Of[t]}
  <2> HAVE WriteManifest(t)
  <2> DEFINE new == [th[t] EXCEPT !.step = "query", !.by = {Of[t]}]
  <2>1. /\ new \in Doing /\ new.sig = th[t].sig /\ new.step = "query"
        /\ new.failed = th[t].failed /\ new.by = {Of[t]}
    BY <1>0 DEF Doing
  <2> QED BY <2>1 DEF WriteManifest
<1> QED BY <1>1, <1>2, <1>3, <1>4, <1>5

\* A file is read: it fails, is there already, or is to be added.
LEMMA FileRead ==
  ASSUME IndexTypes, NEW t \in Threads, ReadFile(t)
  PROVE  \E f \in th[t].todo : \E new \in Doing :
           /\ Go(t, new) /\ new.sig = th[t].sig /\ new.todo = th[t].todo \ {f} /\ new.by = th[t].by
           /\ \/ new.step = "ingest" /\ new.failed = th[t].failed \cup {f}
              \/ /\ new.step = "ingest" /\ new.failed = th[t].failed
                 /\ <<f, pack[f]>> \in memory[Of[t]]
              \/ new.step = "add" /\ new.failed = th[t].failed /\ new.chunk = <<f, pack[f]>>
<1>0. th[t] \in Doing /\ th[t].step = "ingest" /\ th[t].todo \subseteq Files
  BY DEF IndexTypes, ReadFile, Doing
<1>1. PICK f \in th[t].todo :
        LET left == [th[t] EXCEPT !.todo = @ \ {f}]
        IN \/ Go(t, [left EXCEPT !.failed = @ \cup {f}])
           \/ Go(t, IF <<f, pack[f]>> \in memory[Of[t]] THEN left
                    ELSE [left EXCEPT !.step = "add", !.chunk = <<f, pack[f]>>])
  BY DEF ReadFile
<1> DEFINE left == [th[t] EXCEPT !.todo = @ \ {f}]
           chunk == <<f, pack[f]>>
<1>2. /\ left \in Doing /\ left.sig = th[t].sig /\ left.todo = th[t].todo \ {f} /\ left.by = th[t].by
      /\ left.step = "ingest" /\ left.failed = th[t].failed
  BY <1>0 DEF Doing
<1>3. chunk \in Chunks
  BY <1>0, ChunkSeen
<1>4. \/ Go(t, [left EXCEPT !.failed = @ \cup {f}])
      \/ chunk \in memory[Of[t]] /\ Go(t, left)
      \/ Go(t, [left EXCEPT !.step = "add", !.chunk = chunk])
  BY <1>1
<1> HIDE DEF left, chunk
<1>5. CASE Go(t, [left EXCEPT !.failed = @ \cup {f}])
  <2> DEFINE new == [left EXCEPT !.failed = @ \cup {f}]
  <2>1. /\ new \in Doing /\ new.sig = th[t].sig /\ new.todo = th[t].todo \ {f} /\ new.by = th[t].by
        /\ new.step = "ingest" /\ new.failed = th[t].failed \cup {f}
    BY <1>0, <1>2 DEF Doing
  <2> QED BY <1>5, <2>1
<1>6. CASE chunk \in memory[Of[t]] /\ Go(t, left)
  BY <1>2, <1>6 DEF chunk
<1>7. CASE Go(t, [left EXCEPT !.step = "add", !.chunk = chunk])
  <2> DEFINE new == [left EXCEPT !.step = "add", !.chunk = chunk]
  <2>1. /\ new \in Doing /\ new.sig = th[t].sig /\ new.todo = th[t].todo \ {f} /\ new.by = th[t].by
        /\ new.step = "add" /\ new.failed = th[t].failed /\ new.chunk = chunk
    BY <1>2, <1>3 DEF Doing
  <2> QED BY <1>7, <2>1 DEF chunk
<1> QED BY <1>4, <1>5, <1>6, <1>7

LEMMA IdleDoes == Idle \in Doing /\ Idle.step = "idle" /\ Idle.sig = NoSig
  BY DEF Idle, Doing, Sigs, NoSig

\* The stores: nothing that is covered is uncovered.
LEMMA StoresGrow ==
  ASSUME IndexInv, IndexNext
  PROVE  /\ memory' \in [Procs -> SUBSET Chunks] /\ rows' \subseteq Chunks /\ lost' \subseteq Chunks
         /\ \A p \in Procs : memory[p] \cup lost \subseteq memory'[p] \cup lost'
         /\ rows \subseteq rows' /\ lost \subseteq lost'
<1> USE IndexAssumption DEF IndexInv, IndexTypes
<1>1. CASE UNCHANGED <<rows, memory, lost>>
  BY <1>1
<1>2. ASSUME NEW t \in Threads, th[t].step \in {"add", "flush"} PROVE th[t].chunk \in Chunks
  BY <1>2 DEF Covering
<1>3. CASE \E t \in Threads : AddChunk(t)
  <2> PICK t \in Threads : AddChunk(t)
    BY <1>3
  <2>1. memory' = [memory EXCEPT ![Of[t]] = @ \cup {th[t].chunk}] /\ UNCHANGED <<rows, lost>>
    BY DEF AddChunk
  <2>2. th[t].chunk \in Chunks
    BY <1>2 DEF AddChunk
  <2> QED BY <2>1, <2>2
<1>4. ASSUME NEW c \in Chunks, Line(c) \/ NoLine(c)
      PROVE  /\ rows' \subseteq Chunks /\ lost' \subseteq Chunks /\ rows \subseteq rows' /\ lost \subseteq lost'
             /\ c \in rows' \cup lost'
  BY <1>4 DEF Line, NoLine
<1>5. CASE \E t \in Threads : Flush(t) \/ FlushFails(t)
  <2> PICK t \in Threads : Flush(t) \/ FlushFails(t)
    BY <1>5
  <2>1. (Line(th[t].chunk) \/ NoLine(th[t].chunk)) /\ UNCHANGED memory
    BY DEF Flush, FlushFails
  <2>2. th[t].chunk \in Chunks
    BY <1>2 DEF Flush, FlushFails
  <2> QED BY <1>4, <2>1, <2>2
<1>6. CASE \E p \in Procs : Restart(p)
  <2> PICK p \in Procs : Restart(p)
    BY <1>6
  <2>1. memory' = [memory EXCEPT ![p] = rows']
    BY DEF Restart
  <2>2. /\ rows' \subseteq Chunks /\ lost' \subseteq Chunks /\ rows \subseteq rows' /\ lost \subseteq lost'
        /\ Pending(p) \subseteq rows' \cup lost'
    <3>1. CASE ~Locked(p) /\ UNCHANGED <<rows, torn, lost>>
      BY <3>1 DEF Locked, Pending
    <3>2. CASE \E t \in Threads : Of[t] = p /\ th[t].step = "flush" /\ (Line(th[t].chunk) \/ NoLine(th[t].chunk))
      <4> PICK t \in Threads : Of[t] = p /\ th[t].step = "flush" /\ (Line(th[t].chunk) \/ NoLine(th[t].chunk))
        BY <3>2
      <4>1. th[t].chunk \in Chunks
        BY <1>2
      <4>2. Pending(p) \subseteq {th[t].chunk}
        BY DEF Pending, Exclusive
      <4> QED BY <1>4, <4>1, <4>2
    <3> QED BY <3>1, <3>2 DEF Restart
  <2>3. memory[p] \subseteq rows \cup lost \cup Pending(p)
    BY DEF Persisted
  <2> QED BY <2>1, <2>2, <2>3
<1>7. CASE Edit \/ \E t \in Threads : Signature(t) \/ Compare(t) \/ ReadFile(t) \/ OpenFails(t) \/ WriteManifest(t)
                                       \/ Search(t)
  BY <1>1, <1>7 DEF Edit, Signature, Compare, ReadFile, OpenFails, WriteManifest, Search, Store
<1> QED BY <1>3, <1>5, <1>6, <1>7 DEF IndexNext, Index

\* So what is covered stays covered.
LEMMA CoversOn ==
  ASSUME NEW p, memory[p] \cup lost \subseteq memory'[p] \cup lost'
  PROVE  \A sig, f : Spans(p, sig, f) => Spans(p, sig, f)'
  BY DEF Spans

\* The pack only gets newer.
LEMMA PackGrows ==
  ASSUME IndexTypes, IndexNext
  PROVE  pack' \in Sigs /\ \A f \in Files : pack[f] <= pack'[f]
<1>1. CASE Edit
  BY <1>1 DEF Edit, IndexTypes, Sigs
<1>2. CASE pack' = pack
  BY <1>2 DEF IndexTypes, Sigs
<1> QED
  BY <1>1, <1>2 DEF IndexNext, Index, Signature, Compare, ReadFile, AddChunk, OpenFails, Flush, FlushFails,
     WriteManifest, Search, Restart, World

\* A thread that did not step: nothing it relies on is lost.
LEMMA CoveringKept ==
  ASSUME IndexInv, IndexNext, NEW t \in Threads, th'[t] = th[t] PROVE Covering(t)'
<1>1. Of[t] \in Procs
  BY IndexAssumption
<1>2. \A sig, f : Spans(Of[t], sig, f) => Spans(Of[t], sig, f)'
  BY <1>1, StoresGrow, CoversOn
<1>3. \A f \in Files : pack[f] <= pack'[f] /\ pack[f] \in Nat /\ pack'[f] \in Nat /\ th[t].sig[f] \in Nat
  <2>1. th[t].sig \in Sigs
    BY DEF IndexInv, IndexTypes, Doing
  <2> QED BY <2>1, PackGrows DEF IndexInv, IndexTypes, Sigs
<1>4. PICK d : d = th[t]
  OBVIOUS
<1>5. /\ \A f \in Files : d.sig[f] <= pack[f]
      /\ d.step = "add" => d.chunk[2] >= d.sig[d.chunk[1]]
      /\ d.step \in {"add", "flush"} => d.chunk \in Chunks
      /\ d.step \in {"ingest", "add", "flush"} =>
           \A f \in Scanned \ (d.todo \cup d.failed) :
             Spans(Of[t], d.sig, f) \/ (d.step = "add" /\ d.chunk[1] = f)
      /\ d.step = "query" /\ d.by \subseteq {Of[t]} =>
           \A f \in Scanned \ d.failed : Spans(Of[t], d.sig, f)
  BY <1>4 DEF IndexInv, Covering
<1>6. \A f \in Files : d.sig[f] <= pack'[f]
  BY <1>3, <1>4, <1>5
<1>7. th'[t] = d
  BY <1>4
<1> QED BY <1>2, <1>5, <1>6, <1>7 DEF Covering

\* Where a thread goes: what Covering asks of it, for the record it gets.
CoveredBy(t, d) ==
  /\ \A f \in Files : d.sig[f] <= pack[f]
  /\ d.step = "add" => d.chunk[2] >= d.sig[d.chunk[1]]
  /\ d.step \in {"add", "flush"} => d.chunk \in Chunks
  /\ d.step \in {"ingest", "add", "flush"} =>
       \A f \in Scanned \ (d.todo \cup d.failed) :
         Spans(Of[t], d.sig, f) \/ (d.step = "add" /\ d.chunk[1] = f)
  /\ d.step = "query" /\ d.by \subseteq {Of[t]} => \A f \in Scanned \ d.failed : Spans(Of[t], d.sig, f)

\* A thread's step: it goes to a record that covers what it is done with.
LEMMA CoveringMoves ==
  ASSUME IndexInv, IndexNext, NEW t \in Threads, Index(t)
  PROVE  \E new \in Doing : Go(t, new) /\ CoveredBy(t, new)'
<1> DEFINE p == Of[t]
<1>0. /\ IndexTypes /\ Covering(t) /\ p \in Procs /\ th[t] \in Doing
      /\ pack \in Sigs /\ pack' \in Sigs /\ th[t].sig \in Sigs
  BY IndexAssumption, PackGrows DEF IndexInv, IndexTypes, Doing
<1>1. \A sig, f : Spans(p, sig, f) => Spans(p, sig, f)'
  BY <1>0, StoresGrow, CoversOn
<1>2. \A f \in Files : th[t].sig[f] <= pack'[f] /\ NoSig[f] = 0 /\ pack[f] <= pack'[f]
  BY <1>0, PackGrows DEF Covering, Sigs, NoSig
<1>3. CASE Signature(t)
  <2>1. PICK new \in Doing :
          Go(t, new) /\ new.step \in {"compare", "query"} /\ new.sig \in {pack, NoSig}
          /\ (new.step = "query" => new.sig = NoSig)
    BY <1>0, <1>3, DoingMoves
  <2>2. \A f \in Files : new.sig[f] <= pack'[f]
    BY <2>1, <1>0, <1>2 DEF Sigs
  <2>3. CoveredBy(t, new)'
    BY <2>1, <2>2, <1>2, IndexAssumption DEF CoveredBy, Spans, NoSig
  <2> QED BY <2>1, <2>3
<1>4. CASE Compare(t)
  <2>1. PICK new \in Doing :
          /\ Go(t, new) /\ new.sig = th[t].sig
          /\ \/ Unchanged(t) /\ new.step = "query" /\ new.failed = manifest.failed /\ new.by = manifest.by
             \/ new.step = "ingest" /\ new.todo = Scanned
    BY <1>0, <1>4, DoingMoves
  <2>2. CASE new.step = "ingest" /\ new.todo = Scanned
    <3>1. CoveredBy(t, new)'
      BY <2>1, <2>2, <1>2 DEF CoveredBy
    <3> QED BY <2>1, <3>1
  <2>3. CASE Unchanged(t) /\ new.step = "query" /\ new.failed = manifest.failed /\ new.by = manifest.by
    <3>1. new.by \subseteq {p} => \A f \in Scanned \ new.failed : Spans(p, new.sig, f)
      <4>1. manifest.sig = new.sig
        BY <2>1, <2>3 DEF Unchanged
      <4>2. CASE manifest.by = {}
        BY <4>1, <4>2, IndexAssumption DEF IndexInv, ManifestCovers, Spans, NoSig
      <4>3. CASE p \in manifest.by
        BY <4>1, <4>3, <2>3 DEF IndexInv, ManifestCovers
      <4> QED BY <4>2, <4>3, <2>3
    <3>2. CoveredBy(t, new)'
      BY <3>1, <2>1, <2>3, <1>1, <1>2 DEF CoveredBy
    <3> QED BY <2>1, <3>2
  <2> QED BY <2>1, <2>2, <2>3
<1>5. CASE ReadFile(t)
  <2>1. PICK f \in th[t].todo : \E new \in Doing :
          /\ Go(t, new) /\ new.sig = th[t].sig /\ new.todo = th[t].todo \ {f} /\ new.by = th[t].by
          /\ \/ new.step = "ingest" /\ new.failed = th[t].failed \cup {f}
             \/ new.step = "ingest" /\ new.failed = th[t].failed /\ <<f, pack[f]>> \in memory[Of[t]]
             \/ new.step = "add" /\ new.failed = th[t].failed /\ new.chunk = <<f, pack[f]>>
    BY <1>0, <1>5, FileRead
  <2>2. PICK new \in Doing :
          /\ Go(t, new) /\ new.sig = th[t].sig /\ new.todo = th[t].todo \ {f} /\ new.by = th[t].by
          /\ \/ new.step = "ingest" /\ new.failed = th[t].failed \cup {f}
             \/ new.step = "ingest" /\ new.failed = th[t].failed /\ <<f, pack[f]>> \in memory[Of[t]]
             \/ new.step = "add" /\ new.failed = th[t].failed /\ new.chunk = <<f, pack[f]>>
    BY <2>1
  <2>3. f \in Files /\ th[t].step = "ingest" /\ pack[f] >= th[t].sig[f] /\ pack[f] \in Nat
    BY <1>0, <1>5 DEF ReadFile, Doing, Covering, Sigs
  <2>4. \A g \in Scanned \ (th[t].todo \cup th[t].failed) : Spans(p, th[t].sig, g)
    BY <1>0, <2>3 DEF Covering
  <2>5. <<f, pack[f]>> \in Chunks /\ <<f, pack[f]>>[1] = f /\ <<f, pack[f]>>[2] = pack[f]
    BY <2>3 DEF Chunks
  <2>6. CASE new.step = "ingest" /\ new.failed = th[t].failed \cup {f}
    <3>1. \A g \in Scanned \ (new.todo \cup new.failed) : Spans(p, new.sig, g)
      BY <2>2, <2>4, <2>6
    <3>2. CoveredBy(t, new)'
      BY <3>1, <2>2, <2>6, <1>1, <1>2 DEF CoveredBy
    <3> QED BY <2>2, <3>2
  <2>7. CASE new.step = "ingest" /\ new.failed = th[t].failed /\ <<f, pack[f]>> \in memory[p]
    <3>0. Spans(p, th[t].sig, f)
      BY <2>3, <2>5, <2>7 DEF Spans
    <3>1. \A g \in Scanned \ (new.todo \cup new.failed) : Spans(p, new.sig, g)
      BY <2>2, <2>4, <2>7, <3>0
    <3>2. CoveredBy(t, new)'
      BY <3>1, <2>2, <2>7, <1>1, <1>2 DEF CoveredBy
    <3> QED BY <2>2, <3>2
  <2>8. CASE new.step = "add" /\ new.failed = th[t].failed /\ new.chunk = <<f, pack[f]>>
    <3>1. \A g \in Scanned \ (new.todo \cup new.failed) : Spans(p, new.sig, g) \/ new.chunk[1] = g
      BY <2>2, <2>4, <2>5, <2>8
    <3>2. new.chunk \in Chunks /\ new.chunk[2] >= new.sig[new.chunk[1]]
      BY <2>2, <2>3, <2>5, <2>8
    <3>3. CoveredBy(t, new)'
      BY <3>1, <3>2, <2>2, <2>8, <1>1, <1>2 DEF CoveredBy
    <3> QED BY <2>2, <3>3
  <2> QED BY <2>2, <2>6, <2>7, <2>8
<1>6. CASE AddChunk(t)
  <2>1. PICK new \in Doing :
          /\ Go(t, new) /\ new.step = "flush" /\ new.sig = th[t].sig
          /\ new.todo = th[t].todo /\ new.failed = th[t].failed /\ new.chunk = th[t].chunk
    BY <1>0, <1>6, DoingMoves
  <2> DEFINE c == th[t].chunk
  <2>2. th[t].step = "add" /\ c \in Chunks /\ c[2] >= th[t].sig[c[1]]
    BY <1>0, <1>6 DEF AddChunk, Covering
  <2>3. c \in memory'[p]
    BY <1>0, <1>6 DEF AddChunk, IndexTypes
  <2>4. PICK sig : sig = th[t].sig
    OBVIOUS
  <2>5. \A g \in Scanned \ (new.todo \cup new.failed) : Spans(p, new.sig, g)'
    <3> TAKE g \in Scanned \ (new.todo \cup new.failed)
    <3>1. Spans(p, sig, g) \/ c[1] = g
      BY <1>0, <2>1, <2>2, <2>4 DEF Covering
    <3>2. CASE Spans(p, sig, g)
      BY <3>2, <1>1, <2>1, <2>4
    <3>3. CASE c[1] = g
      BY <3>3, <2>1, <2>2, <2>3, <2>4 DEF Spans
    <3> QED BY <3>1, <3>2, <3>3
  <2>6. CoveredBy(t, new)'
    BY <2>5, <2>1, <2>2, <1>2 DEF CoveredBy
  <2> QED BY <2>1, <2>6
<1>9. CASE Flush(t)
  <2>1. PICK new \in Doing :
          /\ Go(t, new) /\ new.step = "ingest" /\ new.sig = th[t].sig
          /\ new.todo = th[t].todo /\ new.failed = th[t].failed
    BY <1>0, <1>9, DoingMoves
  <2>2. \A g \in Scanned \ (new.todo \cup new.failed) : Spans(p, new.sig, g)
    BY <1>0, <1>9, <2>1 DEF Covering, Flush
  <2>3. CoveredBy(t, new)'
    BY <2>1, <2>2, <1>1, <1>2 DEF CoveredBy
  <2> QED BY <2>1, <2>3
<1>7. CASE WriteManifest(t)
  <2>1. PICK new \in Doing :
          /\ Go(t, new) /\ new.step = "query" /\ new.sig = th[t].sig /\ new.failed = th[t].failed
          /\ new.by = {Of[t]}
    BY <1>0, <1>7, DoingMoves
  <2>2. \A f \in Scanned \ new.failed : Spans(p, new.sig, f)
    BY <2>1, <1>0, <1>7 DEF WriteManifest, Covering
  <2>3. CoveredBy(t, new)'
    BY <2>1, <2>2, <1>1, <1>2 DEF CoveredBy
  <2> QED BY <2>1, <2>3
<1>8. CASE OpenFails(t) \/ FlushFails(t) \/ Search(t)
  <2>1. Go(t, Idle)
    BY <1>8 DEF OpenFails, FlushFails, Search
  <2>2. CoveredBy(t, Idle)'
    BY <1>0, IdleDoes, <1>2 DEF CoveredBy, Sigs
  <2> QED BY <2>1, <2>2, IdleDoes
<1> QED BY <1>3, <1>4, <1>5, <1>6, <1>7, <1>8, <1>9 DEF Index

\* Where the records go.
LEMMA RecordsMove ==
  ASSUME IndexInv, IndexNext
  PROVE  th' \in [Threads -> Doing] /\ \A t \in Threads : Covering(t)'
<1>0. th \in [Threads -> Doing]
  BY DEF IndexInv, IndexTypes
<1>1. CASE Edit
  <2>1. th' = th
    BY <1>1 DEF Edit
  <2> QED BY <2>1, <1>0, CoveringKept
<1>2. CASE \E t \in Threads : Index(t)
  <2> PICK t \in Threads : Index(t)
    BY <1>2
  <2>1. PICK new \in Doing : Go(t, new) /\ CoveredBy(t, new)'
    BY CoveringMoves
  <2>2. th' \in [Threads -> Doing] /\ th'[t] = new /\ \A u \in Threads \ {t} : th'[u] = th[u]
    BY <2>1, <1>0 DEF Go
  <2>3. Covering(t)'
    BY <2>1, <2>2 DEF CoveredBy, Covering
  <2>4. \A u \in Threads \ {t} : Covering(u)'
    BY <2>2, CoveringKept
  <2> QED BY <2>2, <2>3, <2>4
<1>3. CASE \E p \in Procs : Restart(p)
  <2> PICK p \in Procs : Restart(p)
    BY <1>3
  <2>1. th' = [t \in Threads |-> IF Of[t] = p THEN Idle ELSE th[t]] /\ pack' = pack
    BY DEF Restart
  <2>2. th' \in [Threads -> Doing]
    BY <2>1, <1>0, IdleDoes
  <2>3. ASSUME NEW t \in Threads PROVE Covering(t)'
    <3>1. CASE Of[t] = p
      <4>1. th'[t] = Idle /\ pack' \in Sigs
        BY <2>1, <3>1 DEF IndexInv, IndexTypes
      <4> QED BY <4>1, IdleDoes DEF Covering, NoSig, Sigs
    <3>2. CASE Of[t] # p
      BY <2>1, <3>2, CoveringKept
    <3> QED BY <3>1, <3>2
  <2> QED BY <2>2, <2>3
<1> QED BY <1>1, <1>2, <1>3 DEF IndexNext

\* The manifest that is written covers the signature its thread took.
LEMMA ManifestMoves ==
  ASSUME IndexInv, IndexNext
  PROVE  /\ manifest'.sig \in Sigs /\ manifest'.failed \subseteq Files /\ manifest'.by \subseteq Procs
         /\ ManifestCovers'
<1>1. CASE manifest' = manifest
  <2>1. PICK m : m = manifest
    OBVIOUS
  <2>2. m.by \subseteq Procs /\ m.sig \in Sigs /\ m.failed \subseteq Files
    BY <2>1 DEF IndexInv, IndexTypes
  <2>3. \A p \in m.by : \A f \in Scanned \ m.failed : Spans(p, m.sig, f)
    BY <2>1 DEF IndexInv, ManifestCovers
  <2>4. \A p \in m.by : \A f \in Scanned \ m.failed : Spans(p, m.sig, f)'
    BY <2>2, <2>3, StoresGrow, CoversOn
  <2>5. m.by = {} => m.sig = NoSig
    BY <2>1 DEF IndexInv, ManifestCovers
  <2> QED BY <1>1, <2>1, <2>2, <2>4, <2>5 DEF ManifestCovers
<1>2. CASE \E t \in Threads : WriteManifest(t) /\ manifest' # manifest
  <2> PICK t \in Threads : WriteManifest(t) /\ manifest' # manifest
    BY <1>2
  <2>1. PICK d \in Doing : d = th[t]
    BY DEF IndexInv, IndexTypes
  <2>2. /\ manifest'.sig = d.sig /\ manifest'.failed = d.failed /\ manifest'.by = {Of[t]}
        /\ d.step = "ingest" /\ d.todo = {}
    BY <2>1 DEF WriteManifest
  <2>3. Of[t] \in Procs
    BY IndexAssumption
  <2>4. \A f \in Scanned \ d.failed : Spans(Of[t], d.sig, f)
    BY <2>1, <2>2 DEF IndexInv, Covering
  <2>5. \A f \in Scanned \ d.failed : Spans(Of[t], d.sig, f)'
    BY <2>3, <2>4, StoresGrow, CoversOn
  <2> QED BY <2>2, <2>3, <2>5 DEF ManifestCovers, Doing
<1> QED
  BY <1>1, <1>2 DEF IndexNext, Edit, Index, Signature, Compare, ReadFile, AddChunk, OpenFails, Flush, FlushFails,
     Search, Restart

\* A thread's step that neither enters nor leaves the lock.
LEMMA PendingKept ==
  ASSUME IndexInv, NEW t \in Threads, NEW new, Go(t, new), th[t].step # "flush", new.step # "flush"
  PROVE  Exclusive' /\ \A p \in Procs : Pending(p)' = Pending(p)
<1>1. th \in [Threads -> Doing]
  BY DEF IndexInv, IndexTypes
<1>2. \A u \in Threads : /\ th'[u].step = "flush" <=> th[u].step = "flush"
                         /\ th[u].step = "flush" => th'[u] = th[u]
  BY <1>1 DEF Go
<1>3. Exclusive
  BY DEF IndexInv
<1> QED
  BY <1>2, <1>3 DEF Exclusive, Pending

\* What is in memory stays on file, lost or about to be written, and one thread writes at a time.
LEMMA PersistedOn == ASSUME IndexInv, IndexNext PROVE Persisted' /\ Exclusive'
<1>0. th \in [Threads -> Doing] /\ memory \in [Procs -> SUBSET Chunks] /\ Persisted /\ Exclusive
  BY DEF IndexInv, IndexTypes
<1>1. rows \subseteq rows' /\ lost \subseteq lost'
  BY StoresGrow
<1>2. CASE \E t \in Threads : Signature(t) \/ Compare(t) \/ ReadFile(t) \/ OpenFails(t) \/ WriteManifest(t) \/ Search(t)
  <2> PICK t \in Threads : Signature(t) \/ Compare(t) \/ ReadFile(t) \/ OpenFails(t) \/ WriteManifest(t) \/ Search(t)
    BY <1>2
  <2>1. th[t].step # "flush"
    BY DEF Signature, Compare, ReadFile, OpenFails, WriteManifest, Search
  <2>2. \E new : Go(t, new) /\ new.step # "flush"
    <3>1. CASE Signature(t) \/ Compare(t) \/ WriteManifest(t)
      BY <3>1, DoingMoves DEF IndexInv
    <3>2. CASE ReadFile(t)
      BY <3>2, FileRead DEF IndexInv
    <3>3. CASE OpenFails(t) \/ Search(t)
      BY <3>3, IdleDoes DEF OpenFails, Search
    <3> QED BY <3>1, <3>2, <3>3
  <2>3. Exclusive' /\ \A p \in Procs : Pending(p)' = Pending(p)
    BY <2>1, <2>2, PendingKept
  <2>4. UNCHANGED <<rows, memory, lost>>
    BY DEF Signature, Compare, ReadFile, OpenFails, WriteManifest, Search, Store
  <2> QED BY <1>0, <2>3, <2>4 DEF Persisted
<1>3. CASE \E t \in Threads : AddChunk(t)
  <2> PICK t \in Threads : AddChunk(t)
    BY <1>3
  <2>1. PICK new \in Doing : Go(t, new) /\ new.step = "flush" /\ new.chunk = th[t].chunk
    BY DoingMoves DEF IndexInv
  <2>2. th'[t] = new /\ \A u \in Threads \ {t} : th'[u] = th[u]
    BY <1>0, <2>1 DEF Go
  <2>3. \A u \in Threads : Of[u] = Of[t] => th[u].step # "flush"
    BY DEF AddChunk, Locked
  <2>4. Exclusive'
    BY <1>0, <2>2, <2>3 DEF Exclusive
  <2>5. /\ UNCHANGED <<rows, lost>> /\ th[t].step # "flush"
        /\ \A p \in Procs : memory'[p] \subseteq memory[p] \cup (IF p = Of[t] THEN {th[t].chunk} ELSE {})
    BY <1>0 DEF AddChunk
  <2>6. ASSUME NEW p \in Procs PROVE Pending(p) \subseteq Pending(p)'
    BY <2>2, <2>5 DEF Pending
  <2>7. th[t].chunk \in Pending(Of[t])'
    BY <2>1, <2>2 DEF Pending
  <2> QED BY <1>0, <2>4, <2>5, <2>6, <2>7 DEF Persisted
<1>4. CASE \E t \in Threads : Flush(t) \/ FlushFails(t)
  <2> PICK t \in Threads : Flush(t) \/ FlushFails(t)
    BY <1>4
  <2>1. \E new : Go(t, new) /\ new.step # "flush"
    <3>1. CASE Flush(t)
      BY <3>1, DoingMoves DEF IndexInv
    <3>2. CASE FlushFails(t)
      BY <3>2, IdleDoes DEF FlushFails
    <3> QED BY <3>1, <3>2
  <2>2. th'[t].step # "flush" /\ \A u \in Threads \ {t} : th'[u] = th[u]
    BY <1>0, <2>1 DEF Go
  <2>3. Exclusive'
    BY <1>0, <2>2 DEF Exclusive
  <2>4. UNCHANGED memory /\ th[t].chunk \in rows' \cup lost'
    BY DEF Flush, FlushFails, Line, NoLine
  <2>5. ASSUME NEW p \in Procs PROVE Pending(p) \subseteq Pending(p)' \cup {th[t].chunk}
    BY <2>2 DEF Pending
  <2> QED BY <1>0, <1>1, <2>3, <2>4, <2>5 DEF Persisted
<1>5. CASE \E p \in Procs : Restart(p)
  <2> PICK p \in Procs : Restart(p)
    BY <1>5
  <2>1. \A t \in Threads : th'[t] = IF Of[t] = p THEN Idle ELSE th[t]
    BY <1>0 DEF Restart
  <2>2. Exclusive'
    BY <1>0, <2>1, IdleDoes DEF Exclusive
  <2>3. memory'[p] = rows' /\ \A q \in Procs \ {p} : memory'[q] = memory[q]
    BY <1>0 DEF Restart
  <2>4. ASSUME NEW q \in Procs, q # p PROVE Pending(q) \subseteq Pending(q)'
    BY <2>1, <2>4 DEF Pending
  <2> QED BY <1>0, <1>1, <2>2, <2>3, <2>4 DEF Persisted
<1>6. CASE Edit
  BY <1>0, <1>6 DEF Edit, Store, Persisted, Exclusive, Pending
<1> QED BY <1>2, <1>3, <1>4, <1>5, <1>6 DEF IndexNext, Index

\* What a thread searches covers the scan of the pack it saw, whatever is edited, restarted or
\* not written, between the chunk that comes to memory and its line, too.
THEOREM SearchCovers == IndexSpec => []SearchCoversPack
<1>1. IndexInv /\ [IndexNext]_indexVars => IndexInv'
  <2> SUFFICES ASSUME IndexInv, [IndexNext]_indexVars PROVE IndexInv'
    OBVIOUS
  <2>1. CASE IndexNext
    <3>1. IndexTypes'
      BY <2>1, StoresGrow, PackGrows, RecordsMove, ManifestMoves DEF IndexInv, IndexTypes
    <3> QED BY <2>1, <3>1, PersistedOn, RecordsMove, ManifestMoves DEF IndexInv
  <2>2. CASE UNCHANGED indexVars
    BY <2>2 DEF indexVars, IndexInv, IndexTypes, Persisted, Exclusive, Pending, ManifestCovers, Covering, Spans
  <2> QED BY <2>1, <2>2
<1>2. IndexInv => SearchCoversPack
  BY DEF IndexInv, SearchCoversPack, Covering, Spans
<1> QED BY <1>1, <1>2, IndexInitial, PTL DEF IndexSpec

-----------------------------------------------------------------------------
(* The jobs *)

Modes == {"deterministic", "ai_first"}
JobSteps == {"queued", "docs", "plan", "exceptions", "resolve", "ask", "assess", "report", "ending", "over"}
Statuses == {"queued", "running"} \cup Ended
Events == [type : {"started", "doc", "ended", "stream_end"}, status : {""} \cup Statuses, done : Nat]
Reports == [processed : Nat, failed : Nat, clean : Nat, escalated : Nat]
Jobs == [mode : Modes, step : JobSteps, status : Statuses, done : Nat, read : Nat, resolved : Nat,
         alive : SUBSET {"processor"}, cancelled : BOOLEAN, report : Reports, q : Seq(Events)]

\* The calls that a cancelled job can still begin from where it stands, and the most it may.
Bound(job) == IF job.mode = "deterministic" THEN 2 ELSE 1
Left(job) ==
  IF job.mode = "deterministic"
  THEN IF job.step \in {"queued", "docs", "plan", "resolve"} THEN 2 ELSE IF job.step = "exceptions" THEN 1 ELSE 0
  ELSE IF job.step \in {"queued", "plan", "ask", "assess"} THEN 1 ELSE 0

\* A job with n calls begun after it was cancelled.
CallsOk(job, n) ==
  /\ n \in Nat /\ n + Left(job) <= Bound(job)
  /\ ~job.cancelled => n = 0

\* Where it stands: what it has done, and who works on it.
PlaceOk(job) ==
  /\ job.step \in {"exceptions", "resolve"} => job.mode = "deterministic"
  /\ job.step \in {"ask", "assess"} => job.mode = "ai_first"
  /\ job.read <= job.done
  /\ job.step \in {"exceptions", "resolve", "assess", "report"} => job.done = Docs
  /\ job.step = "plan" /\ job.mode = "deterministic" => job.done = Docs
  /\ job.step = "report" => job.alive = {}
  /\ job.step \in {"ending", "over"} <=> job.status \in Ended
  /\ job.status = "completed" =>
       /\ job.alive = {}
       /\ job.report.processed + job.report.failed = Docs
       /\ job.report.clean + job.report.escalated = Docs

\* What is in its queue: nothing that is ahead of it, and its end once, last and as it was.
QueueOk(job) ==
  \A i \in DOMAIN job.q :
    /\ job.q[i].type \in {"started", "doc"} => job.q[i].done <= job.done
    /\ job.q[i].type = "ended" => job.q[i].status = job.status /\ job.q[i].done = job.done
    /\ job.q[i].type \in {"ended", "stream_end"} =>
         job.step = "over" /\ \A k \in DOMAIN job.q : k > i => job.q[k].type = "stream_end"

JobOk(job, n) == job \in Jobs /\ CallsOk(job, n) /\ PlaceOk(job) /\ QueueOk(job)

JobsInv ==
  /\ jobs \in Seq(Jobs) /\ Len(jobs) <= MaxJobs
  /\ DOMAIN late = 1..MaxJobs /\ \A j \in 1..MaxJobs : j > Len(jobs) => late[j] = 0
  /\ \A j \in DOMAIN jobs : JobOk(jobs[j], late[j])

\* The record of a job that moves.
LEMMA JobMoves ==
  ASSUME JobsInv, NEW j \in DOMAIN jobs, NEW new \in Jobs, jobs' = [jobs EXCEPT ![j] = new]
  PROVE  /\ jobs' \in Seq(Jobs) /\ Len(jobs') = Len(jobs) /\ DOMAIN jobs' = DOMAIN jobs
         /\ jobs'[j] = new /\ \A i \in DOMAIN jobs \ {j} : jobs'[i] = jobs[i]
  BY DEF JobsInv

\* Nothing but the end of a job makes its queue hold an end.
LEMMA QueueKept ==
  ASSUME NEW d \in Jobs, NEW new \in Jobs, QueueOk(d), d.step # "over", d.done <= new.done,
         \/ new.q = d.q
         \/ \E e \in Events : new.q = Append(d.q, e) /\ e.type \in {"started", "doc"} /\ e.done <= new.done
  PROVE  QueueOk(new)
<1>a. d.q \in Seq(Events) /\ d.done \in Nat /\ new.done \in Nat
  BY DEF Jobs
<1>b. \A i \in DOMAIN d.q : d.q[i] \in Events
  BY <1>a
<1>1. /\ d.q \in Seq(Events) /\ d.done \in Nat /\ new.done \in Nat
      /\ \A i \in DOMAIN d.q : d.q[i] \in Events /\ d.q[i].done \in Nat
  BY <1>a, <1>b DEF Events
<1>2. \A i \in DOMAIN d.q : d.q[i].type \in {"started", "doc"} /\ d.q[i].done <= d.done
  BY <1>1 DEF QueueOk, Events
<1>3. ASSUME NEW i \in DOMAIN new.q
      PROVE  new.q[i].type \in {"started", "doc"} /\ new.q[i].done <= new.done
  <2>1. CASE new.q = d.q
    BY <2>1, <1>1, <1>2
  <2>2. CASE \E e \in Events : new.q = Append(d.q, e) /\ e.type \in {"started", "doc"} /\ e.done <= new.done
    <3> PICK e \in Events : new.q = Append(d.q, e) /\ e.type \in {"started", "doc"} /\ e.done <= new.done
      BY <2>2
    <3>1. new.q[i] = e \/ (i \in DOMAIN d.q /\ new.q[i] = d.q[i])
      BY <1>1
    <3> QED BY <3>1, <1>1, <1>2
  <2> QED BY <2>1, <2>2
<1> QED BY <1>3 DEF QueueOk

\* What a step of its thread makes of a job.
Goes(old, new) ==
  /\ old.step # "over" /\ new.done >= old.done
  /\ old.status \in Ended => new.status = old.status /\ new.done = old.done
Worked(j, new) ==
  /\ jobs' = [jobs EXCEPT ![j] = new] /\ new \in Jobs /\ Goes(jobs[j], new)
  /\ CallsOk(new, late'[j]) /\ PlaceOk(new) /\ QueueOk(new)

\* A step that leaves the queue and the documents done.
LEMMA StepOnly ==
  ASSUME NEW d \in Jobs, PlaceOk(d), QueueOk(d), d.step # "over", d.status \notin Ended,
         NEW new \in Jobs, new.q = d.q, new.done = d.done
  PROVE  QueueOk(new) /\ Goes(d, new)
<1>1. d.done \in Nat /\ d.done <= new.done /\ new.done >= d.done
  BY DEF Jobs
<1>2. QueueOk(new)
  BY <1>1, QueueKept
<1>3. Goes(d, new)
  BY <1>1 DEF Goes
<1> QED BY <1>2, <1>3

\* A call to the model counts if its job was cancelled.
LEMMA CallCounts ==
  ASSUME JobsInv, NEW j \in DOMAIN jobs
  PROVE  /\ j \in 1..MaxJobs /\ jobs[j] \in Jobs /\ CallsOk(jobs[j], late[j]) /\ PlaceOk(jobs[j]) /\ QueueOk(jobs[j])
         /\ Calls(j) => /\ late'[j] = late[j] + (IF jobs[j].cancelled THEN 1 ELSE 0)
                        /\ DOMAIN late' = DOMAIN late /\ \A i \in DOMAIN late \ {j} : late'[i] = late[i]
<1>0. MaxJobs \in Nat
  BY LoanAssumption DEF MaxJobs
<1>1. j \in 1..MaxJobs /\ JobOk(jobs[j], late[j]) /\ DOMAIN late = 1..MaxJobs
  BY <1>0 DEF JobsInv
<1>2. late[j] \in Nat
  BY <1>1 DEF JobOk, CallsOk
<1>3. ASSUME Calls(j)
      PROVE  /\ late'[j] = late[j] + (IF jobs[j].cancelled THEN 1 ELSE 0)
             /\ DOMAIN late' = DOMAIN late /\ \A i \in DOMAIN late \ {j} : late'[i] = late[i]
  <2>1. CASE jobs[j].cancelled
    <3>1. late' = [late EXCEPT ![j] = late[j] + 1]
      BY <1>3, <2>1 DEF Calls
    <3> QED BY <1>1, <2>1, <3>1
  <2>2. CASE ~jobs[j].cancelled
    BY <1>2, <1>3, <2>2 DEF Calls
  <2> QED BY <2>1, <2>2
<1> QED BY <1>1, <1>3 DEF JobOk

\* The forms in which the actions write what StepOnly says.
LEMMA Written ==
  ASSUME JobsInv, NEW j \in DOMAIN jobs, NEW d, d = jobs[j], NEW step, NEW status, NEW alive, NEW resolved
  PROVE  /\ [jobs EXCEPT ![j].step = step]
              = [jobs EXCEPT ![j] = [d EXCEPT !.step = step, !.status = d.status, !.alive = d.alive, !.resolved = d.resolved]]
         /\ [jobs EXCEPT ![j].step = step, ![j].status = status]
              = [jobs EXCEPT ![j] = [d EXCEPT !.step = step, !.status = status, !.alive = d.alive, !.resolved = d.resolved]]
         /\ [jobs EXCEPT ![j].step = step, ![j].alive = alive]
              = [jobs EXCEPT ![j] = [d EXCEPT !.step = step, !.status = d.status, !.alive = alive, !.resolved = d.resolved]]
         /\ [jobs EXCEPT ![j].step = step, ![j].resolved = resolved]
              = [jobs EXCEPT ![j] = [d EXCEPT !.step = step, !.status = d.status, !.alive = d.alive, !.resolved = resolved]]
<1> DEFINE new(st, al, re) == [d EXCEPT !.step = step, !.status = st, !.alive = al, !.resolved = re]
<1>0. d \in Jobs /\ jobs \in [1..Len(jobs) -> Jobs] /\ j \in 1..Len(jobs)
  BY DEF JobsInv
<1>1. [d EXCEPT !.step = step] = new(d.status, d.alive, d.resolved)
  BY <1>0 DEF Jobs
<1>2. [d EXCEPT !.step = step, !.status = status] = new(status, d.alive, d.resolved)
  BY <1>0 DEF Jobs
<1>3. [d EXCEPT !.step = step, !.alive = alive] = new(d.status, alive, d.resolved)
  BY <1>0 DEF Jobs
<1>4. [d EXCEPT !.step = step, !.resolved = resolved] = new(d.status, d.alive, resolved)
  BY <1>0 DEF Jobs
<1>5. [jobs EXCEPT ![j].step = step] = [jobs EXCEPT ![j] = [d EXCEPT !.step = step]]
  BY <1>0
<1>6. [jobs EXCEPT ![j].step = step, ![j].status = status]
        = [jobs EXCEPT ![j] = [d EXCEPT !.step = step, !.status = status]]
  BY <1>0
<1>7. [jobs EXCEPT ![j].step = step, ![j].alive = alive]
        = [jobs EXCEPT ![j] = [d EXCEPT !.step = step, !.alive = alive]]
  BY <1>0
<1>8. [jobs EXCEPT ![j].step = step, ![j].resolved = resolved]
        = [jobs EXCEPT ![j] = [d EXCEPT !.step = step, !.resolved = resolved]]
  BY <1>0
<1> QED BY <1>1, <1>2, <1>3, <1>4, <1>5, <1>6, <1>7, <1>8

\* The steps that only move the thread of a job, on which it begins no call: the places they
\* lead to leave no more calls to begin, or the job is not cancelled.
LEMMA MovesOnly ==
  ASSUME JobsInv, NEW j \in DOMAIN jobs, late' = late,
         FactsReady(j) \/ NextException(j) \/ FindingsReady(j) \/ (Read(j) /\ To(j, "ask"))
           \/ SeesCancel(j) \/ Crash(j)
  PROVE  \E new : Worked(j, new)
<1>d. PICK d : d = jobs[j]
  OBVIOUS
<1>0. d \in Jobs /\ CallsOk(d, late[j]) /\ PlaceOk(d) /\ QueueOk(d) /\ d.step # "over"
  BY <1>d, CallCounts DEF FactsReady, NextException, FindingsReady, Read, SeesCancel, Crash
<1>1. /\ d.step # "ending" /\ d.status \notin Ended
      /\ d.done \in Nat /\ d.read \in Nat /\ d.resolved \in Nat
      /\ d.status \in Statuses /\ d.alive \in SUBSET {"processor"} /\ d.step \in JobSteps /\ d.mode \in Modes
  BY <1>0, <1>d DEF FactsReady, NextException, FindingsReady, Read, SeesCancel, Crash, PlaceOk, Jobs
<1>2. PICK step \in JobSteps, status \in Statuses :
        /\ jobs' = [jobs EXCEPT ![j].step = step, ![j].status = status]
        /\ \/ /\ status = d.status /\ ~d.cancelled /\ step \in {"plan", "resolve", "ask", "assess"}
              /\ step = "plan" => d.step = "docs" /\ d.done = Docs /\ d.mode = "deterministic"
              /\ step = "resolve" => d.step = "exceptions"
              /\ step \in {"ask", "assess"} => d.mode = "ai_first"
              /\ step = "assess" => d.done = Docs
           \/ step = "ending" /\ status \in {"failed", "cancelled"}
  <2>1. [jobs EXCEPT ![j].step = "plan"] = [jobs EXCEPT ![j].step = "plan", ![j].status = d.status]
    BY <1>d, Written
  <2>2. [jobs EXCEPT ![j].step = "resolve"] = [jobs EXCEPT ![j].step = "resolve", ![j].status = d.status]
    BY <1>d, Written
  <2>3. [jobs EXCEPT ![j].step = "ask"] = [jobs EXCEPT ![j].step = "ask", ![j].status = d.status]
    BY <1>d, Written
  <2>4. [jobs EXCEPT ![j].step = "assess"] = [jobs EXCEPT ![j].step = "assess", ![j].status = d.status]
    BY <1>d, Written
  <2>5. CASE FactsReady(j)
    BY <2>1, <2>5, <1>1, <1>d DEF FactsReady, To, JobSteps
  <2>6. CASE NextException(j)
    BY <2>2, <2>6, <1>1, <1>d DEF NextException, To, JobSteps
  <2>7. CASE Read(j) /\ To(j, "ask")
    BY <2>3, <2>7, <1>1, <1>d DEF Read, To, JobSteps
  <2>8. CASE FindingsReady(j)
    BY <2>4, <2>8, <1>1, <1>d DEF FindingsReady, To, JobSteps
  <2>9. CASE SeesCancel(j) \/ Crash(j)
    BY <2>9, <1>1, <1>d DEF SeesCancel, Crash, Finish, JobSteps, Statuses, Ended
  <2> QED BY <2>5, <2>6, <2>7, <2>8, <2>9
<1>n. PICK new : new = [d EXCEPT !.step = step, !.status = status, !.alive = d.alive, !.resolved = d.resolved]
  OBVIOUS
<1>3. jobs' = [jobs EXCEPT ![j] = new]
  <2>1. [jobs EXCEPT ![j].step = step, ![j].status = status]
          = [jobs EXCEPT ![j] = [d EXCEPT !.step = step, !.status = status, !.alive = d.alive, !.resolved = d.resolved]]
    BY <1>d, Written
  <2>2. [jobs EXCEPT ![j].step = step, ![j].status = status] = [jobs EXCEPT ![j] = new]
    BY <2>1, <1>n
  <2> QED BY <2>2, <1>2
<1>b. /\ new \in Jobs /\ new.q = d.q
      /\ new.step = step /\ new.status = status /\ new.alive = d.alive /\ new.done = d.done
      /\ new.read = d.read /\ new.mode = d.mode /\ new.cancelled = d.cancelled /\ new.report = d.report
  BY <1>0, <1>1, <1>n DEF Jobs
<1>c. QueueOk(new) /\ Goes(d, new)
  BY <1>0, <1>1, <1>b, StepOnly
<1>4. /\ new \in Jobs /\ QueueOk(new) /\ Goes(d, new)
      /\ new.step = step /\ new.status = status /\ new.alive = d.alive /\ new.done = d.done
      /\ new.read = d.read /\ new.mode = d.mode /\ new.cancelled = d.cancelled /\ new.report = d.report
  BY <1>b, <1>c
<1>5. CallsOk(new, late[j])
  BY <1>0, <1>1, <1>2, <1>4 DEF CallsOk, Left, Bound, Modes, PlaceOk
<1>6. PlaceOk(new)
  BY <1>0, <1>1, <1>2, <1>4 DEF PlaceOk, Ended, Statuses
<1> QED BY <1>d, <1>3, <1>4, <1>5, <1>6 DEF Worked

\* The steps that begin a call, or, with nothing read, the decision without one.
LEMMA CallsOnly ==
  ASSUME JobsInv, NEW j \in DOMAIN jobs,
         PlanFromFacts(j) \/ Resolve(j) \/ AssessFacts(j) \/ PlanFromNames(j) \/ AssessFindings(j)
  PROVE  \E new : Worked(j, new)
<1>d. PICK d : d = jobs[j]
  OBVIOUS
<1>0. d \in Jobs /\ CallsOk(d, late[j]) /\ PlaceOk(d) /\ QueueOk(d) /\ d.step # "over"
  BY <1>d, CallCounts DEF PlanFromFacts, Resolve, AssessFacts, PlanFromNames, AssessFindings
<1>1. /\ d.step # "ending" /\ d.status \notin Ended
      /\ d.done \in Nat /\ d.read \in Nat /\ d.resolved \in Nat
      /\ d.status \in Statuses /\ d.alive \in SUBSET {"processor"} /\ d.step \in JobSteps /\ d.mode \in Modes
      /\ late[j] \in Nat
  BY <1>0, <1>d DEF PlanFromFacts, Resolve, AssessFacts, PlanFromNames, AssessFindings, PlaceOk, Jobs, CallsOk
<1>2. late'[j] = late[j] + (IF d.cancelled THEN 1 ELSE 0) \/ (d.step = "assess" /\ late'[j] = late[j])
  BY <1>d, CallCounts DEF PlanFromFacts, Resolve, AssessFacts, PlanFromNames, AssessFindings
<1> DEFINE Sets(step, alive, resolved) ==
             jobs' = [jobs EXCEPT ![j] = [d EXCEPT !.step = step, !.status = d.status, !.alive = alive, !.resolved = resolved]]
           From(step, alive) ==
             \/ d.step = "plan" /\ d.mode = "deterministic" /\ step = "exceptions"
             \/ d.step = "resolve" /\ step = "exceptions"
             \/ d.step \in {"exceptions", "assess"} /\ step = "report" /\ alive = {}
             \/ d.step = "plan" /\ d.mode = "ai_first" /\ step = "docs"
<1>w. PICK step \in JobSteps, alive \in SUBSET {"processor"}, resolved \in Nat :
        Sets(step, alive, resolved) /\ From(step, alive)
  <2> HIDE DEF Sets, From
  <2>a. d.resolved + 1 \in Nat /\ {"processor"} \in SUBSET {"processor"} /\ {} \in SUBSET {"processor"}
        /\ {"exceptions", "report", "docs"} \subseteq JobSteps
    BY <1>1 DEF JobSteps
  <2>1. CASE PlanFromFacts(j)
    <3>a. PICK alive : alive = {"processor"}
      OBVIOUS
    <3>1. jobs' = [jobs EXCEPT ![j].step = "exceptions", ![j].alive = alive]
      BY <2>1, <3>a DEF PlanFromFacts, Hire
    <3>b. [jobs EXCEPT ![j].step = "exceptions", ![j].alive = alive]
            = [jobs EXCEPT ![j] = [d EXCEPT !.step = "exceptions", !.status = d.status, !.alive = alive, !.resolved = d.resolved]]
      <4>1. jobs \in [1..Len(jobs) -> Jobs] /\ j \in 1..Len(jobs)
        BY DEF JobsInv
      <4>2. [jobs EXCEPT ![j].step = "exceptions", ![j].alive = alive]
              = [jobs EXCEPT ![j] = [d EXCEPT !.step = "exceptions", !.alive = alive]]
        BY <4>1, <1>d
      <4>3. [d EXCEPT !.step = "exceptions", !.alive = alive]
              = [d EXCEPT !.step = "exceptions", !.status = d.status, !.alive = alive, !.resolved = d.resolved]
        BY <1>0 DEF Jobs
      <4> QED BY <4>2, <4>3
    <3>2. Sets("exceptions", alive, d.resolved)
      BY <3>1, <3>b DEF Sets
    <3>3. From("exceptions", alive)
      BY <2>1, <1>d DEF PlanFromFacts, From
    <3>4. alive \in SUBSET {"processor"} /\ d.resolved \in Nat /\ "exceptions" \in JobSteps
      BY <3>a, <2>a, <1>1
    <3> QED BY <3>2, <3>3, <3>4
  <2>2. CASE Resolve(j)
    <3>1. jobs' = [jobs EXCEPT ![j].step = "exceptions", ![j].resolved = d.resolved + 1]
      BY <2>2, <1>d DEF Resolve
    <3>b. [jobs EXCEPT ![j].step = "exceptions", ![j].resolved = d.resolved + 1]
            = [jobs EXCEPT ![j] = [d EXCEPT !.step = "exceptions", !.status = d.status, !.alive = d.alive, !.resolved = d.resolved + 1]]
      <4>1. jobs \in [1..Len(jobs) -> Jobs] /\ j \in 1..Len(jobs)
        BY DEF JobsInv
      <4>2. [jobs EXCEPT ![j].step = "exceptions", ![j].resolved = d.resolved + 1]
              = [jobs EXCEPT ![j] = [d EXCEPT !.step = "exceptions", !.resolved = d.resolved + 1]]
        BY <4>1, <1>d
      <4>3. [d EXCEPT !.step = "exceptions", !.resolved = d.resolved + 1]
              = [d EXCEPT !.step = "exceptions", !.status = d.status, !.alive = d.alive, !.resolved = d.resolved + 1]
        BY <1>0 DEF Jobs
      <4> QED BY <4>2, <4>3
    <3>2. jobs' = [jobs EXCEPT ![j] = [d EXCEPT !.step = "exceptions", !.status = d.status, !.alive = d.alive, !.resolved = d.resolved + 1]]
      BY <3>1, <3>b
    <3>3. From("exceptions", d.alive)
      BY <2>2, <1>d DEF Resolve, From
    <3>4. PICK n \in Nat : n = d.resolved + 1
      BY <2>a
    <3>5. Sets("exceptions", d.alive, n)
      BY <3>2, <3>4 DEF Sets
    <3>6. d.alive \in SUBSET {"processor"} /\ "exceptions" \in JobSteps
      BY <2>a, <1>1
    <3> QED BY <3>3, <3>5, <3>6
  <2>3. CASE AssessFacts(j) \/ AssessFindings(j)
    <3>1. jobs' = [jobs EXCEPT ![j].step = "report", ![j].alive = {}] /\ d.step \in {"exceptions", "assess"}
      BY <2>3, <1>d DEF AssessFacts, AssessFindings, Dismiss
    <3>2. jobs' = [jobs EXCEPT ![j] = [d EXCEPT !.step = "report", !.status = d.status, !.alive = {}, !.resolved = d.resolved]]
      BY <3>1, <1>d, Written
    <3>3. Sets("report", {}, d.resolved)
      BY <3>2 DEF Sets
    <3>4. From("report", {})
      BY <3>1 DEF From
    <3> QED BY <3>3, <3>4, <2>a, <1>1
  <2>4. CASE PlanFromNames(j)
    <3>1. /\ \/ jobs' = [jobs EXCEPT ![j].step = "docs", ![j].alive = {"processor"}]
             \/ jobs' = [jobs EXCEPT ![j].step = "docs"]
          /\ d.step = "plan" /\ d.mode = "ai_first"
      BY <2>4, <1>d DEF PlanFromNames, Hire, To
    <3>2. CASE jobs' = [jobs EXCEPT ![j].step = "docs", ![j].alive = {"processor"}]
      <4>1. jobs' = [jobs EXCEPT ![j] = [d EXCEPT !.step = "docs", !.status = d.status, !.alive = {"processor"}, !.resolved = d.resolved]]
        BY <3>2, <1>d, Written
      <4>2. Sets("docs", {"processor"}, d.resolved)
        BY <4>1 DEF Sets
      <4>3. From("docs", {"processor"})
        BY <3>1 DEF From
      <4> QED BY <4>2, <4>3, <2>a, <1>1
    <3>3. CASE jobs' = [jobs EXCEPT ![j].step = "docs"]
      <4>1. jobs' = [jobs EXCEPT ![j] = [d EXCEPT !.step = "docs", !.status = d.status, !.alive = d.alive, !.resolved = d.resolved]]
        BY <3>3, <1>d, Written
      <4>2. Sets("docs", d.alive, d.resolved)
        BY <4>1 DEF Sets
      <4>3. From("docs", d.alive)
        BY <3>1 DEF From
      <4> QED BY <4>2, <4>3, <2>a, <1>1
    <3> QED BY <3>1, <3>2, <3>3
  <2> QED BY <2>1, <2>2, <2>3, <2>4
<1>3. /\ jobs' = [jobs EXCEPT ![j] = [d EXCEPT !.step = step, !.status = d.status, !.alive = alive, !.resolved = resolved]]
      /\ \/ d.step = "plan" /\ d.mode = "deterministic" /\ step = "exceptions"
         \/ d.step = "resolve" /\ step = "exceptions"
         \/ d.step \in {"exceptions", "assess"} /\ step = "report" /\ alive = {}
         \/ d.step = "plan" /\ d.mode = "ai_first" /\ step = "docs"
  BY <1>w
<1> HIDE DEF Sets, From
<1>n. PICK new : new = [d EXCEPT !.step = step, !.status = d.status, !.alive = alive, !.resolved = resolved]
  OBVIOUS
<1>b. /\ new \in Jobs /\ new.q = d.q
      /\ new.step = step /\ new.status = d.status /\ new.alive = alive /\ new.done = d.done
      /\ new.read = d.read /\ new.mode = d.mode /\ new.cancelled = d.cancelled /\ new.report = d.report
  BY <1>0, <1>1, <1>n DEF Jobs
<1>c. QueueOk(new) /\ Goes(d, new)
  BY <1>0, <1>1, <1>b, StepOnly
<1>4. /\ new \in Jobs /\ QueueOk(new) /\ Goes(d, new)
      /\ new.step = step /\ new.status = d.status /\ new.alive = alive /\ new.done = d.done
      /\ new.read = d.read /\ new.mode = d.mode /\ new.cancelled = d.cancelled /\ new.report = d.report
  BY <1>b, <1>c
<1>a. jobs' = [jobs EXCEPT ![j] = new]
  BY <1>3, <1>n
<1>5. CallsOk(new, late'[j])
  <2>1. late[j] + Left(d) <= Bound(d) /\ (~d.cancelled => late[j] = 0)
    BY <1>0 DEF CallsOk
  <2>2. CASE d.mode = "deterministic"
    BY <1>0, <1>1, <1>2, <1>3, <1>4, <2>1, <2>2 DEF CallsOk, Left, Bound, PlaceOk
  <2>3. CASE d.mode = "ai_first"
    BY <1>0, <1>1, <1>2, <1>3, <1>4, <2>1, <2>3 DEF CallsOk, Left, Bound, PlaceOk
  <2> QED BY <1>1, <2>2, <2>3 DEF Modes
<1>6. PlaceOk(new)
  BY <1>0, <1>1, <1>3, <1>4 DEF PlaceOk, Ended, Statuses
<1> QED BY <1>a, <1>d, <1>4, <1>5, <1>6 DEF Worked

\* The steps that put an event on the queue: the start, and each document done.
LEMMA EventMoves ==
  ASSUME JobsInv, NEW j \in DOMAIN jobs,
         Begin(j) \/ Parse(j) \/ (Read(j) /\ DocumentDone(j, FALSE, "docs")) \/ Ask(j)
  PROVE  \E new : Worked(j, new)
<1>d. PICK d : d = jobs[j]
  OBVIOUS
<1>0. d \in Jobs /\ CallsOk(d, late[j]) /\ PlaceOk(d) /\ QueueOk(d)
      /\ d.step \in {"queued", "docs", "ask"}
  BY <1>d, CallCounts DEF Begin, Parse, Read, Ask
<1>1. /\ d.status \notin Ended /\ d.q \in Seq(Events) /\ d.mode \in Modes
      /\ d.done \in Nat /\ d.read \in Nat /\ d.done + 1 \in Nat /\ d.read + 1 \in Nat
  BY <1>0 DEF PlaceOk, Jobs
<1>2. CASE Begin(j)
  <2>1. PICK step : step = (IF d.mode = "ai_first" THEN "plan" ELSE "docs")
    OBVIOUS
  <2>2. PICK e : e = Event("started", "running", 0)
    OBVIOUS
  <2>3. e \in Events /\ e.type = "started" /\ e.done = 0
    BY <2>2 DEF Event, Events, Statuses
  <2>4. PICK new : new = [[d EXCEPT !.status = "running", !.step = step] EXCEPT !.q = Append(@, e)]
    OBVIOUS
  <2>5. jobs' = [jobs EXCEPT ![j] = new] /\ d.step = "queued" /\ late' = late
    BY <1>2, <1>d, <2>1, <2>2, <2>4 DEF Begin, Put, Alone
  <2>6. Append(d.q, e) \in Seq(Events) /\ step \in JobSteps
    BY <1>1, <2>1, <2>3 DEF JobSteps
  <2>7. /\ new \in Jobs /\ new.q = Append(d.q, e) /\ new.step = step /\ new.status = "running"
        /\ new.done = d.done /\ new.read = d.read /\ new.mode = d.mode /\ new.cancelled = d.cancelled
        /\ new.alive = d.alive
    BY <1>0, <2>4, <2>6 DEF Jobs, Statuses
  <2>8. QueueOk(new)
    BY <1>0, <1>1, <2>3, <2>7, QueueKept
  <2>9. Goes(d, new)
    BY <1>0, <1>1, <2>7 DEF Goes
  <2>10. CallsOk(new, late[j])
    BY <1>0, <1>1, <2>1, <2>5, <2>7 DEF CallsOk, Left, Bound, Modes
  <2>11. PlaceOk(new)
    BY <1>0, <1>1, <2>1, <2>5, <2>7 DEF PlaceOk, Ended, Modes
  <2> QED BY <1>d, <2>5, <2>7, <2>8, <2>9, <2>10, <2>11 DEF Worked
<1>3. CASE Parse(j) \/ (Read(j) /\ DocumentDone(j, FALSE, "docs")) \/ Ask(j)
  <2>1. PICK good \in BOOLEAN : DocumentDone(j, good, "docs")
    BY <1>3 DEF Parse, Ask
  <2>2. PICK n, read : n = d.done + 1 /\ read = IF good THEN d.read + 1 ELSE d.read
    OBVIOUS
  <2>3. PICK e : e = Event("doc", "running", n)
    OBVIOUS
  <2>4. n \in Nat /\ read \in Nat /\ d.done <= n /\ read <= n
    BY <1>0, <1>1, <2>2 DEF PlaceOk
  <2>5. e \in Events /\ e.type = "doc" /\ e.done = n
    BY <2>3, <2>4 DEF Event, Events, Statuses
  <2>6. PICK new : new = [[d EXCEPT !.done = n, !.read = read, !.step = "docs"] EXCEPT !.q = Append(@, e)]
    OBVIOUS
  <2>7. jobs' = [jobs EXCEPT ![j] = new]
    <3>1. [d EXCEPT !.done = @ + 1, !.read = IF good THEN @ + 1 ELSE @, !.step = "docs"]
            = [d EXCEPT !.done = n, !.read = read, !.step = "docs"]
      BY <2>2
    <3> QED BY <2>1, <1>d, <2>2, <2>3, <2>6, <3>1 DEF DocumentDone, Put
  <2>8. Append(d.q, e) \in Seq(Events)
    BY <1>1, <2>5
  <2>9. /\ new \in Jobs /\ new.q = Append(d.q, e) /\ new.step = "docs" /\ new.status = d.status
        /\ new.done = n /\ new.read = read /\ new.mode = d.mode /\ new.cancelled = d.cancelled
        /\ new.alive = d.alive
    BY <1>0, <2>4, <2>6, <2>8 DEF Jobs, JobSteps
  <2>10. QueueOk(new)
    <3>1. d.done <= new.done /\ e.done <= new.done
      BY <2>4, <2>5, <2>9
    <3>2. new.q = Append(d.q, e) /\ e.type \in {"started", "doc"}
      BY <2>5, <2>9
    <3> QED
      BY <1>0, <2>5, <2>9, <3>1, <3>2, QueueKept
  <2>11. Goes(d, new)
    BY <1>0, <1>1, <2>4, <2>9 DEF Goes
  <2>12. \/ d.step = "docs" /\ ~d.cancelled /\ late' = late
         \/ d.step = "ask" /\ late'[j] = late[j] + (IF d.cancelled THEN 1 ELSE 0)
    BY <1>3, <1>d, CallCounts DEF Parse, Read, Ask, Alone
  <2>13. CallsOk(new, late'[j])
    BY <1>0, <1>1, <2>9, <2>12 DEF CallsOk, Left, Bound, PlaceOk, Modes
  <2>14. PlaceOk(new)
    BY <1>0, <1>1, <2>4, <2>9, <2>12 DEF PlaceOk, Ended
  <2> QED BY <1>d, <2>7, <2>9, <2>10, <2>11, <2>13, <2>14 DEF Worked
<1> QED BY <1>2, <1>3

\* The report of a job adds up.
LEMMA ReportMoves ==
  ASSUME JobsInv, NEW j \in DOMAIN jobs, Report(j) PROVE \E new : Worked(j, new)
<1>d. PICK d : d = jobs[j]
  OBVIOUS
<1>0. d \in Jobs /\ CallsOk(d, late[j]) /\ PlaceOk(d) /\ QueueOk(d) /\ d.step = "report" /\ late' = late
  BY <1>d, CallCounts DEF Report, Alone
<1>1. d.done \in Nat /\ d.read \in Nat /\ d.done = Docs /\ d.alive = {} /\ d.read <= d.done /\ d.status \notin Ended
      /\ d.mode \in Modes
  BY <1>0 DEF PlaceOk, Jobs
<1>2. PICK r : r = IF d.mode = "ai_first" THEN FindingsReport(j) ELSE FactsReport(j)
  OBVIOUS
<1>3. r \in Reports /\ r.processed + r.failed = Docs /\ r.clean + r.escalated = Docs
  BY <1>1, <1>2, <1>d DEF FindingsReport, FactsReport, Escalated, Reports
<1>4. PICK new : new = [d EXCEPT !.step = "ending", !.status = "completed", !.report = r]
  OBVIOUS
<1>5. jobs' = [jobs EXCEPT ![j] = new]
  <2>1. jobs' = [jobs EXCEPT ![j].step = "ending", ![j].status = "completed", ![j].report = r]
    BY <1>d, <1>2 DEF Report
  <2>2. jobs \in [1..Len(jobs) -> Jobs] /\ j \in 1..Len(jobs)
    BY DEF JobsInv
  <2>3. [jobs EXCEPT ![j].step = "ending", ![j].status = "completed", ![j].report = r]
          = [jobs EXCEPT ![j] = [d EXCEPT !.step = "ending", !.status = "completed", !.report = r]]
    BY <1>d, <2>2
  <2> QED BY <2>1, <2>3, <1>4
<1>6. /\ new \in Jobs /\ new.q = d.q /\ new.done = d.done /\ new.step = "ending" /\ new.status = "completed"
      /\ new.report = r /\ new.read = d.read /\ new.mode = d.mode /\ new.cancelled = d.cancelled
      /\ new.alive = d.alive
  BY <1>0, <1>3, <1>4 DEF Jobs, JobSteps, Statuses, Ended
<1>7. QueueOk(new) /\ Goes(d, new)
  BY <1>0, <1>1, <1>6, StepOnly
<1>8. CallsOk(new, late[j])
  BY <1>0, <1>6 DEF CallsOk, Left, Bound
<1>9. PlaceOk(new)
  BY <1>0, <1>1, <1>3, <1>6 DEF PlaceOk, Ended
<1> QED BY <1>d, <1>0, <1>5, <1>6, <1>7, <1>8, <1>9 DEF Worked

\* The last two events of a job are its end and the end of the stream.
LEMMA EndMoves ==
  ASSUME JobsInv, NEW j \in DOMAIN jobs, End(j) PROVE \E new : Worked(j, new)
<1>d. PICK d : d = jobs[j]
  OBVIOUS
<1>0. d \in Jobs /\ CallsOk(d, late[j]) /\ PlaceOk(d) /\ QueueOk(d) /\ d.step = "ending" /\ late' = late
  BY <1>d, CallCounts DEF End, Alone
<1>1. d.done \in Nat /\ d.status \in Ended /\ d.q \in Seq(Events)
  BY <1>0 DEF PlaceOk, Jobs
<1>2. PICK e, f : e = Event("ended", d.status, d.done) /\ f = Event("stream_end", "", 0)
  OBVIOUS
<1>3. /\ e \in Events /\ e.type = "ended" /\ e.status = d.status /\ e.done = d.done
      /\ f \in Events /\ f.type = "stream_end"
  BY <1>1, <1>2 DEF Event, Events, Statuses
<1>4. PICK q : q = d.q \o <<e, f>>
  OBVIOUS
<1>5. /\ q \in Seq(Events) /\ Len(q) = Len(d.q) + 2
      /\ \A i \in 1..Len(d.q) : q[i] = d.q[i]
      /\ q[Len(d.q) + 1] = e /\ q[Len(d.q) + 2] = f
  <2>1. <<e, f>> \in Seq(Events)
    BY <1>3
  <2> QED BY <1>1, <1>4, <2>1
<1>6. PICK new : new = [d EXCEPT !.step = "over", !.alive = {}, !.q = q]
  OBVIOUS
<1>7. jobs' = [jobs EXCEPT ![j] = new]
  <2>1. jobs' = [jobs EXCEPT ![j].step = "over", ![j].alive = {}, ![j].q = @ \o <<e, f>>]
    BY <1>d, <1>2 DEF End
  <2>2. jobs \in [1..Len(jobs) -> Jobs] /\ j \in 1..Len(jobs)
    BY DEF JobsInv
  <2>3. [jobs EXCEPT ![j].step = "over", ![j].alive = {}, ![j].q = @ \o <<e, f>>]
          = [jobs EXCEPT ![j] = [d EXCEPT !.step = "over", !.alive = {}, !.q = d.q \o <<e, f>>]]
    BY <1>d, <2>2 DEF Jobs
  <2> QED BY <2>1, <2>3, <1>4, <1>6
<1>8. /\ new \in Jobs /\ new.q = q /\ new.done = d.done /\ new.step = "over" /\ new.status = d.status
      /\ new.report = d.report /\ new.read = d.read /\ new.mode = d.mode /\ new.cancelled = d.cancelled
      /\ new.alive = {}
  BY <1>0, <1>5, <1>6 DEF Jobs, JobSteps
<1>9. QueueOk(new)
  <2>1. \A i \in 1..Len(d.q) : d.q[i].type \in {"started", "doc"} /\ d.q[i].done <= d.done
    <3>1. DOMAIN d.q = 1..Len(d.q) /\ \A i \in DOMAIN d.q : d.q[i] \in Events
      BY <1>1
    <3>2. \A i \in DOMAIN d.q : d.q[i].type \in {"started", "doc"}
      BY <3>1, <1>0 DEF QueueOk, Events
    <3>3. \A i \in DOMAIN d.q : d.q[i].done <= d.done
      BY <3>2, <1>0 DEF QueueOk
    <3> QED BY <3>1, <3>2, <3>3
  <2>2. ASSUME NEW i \in DOMAIN q PROVE i \in 1..Len(d.q) \/ i = Len(d.q) + 1 \/ i = Len(d.q) + 2
    BY <1>1, <1>5
  <2>3. ASSUME NEW i \in DOMAIN q
        PROVE  /\ q[i].type \in {"started", "doc"} => q[i].done <= d.done
               /\ q[i].type = "ended" => q[i].status = d.status /\ q[i].done = d.done
               /\ q[i].type \in {"ended", "stream_end"} =>
                    \A k \in DOMAIN q : k > i => q[k].type = "stream_end"
    <3>1. CASE i \in 1..Len(d.q)
      BY <3>1, <2>1, <1>5
    <3>2. CASE i = Len(d.q) + 1
      <4>1. \A k \in DOMAIN q : k > i => k = Len(d.q) + 2
        BY <3>2, <1>1, <1>5
      <4> QED BY <4>1, <3>2, <1>3, <1>5
    <3>3. CASE i = Len(d.q) + 2
      <4>1. \A k \in DOMAIN q : ~(k > i)
        BY <3>3, <1>1, <1>5
      <4> QED BY <4>1, <3>3, <1>3, <1>5
    <3> QED BY <2>2, <3>1, <3>2, <3>3
  <2> QED BY <2>3, <1>8 DEF QueueOk
<1>10. Goes(d, new) /\ CallsOk(new, late[j]) /\ PlaceOk(new)
  BY <1>0, <1>1, <1>8 DEF Goes, CallsOk, Left, Bound, PlaceOk, Ended
<1> QED BY <1>d, <1>0, <1>7, <1>8, <1>9, <1>10 DEF Worked

\* Every step of a job's thread, and what it does to the calls counted.
LEMMA ThreadMoves ==
  ASSUME JobsInv, NEW j \in DOMAIN jobs, Work(j)
  PROVE  /\ \E new : Worked(j, new)
         /\ DOMAIN late' = DOMAIN late /\ \A i \in DOMAIN late \ {j} : late'[i] = late[i]
<1>1. \E new : Worked(j, new)
  <2>1. CASE FactsReady(j) \/ NextException(j) \/ FindingsReady(j) \/ (Read(j) /\ To(j, "ask"))
             \/ SeesCancel(j) \/ Crash(j)
    BY <2>1, MovesOnly DEF FactsReady, NextException, FindingsReady, Read, SeesCancel, Crash, Alone
  <2>2. CASE PlanFromFacts(j) \/ Resolve(j) \/ AssessFacts(j) \/ PlanFromNames(j) \/ AssessFindings(j)
    BY <2>2, CallsOnly
  <2>3. CASE Begin(j) \/ Parse(j) \/ (Read(j) /\ DocumentDone(j, FALSE, "docs")) \/ Ask(j)
    BY <2>3, EventMoves
  <2>4. CASE Report(j) \/ End(j)
    BY <2>4, ReportMoves, EndMoves
  <2> QED BY <2>1, <2>2, <2>3, <2>4 DEF Work, Read
<1>2. late' = late \/ Calls(j)
  BY DEF Work, Begin, SeesCancel, Report, Crash, End, Parse, FactsReady, PlanFromFacts, NextException, Resolve,
     AssessFacts, PlanFromNames, Read, Ask, FindingsReady, AssessFindings, Alone
<1>3. DOMAIN late' = DOMAIN late /\ \A i \in DOMAIN late \ {j} : late'[i] = late[i]
  BY <1>2, CallCounts
<1> QED BY <1>1, <1>3

\* The invariant, once one job and its calls have moved.
LEMMA OneMoved ==
  ASSUME JobsInv, NEW j \in DOMAIN jobs, NEW new \in Jobs, jobs' = [jobs EXCEPT ![j] = new],
         DOMAIN late' = DOMAIN late, \A i \in DOMAIN late \ {j} : late'[i] = late[i], JobOk(new, late'[j])
  PROVE  JobsInv'
<1>1. /\ jobs' \in Seq(Jobs) /\ Len(jobs') = Len(jobs) /\ DOMAIN jobs' = DOMAIN jobs
      /\ jobs'[j] = new /\ \A i \in DOMAIN jobs \ {j} : jobs'[i] = jobs[i]
  BY JobMoves
<1>2. MaxJobs \in Nat /\ DOMAIN jobs = 1..Len(jobs) /\ Len(jobs) \in Nat /\ Len(jobs) <= MaxJobs /\ DOMAIN late = 1..MaxJobs
  BY LoanAssumption DEF JobsInv, MaxJobs
<1>3. ASSUME NEW i \in DOMAIN jobs PROVE JobOk(jobs'[i], late'[i])
  <2>1. CASE i = j
    BY <2>1, <1>1
  <2>2. CASE i # j
    <3>1. late'[i] = late[i] /\ jobs'[i] = jobs[i]
      BY <2>2, <1>1, <1>2
    <3> QED BY <3>1 DEF JobsInv
  <2> QED BY <2>1, <2>2
<1>4. \A i \in 1..MaxJobs : i > Len(jobs') => late'[i] = 0
  BY <1>1, <1>2 DEF JobsInv
<1> QED BY <1>1, <1>2, <1>3, <1>4 DEF JobsInv, MaxJobs

\* A job of which only the queue, by the oldest event, or the cancellation changes.
LEMMA Taking ==
  ASSUME JobsInv, NEW j \in DOMAIN jobs, Taken(j)
  PROVE  \E new \in Jobs :
           /\ jobs' = [jobs EXCEPT ![j] = new] /\ new = [jobs[j] EXCEPT !.q = Tail(jobs[j].q)]
           /\ new.q = Tail(jobs[j].q) /\ Len(new.q) = Len(jobs[j].q) - 1
           /\ \A i \in DOMAIN new.q : i + 1 \in DOMAIN jobs[j].q /\ new.q[i] = jobs[j].q[i + 1]
           /\ JobOk(new, late[j])
<1>d. PICK d : d = jobs[j]
  OBVIOUS
<1>0. d \in Jobs /\ CallsOk(d, late[j]) /\ PlaceOk(d) /\ QueueOk(d)
  BY <1>d, CallCounts
<1>1. d.q \in Seq(Events) /\ d.q # <<>>
  BY <1>0, <1>d DEF Taken, Jobs
<1>2. /\ Tail(d.q) \in Seq(Events) /\ Len(Tail(d.q)) = Len(d.q) - 1
      /\ \A i \in DOMAIN Tail(d.q) : i + 1 \in DOMAIN d.q /\ Tail(d.q)[i] = d.q[i + 1]
  BY <1>1
<1>3. PICK new : new = [d EXCEPT !.q = Tail(d.q)]
  OBVIOUS
<1>4. jobs' = [jobs EXCEPT ![j] = new]
  <2>1. jobs' = [jobs EXCEPT ![j].q = Tail(@)]
    BY DEF Taken
  <2>2. [jobs EXCEPT ![j].q = Tail(@)] = [jobs EXCEPT ![j] = [d EXCEPT !.q = Tail(d.q)]]
    BY <1>d
  <2> QED BY <2>1, <2>2, <1>3
<1>5. /\ new \in Jobs /\ new.q = Tail(d.q)
      /\ new.mode = d.mode /\ new.step = d.step /\ new.status = d.status /\ new.done = d.done
      /\ new.read = d.read /\ new.alive = d.alive /\ new.cancelled = d.cancelled /\ new.report = d.report
  BY <1>0, <1>2, <1>3 DEF Jobs
<1>6. CallsOk(new, late[j]) /\ PlaceOk(new)
  BY <1>0, <1>5 DEF CallsOk, Left, Bound, PlaceOk
<1>7. QueueOk(new)
  <2>1. ASSUME NEW i \in DOMAIN new.q, NEW k \in DOMAIN new.q, k > i
        PROVE  k + 1 > i + 1 /\ i + 1 \in DOMAIN d.q /\ k + 1 \in DOMAIN d.q
    <3>1. i \in Nat /\ k \in Nat
      BY <1>2, <1>5
    <3>2. i + 1 \in DOMAIN d.q /\ k + 1 \in DOMAIN d.q
      BY <1>2, <1>5
    <3> QED BY <3>1, <3>2, <2>1
  <2>2. ASSUME NEW i \in DOMAIN new.q
        PROVE  /\ new.q[i].type \in {"started", "doc"} => new.q[i].done <= new.done
               /\ new.q[i].type = "ended" => new.q[i].status = new.status /\ new.q[i].done = new.done
               /\ new.q[i].type \in {"ended", "stream_end"} => new.step = "over"
    <3>1. i + 1 \in DOMAIN d.q /\ new.q[i] = d.q[i + 1]
      BY <1>2, <1>5
    <3> QED BY <3>1, <1>0, <1>5 DEF QueueOk
  <2>3. ASSUME NEW i \in DOMAIN new.q, new.q[i].type \in {"ended", "stream_end"}, NEW k \in DOMAIN new.q, k > i
        PROVE  new.q[k].type = "stream_end"
    <3>1. new.q[i] = d.q[i + 1] /\ new.q[k] = d.q[k + 1]
      BY <1>2, <1>5
    <3> QED BY <3>1, <2>1, <2>3, <1>0 DEF QueueOk
  <2> QED BY <2>2, <2>3 DEF QueueOk
<1> QED BY <1>d, <1>2, <1>3, <1>4, <1>5, <1>6, <1>7 DEF JobOk

LEMMA Cancelling ==
  ASSUME JobsInv, Cancel, box.job \in DOMAIN jobs
  PROVE  \E new \in Jobs :
           /\ jobs' = [jobs EXCEPT ![box.job] = new] /\ new = [jobs[box.job] EXCEPT !.cancelled = TRUE]
           /\ JobOk(new, late[box.job])
<1>d. PICK d : d = jobs[box.job]
  OBVIOUS
<1>0. d \in Jobs /\ CallsOk(d, late[box.job]) /\ PlaceOk(d) /\ QueueOk(d)
  BY <1>d, CallCounts
<1>1. PICK new : new = [d EXCEPT !.cancelled = TRUE]
  OBVIOUS
<1>2. /\ new \in Jobs /\ new.q = d.q /\ new.cancelled = TRUE
      /\ new.mode = d.mode /\ new.step = d.step /\ new.status = d.status /\ new.done = d.done
      /\ new.read = d.read /\ new.alive = d.alive /\ new.report = d.report
  BY <1>0, <1>1 DEF Jobs
<1>3. CallsOk(new, late[box.job]) /\ PlaceOk(new) /\ QueueOk(new)
  BY <1>0, <1>2 DEF CallsOk, Left, Bound, PlaceOk, QueueOk
<1>4. jobs' = [jobs EXCEPT ![box.job] = [d EXCEPT !.cancelled = TRUE]]
  <2>1. jobs' = [jobs EXCEPT ![box.job].cancelled = TRUE]
    BY DEF Cancel
  <2> QED BY <2>1, <1>d
<1> QED BY <1>d, <1>1, <1>2, <1>3, <1>4 DEF JobOk

\* What a new job is.
LEMMA NewJobOk ==
  ASSUME NEW mode \in Modes PROVE NewJob(mode) \in Jobs /\ JobOk(NewJob(mode), 0) /\ NewJob(mode).q = <<>>
<1>d. PICK d : d = NewJob(mode)
  OBVIOUS
<1>1. /\ d.q = <<>> /\ d.step = "queued" /\ d.status = "queued" /\ d.done = 0 /\ d.read = 0 /\ d.alive = {}
      /\ d.cancelled = FALSE /\ d.mode = mode
  BY <1>d DEF NewJob
<1>2. d \in Jobs
  BY <1>d DEF NewJob, Jobs, JobSteps, Statuses, Reports, NoReport
<1>3. CallsOk(d, 0) /\ PlaceOk(d) /\ QueueOk(d)
  BY <1>1 DEF CallsOk, Left, Bound, Modes, PlaceOk, QueueOk, Ended
<1> QED BY <1>d, <1>1, <1>2, <1>3 DEF JobOk

\* A job that starts, and joins the others.
LEMMA JobJoins ==
  ASSUME JobsInv, Len(jobs) < MaxJobs, jobs' = Append(jobs, NewJob(Mode[Len(jobs) + 1])), late' = late
  PROVE  /\ JobsInv' /\ DOMAIN jobs' = DOMAIN jobs \cup {Len(jobs) + 1}
         /\ \A i \in DOMAIN jobs : jobs'[i] = jobs[i]
         /\ jobs'[Len(jobs) + 1] = NewJob(Mode[Len(jobs) + 1])
<1> DEFINE n == Len(jobs) + 1
<1>1. MaxJobs \in Nat /\ jobs \in Seq(Jobs) /\ n \in 1..MaxJobs /\ Mode[n] \in Modes /\ DOMAIN late = 1..MaxJobs
  BY LoanAssumption DEF JobsInv, MaxJobs, Modes
<1>2. NewJob(Mode[n]) \in Jobs /\ JobOk(NewJob(Mode[n]), 0)
  BY <1>1, NewJobOk
<1>3. PICK new : new = NewJob(Mode[n])
  OBVIOUS
<1>4. jobs' = Append(jobs, new) /\ new \in Jobs
  BY <1>2, <1>3
<1>5. /\ jobs' \in Seq(Jobs) /\ Len(jobs') = n /\ DOMAIN jobs' = DOMAIN jobs \cup {n}
      /\ \A i \in DOMAIN jobs : jobs'[i] = jobs[i]
      /\ jobs'[n] = new
  BY <1>1, <1>4
<1>6. late[n] = 0
  BY <1>1 DEF JobsInv
<1>7. \A i \in DOMAIN jobs' : JobOk(jobs'[i], late'[i])
  BY <1>2, <1>3, <1>5, <1>6 DEF JobsInv
<1>8. \A i \in 1..MaxJobs : i > Len(jobs') => late'[i] = 0
  BY <1>1, <1>5 DEF JobsInv
<1> QED BY <1>1, <1>3, <1>5, <1>7, <1>8 DEF JobsInv, MaxJobs

\* No step breaks the invariant of the jobs.
LEMMA JobsStep == ASSUME JobsInv, [Next]_vars PROVE JobsInv'
<1>0. jobs \in [1..Len(jobs) -> Jobs] /\ DOMAIN jobs = 1..Len(jobs)
  BY DEF JobsInv
<1>1. CASE UNCHANGED <<jobs, late>>
  BY <1>1 DEF JobsInv, MaxJobs
<1>2. ASSUME NEW j, Taken(j), late' = late PROVE JobsInv'
  <2>1. CASE j \in DOMAIN jobs
    BY <2>1, <1>2, Taking, OneMoved
  <2>2. CASE j \notin DOMAIN jobs
    <3>1. jobs' = jobs
      BY <2>2, <1>0, <1>2 DEF Taken
    <3> QED BY <3>1, <1>1, <1>2
  <2> QED BY <2>1, <2>2
<1>3. CASE Cancel
  <2>1. late' = late
    BY <1>3 DEF Cancel
  <2>2. CASE box.job \in DOMAIN jobs
    BY <2>1, <2>2, <1>3, Cancelling, OneMoved
  <2>3. CASE box.job \notin DOMAIN jobs
    <3>1. jobs' = jobs
      BY <2>3, <1>0, <1>3 DEF Cancel
    <3> QED BY <3>1, <2>1, <1>1
  <2> QED BY <2>2, <2>3
<1>4. CASE Process
  <2>1. CASE UNCHANGED jobs
    BY <2>1, <1>1, <1>4 DEF Process
  <2>2. CASE Len(jobs) < MaxJobs /\ jobs' = Append(jobs, NewJob(Mode[Len(jobs) + 1]))
    BY <2>2, <1>4, JobJoins DEF Process
  <2> QED BY <2>1, <2>2, <1>4 DEF Process
<1>5. CASE \E j \in DOMAIN jobs : Work(j)
  <2> PICK j \in DOMAIN jobs : Work(j)
    BY <1>5
  <2>1. PICK new : Worked(j, new)
    BY ThreadMoves
  <2>2. DOMAIN late' = DOMAIN late /\ \A i \in DOMAIN late \ {j} : late'[i] = late[i]
    BY ThreadMoves
  <2>3. new \in Jobs /\ jobs' = [jobs EXCEPT ![j] = new] /\ JobOk(new, late'[j])
    BY <2>1 DEF Worked, JobOk
  <2> QED BY <2>2, <2>3, OneMoved
<1>6. CASE \E j \in DOMAIN jobs : Steal(j)
  BY <1>2, <1>6 DEF Steal
<1>7. CASE Deliver
  BY <1>2, <1>7 DEF Deliver
<1>8. CASE \/ Start \/ Break \/ Reload \/ Snapshot \/ Started \/ Refused \/ Resumed \/ Gone \/ StreamTimesOut
           \/ \E j \in DOMAIN jobs : Notice(j)
  BY <1>1, <1>8 DEF Start, Break, Reload, Snapshot, Started, Refused, Resumed, Gone, StreamTimesOut, Notice, server
<1>9. CASE UNCHANGED vars
  BY <1>1, <1>9 DEF vars, server
<1> QED BY <1>3, <1>4, <1>5, <1>6, <1>7, <1>8, <1>9 DEF Next, Follow

\* A cancelled job stops within the calls it may still begin, and a job that completes has
\* left no document out and nobody at work, for any number of jobs and documents.
THEOREM CancelStops == Spec => []CancelStopsTheCalls
<1>1. Init => JobsInv
  BY LoanAssumption DEF Init, JobsInv, MaxJobs
<1>2. JobsInv => CancelStopsTheCalls
  <2> SUFFICES ASSUME JobsInv, NEW j \in DOMAIN jobs
               PROVE  /\ late[j] <= IF jobs[j].mode = "deterministic" THEN 2 ELSE 1
                      /\ jobs[j].status = "completed" => jobs[j].alive = {}
                      /\ jobs[j].status = "completed" =>
                           LET r == jobs[j].report
                           IN r.processed + r.failed = Docs /\ r.clean + r.escalated = Docs
    BY DEF CancelStopsTheCalls
  <2>1. CallsOk(jobs[j], late[j]) /\ PlaceOk(jobs[j])
    BY CallCounts
  <2>2. late[j] <= IF jobs[j].mode = "deterministic" THEN 2 ELSE 1
    BY <2>1 DEF CallsOk, Left, Bound
  <2> QED BY <2>1, <2>2 DEF PlaceOk
<1> QED BY <1>1, <1>2, JobsStep, PTL DEF Spec

-----------------------------------------------------------------------------
(* The tab *)

Boxes == [job : Nat, status : {"idle", "starting"} \cup Statuses, done : Nat]
Nets == [kind : {"none", "post", "posted", "refused", "reattach", "fallback"}, job : Nat,
         status : {"", "gone"} \cup Statuses, done : Nat]
Entries == Nat \X ({"started"} \cup Ended)
TabTypes ==
  /\ box \in Boxes /\ net \in Nets /\ src \in Nat
  /\ activity \in Seq(Entries)
  /\ box.job \in DOMAIN jobs \cup {0}
  /\ src # 0 => src = box.job
  /\ box.status \in Statuses \ {"failed"} => box.job # 0
  /\ net.kind \in {"posted", "reattach", "fallback"} => net.job \in DOMAIN jobs
  /\ net.status # "" => net.kind \in {"reattach", "fallback"}
  /\ \A i \in DOMAIN activity : activity[i][1] \in DOMAIN jobs

\* Jobs the server has forgotten have ended.
ForgottenEnded == \A j \in DOMAIN jobs : j \notin known => jobs[j].status \in Ended

\* The queue of a job holds no more than the end of its stream.
Quiet(j) == jobs[j].step = "over" /\ \A i \in DOMAIN jobs[j].q : jobs[j].q[i].type = "stream_end"

\* The tab has one job at a time: a stream that is open is that of the box's job, which has
\* nothing more to say once the box shows its end or the next one starts.
Asking == net.kind \in {"post", "posted", "refused"}
OneJob ==
  /\ net.kind \in {"reattach", "fallback"} => src = 0
  /\ Asking => box.done = 0
  /\ src # 0 /\ (box.status \notin Active \/ Asking) => Quiet(src)

\* What the box and a snapshot on its way say of a job.
States(j, status, done) ==
  /\ status \in {"completed", "cancelled", "failed"} => status = jobs[j].status /\ done = jobs[j].done
  /\ status = "running" => done <= jobs[j].done
BoxOk ==
  /\ box.status \in {"running", "completed", "cancelled"} => States(box.job, box.status, box.done)
  /\ net.status \in Statuses => States(net.job, net.status, net.done)
  /\ net.status = "gone" => jobs[net.job].status \in Ended
  /\ \A j \in gaveUp : j \in DOMAIN jobs /\ jobs[j].status \in Ended

\* The ledger: the end of a job is recorded once, as it was, and not before it is out of the queue.
LedgerOk(j) ==
  /\ \E k \in DOMAIN activity : activity[k] = <<j, "started">>
  /\ \A i, k \in Ends(j) : i = k
  /\ \A i \in Ends(j) : /\ activity[i][2] = jobs[j].status /\ jobs[j].step = "over"
                        /\ \E k \in 1..(i - 1) : activity[k] = <<j, "started">>
                        /\ \A n \in DOMAIN jobs[j].q : jobs[j].q[n].type = "stream_end"
TabInv == TabTypes /\ ForgottenEnded /\ OneJob /\ BoxOk /\ \A j \in DOMAIN jobs : LedgerOk(j)

\* A job goes on: what is done stays done, an ended job stays as it ended, and once its thread
\* is over its queue only empties.
Onward(old, new) ==
  /\ old.done \in Nat /\ new.done \in Nat /\ new.done >= old.done
  /\ old.status \in Ended => new.status = old.status /\ new.done = old.done
  /\ old.step = "over" =>
       new.step = "over" /\ \A i \in DOMAIN new.q : \E k \in DOMAIN old.q : new.q[i] = old.q[k]

LEMMA JobsGoOn ==
  ASSUME JobsInv, [Next]_vars
  PROVE  /\ \A j \in DOMAIN jobs : j \in DOMAIN jobs' /\ Onward(jobs[j], jobs'[j])
         /\ DOMAIN jobs' = DOMAIN jobs \/ Process
<1>0. jobs \in [1..Len(jobs) -> Jobs] /\ DOMAIN jobs = 1..Len(jobs)
  BY DEF JobsInv
<1>1. \A d \in Jobs : d.done \in Nat /\ d.done >= d.done
  BY DEF Jobs
<1>2. \A d \in Jobs : Onward(d, d)
  BY <1>1 DEF Onward
<1>3. CASE jobs' = jobs
  BY <1>0, <1>2, <1>3
<1>4. ASSUME NEW j \in DOMAIN jobs, NEW new \in Jobs, jobs' = [jobs EXCEPT ![j] = new], Onward(jobs[j], new)
      PROVE  DOMAIN jobs' = DOMAIN jobs /\ \A i \in DOMAIN jobs : i \in DOMAIN jobs' /\ Onward(jobs[i], jobs'[i])
  <2>1. DOMAIN jobs' = DOMAIN jobs /\ jobs'[j] = new /\ \A i \in DOMAIN jobs \ {j} : jobs'[i] = jobs[i]
    BY <1>0, <1>4
  <2> QED BY <2>1, <1>0, <1>2, <1>4
<1>5. ASSUME NEW j, Taken(j)
      PROVE  DOMAIN jobs' = DOMAIN jobs /\ \A i \in DOMAIN jobs : i \in DOMAIN jobs' /\ Onward(jobs[i], jobs'[i])
  <2>1. CASE j \in DOMAIN jobs
    <3>d. PICK d : d = jobs[j]
      OBVIOUS
    <3>1. PICK new \in Jobs :
            /\ jobs' = [jobs EXCEPT ![j] = new] /\ new = [d EXCEPT !.q = Tail(d.q)]
            /\ \A i \in DOMAIN new.q : i + 1 \in DOMAIN d.q /\ new.q[i] = d.q[i + 1]
      BY <2>1, <1>5, <3>d, Taking
    <3>2. d \in Jobs
      BY <1>0, <2>1, <3>d
    <3>3. new.done = d.done /\ new.status = d.status /\ new.step = d.step
      BY <3>1, <3>2 DEF Jobs
    <3>4. Onward(d, new)
      BY <3>1, <3>2, <3>3, <1>1 DEF Onward
    <3> QED BY <3>1, <3>4, <3>d, <2>1, <1>4
  <2>2. CASE j \notin DOMAIN jobs
    <3>1. jobs' = jobs
      BY <2>2, <1>0, <1>5 DEF Taken
    <3> QED BY <3>1, <1>0, <1>2
  <2> QED BY <2>1, <2>2
<1>6. CASE Cancel
  <2>1. CASE box.job \in DOMAIN jobs
    <3>d. PICK d : d = jobs[box.job]
      OBVIOUS
    <3>1. PICK new \in Jobs : jobs' = [jobs EXCEPT ![box.job] = new] /\ new = [d EXCEPT !.cancelled = TRUE]
      BY <2>1, <1>6, <3>d, Cancelling
    <3>2. d \in Jobs
      BY <1>0, <2>1, <3>d
    <3>3. new.done = d.done /\ new.status = d.status /\ new.step = d.step /\ new.q = d.q
      BY <3>1, <3>2 DEF Jobs
    <3>4. Onward(d, new)
      BY <3>2, <3>3, <1>1 DEF Onward
    <3> QED BY <3>1, <3>4, <3>d, <2>1, <1>4
  <2>2. CASE box.job \notin DOMAIN jobs
    <3>1. jobs' = jobs
      BY <2>2, <1>0, <1>6 DEF Cancel
    <3> QED BY <3>1, <1>3
  <2> QED BY <2>1, <2>2
<1>7. CASE Process
  <2>1. CASE UNCHANGED jobs
    BY <2>1, <1>3
  <2>2. CASE Len(jobs) < MaxJobs /\ jobs' = Append(jobs, NewJob(Mode[Len(jobs) + 1]))
    <3>1. late' = late
      BY <1>7 DEF Process
    <3>2. \A i \in DOMAIN jobs : i \in DOMAIN jobs' /\ jobs'[i] = jobs[i]
      BY <2>2, <3>1, JobJoins
    <3> QED BY <3>2, <1>0, <1>2, <1>7
  <2> QED BY <2>1, <2>2, <1>7 DEF Process
<1>8. CASE \E j \in DOMAIN jobs : Work(j)
  <2> PICK j \in DOMAIN jobs : Work(j)
    BY <1>8
  <2>1. PICK new : Worked(j, new)
    BY ThreadMoves
  <2>2. jobs[j] \in Jobs /\ new \in Jobs /\ jobs' = [jobs EXCEPT ![j] = new] /\ Goes(jobs[j], new)
    BY <2>1, <1>0 DEF Worked
  <2>3. Onward(jobs[j], new)
    BY <2>2, <1>1 DEF Goes, Onward
  <2> QED BY <2>2, <2>3, <1>4
<1>9. CASE \E j \in DOMAIN jobs : Steal(j)
  BY <1>5, <1>9 DEF Steal
<1>10. CASE Deliver
  BY <1>5, <1>10 DEF Deliver
<1>11. CASE \/ Start \/ Break \/ Reload \/ Snapshot \/ Started \/ Refused \/ Resumed \/ Gone \/ StreamTimesOut
           \/ \E j \in DOMAIN jobs : Notice(j)
  BY <1>3, <1>11 DEF Start, Break, Reload, Snapshot, Started, Refused, Resumed, Gone, StreamTimesOut, Notice, server
<1>12. CASE UNCHANGED vars
  BY <1>3, <1>12 DEF vars, server
<1> QED BY <1>6, <1>7, <1>8, <1>9, <1>10, <1>11, <1>12 DEF Next, Follow

\* What goes on keeps what was said of it, its quiet and its record.
LEMMA SaysOn ==
  ASSUME NEW j, Onward(jobs[j], jobs'[j]), NEW status, NEW done \in Nat, States(j, status, done)
  PROVE  States(j, status, done)'
<1>1. status \in {"completed", "cancelled", "failed"} => status = jobs'[j].status /\ done = jobs'[j].done
  BY DEF States, Onward, Ended
<1>2. status = "running" => done <= jobs'[j].done
  BY DEF States, Onward
<1> QED BY <1>1, <1>2 DEF States

LEMMA QuietOn ==
  ASSUME NEW j, Onward(jobs[j], jobs'[j]), Quiet(j) PROVE Quiet(j)'
  BY DEF Quiet, Onward

LEMMA LedgerOn ==
  ASSUME NEW j \in DOMAIN jobs, JobsInv, Onward(jobs[j], jobs'[j]), activity' = activity, LedgerOk(j)
  PROVE  LedgerOk(j)'
<1>1. Ends(j)' = Ends(j)
  BY DEF Ends
<1>2. PlaceOk(jobs[j])
  BY CallCounts
<1>3. ASSUME NEW i \in Ends(j)
      PROVE  /\ activity[i][2] = jobs'[j].status /\ jobs'[j].step = "over"
             /\ \E k \in 1..(i - 1) : activity[k] = <<j, "started">>
             /\ \A n \in DOMAIN jobs'[j].q : jobs'[j].q[n].type = "stream_end"
  <2>1. /\ activity[i][2] = jobs[j].status /\ jobs[j].step = "over"
        /\ \E k \in 1..(i - 1) : activity[k] = <<j, "started">>
        /\ \A n \in DOMAIN jobs[j].q : jobs[j].q[n].type = "stream_end"
    BY DEF LedgerOk
  <2>2. jobs'[j].status = jobs[j].status
    BY <2>1, <1>2 DEF PlaceOk, Onward
  <2>3. jobs'[j].step = "over" /\ \A n \in DOMAIN jobs'[j].q : jobs'[j].q[n].type = "stream_end"
    BY <2>1 DEF Onward
  <2> QED BY <2>1, <2>2, <2>3
<1>4. (\E k \in DOMAIN activity : activity[k] = <<j, "started">>) /\ \A i, k \in Ends(j) : i = k
  BY DEF LedgerOk
<1> QED BY <1>1, <1>3, <1>4 DEF LedgerOk

\* A step that adds no job keeps of the ledger and of the jobs known what it leaves alone.
LEMMA ForgottenOn ==
  ASSUME JobsInv, [Next]_vars, DOMAIN jobs' = DOMAIN jobs, known' = known, ForgottenEnded PROVE ForgottenEnded'
  BY JobsGoOn DEF ForgottenEnded, Onward

\* The steps of the server in which the tab has no part.
LEMMA ServerSteps ==
  ASSUME JobsInv, TabInv, [Next]_vars, UNCHANGED <<box, src, net, gaveUp, activity, known>>, DOMAIN jobs' = DOMAIN jobs
  PROVE  TabInv'
<1>1. \A j \in DOMAIN jobs : Onward(jobs[j], jobs'[j])
  BY JobsGoOn
<1>2. TabTypes'
  BY DEF TabInv, TabTypes
<1>3. ForgottenEnded'
  BY ForgottenOn DEF TabInv
<1>4. \A j \in DOMAIN jobs : LedgerOk(j)'
  BY <1>1, LedgerOn DEF TabInv
<1>5. OneJob'
  <2>1. src # 0 => src \in DOMAIN jobs
    BY DEF TabInv, TabTypes
  <2>2. src # 0 /\ Quiet(src) => Quiet(src)'
    BY <2>1, <1>1, QuietOn
  <2>3. /\ net.kind \in {"reattach", "fallback"} => src = 0
        /\ Asking => box.done = 0
        /\ src # 0 /\ (box.status \notin Active \/ Asking) => Quiet(src)
    BY DEF TabInv, OneJob
  <2>4. Asking' = Asking /\ src' = src /\ box' = box /\ net' = net
    BY DEF Asking
  <2> HIDE DEF Quiet
  <2> QED BY <2>2, <2>3, <2>4 DEF OneJob
<1>6. BoxOk'
  <2>1. /\ box.status \in {"running", "completed", "cancelled"} => box.job \in DOMAIN jobs
        /\ net.status \in Statuses => net.job \in DOMAIN jobs
        /\ net.status = "gone" => net.job \in DOMAIN jobs
        /\ box.done \in Nat /\ net.done \in Nat
    BY DEF TabInv, TabTypes, Boxes, Nets, Statuses, Ended
  <2>2. box.status \in {"running", "completed", "cancelled"} => States(box.job, box.status, box.done)'
    <3>1. CASE box.status \in {"running", "completed", "cancelled"}
      BY <3>1, <2>1, <1>1, SaysOn DEF TabInv, BoxOk
    <3> QED BY <3>1
  <2>3. net.status \in Statuses => States(net.job, net.status, net.done)'
    <3>1. CASE net.status \in Statuses
      BY <3>1, <2>1, <1>1, SaysOn DEF TabInv, BoxOk
    <3> QED BY <3>1
  <2>4. net.status = "gone" => jobs'[net.job].status \in Ended
    BY <2>1, <1>1 DEF TabInv, BoxOk, Onward
  <2>5. \A j \in gaveUp : j \in DOMAIN jobs /\ jobs'[j].status \in Ended
    BY <1>1 DEF TabInv, BoxOk, Onward
  <2> QED BY <2>2, <2>3, <2>4, <2>5 DEF BoxOk, States
<1> QED BY <1>2, <1>3, <1>4, <1>5, <1>6 DEF TabInv

\* The steps of the tab, and the server's answer to what it asked: the jobs and the ledger stay.
LEMMA TabSteps ==
  ASSUME JobsInv, TabInv,
         \/ Start \/ Started \/ Refused \/ Resumed \/ Gone \/ StreamTimesOut \/ Break \/ Reload \/ Snapshot
  PROVE  TabInv'
<1>0. /\ jobs' = jobs /\ known' = known /\ activity' = activity
  BY DEF Start, Started, Refused, Resumed, Gone, StreamTimesOut, Break, Reload, Snapshot, server
<1>1. ForgottenEnded' /\ \A j \in DOMAIN jobs' : LedgerOk(j)'
  BY <1>0 DEF TabInv, ForgottenEnded, LedgerOk, Ends
<1>2. /\ activity \in Seq(Entries) /\ \A i \in DOMAIN activity : activity[i][1] \in DOMAIN jobs
      /\ box \in Boxes /\ net \in Nets /\ src \in Nat
      /\ box.job \in DOMAIN jobs \cup {0} /\ (src # 0 => src = box.job)
      /\ box.status \in Statuses \ {"failed"} => box.job # 0
      /\ net.kind \in {"posted", "reattach", "fallback"} => net.job \in DOMAIN jobs
      /\ net.status # "" => net.kind \in {"reattach", "fallback"}
  BY DEF TabInv, TabTypes
<1>3. /\ net.kind \in {"reattach", "fallback"} => src = 0
      /\ Asking => box.done = 0
      /\ src # 0 /\ (box.status \notin Active \/ Asking) => Quiet(src)
      /\ box.status \in {"running", "completed", "cancelled"} => States(box.job, box.status, box.done)
      /\ net.status \in Statuses => States(net.job, net.status, net.done)
      /\ net.status = "gone" => jobs[net.job].status \in Ended
      /\ \A j \in gaveUp : j \in DOMAIN jobs /\ jobs[j].status \in Ended
  BY DEF TabInv, OneJob, BoxOk
<1>4. \A j \in DOMAIN jobs : jobs[j].done \in Nat /\ jobs[j].status \in Statuses /\ j \in Nat /\ j # 0
  <2>1. jobs \in [1..Len(jobs) -> Jobs] /\ DOMAIN jobs = 1..Len(jobs) /\ Len(jobs) \in Nat
    BY DEF JobsInv
  <2>2. \A d \in Jobs : d.done \in Nat /\ d.status \in Statuses
    BY DEF Jobs
  <2>3. \A j \in DOMAIN jobs : jobs[j] \in Jobs /\ j \in Nat /\ j # 0
    BY <2>1
  <2> QED BY <2>2, <2>3
<1>5. /\ \A j : Quiet(j)' <=> Quiet(j)
      /\ \A j, status, done : States(j, status, done)' <=> States(j, status, done)
  BY <1>0 DEF Quiet, States
<1>6. NoNet \in Nets /\ NoNet.kind = "none" /\ NoNet.status = "" /\ NoNet.job = 0
  BY DEF NoNet, Nets
<1>s. SUFFICES /\ box' \in Boxes /\ net' \in Nets /\ src' \in Nat
               /\ box'.job \in DOMAIN jobs \cup {0} /\ (src' # 0 => src' = box'.job)
               /\ box'.status \in Statuses \ {"failed"} => box'.job # 0
               /\ net'.kind \in {"posted", "reattach", "fallback"} => net'.job \in DOMAIN jobs
               /\ net'.status # "" => net'.kind \in {"reattach", "fallback"}
               /\ net'.kind \in {"reattach", "fallback"} => src' = 0
               /\ Asking' => box'.done = 0
               /\ src' # 0 /\ (box'.status \notin Active \/ Asking') => Quiet(src')
               /\ box'.status \in {"running", "completed", "cancelled"} => States(box'.job, box'.status, box'.done)
               /\ net'.status \in Statuses => States(net'.job, net'.status, net'.done)
               /\ net'.status = "gone" => jobs[net'.job].status \in Ended
               /\ \A j \in gaveUp' : j \in DOMAIN jobs /\ jobs[j].status \in Ended
  <2>1. TabTypes'
    BY <1>0, <1>2, <1>s DEF TabTypes
  <2>2. OneJob'
    BY <1>0, <1>5, <1>s DEF OneJob, Quiet
  <2>3. BoxOk'
    BY <1>0, <1>5, <1>s DEF BoxOk, States
  <2> QED BY <2>1, <2>2, <2>3, <1>1 DEF TabInv
<1> HIDE DEF Quiet, States
<1>7. CASE Start
  <2>1. net' = [NoNet EXCEPT !.kind = "post"] /\ box' = [box EXCEPT !.status = "starting", !.done = 0]
        /\ src' = src /\ gaveUp' = gaveUp /\ box.status \notin Active
    BY <1>7 DEF Start
  <2>2. box' \in Boxes /\ box'.job = box.job /\ box'.status = "starting" /\ box'.done = 0
    BY <1>2, <2>1 DEF Boxes
  <2>3. net' \in Nets /\ net'.kind = "post" /\ net'.status = ""
    BY <2>1 DEF NoNet, Nets
  <2> QED BY <1>2, <1>3, <2>1, <2>2, <2>3 DEF Asking, Active, Statuses, Ended
<1>8. CASE Started
  <2>1. net.kind = "posted" /\ box' = [box EXCEPT !.job = net.job, !.status = "running"] /\ src' = net.job
        /\ net' = NoNet /\ gaveUp' = gaveUp
    BY <1>8 DEF Started, Attach
  <2>2. net.job \in DOMAIN jobs /\ net.job \in Nat /\ box.done = 0 /\ net.job # 0
    BY <1>2, <1>3, <1>4, <2>1 DEF Asking
  <2>3. box' \in Boxes /\ box'.job = net.job /\ box'.status = "running" /\ box'.done = 0
    BY <1>2, <2>1, <2>2 DEF Boxes, Statuses
  <2>4. States(net.job, "running", 0)
    BY <1>4, <2>2 DEF States
  <2> QED BY <1>3, <1>6, <2>1, <2>2, <2>3, <2>4 DEF Asking, Active, Statuses, Ended
<1>9. CASE Refused
  <2>1. net.kind = "refused" /\ box' = [box EXCEPT !.status = "failed"] /\ net' = NoNet /\ src' = src /\ gaveUp' = gaveUp
    BY <1>9 DEF Refused
  <2>2. box' \in Boxes /\ box'.job = box.job /\ box'.status = "failed"
    BY <1>2, <2>1 DEF Boxes, Statuses, Ended
  <2> QED BY <1>2, <1>3, <1>6, <2>1, <2>2 DEF Asking, Statuses, Ended
<1>10. CASE Resumed
  <2>1. /\ net.kind \in {"reattach", "fallback"} /\ net.status \notin {"", "gone"} /\ net' = NoNet /\ gaveUp' = gaveUp
        /\ box' = [job |-> net.job, status |-> net.status, done |-> net.done]
        /\ IF net.status \in Active THEN src' = net.job ELSE src' = src
    BY <1>10 DEF Resumed, Attach
  <2>2. src = 0 /\ net.job \in DOMAIN jobs /\ net.job \in Nat /\ net.job # 0 /\ net.status \in Statuses /\ net.done \in Nat
    BY <1>2, <1>3, <1>4, <2>1 DEF Nets
  <2>3. box' \in Boxes /\ box'.job = net.job /\ box'.status = net.status /\ box'.done = net.done
    BY <2>1, <2>2 DEF Boxes
  <2>4. States(net.job, net.status, net.done)
    BY <2>2, <1>3
  <2>5. src' \in {0, net.job} /\ (src' # 0 => box'.status \in Active)
    BY <2>1, <2>2, <2>3
  <2>6. ~Asking'
    BY <2>1, <1>6 DEF Asking
  <2>7. net'.status \notin Statuses /\ net'.status # "gone" /\ net'.status = "" /\ net'.kind = "none"
    BY <2>1, <1>6 DEF Statuses, Ended
  <2>8. src' \in Nat /\ (src' # 0 => src' = box'.job)
    BY <2>2, <2>3, <2>5
  <2> QED BY <1>3, <1>6, <2>1, <2>2, <2>3, <2>4, <2>5, <2>6, <2>7, <2>8
<1>11. CASE Gone
  <2>1. /\ net.status = "gone" /\ net' = NoNet /\ src' = src /\ gaveUp' = gaveUp \cup {net.job}
        /\ \/ box' = [box EXCEPT !.job = 0, !.status = "idle"]
           \/ box' = [box EXCEPT !.status = "failed"]
    BY <1>11 DEF Gone
  <2>2. src = 0 /\ net.job \in DOMAIN jobs /\ jobs[net.job].status \in Ended
    BY <1>2, <1>3, <2>1
  <2>3. box' \in Boxes /\ box'.status \in {"idle", "failed"} /\ box'.job \in {0, box.job}
    <3>1. CASE box' = [box EXCEPT !.job = 0, !.status = "idle"]
      BY <1>2, <3>1 DEF Boxes
    <3>2. CASE box' = [box EXCEPT !.status = "failed"]
      BY <1>2, <3>2 DEF Boxes, Statuses, Ended
    <3> QED BY <2>1, <3>1, <3>2
  <2> QED BY <1>2, <1>3, <1>6, <2>1, <2>2, <2>3 DEF Asking, Statuses, Ended
<1>12. CASE StreamTimesOut
  BY <1>2, <1>3, <1>12 DEF StreamTimesOut, Asking
<1>13. CASE Break
  <2>1. CASE UNCHANGED <<src, net>>
    BY <2>1, <1>2, <1>3, <1>13 DEF Break, Asking
  <2>2. CASE src # 0 /\ src' = 0 /\ net' = [NoNet EXCEPT !.kind = "fallback", !.job = src]
    <3>1. net' \in Nets /\ net'.kind = "fallback" /\ net'.job = src /\ net'.status = ""
      BY <2>2, <1>2 DEF NoNet, Nets
    <3> QED BY <2>2, <3>1, <1>2, <1>3, <1>13 DEF Break, Asking, Statuses, Ended
  <2> QED BY <2>1, <2>2, <1>13 DEF Break
<1>14. CASE Reload
  <2>1. src' = 0 /\ gaveUp' = gaveUp
    BY <1>14 DEF Reload
  <2>2. CASE /\ box.job # 0 /\ box.status \in Active /\ box' = [box EXCEPT !.done = 0]
             /\ net' = [NoNet EXCEPT !.kind = "reattach", !.job = box.job]
    <3>1. net' \in Nets /\ net'.kind = "reattach" /\ net'.job = box.job /\ net'.status = ""
      BY <2>2, <1>2 DEF NoNet, Nets, Boxes
    <3>2. box' \in Boxes /\ box'.job = box.job /\ box'.status = box.status /\ box'.done = 0
      BY <2>2, <1>2 DEF Boxes
    <3>3. States(box.job, box.status, 0)
      <4>1. box.job \in DOMAIN jobs /\ box.status \in {"starting", "running"}
        BY <2>2, <1>2 DEF Active
      <4>2. 0 <= jobs[box.job].done
        BY <4>1, <1>4
      <4> QED BY <4>1, <4>2 DEF States
    <3> QED BY <2>1, <2>2, <3>1, <3>2, <3>3, <1>2, <1>3 DEF Asking, Statuses, Ended
  <2>3. CASE box' = [job |-> 0, status |-> "idle", done |-> 0] /\ net' = NoNet
    <3>1. box' \in Boxes /\ box'.job = 0 /\ box'.status = "idle"
      BY <2>3 DEF Boxes
    <3> QED BY <2>1, <2>3, <3>1, <1>3, <1>6 DEF Asking, Statuses, Ended
  <2> QED BY <2>2, <2>3, <1>14 DEF Reload
<1>15. CASE Snapshot
  <2>1. net.kind \in {"reattach", "fallback"} /\ UNCHANGED <<box, src, gaveUp>>
    BY <1>15 DEF Snapshot
  <2>2. net.job \in DOMAIN jobs /\ src = 0
    BY <2>1, <1>2, <1>3
  <2>3. PICK s : s = jobs[net.job].status
    OBVIOUS
  <2>4. PICK n : n = jobs[net.job].done
    OBVIOUS
  <2>5. s \in Statuses /\ n \in Nat
    BY <1>4, <2>2, <2>3, <2>4
  <2>6. CASE net.job \in known
    <3>1. net' = [net EXCEPT !.status = s, !.done = n]
      BY <1>15, <2>3, <2>4, <2>6 DEF Snapshot, StateOf
    <3>2. net' \in Nets /\ net'.kind = net.kind /\ net'.job = net.job /\ net'.status = s /\ net'.done = n
      BY <3>1, <2>5, <1>2 DEF Nets
    <3>3. States(net.job, s, n)
      BY <2>3, <2>4, <2>5 DEF States
    <3> QED BY <2>1, <2>2, <2>5, <3>2, <3>3, <1>2, <1>3 DEF Asking, Statuses, Ended
  <2>7. CASE net.job \notin known
    <3>1. net' = [net EXCEPT !.status = "gone"]
      BY <1>15, <2>7 DEF Snapshot
    <3>2. net' \in Nets /\ net'.kind = net.kind /\ net'.job = net.job /\ net'.status = "gone"
      BY <3>1, <1>2 DEF Nets
    <3>3. jobs[net.job].status \in Ended
      BY <2>2, <2>7 DEF TabInv, ForgottenEnded
    <3> QED BY <2>1, <2>2, <3>2, <3>3, <1>2, <1>3 DEF Asking, Statuses, Ended
  <2> QED BY <2>6, <2>7
<1> QED BY <1>7, <1>8, <1>9, <1>10, <1>11, <1>12, <1>13, <1>14, <1>15

\* What is added to the ledger: the records of other jobs stay as they are.
LEMMA LedgerAdds ==
  ASSUME JobsInv, TabInv, NEW e \in Entries, activity' = Append(activity, e)
  PROVE  /\ activity' \in Seq(Entries) /\ Len(activity') = Len(activity) + 1 /\ activity'[Len(activity) + 1] = e
         /\ \A i \in DOMAIN activity : i \in DOMAIN activity' /\ activity'[i] = activity[i]
         /\ \A i \in DOMAIN activity' : i \in DOMAIN activity \/ i = Len(activity) + 1
         /\ \A j : e[1] # j \/ e[2] = "started" => Ends(j)' = Ends(j)
         /\ \A j \in DOMAIN jobs : Onward(jobs[j], jobs'[j]) /\ (e[1] # j \/ e[2] = "started") => LedgerOk(j)'
<1>0. activity \in Seq(Entries)
  BY DEF TabInv, TabTypes
<1>1. /\ activity' \in Seq(Entries) /\ Len(activity') = Len(activity) + 1 /\ activity'[Len(activity) + 1] = e
      /\ \A i \in DOMAIN activity : i \in DOMAIN activity' /\ activity'[i] = activity[i]
      /\ \A i \in DOMAIN activity' : i \in DOMAIN activity \/ i = Len(activity) + 1
      /\ Len(activity) + 1 \notin DOMAIN activity
  BY <1>0
<1>2. ASSUME NEW j, e[1] # j \/ e[2] = "started" PROVE Ends(j)' = Ends(j)
  BY <1>1, <1>2 DEF Ends
<1>3. ASSUME NEW j \in DOMAIN jobs, Onward(jobs[j], jobs'[j]), e[1] # j \/ e[2] = "started" PROVE LedgerOk(j)'
  <2>1. Ends(j)' = Ends(j)
    BY <1>2, <1>3
  <2>2. PlaceOk(jobs[j]) /\ LedgerOk(j)
    BY CallCounts DEF TabInv
  <2>3. ASSUME NEW i \in Ends(j)
        PROVE  /\ activity'[i][2] = jobs'[j].status /\ jobs'[j].step = "over"
               /\ \E k \in 1..(i - 1) : activity'[k] = <<j, "started">>
               /\ \A n \in DOMAIN jobs'[j].q : jobs'[j].q[n].type = "stream_end"
    <3>1. /\ activity[i][2] = jobs[j].status /\ jobs[j].step = "over"
          /\ \A n \in DOMAIN jobs[j].q : jobs[j].q[n].type = "stream_end"
      BY <2>2 DEF LedgerOk
    <3>2. PICK k \in 1..(i - 1) : activity[k] = <<j, "started">>
      BY <2>2 DEF LedgerOk
    <3>3. i \in DOMAIN activity
      BY DEF Ends
    <3>4. k \in DOMAIN activity
      BY <3>2, <3>3, <1>0
    <3>5. activity'[i] = activity[i] /\ activity'[k] = activity[k]
      BY <3>3, <3>4, <1>1
    <3>6. jobs'[j].status = jobs[j].status
      BY <3>1, <2>2, <1>3 DEF PlaceOk, Onward
    <3>7. jobs'[j].step = "over" /\ \A n \in DOMAIN jobs'[j].q : jobs'[j].q[n].type = "stream_end"
      BY <3>1, <1>3 DEF Onward
    <3> QED BY <3>1, <3>2, <3>5, <3>6, <3>7
  <2>4. (\E k \in DOMAIN activity' : activity'[k] = <<j, "started">>) /\ \A i, k \in Ends(j) : i = k
    BY <2>2, <1>1 DEF LedgerOk
  <2> QED BY <2>1, <2>3, <2>4 DEF LedgerOk
<1> QED BY <1>1, <1>2, <1>3

\* A job starts, or is refused: the tab still waits for the answer, and has heard of no job since.
LEMMA ProcessStep ==
  ASSUME JobsInv, TabInv, [Next]_vars, Process PROVE TabInv'
<1>0. /\ net.kind = "post" /\ UNCHANGED <<box, src, gaveUp, late>>
      /\ box \in Boxes /\ src \in Nat /\ box.job \in DOMAIN jobs \cup {0} /\ (src # 0 => src = box.job)
      /\ box.status \in Statuses \ {"failed"} => box.job # 0
      /\ \A i \in DOMAIN activity : activity[i][1] \in DOMAIN jobs
      /\ activity \in Seq(Entries)
      /\ Asking /\ box.done = 0 /\ (src # 0 => Quiet(src))
      /\ box.status \in {"running", "completed", "cancelled"} => States(box.job, box.status, box.done)
      /\ \A j \in gaveUp : j \in DOMAIN jobs /\ jobs[j].status \in Ended
  BY DEF Process, TabInv, TabTypes, OneJob, BoxOk, Asking
<1>1. NoNet \in Nets /\ NoNet.kind = "none" /\ NoNet.status = "" /\ NoNet.job = 0 /\ NoNet.done = 0
  BY DEF NoNet, Nets
<1>2. CASE net' = [NoNet EXCEPT !.kind = "refused"] /\ UNCHANGED <<jobs, known, activity>>
  <2>1. net' \in Nets /\ net'.kind = "refused" /\ net'.status = ""
    BY <1>2 DEF NoNet, Nets
  <2>2. TabTypes'
    BY <1>0, <1>2, <2>1 DEF TabTypes
  <2>3. OneJob'
    BY <1>0, <1>2, <2>1 DEF OneJob, Asking, Quiet
  <2>4. BoxOk'
    BY <1>0, <1>2, <2>1 DEF BoxOk, States, Statuses, Ended
  <2>0. jobs' = jobs /\ known' = known /\ activity' = activity
    BY <1>2
  <2>5. ForgottenEnded' /\ \A j \in DOMAIN jobs' : LedgerOk(j)'
    BY <2>0 DEF TabInv, ForgottenEnded, LedgerOk, Ends
  <2> QED BY <2>2, <2>3, <2>4, <2>5 DEF TabInv
<1>n. PICK n : n = Len(jobs) + 1
  OBVIOUS
<1>3. CASE /\ Len(jobs) < MaxJobs /\ jobs' = Append(jobs, NewJob(Mode[n])) /\ known' = {n} \cup (known \ Forgotten)
           /\ activity' = Append(activity, <<n, "started">>)
           /\ net' = [NoNet EXCEPT !.kind = "posted", !.job = n]
  <2>1. /\ DOMAIN jobs' = DOMAIN jobs \cup {n} /\ \A i \in DOMAIN jobs : jobs'[i] = jobs[i]
        /\ n \in Nat /\ n \notin DOMAIN jobs /\ 0 \notin DOMAIN jobs
    <3>1. jobs \in Seq(Jobs)
      BY DEF JobsInv
    <3>2. DOMAIN jobs' = DOMAIN jobs \cup {n} /\ \A i \in DOMAIN jobs : jobs'[i] = jobs[i]
      BY <1>0, <1>3, <1>n, JobJoins
    <3> QED BY <3>1, <3>2, <1>n
  <2>2. net' \in Nets /\ net'.kind = "posted" /\ net'.job = n /\ net'.status = ""
    BY <1>3, <2>1 DEF NoNet, Nets
  <2>3. \A j \in DOMAIN jobs : Onward(jobs[j], jobs'[j])
    BY JobsGoOn
  <2>4. PICK e : e = <<n, "started">>
    OBVIOUS
  <2>5. e \in Entries /\ e[1] = n /\ e[2] = "started" /\ activity' = Append(activity, e)
    BY <1>3, <2>1, <2>4 DEF Entries
  <2>6. /\ activity' \in Seq(Entries) /\ Len(activity') = Len(activity) + 1 /\ activity'[Len(activity) + 1] = e
        /\ \A i \in DOMAIN activity : i \in DOMAIN activity' /\ activity'[i] = activity[i]
        /\ \A i \in DOMAIN activity' : i \in DOMAIN activity \/ i = Len(activity) + 1
        /\ Ends(n)' = Ends(n)
        /\ \A j \in DOMAIN jobs : LedgerOk(j)'
    BY <2>3, <2>5, LedgerAdds
  <2>7. LedgerOk(n)'
    <3>1. Ends(n) = {}
      BY <1>0, <2>1 DEF Ends
    <3>2. Len(activity) + 1 \in DOMAIN activity'
      BY <2>6, <1>0
    <3> QED BY <3>1, <3>2, <2>4, <2>6 DEF LedgerOk
  <2>8. ForgottenEnded'
    <3>1. Forgotten \subseteq {j \in known : jobs[j].status \in Ended}
      BY DEF Forgotten
    <3> QED BY <3>1, <2>1, <1>3 DEF TabInv, ForgottenEnded
  <2>9. TabTypes'
    <3>1. \A i \in DOMAIN activity' : activity'[i][1] \in DOMAIN jobs'
      BY <1>0, <2>1, <2>5, <2>6
    <3> QED BY <3>1, <1>0, <2>1, <2>2, <2>6 DEF TabTypes
  <2>10. OneJob'
    <3>1. src # 0 => Quiet(src)'
      BY <1>0, <2>1 DEF Quiet
    <3> QED BY <3>1, <1>0, <2>2 DEF OneJob, Asking
  <2>11. BoxOk'
    <3>1. box.status \in {"running", "completed", "cancelled"} => States(box.job, box.status, box.done)'
      <4>1. CASE box.status \in {"running", "completed", "cancelled"}
        <5>1. box.job \in DOMAIN jobs
          BY <4>1, <1>0 DEF Statuses, Ended
        <5> QED BY <4>1, <5>1, <1>0, <2>1 DEF States
      <4> QED BY <4>1
    <3>2. \A j \in gaveUp' : j \in DOMAIN jobs' /\ jobs'[j].status \in Ended
      BY <1>0, <2>1
    <3> QED BY <3>1, <3>2, <1>0, <2>2 DEF BoxOk, States, Statuses, Ended
  <2> QED BY <2>1, <2>6, <2>7, <2>8, <2>9, <2>10, <2>11 DEF TabInv
<1>4. \/ net' = [NoNet EXCEPT !.kind = "refused"] /\ UNCHANGED <<jobs, known, activity>>
      \/ /\ Len(jobs) < MaxJobs /\ jobs' = Append(jobs, NewJob(Mode[n])) /\ known' = {n} \cup (known \ Forgotten)
         /\ activity' = Append(activity, <<n, "started">>)
         /\ net' = [NoNet EXCEPT !.kind = "posted", !.job = n]
  BY <1>n DEF Process
<1> QED BY <1>2, <1>3, <1>4

\* The tab hears the oldest event of its job.
LEMMA DeliverStep ==
  ASSUME JobsInv, TabInv, [Next]_vars, Deliver PROVE TabInv'
<1>0. /\ src # 0 /\ UNCHANGED <<known, net, gaveUp>>
      /\ box \in Boxes /\ net \in Nets /\ src \in Nat /\ src = box.job /\ src \in DOMAIN jobs
      /\ box.job \in DOMAIN jobs \cup {0}
      /\ \A i \in DOMAIN activity : activity[i][1] \in DOMAIN jobs
      /\ net.kind \in {"posted", "reattach", "fallback"} => net.job \in DOMAIN jobs
      /\ net.status # "" => net.kind \in {"reattach", "fallback"}
      /\ activity \in Seq(Entries)
      /\ net.kind \notin {"reattach", "fallback"} /\ (Asking => box.done = 0)
      /\ box.status \notin Active \/ Asking => Quiet(src)
      /\ box.status \in {"running", "completed", "cancelled"} => States(box.job, box.status, box.done)
      /\ \A j \in gaveUp : j \in DOMAIN jobs /\ jobs[j].status \in Ended
  BY DEF Deliver, TabInv, TabTypes, OneJob, BoxOk
<1>d. PICK d : d = jobs[src]
  OBVIOUS
<1>e. PICK e : e = Head(jobs[src].q)
  OBVIOUS
<1>1. PICK new \in Jobs :
        /\ jobs' = [jobs EXCEPT ![src] = new] /\ new = [d EXCEPT !.q = Tail(d.q)]
        /\ \A i \in DOMAIN new.q : i + 1 \in DOMAIN d.q /\ new.q[i] = d.q[i + 1]
  <2>1. Taken(src) /\ src \in DOMAIN jobs
    BY <1>0 DEF Deliver
  <2> QED BY <2>1, <1>d, Taking
<1>2. /\ d \in Jobs /\ d.q \in Seq(Events) /\ d.q # <<>> /\ PlaceOk(d) /\ QueueOk(d) /\ d.done \in Nat
      /\ d.status \in Statuses
  <2>1. d \in Jobs /\ PlaceOk(d) /\ QueueOk(d)
    BY <1>0, <1>d, CallCounts
  <2> QED BY <2>1, <1>0, <1>d DEF Deliver, Taken, Jobs
<1>3. e \in Events /\ 1 \in DOMAIN d.q /\ e = d.q[1]
  BY <1>2, <1>d, <1>e
<1>4. e.done \in Nat /\ e.type \in {"started", "doc", "ended", "stream_end"}
  BY <1>3 DEF Events
<1>5. /\ e.type \in {"started", "doc"} => e.done <= d.done
      /\ e.type = "ended" => e.status = d.status /\ e.done = d.done
      /\ e.type \in {"ended", "stream_end"} =>
           d.step = "over" /\ \A k \in DOMAIN d.q : k > 1 => d.q[k].type = "stream_end"
  BY <1>2, <1>3 DEF QueueOk
<1>6. /\ jobs'[src] = new /\ DOMAIN jobs' = DOMAIN jobs
      /\ new.status = d.status /\ new.done = d.done /\ new.step = d.step
  BY <1>0, <1>1, <1>2, JobMoves DEF Jobs
<1>7. \A j \in DOMAIN jobs : Onward(jobs[j], jobs'[j])
  BY JobsGoOn
<1>8. e.type \in {"ended", "stream_end"} => new.step = "over" /\ \A i \in DOMAIN new.q : new.q[i].type = "stream_end"
  <2> SUFFICES ASSUME e.type \in {"ended", "stream_end"}
               PROVE  new.step = "over" /\ \A i \in DOMAIN new.q : new.q[i].type = "stream_end"
    OBVIOUS
  <2>1. new.q \in Seq(Events)
    BY DEF Jobs
  <2>2. \A i \in DOMAIN new.q : i + 1 > 1
    BY <2>1
  <2>3. \A i \in DOMAIN new.q : new.q[i].type = "stream_end"
    BY <1>1, <1>5, <2>2
  <2> QED BY <2>3, <1>5, <1>6
<1>9. Quiet(src) => e.type = "stream_end"
  BY <1>3, <1>d DEF Quiet
<1>10. ForgottenEnded'
  BY <1>0, <1>6, ForgottenOn DEF TabInv
<1>11. net.kind \notin {"reattach", "fallback"} /\ net.status = "" /\ (net.status \notin Statuses) /\ net.status # "gone"
  BY <1>0 DEF Statuses, Ended
<1>12. \A j \in gaveUp : j \in DOMAIN jobs' /\ jobs'[j].status \in Ended
  BY <1>0, <1>6, <1>7 DEF Onward
<1>f. Len(activity) \in Nat /\ DOMAIN activity = 1..Len(activity)
  <2>1. activity \in Seq(Entries)
    BY <1>0
  <2> QED BY <2>1
<1>13. CASE e.type = "stream_end"
  <2>1. box' = box /\ src' = 0 /\ activity' = activity
    BY <1>13, <1>e DEF Deliver
  <2>2. TabTypes'
    BY <1>0, <1>6, <2>1 DEF TabInv, TabTypes
  <2>3. OneJob'
    BY <1>0, <2>1 DEF OneJob, Asking
  <2>4. BoxOk'
    <3>1. box.status \in {"running", "completed", "cancelled"} => States(box.job, box.status, box.done)'
      BY <1>0, <1>7, <2>1, SaysOn DEF Boxes
    <3> QED BY <3>1, <1>0, <1>11, <1>12, <2>1 DEF BoxOk, States
  <2>5. \A j \in DOMAIN jobs : LedgerOk(j)'
    BY <1>7, <2>1, LedgerOn DEF TabInv
  <2> QED BY <2>2, <2>3, <2>4, <2>5, <1>6, <1>10 DEF TabInv
<1>14. CASE e.type # "stream_end"
  <2>1. box' = Handle(e) /\ src' = src /\ box.status \in Active /\ ~Asking /\ ~Asking'
    BY <1>0, <1>9, <1>14, <1>e DEF Deliver, Asking
  <2>2. box' \in Boxes /\ box'.job = box.job
    <3>1. CASE e.type = "started"
      BY <3>1, <2>1, <1>0 DEF Handle, Boxes, Statuses
    <3>2. CASE e.type = "doc"
      BY <3>2, <2>1, <1>0, <1>4 DEF Handle, Boxes
    <3>3. CASE e.type = "ended"
      BY <3>3, <2>1, <1>0, <1>2, <1>4, <1>5 DEF Handle, Boxes
    <3> QED BY <3>1, <3>2, <3>3, <1>4, <1>14
  <2>3. /\ e.type = "started" => box'.status = "running" /\ box'.done = 0
        /\ e.type = "doc" => box'.status = box.status /\ box'.done = e.done
        /\ e.type = "ended" => box'.status = d.status /\ box'.done = d.done
    BY <2>1, <1>0, <1>4, <1>5 DEF Handle, Boxes
  <2>4. (box.status \in {"running", "completed", "cancelled"} => States(box.job, box.status, box.done))'
    <3>1. CASE e.type = "started"
      <4>1. States(src, "running", 0)'
        BY <1>2, <1>6, <2>1 DEF States
      <4> QED BY <3>1, <4>1, <1>0, <2>1, <2>2, <2>3 DEF States
    <3>2. CASE e.type = "doc"
      <4>1. box'.status \in {"starting", "running"} /\ box'.done <= d.done
        BY <3>2, <1>5, <2>1, <2>3 DEF Active
      <4> QED BY <4>1, <1>0, <1>6, <2>1, <2>2 DEF States
    <3>3. CASE e.type = "ended"
      <4>1. States(src, d.status, d.done)'
        BY <1>2, <1>6, <2>1 DEF States
      <4> QED BY <3>3, <4>1, <1>0, <2>1, <2>2, <2>3 DEF States
    <3> QED BY <3>1, <3>2, <3>3, <1>4, <1>14
  <2>5. BoxOk'
    BY <2>4, <1>0, <1>11, <1>12 DEF BoxOk, States
  <2>6. OneJob'
    <3>1. CASE e.type = "ended"
      BY <3>1, <1>0, <1>6, <1>8, <2>1 DEF OneJob, Quiet
    <3>2. CASE e.type \in {"started", "doc"}
      <4>1. box'.status \in Active
        BY <3>2, <2>1, <2>3 DEF Active
      <4> QED BY <4>1, <1>0, <2>1 DEF OneJob
    <3> QED BY <3>1, <3>2, <1>4, <1>14
  <2>7. CASE e.type # "ended"
    <3>1. activity' = activity
      BY <2>7, <1>e DEF Deliver
    <3>2. TabTypes'
      BY <3>1, <1>0, <1>6, <2>1, <2>2 DEF TabTypes
    <3>3. \A j \in DOMAIN jobs : LedgerOk(j)'
      BY <3>1, <1>7, LedgerOn DEF TabInv
    <3> QED BY <3>2, <3>3, <2>5, <2>6, <1>6, <1>10 DEF TabInv
  <2>8. CASE e.type = "ended"
    <3>0. d.step = "over" /\ d.status \in Ended
      BY <2>8, <1>2, <1>5 DEF PlaceOk
    <3>a. PICK a : a = <<src, e.status>>
      OBVIOUS
    <3>1. a \in Entries /\ a[1] = src /\ a[2] = d.status /\ activity' = Append(activity, a)
      BY <3>0, <3>a, <2>8, <1>0, <1>5, <1>e DEF Deliver, Entries
    <3>2. /\ activity' \in Seq(Entries) /\ Len(activity') = Len(activity) + 1 /\ activity'[Len(activity) + 1] = a
          /\ \A i \in DOMAIN activity : i \in DOMAIN activity' /\ activity'[i] = activity[i]
          /\ \A i \in DOMAIN activity' : i \in DOMAIN activity \/ i = Len(activity) + 1
      BY <3>1, LedgerAdds
    <3>3. \A j \in DOMAIN jobs \ {src} : LedgerOk(j)'
      BY <3>1, <1>7, LedgerAdds
    <3>4. TabTypes'
      BY <3>1, <3>2, <1>0, <1>6, <2>1, <2>2 DEF TabTypes
    <3>5. Ends(src) = {}
      <4>1. \A i \in Ends(src) : \A n \in DOMAIN d.q : d.q[n].type = "stream_end"
        BY <1>0, <1>d DEF TabInv, LedgerOk
      <4> QED BY <4>1, <2>8, <1>3
    <3>6. Ends(src)' = {Len(activity) + 1}
      <4>1. \A i \in DOMAIN activity : ~(activity[i][1] = src /\ activity[i][2] # "started")
        BY <3>5 DEF Ends
      <4>a. Len(activity) + 1 \in DOMAIN activity'
        <5>1. Len(activity) \in Nat
          BY <1>f
        <5>2. DOMAIN activity' = 1..Len(activity')
          BY <3>2
        <5> QED BY <5>1, <5>2, <3>2
      <4>b. d.status # "started"
        BY <3>0 DEF Ended
      <4>2. Len(activity) + 1 \in DOMAIN activity' /\ d.status # "started"
        BY <4>a, <4>b
      <4> QED BY <4>1, <4>2, <3>1, <3>2, <2>1 DEF Ends
    <3>7. PICK k \in DOMAIN activity : activity[k] = <<src, "started">>
      BY <1>0 DEF TabInv, LedgerOk
    <3>8. /\ k \in DOMAIN activity' /\ activity'[k] = <<src, "started">>
          /\ k \in 1..((Len(activity) + 1) - 1)
      <4>1. k \in 1..Len(activity) /\ Len(activity) \in Nat
        BY <1>f, <3>7
      <4>2. (Len(activity) + 1) - 1 = Len(activity)
        BY <4>1
      <4> QED BY <4>1, <4>2, <3>2, <3>7
    <3>9. \A n \in DOMAIN jobs'[src].q : jobs'[src].q[n].type = "stream_end"
      BY <2>8, <1>6, <1>8
    <3>10. LedgerOk(src)'
      BY <3>0, <3>1, <3>2, <3>6, <3>8, <3>9, <1>6, <2>1 DEF LedgerOk
    <3> QED BY <3>3, <3>4, <3>10, <2>1, <2>5, <2>6, <1>6, <1>10 DEF TabInv
  <2> QED BY <2>7, <2>8
<1> QED BY <1>13, <1>14

LEMMA TabStep == ASSUME JobsInv, TabInv, [Next]_vars PROVE TabInv'
<1>1. CASE Cancel \/ \E j \in DOMAIN jobs : Work(j) \/ Steal(j) \/ Notice(j)
  <2>1. UNCHANGED <<box, src, net, gaveUp, activity, known>>
    BY <1>1 DEF Cancel, Work, Steal, Notice, Begin, SeesCancel, Report, Crash, End, Parse, FactsReady, PlanFromFacts,
       NextException, Resolve, AssessFacts, PlanFromNames, Read, Ask, FindingsReady, AssessFindings, Alone,
       ThreadOnly, tab, server
  <2>2. Process => DOMAIN jobs' = DOMAIN jobs
    BY <2>1 DEF Process, NoNet
  <2> QED BY <2>1, <2>2, JobsGoOn, ServerSteps
<1>2. CASE Start \/ Started \/ Refused \/ Resumed \/ Gone \/ StreamTimesOut \/ Break \/ Reload \/ Snapshot
  BY <1>2, TabSteps
<1>3. CASE UNCHANGED vars
  <2>1. UNCHANGED <<box, src, net, gaveUp, activity, known>> /\ jobs' = jobs
    BY <1>3 DEF vars, tab, server
  <2> QED BY <2>1, ServerSteps
<1> QED BY <1>1, <1>2, <1>3, ProcessStep, DeliverStep DEF Next, Follow

\* What the box shows and the tab records of a job's end is how it ended, recorded once and
\* after its start; it shows no documents done that are not, and gives up no job that has not
\* ended: for any number of jobs, documents, reloads and broken connections.
THEOREM BoxIsTrue == Spec => []BoxTellsTheTruth
<1>1. Init => JobsInv /\ TabInv
  <2>1. Init => JobsInv
    BY LoanAssumption DEF Init, JobsInv, MaxJobs
  <2>2. ASSUME Init PROVE TabInv
    <3>1. /\ jobs = <<>> /\ DOMAIN jobs = {} /\ src = 0 /\ gaveUp = {} /\ activity = <<>> /\ activity \in Seq(Entries)
          /\ DOMAIN activity = {}
      BY <2>2 DEF Init
    <3>2. /\ box \in Boxes /\ box.job = 0 /\ box.status = "idle"
          /\ net \in Nets /\ net.kind = "none" /\ net.status = ""
      BY <2>2 DEF Init, NoNet, Boxes, Nets
    <3>3. TabTypes
      BY <3>1, <3>2 DEF TabTypes, Statuses, Ended
    <3>4. ForgottenEnded /\ OneJob /\ BoxOk /\ \A j \in DOMAIN jobs : LedgerOk(j)
      BY <3>1, <3>2 DEF ForgottenEnded, OneJob, BoxOk, Asking, Statuses, Ended
    <3> QED BY <3>3, <3>4 DEF TabInv
  <2> QED BY <2>1, <2>2
<1>2. JobsInv /\ TabInv => BoxTellsTheTruth
  <2> SUFFICES ASSUME JobsInv, TabInv PROVE BoxTellsTheTruth
    OBVIOUS
  <2>1. /\ box.status \in {"completed", "cancelled"} => box.status = jobs[box.job].status /\ box.done = jobs[box.job].done
        /\ box.status = "running" => box.done <= jobs[box.job].done
        /\ \A j \in gaveUp : jobs[j].status \in Ended
    BY DEF TabInv, BoxOk, States
  <2>2. ASSUME NEW j \in DOMAIN jobs
        PROVE  /\ Cardinality(Ends(j)) <= 1
               /\ \A i \in Ends(j) : /\ activity[i][2] = jobs[j].status
                                     /\ \E k \in 1..(i - 1) : activity[k] = <<j, "started">>
    <3>1. LedgerOk(j)
      BY DEF TabInv
    <3>2. Ends(j) = {} \/ \E i \in Ends(j) : Ends(j) = {i}
      BY <3>1 DEF LedgerOk
    <3>3. Cardinality(Ends(j)) <= 1
      <4> HIDE DEF Ends
      <4>1. CASE Ends(j) = {}
        BY <4>1, FS_EmptySet
      <4>2. CASE \E i \in Ends(j) : Ends(j) = {i}
        <5> PICK i : Ends(j) = {i}
          BY <4>2
        <5>1. Cardinality({i}) = 1
          BY FS_Singleton
        <5> QED BY <5>1
      <4> QED BY <3>2, <4>1, <4>2
    <3> QED BY <3>1, <3>3 DEF LedgerOk
  <2> QED BY <2>1, <2>2 DEF BoxTellsTheTruth
<1>3. JobsInv /\ TabInv /\ [Next]_vars => (JobsInv /\ TabInv)'
  BY JobsStep, TabStep
<1> QED BY <1>1, <1>2, <1>3, PTL DEF Spec

-----------------------------------------------------------------------------
(* The operators' prompts *)

Overrides == [prompts : [Types -> Texts \cup {NoText}], meta : [Types -> Operators \cup {Nobody}]]
Askings == [Types -> [text : Texts \cup {Reset}, by : Operators \cup {Nobody}]]

\* That overrides say of a type what askings say of it.
Tells(v, a, t) ==
  IF v.prompts[t] = NoText THEN a[t] = BuiltIn /\ v.meta[t] = Nobody
  ELSE a[t] = [text |-> v.prompts[t], by |-> v.meta[t]]

\* A request to save, by how far it is: who has read the file holds the lock, and what will be
\* written tells what will then have been asked for.
PromptBody(body) == DOMAIN body \subseteq Types /\ \A t \in DOMAIN body : body[t] \in Texts \cup {Reset, Short}
SavingOk(o) ==
  LET s == saving[o]
  IN /\ s.at \in {"idle", "lock", "truncate", "write"}
     /\ s.at = "lock" => PromptBody(s.body)
     /\ s.at \in {"truncate", "write"} =>
          /\ promptLock = o
          /\ s.new \in Overrides /\ Asked(s.body, o) \in Askings
          /\ \A t \in Types : Tells(s.new, Asked(s.body, o), t)

PromptInv ==
  /\ promptFile.text \in {"missing", "whole", "torn"}
  /\ [prompts |-> promptFile.prompts, meta |-> promptFile.meta] \in Overrides
  /\ asked \in Askings
  /\ \A o \in Operators : SavingOk(o)
  /\ (\E o \in Operators : saving[o].at = "write") => promptFile.text = "torn"
  /\ (\A o \in Operators : saving[o].at # "write") => \A t \in Types : Tells(Load, asked, t)
  /\ DOMAIN saving = Operators

\* Without a file that can be read, nothing is told but the built-in prompts.
LEMMA NothingTold ==
  /\ NoOverrides \in Overrides /\ [t \in Types |-> BuiltIn] \in Askings
  /\ \A t \in Types : Tells(NoOverrides, [u \in Types |-> BuiltIn], t)
BY DEF NoOverrides, Overrides, Askings, BuiltIn, Tells

LEMMA LoadTypes == ASSUME PromptInv PROVE Load \in Overrides
BY NothingTold DEF PromptInv, Load

\* What a save makes of overrides that tell the askings tells the askings it makes.
LEMMA MergedTells ==
  ASSUME NEW v \in Overrides, asked \in Askings, \A t \in Types : Tells(v, asked, t),
         NEW o \in Operators, NEW body, PromptBody(body), \A t \in DOMAIN body : body[t] # Short
  PROVE  /\ Merged(v, body, o) \in Overrides /\ Asked(body, o) \in Askings
         /\ \A t \in Types : Tells(Merged(v, body, o), Asked(body, o), t)
<1> DEFINE prompt(t) == IF t \notin DOMAIN body THEN v.prompts[t]
                        ELSE IF t \in Named(body) THEN body[t] ELSE NoText
           meta(t) == IF prompt(t) = NoText THEN Nobody
                      ELSE IF prompt(t) = v.prompts[t] THEN v.meta[t] ELSE o
<1>1. Merged(v, body, o) = [prompts |-> [t \in Types |-> prompt(t)], meta |-> [t \in Types |-> meta(t)]]
  BY DEF Merged
<1>2. \A t \in DOMAIN body : /\ body[t] \in Texts \cup {Reset} /\ t \in Types
                             /\ t \in Named(body) <=> body[t] # Reset
  BY DEF PromptBody, Named
<1>3. \A t \in Types : /\ v.prompts[t] \in Texts \cup {NoText} /\ v.meta[t] \in Operators \cup {Nobody}
                       /\ asked[t].text \in Texts \cup {Reset} /\ asked[t].by \in Operators \cup {Nobody}
                       /\ asked[t] = [text |-> asked[t].text, by |-> asked[t].by]
  BY DEF Overrides, Askings
<1>4. \A t \in Types : prompt(t) \in Texts \cup {NoText}
  BY <1>2, <1>3
<1>5. \A t \in Types : meta(t) \in Operators \cup {Nobody}
  BY <1>3
<1>6. Merged(v, body, o) \in Overrides
  BY <1>1, <1>4, <1>5 DEF Overrides
<1>7. Asked(body, o) \in Askings
  BY <1>2, <1>3 DEF Asked, Askings, BuiltIn
<1>8. ASSUME NEW t \in Types PROVE Tells(Merged(v, body, o), Asked(body, o), t)
  <2>1. /\ Merged(v, body, o).prompts[t] = prompt(t) /\ Merged(v, body, o).meta[t] = meta(t)
    BY <1>1
  <2>2. Asked(body, o)[t] = IF t \notin DOMAIN body THEN asked[t]
                            ELSE IF body[t] = asked[t].text THEN asked[t]
                            ELSE IF body[t] = Reset THEN BuiltIn ELSE [text |-> body[t], by |-> o]
    BY DEF Asked
  <2>3. Tells(v, asked, t)
    OBVIOUS
  <2>4. CASE t \notin DOMAIN body
    BY <2>1, <2>2, <2>3, <2>4 DEF Tells
  <2>5. CASE t \in DOMAIN body /\ body[t] = Reset
    <3>1. prompt(t) = NoText
      BY <1>2, <2>5
    <3>2. Asked(body, o)[t] = BuiltIn
      BY <1>3, <2>2, <2>3, <2>5, PromptAssumption DEF Tells, BuiltIn
    <3> QED
      BY <2>1, <3>1, <3>2 DEF Tells
  <2>6. CASE t \in DOMAIN body /\ body[t] # Reset
    <3>1. prompt(t) = body[t] /\ body[t] \in Texts /\ body[t] # NoText
      BY <1>2, <2>6, PromptAssumption
    <3>2. body[t] = asked[t].text <=> body[t] = v.prompts[t]
      BY <1>3, <2>3, <3>1, PromptAssumption DEF Tells, BuiltIn
    <3>3. Asked(body, o)[t] = [text |-> body[t], by |-> meta(t)]
      BY <1>3, <2>2, <2>3, <2>6, <3>1, <3>2 DEF Tells
    <3> QED
      BY <2>1, <3>1, <3>3 DEF Tells
  <2> QED
    BY <2>4, <2>5, <2>6
<1> QED
  BY <1>6, <1>7, <1>8

LEMMA PromptInitial == PromptInit => PromptInv
<1> SUFFICES ASSUME PromptInit PROVE PromptInv
  OBVIOUS
<1>1. Load = NoOverrides /\ [prompts |-> promptFile.prompts, meta |-> promptFile.meta] = NoOverrides
  BY DEF PromptInit, Load, NoOverrides
<1>2. \A o \in Operators : SavingOk(o) /\ saving[o].at # "write"
  BY DEF PromptInit, SavingOk, NotSaving
<1> QED
  BY <1>1, <1>2, NothingTold DEF PromptInit, PromptInv

\* A save, or the end of one, that leaves the file, the lock and the askings alone.
LEMMA SaveStep ==
  ASSUME PromptInv, NEW o \in Operators, NEW s, saving' = [saving EXCEPT ![o] = s],
         s.at \in {"idle", "lock"}, s.at = "lock" => PromptBody(s.body),
         saving[o].at \in {"idle", "lock"}, UNCHANGED <<promptFile, promptLock, asked>>
  PROVE  PromptInv'
<1>1. Load' = Load
  BY DEF Load
<1>2. \A p \in Operators : saving'[p].at = "write" <=> saving[p].at = "write"
  BY DEF PromptInv
<1>3. \A p \in Operators : SavingOk(p)'
  BY DEF PromptInv, SavingOk, Asked, Tells
<1> QED
  BY <1>1, <1>2, <1>3 DEF PromptInv, Tells

\* The lock is released, and whoever held it is done.
LEMMA ReleaseStep ==
  ASSUME PromptInv, NEW o \in Operators, saving[o].at \in {"truncate", "write"},
         saving' = [saving EXCEPT ![o] = NotSaving],
         promptFile'.text \in {"missing", "whole", "torn"},
         [prompts |-> promptFile'.prompts, meta |-> promptFile'.meta] \in Overrides,
         asked' \in Askings, \A t \in Types : Tells(Load', asked', t)
  PROVE  PromptInv'
<1>1. \A p \in Operators : saving[p].at \in {"truncate", "write"} => p = o
  BY DEF PromptInv, SavingOk
<1>2. \A p \in Operators : saving'[p].at \in {"idle", "lock"} /\ (saving'[p].at = "lock" => PromptBody(saving'[p].body))
  BY <1>1 DEF PromptInv, SavingOk, NotSaving
<1>3. \A p \in Operators : SavingOk(p)'
  BY <1>2 DEF SavingOk, PromptBody
<1>4. DOMAIN saving' = Operators
  BY DEF PromptInv
<1> QED
  BY <1>2, <1>3, <1>4 DEF PromptInv

\* What was lost with the file is asked for no more.
LEMMA LostTells ==
  ASSUME PromptInv, Lost, promptFile' = promptFile,
         promptFile.text = "torn" \/ \A o \in Operators : saving[o].at # "write"
  PROVE  asked' \in Askings /\ \A t \in Types : Tells(Load', asked', t)
<1>1. Load' = Load
  BY DEF Load
<1>2. CASE promptFile.text = "torn"
  BY <1>1, <1>2, NothingTold DEF Load, Lost
<1>3. CASE promptFile.text # "torn"
  BY <1>1, <1>3 DEF Lost, PromptInv
<1> QED
  BY <1>2, <1>3

LEMMA PromptStep == PromptInv /\ [PromptNext]_promptVars => PromptInv'
<1> SUFFICES ASSUME PromptInv, [PromptNext]_promptVars PROVE PromptInv'
  OBVIOUS
<1>0. promptFile.text = "torn" \/ \A o \in Operators : saving[o].at # "write"
  BY DEF PromptInv
<1>1. CASE RestartSaving
  <2>1. \A o \in Operators : saving'[o] = NotSaving
    BY <1>1 DEF RestartSaving
  <2>2. \A o \in Operators : SavingOk(o)' /\ saving'[o].at # "write"
    BY <2>1 DEF SavingOk, NotSaving
  <2>3. asked' \in Askings /\ \A t \in Types : Tells(Load', asked', t)
    BY <1>0, <1>1, LostTells DEF RestartSaving
  <2> QED
    BY <1>1, <2>2, <2>3 DEF RestartSaving, PromptInv
<1>2. ASSUME NEW o \in Operators, NEW body \in Bodies, Save(o, body) PROVE PromptInv'
  <2>1. PromptBody(body)
    BY DEF Bodies, PromptBody
  <2>2. saving[o].at = "idle"
    BY <1>2 DEF Save, NotSaving
  <2> QED
    BY <1>2, <2>1, <2>2, SaveStep DEF Save
<1>3. ASSUME NEW o \in Operators, Acquire(o) PROVE PromptInv'
  <2> DEFINE body == saving[o].body
  <2>1. saving[o].at = "lock" /\ promptLock = Nobody /\ PromptBody(body)
    BY <1>3 DEF Acquire, PromptInv, SavingOk
  <2>2. CASE \E t \in DOMAIN body : body[t] = Short
    <3>1. saving' = [saving EXCEPT ![o] = NotSaving] /\ UNCHANGED <<promptFile, promptLock, asked>>
      BY <1>3, <2>2 DEF Acquire
    <3> QED
      BY <2>1, <3>1, SaveStep DEF NotSaving
  <2>3. CASE \A t \in DOMAIN body : body[t] # Short
    <3> DEFINE s == [at |-> "truncate", body |-> body, new |-> Merged(Load, body, o)]
    <3>1. saving' = [saving EXCEPT ![o] = s] /\ promptLock' = o /\ UNCHANGED <<promptFile, asked>>
      BY <1>3, <2>3 DEF Acquire
    <3>2. \A p \in Operators : saving[p].at \in {"idle", "lock"}
      BY <2>1, PromptAssumption DEF PromptInv, SavingOk
    <3>3. /\ Merged(Load, body, o) \in Overrides /\ Asked(body, o) \in Askings
          /\ \A t \in Types : Tells(Merged(Load, body, o), Asked(body, o), t)
      BY <2>1, <2>3, <3>2, MergedTells, LoadTypes DEF PromptInv
    <3>4. saving'[o] = s /\ \A p \in Operators \ {o} : saving'[p] = saving[p]
      BY <3>1 DEF PromptInv
    <3>5. Asked(body, o)' = Asked(body, o)
      BY <2>1, <3>1, <3>4 DEF Asked
    <3>6. SavingOk(o)'
      BY <3>1, <3>3, <3>4 DEF SavingOk, Asked
    <3>7. \A p \in Operators \ {o} : SavingOk(p)'
      BY <3>2, <3>4 DEF PromptInv, SavingOk
    <3>8. Load' = Load /\ \A p \in Operators : saving'[p].at # "write"
      BY <3>1, <3>2, <3>4 DEF Load
    <3> QED
      BY <3>1, <3>2, <3>6, <3>7, <3>8 DEF PromptInv
  <2> QED
    BY <2>2, <2>3
<1>4. ASSUME NEW o \in Operators, Truncate(o) PROVE PromptInv'
  <2>1. /\ saving[o].at = "truncate" /\ saving' = [saving EXCEPT ![o].at = "write"]
        /\ promptFile' = [promptFile EXCEPT !.text = "torn"] /\ UNCHANGED <<promptLock, asked>>
    BY <1>4 DEF Truncate
  <2>2. /\ saving'[o].at = "write" /\ saving'[o].body = saving[o].body /\ saving'[o].new = saving[o].new
        /\ \A p \in Operators \ {o} : saving'[p] = saving[p]
    BY <2>1 DEF PromptInv
  <2>3. \A p \in Operators : SavingOk(p)'
    BY <2>1, <2>2 DEF PromptInv, SavingOk, Asked
  <2>4. promptFile'.text = "torn" /\ promptFile'.prompts = promptFile.prompts /\ promptFile'.meta = promptFile.meta
    BY <2>1
  <2> QED
    BY <2>1, <2>2, <2>3, <2>4 DEF PromptInv
<1>5. ASSUME NEW o \in Operators, WritePrompts(o) PROVE PromptInv'
  <2>1. /\ saving[o].at = "write" /\ saving' = [saving EXCEPT ![o] = NotSaving] /\ asked' = Asked(saving[o].body, o)
        /\ promptFile' = [text |-> "whole", prompts |-> saving[o].new.prompts, meta |-> saving[o].new.meta]
    BY <1>5 DEF WritePrompts
  <2>2. /\ saving[o].new \in Overrides /\ asked' \in Askings
        /\ \A t \in Types : Tells(saving[o].new, asked', t)
    BY <2>1 DEF PromptInv, SavingOk
  <2>3. [prompts |-> promptFile'.prompts, meta |-> promptFile'.meta] = saving[o].new /\ promptFile'.text = "whole"
    BY <2>1, <2>2 DEF Overrides
  <2>4. Load' = saving[o].new
    BY <2>3 DEF Load
  <2> QED
    BY <2>1, <2>2, <2>3, <2>4, ReleaseStep
<1>6. ASSUME NEW o \in Operators, WriteFails(o) PROVE PromptInv'
  <2>1. /\ saving[o].at \in {"truncate", "write"} /\ saving' = [saving EXCEPT ![o] = NotSaving]
        /\ promptFile' = promptFile /\ Lost
    BY <1>6 DEF WriteFails
  <2>2. asked' \in Askings /\ \A t \in Types : Tells(Load', asked', t)
    BY <1>0, <2>1, LostTells
  <2> QED
    BY <2>1, <2>2, ReleaseStep DEF PromptInv
<1>7. CASE UNCHANGED promptVars
  BY <1>7 DEF promptVars, PromptInv, SavingOk, Load, Tells, Asked
<1> QED
  BY <1>1, <1>2, <1>3, <1>4, <1>5, <1>6, <1>7 DEF PromptNext

\* Whatever saves of prompts overlap, fail and are cut off by restarts, and however many types and
\* operators there are: the page lists, and a job takes, the text last asked for of each type.
THEOREM PromptsAreKept == PromptSpec => []PromptsAreAsAsked
<1>1. PromptInv => PromptsAreAsAsked
  <2> SUFFICES ASSUME PromptInv, \A o \in Operators : saving[o].at # "write", NEW t \in Types
               PROVE  Listed[t] = [prompt |-> asked[t].text, customised |-> asked[t] # BuiltIn, by |-> asked[t].by]
    BY DEF PromptsAreAsAsked
  <2>1. Tells(Load, asked, t) /\ Load \in Overrides
    BY LoadTypes DEF PromptInv
  <2>2. Listed[t] = [prompt |-> PromptFor(t), customised |-> Load.prompts[t] # NoText, by |-> Load.meta[t]]
    BY DEF Listed
  <2>3. CASE Load.prompts[t] = NoText
    BY <2>1, <2>2, <2>3 DEF Tells, BuiltIn, PromptFor
  <2>4. CASE Load.prompts[t] # NoText
    <3>1. Load.prompts[t] \in Texts
      BY <2>1, <2>4 DEF Overrides
    <3>2. asked[t].text = Load.prompts[t] /\ asked[t].by = Load.meta[t] /\ asked[t] # BuiltIn
      BY <2>1, <2>4, <3>1, PromptAssumption DEF Tells, BuiltIn
    <3> QED
      BY <2>2, <2>4, <3>2 DEF PromptFor
  <2> QED
    BY <2>3, <2>4
<1> QED
  BY <1>1, PromptInitial, PromptStep, PTL DEF PromptSpec

-----------------------------------------------------------------------------
(* Numbers *)

\* The order of the numbers is well-founded.
LEMMA LessWF == IsWellFoundedOn({ss \in Nat \X Nat : ss[1] < ss[2]}, Nat)
BY NatLessThanWellFounded, Zenon DEF OpToRel

\* A set of numbers has a least, which Min picks.
LEMMA MinOf == ASSUME NEW S \in SUBSET Nat, S # {} PROVE Min(S) \in S /\ \A m \in S : Min(S) <= m
<1>1. PICK n \in S : \A m \in S : ~(<<m, n>> \in {ss \in Nat \X Nat : ss[1] < ss[2]})
  BY LessWF, WFMin, Zenon
<1>2. ASSUME NEW m \in S PROVE n <= m
  <2>1. <<m, n>> \in Nat \X Nat /\ <<m, n>>[1] = m /\ <<m, n>>[2] = n
    OBVIOUS
  <2>2. ~(<<m, n>>[1] < <<m, n>>[2])
    BY <1>1, <2>1, Zenon
  <2> QED
    BY <2>1, <2>2
<1>3. \E x \in S : \A m \in S : x =< m
  BY <1>2
<1> QED
  BY <1>3 DEF Min

\* A set of numbers up to another has a greatest, which Max picks.
LEMMA MaxOf == ASSUME NEW n \in Nat, NEW S \in SUBSET (1 .. n), S # {} PROVE Max(S) \in S
<1> DEFINE T == {n - m : m \in S}
<1>0. \A m \in S : m \in Nat /\ m <= n /\ n - m \in Nat
  OBVIOUS
<1>1. T \in SUBSET Nat /\ T # {}
  <2>1. \A t \in T : t \in Nat
    BY <1>0
  <2> QED
    BY <2>1
<1>2. PICK k \in T : \A m \in T : k <= m
  <2> HIDE DEF T
  <2> QED
    BY <1>1, MinOf
<1>3. PICK x \in S : k = n - x
  BY <1>2
<1>4. \A y \in S : x >= y
  <2> SUFFICES ASSUME NEW y \in S PROVE x >= y
    OBVIOUS
  <2>1. n - y \in T
    OBVIOUS
  <2>2. n - x <= n - y
    BY <1>2, <1>3, <2>1
  <2> QED
    BY <1>0, <2>2
<1>5. \E z \in S : \A y \in S : z >= y
  BY <1>4
<1> QED
  BY <1>5 DEF Max

-----------------------------------------------------------------------------
(* The policy applied in code *)

\* The rules loaded: each is from a document, if any document states it.
RulesTyped(p) ==
  /\ p["foir"].says \in Seq(BandLines) /\ p["ltv"].says \in Seq(BandLines) /\ p["minimum"].says \in Nat
  /\ \A r \in Rules : p[r].source # "" <=> p[r].says # NoRules[r]

\* The figures of an applicant, 0 for one that is missing.
Names == {"net", "emi", "principal", "value", "score"}
Numbers == {a \in Int : a <= Infinity}
FiguresTyped(fs) == \A i \in DOMAIN fs : fs[i] \in [Names -> Numbers]
SheetTyped(s) == s.documents \in Seq(SheetDocuments) /\ s.groups \in Seq(Seq(DOMAIN s.documents))

\* What is loaded of a pack is a policy.
LEMMA RulesLoaded ==
  ASSUME NEW given, given.authored \in Seq(PolicyDocuments), given.prose \in Seq(PolicyDocuments)
  PROVE  RulesTyped(LoadRules(given))
<1>1. PICK docs \in Seq(PolicyDocuments) : docs = IF given.authored # <<>> THEN given.authored ELSE given.prose
  OBVIOUS
<1> DEFINE stating(r) == {i \in DOMAIN docs : docs[i][r] # NoRules[r]}
           first(r) == IF stating(r) = {} THEN NoRules ELSE docs[Min(stating(r))]
<1>2. LoadRules(given) = [r \in Rules |-> [says |-> first(r)[r], source |-> first(r).source]]
  BY <1>1, Zenon DEF LoadRules
<1>3. ASSUME NEW r \in Rules, stating(r) # {} PROVE Min(stating(r)) \in stating(r)
  <2>1. stating(r) \subseteq Nat
    OBVIOUS
  <2> HIDE DEF stating
  <2> QED
    BY <1>3, <2>1, MinOf
<1>4. ASSUME NEW r \in Rules
      PROVE  \/ first(r) = NoRules
             \/ first(r) \in PolicyDocuments /\ first(r)[r] # NoRules[r]
  <2>1. CASE stating(r) = {}
    BY <2>1
  <2>2. CASE stating(r) # {}
    <3>1. Min(stating(r)) \in DOMAIN docs /\ docs[Min(stating(r))][r] # NoRules[r]
      BY <1>3, <2>2
    <3>2. first(r) = docs[Min(stating(r))]
      BY <2>2
    <3>3. docs[Min(stating(r))] \in PolicyDocuments
      BY <3>1
    <3> QED
      BY <3>1, <3>2, <3>3, Zenon
  <2> QED
    BY <2>1, <2>2
<1> HIDE DEF first
<1>5. \A r \in Rules : first(r).source # "" <=> first(r)[r] # NoRules[r]
  <2> SUFFICES ASSUME NEW r \in Rules
               PROVE  first(r).source # "" <=> first(r)[r] # NoRules[r]
    OBVIOUS
  <2>1. CASE first(r) = NoRules
    <3>1. NoRules.source = ""
      BY DEF NoRules
    <3> QED
      BY <2>1, <3>1
  <2>2. CASE first(r) \in PolicyDocuments /\ first(r)[r] # NoRules[r]
    <3>1. first(r).source \in STRING \ {""}
      BY <2>2 DEF PolicyDocuments
    <3> QED
      BY <2>2, <3>1
  <2> QED
    BY <1>4, <2>1, <2>2
<1>6. /\ first("foir")["foir"] \in Seq(BandLines) /\ first("ltv")["ltv"] \in Seq(BandLines)
      /\ first("minimum")["minimum"] \in Nat
  <2>1. /\ NoRules["foir"] = <<>> /\ NoRules["ltv"] = <<>> /\ NoRules["minimum"] = 0
        /\ <<>> \in Seq(BandLines) /\ 0 \in Nat
    BY DEF NoRules
  <2>2. ASSUME NEW d \in PolicyDocuments
        PROVE  d["foir"] \in Seq(BandLines) /\ d["ltv"] \in Seq(BandLines) /\ d["minimum"] \in Nat
    BY DEF PolicyDocuments
  <2>3. "foir" \in Rules /\ "ltv" \in Rules /\ "minimum" \in Rules
    BY DEF Rules
  <2>4. first("foir")["foir"] \in Seq(BandLines)
    BY <1>4, <2>1, <2>2, <2>3
  <2>5. first("ltv")["ltv"] \in Seq(BandLines)
    BY <1>4, <2>1, <2>2, <2>3
  <2>6. first("minimum")["minimum"] \in Nat
    BY <1>4, <2>1, <2>2, <2>3
  <2> QED
    BY <2>4, <2>5, <2>6
<1>8. Rules = {"foir", "ltv", "minimum"}
  BY DEF Rules
<1> DEFINE p == LoadRules(given)
<1>9. \A r \in Rules : p[r] = [says |-> first(r)[r], source |-> first(r).source]
  BY <1>2
<1> HIDE DEF p
<1>11. ASSUME NEW r \in Rules PROVE p[r].says = first(r)[r] /\ p[r].source = first(r).source
  <2>1. PICK said, source : said = first(r)[r] /\ source = first(r).source
    OBVIOUS
  <2>2. p[r] = [says |-> said, source |-> source]
    BY <1>9, <2>1, Zenon
  <2>3. p[r].says = said /\ p[r].source = source
    BY <2>2
  <2> QED
    BY <2>1, <2>3
<1>12. \A r \in Rules : p[r].source # "" <=> p[r].says # NoRules[r]
  BY <1>5, <1>11
<1>13. p["foir"].says \in Seq(BandLines) /\ p["ltv"].says \in Seq(BandLines) /\ p["minimum"].says \in Nat
  BY <1>6, <1>8, <1>11
<1>14. RulesTyped(p)
  BY <1>12, <1>13 DEF RulesTyped
<1> QED
  BY <1>14 DEF p

\* What documents hold are figures.
LEMMA FiguresFound ==
  ASSUME Infinity \in Nat, NEW docs \in Seq(SheetDocuments)
  PROVE  FirstFound(docs) \in [Names -> Numbers]
<1>0. \A i \in DOMAIN docs : \A f \in Names : docs[i][f] \in Signed
  <2> SUFFICES ASSUME NEW i \in DOMAIN docs PROVE \A f \in Names : docs[i][f] \in Signed
    OBVIOUS
  <2>1. docs[i] \in SheetDocuments
    OBVIOUS
  <2>2. docs[i] \in [file : STRING, net : Signed, emi : Signed, principal : Signed, value : Signed, score : Signed]
    BY <2>1 DEF SheetDocuments, Signed
  <2> QED
    BY <2>2 DEF Names
<1> DEFINE holding(f) == {i \in DOMAIN docs : docs[i][f] # NoFigure}
           merged(f) == IF holding(f) = {} THEN 0 ELSE docs[Min(holding(f))][f]
<1>1. ASSUME NEW f \in Names PROVE merged(f) \in Numbers
  <2>1. CASE holding(f) = {}
    BY <2>1 DEF Numbers
  <2>2. CASE holding(f) # {}
    <3>1. holding(f) \subseteq Nat
      OBVIOUS
    <3>2. Min(holding(f)) \in holding(f)
      <4> HIDE DEF holding
      <4> QED
        BY <2>2, <3>1, MinOf
    <3>3. docs[Min(holding(f))][f] \in Signed /\ docs[Min(holding(f))][f] # NoFigure
      BY <1>0, <3>2
    <3>4. \A a : a \in Signed /\ a # NoFigure => a \in Numbers
      BY DEF Signed, Figure, Amounts, Numbers
    <3> QED
      BY <2>2, <3>3, <3>4
  <2> QED
    BY <2>1, <2>2
<1>2. FirstFound(docs) = [f \in Names |-> merged(f)]
  BY DEF FirstFound, Names
<1> HIDE DEF merged
<1> QED
  BY <1>1, <1>2

\* What is looked up is a document of the sheet, and the very one if no other has its name.
LEMMA LookedUp ==
  ASSUME NEW s, SheetTyped(s), NEW d \in DOMAIN s.documents
  PROVE  /\ Max(Namesakes(s, d)) \in DOMAIN s.documents
         /\ Namesakes(s, d) = {d} => Max(Namesakes(s, d)) = d
<1>1. s.documents \in Seq(SheetDocuments) /\ DOMAIN s.documents = 1 .. Len(s.documents) /\ Len(s.documents) \in Nat
  BY DEF SheetTyped
<1>2. d \in Namesakes(s, d) /\ Namesakes(s, d) \subseteq 1 .. Len(s.documents)
  BY <1>1 DEF Namesakes
<1>3. Max(Namesakes(s, d)) \in Namesakes(s, d)
  BY <1>1, <1>2, MaxOf
<1> QED
  BY <1>1, <1>2, <1>3

\* An applicant's figures are numbers, and those of his own papers if no paper has a namesake.
LEMMA FiguresMerged ==
  ASSUME Infinity \in Nat, NEW s, SheetTyped(s), NEW i \in DOMAIN s.groups
  PROVE  /\ Merge(s, i) \in [Names -> Numbers]
         /\ (\A n \in DOMAIN s.groups[i] : Namesakes(s, s.groups[i][n]) = {s.groups[i][n]}) =>
              Merge(s, i) = FirstFound([n \in DOMAIN s.groups[i] |-> s.documents[s.groups[i][n]]])
<1> DEFINE own == s.groups[i]
           found == [n \in DOMAIN own |-> s.documents[Max(Namesakes(s, own[n]))]]
<1>1. own \in Seq(DOMAIN s.documents)
  <2>1. PICK D : D = DOMAIN s.documents
    OBVIOUS
  <2>2. PICK gs : gs = s.groups
    OBVIOUS
  <2>3. gs \in Seq(Seq(D)) /\ i \in DOMAIN gs
    BY <2>1, <2>2 DEF SheetTyped
  <2>4. gs[i] \in Seq(D)
    BY <2>3
  <2> QED
    BY <2>1, <2>2, <2>4
<1>2. DOMAIN own = 1 .. Len(own) /\ Len(own) \in Nat /\ \A n \in DOMAIN own : own[n] \in DOMAIN s.documents
  <2> HIDE DEF own
  <2> QED
    BY <1>1
<1>3. ASSUME NEW n \in DOMAIN own PROVE s.documents[Max(Namesakes(s, own[n]))] \in SheetDocuments
  <2>1. Max(Namesakes(s, own[n])) \in DOMAIN s.documents
    BY <1>2, LookedUp
  <2>2. s.documents \in Seq(SheetDocuments)
    BY DEF SheetTyped
  <2> QED
    BY <2>1, <2>2
<1> HIDE DEF own
<1>4. found \in Seq(SheetDocuments)
  BY <1>2, <1>3
<1>5. Merge(s, i) = FirstFound(found)
  BY DEF Merge, own
<1>6. Merge(s, i) \in [Names -> Numbers]
  <2> HIDE DEF found
  <2> QED
    BY <1>4, <1>5, FiguresFound
<1>7. ASSUME \A n \in DOMAIN own : Namesakes(s, own[n]) = {own[n]}
      PROVE  found = [n \in DOMAIN own |-> s.documents[own[n]]]
  <2>1. \A n \in DOMAIN own : Max(Namesakes(s, own[n])) = own[n]
    BY <1>2, <1>7, LookedUp
  <2> QED
    BY <2>1
<1> HIDE DEF found
<1> QED
  BY <1>5, <1>6, <1>7 DEF own

\* The code finds a line, if one decides the amount by its words, and a narrowest of those,
\* unless a line that begins at the amount precedes them all; and what it finds reaches the
\* amount.
LEMMA LineSelected ==
  ASSUME Infinity \in Nat, NEW lines \in Seq(BandLines), NEW amount \in Numbers
  PROVE  /\ Deciding(lines, amount) # {} => Select(lines, amount) # {}
         /\ \/ Deciding(lines, amount) = {}
            \/ \E j \in Beginning(lines, amount) : \A l \in Deciding(lines, amount) : Precedes(lines, j, l)
            \/ \E l \in Deciding(lines, amount) :
                 /\ Select(lines, amount) = {l}
                 /\ \A j \in Deciding(lines, amount) : Width(lines[l]) <= Width(lines[j])
         /\ Select(lines, amount) # {} =>
              \E l \in DOMAIN lines : lines[l].low <= amount /\ (lines[l].high # 0 => amount <= lines[l].high)
         /\ Select(lines, amount) # {} => lines # <<>>
<1> DEFINE covering == {i \in DOMAIN lines : Covers(Band(lines[i]), amount)}
           plain == {i \in covering : ~lines[i].conditional}
           narrowest == {i \in plain : \A j \in plain : Width(lines[i]) <= Width(lines[j])}
           deciding == Deciding(lines, amount)
<1>1. Select(lines, amount) =
        IF plain # {} THEN {Min(narrowest)} ELSE IF covering # {} THEN {Min(covering)} ELSE {}
  BY Zenon DEF Select
<1>2. ASSUME NEW i \in DOMAIN lines
      PROVE  /\ Says(lines[i], amount) => Covers(Band(lines[i]), amount)
             /\ Covers(Band(lines[i]), amount) =>
                  /\ lines[i].low <= amount /\ (lines[i].high # 0 => amount <= lines[i].high)
                  /\ lines[i].low # amount => Says(lines[i], amount)
                  /\ Width(lines[i]) \in Nat
             /\ i \in Nat
  <2>1. lines[i] \in BandLines
    OBVIOUS
  <2>2. lines[i].low \in Nat /\ lines[i].high \in Nat
    BY <2>1 DEF BandLines, Amounts
  <2> QED
    BY <2>2 DEF Says, Covers, Band, Width, Numbers
<1>3. deciding \subseteq plain
  BY <1>2 DEF Deciding
<1>4. \A i \in plain : i \in deciding \/ i \in Beginning(lines, amount)
  BY <1>2 DEF Deciding, Beginning
<1>5. ASSUME plain # {}
      PROVE  Min(narrowest) \in narrowest /\ \A k \in narrowest : Min(narrowest) <= k
  <2> DEFINE widths == {Width(lines[i]) : i \in plain}
  <2>1. widths \in SUBSET Nat /\ widths # {}
    BY <1>2, <1>5
  <2>2. PICK w \in widths : \A v \in widths : w <= v
    <3> HIDE DEF widths
    <3> QED
      BY <2>1, MinOf
  <2>3. narrowest # {}
    BY <2>2
  <2>4. narrowest \in SUBSET Nat
    BY <1>2
  <2> HIDE DEF narrowest
  <2> QED
    BY <2>3, <2>4, MinOf
<1>6. deciding # {} => Select(lines, amount) # {}
  BY <1>1, <1>3
<1>7. ASSUME deciding # {},
             ~\E j \in Beginning(lines, amount) : \A l \in deciding : Precedes(lines, j, l)
      PROVE  \E l \in deciding :
               Select(lines, amount) = {l} /\ \A j \in deciding : Width(lines[l]) <= Width(lines[j])
  <2>0. plain # {}
    BY <1>3, <1>7
  <2>1. PICK m : m = Min(narrowest)
    OBVIOUS
  <2>2. m \in narrowest /\ \A k \in narrowest : m <= k
    BY <1>5, <2>0, <2>1
  <2>3. Select(lines, amount) = {m}
    BY <1>1, <2>0, <2>1
  <2>4. m \in plain /\ \A j \in plain : Width(lines[m]) <= Width(lines[j])
    BY <2>2
  <2>5. ASSUME m \notin deciding, NEW l \in deciding PROVE Precedes(lines, m, l)
    <3>1. l \in plain /\ m # l /\ m \in Nat /\ l \in Nat
      BY <1>2, <1>3, <2>4, <2>5
    <3>2. Width(lines[m]) \in Nat /\ Width(lines[l]) \in Nat /\ Width(lines[m]) <= Width(lines[l])
      BY <1>2, <2>4, <3>1
    <3>3. ASSUME Width(lines[m]) = Width(lines[l]) PROVE m < l
      <4>1. l \in narrowest
        BY <2>4, <3>1, <3>3
      <4> QED
        BY <2>2, <3>1, <4>1
    <3> QED
      BY <3>2, <3>3 DEF Precedes
  <2>6. m \in deciding
    BY <1>4, <1>7, <2>4, <2>5
  <2> QED
    BY <1>3, <2>3, <2>4, <2>6
<1>8. ASSUME Select(lines, amount) # {}
      PROVE  /\ \E l \in DOMAIN lines : lines[l].low <= amount /\ (lines[l].high # 0 => amount <= lines[l].high)
             /\ lines # <<>>
  <2>1. PICK l \in covering : TRUE
    BY <1>1, <1>8
  <2>2. l \in DOMAIN lines /\ lines[l].low <= amount /\ (lines[l].high # 0 => amount <= lines[l].high)
    BY <1>2, <2>1
  <2> QED
    BY <2>2
<1> QED
  BY <1>6, <1>7, <1>8

\* The state of the checks: of loaded rules and figures, what code decides.
ChecksInv ==
  /\ RulesTyped(policy) /\ FiguresTyped(facts) /\ SheetTyped(factSheet)
  /\ facts = [i \in DOMAIN factSheet.groups |-> Merge(factSheet, i)]
  /\ checks = InCode(policy, facts) /\ sheet = checks /\ skipped = Settled(policy, checks)

\* What code finds of one applicant.
Found(p, f) == Foir(p, f) \cup Ltv(p, f) \cup Bureau(p, f)

\* A check of an applicant is one of those found of him.
LEMMA AppliedIs ==
  ASSUME NEW p, NEW fs
  PROVE  \A c : c \in Applied(p, fs) <=>
                  \E i \in DOMAIN fs : \E d \in Found(p, fs[i]) : c = [who |-> i, of |-> d.of, status |-> d.status]
BY DEF Applied, Found

\* What is among the checks is among those applied; and if one is decided, all are.
LEMMA InCodeIs ==
  ASSUME NEW p, NEW fs
  PROVE  /\ InCode(p, fs) \subseteq Applied(p, fs)
         /\ \A c \in Applied(p, fs) : c.status # "unverified" => InCode(p, fs) = Applied(p, fs)
         /\ InCode(p, fs) # {} => InCode(p, fs) = Applied(p, fs)
BY DEF InCode, Decided

\* Which rule a check is of.
LEMMA FoundOf ==
  ASSUME NEW p, NEW f, NEW d \in Found(p, f)
  PROVE  /\ d.of \in Rules
         /\ d.of = "foir" => d \in Foir(p, f)
         /\ d.of = "ltv" => d \in Ltv(p, f)
         /\ d.of = "minimum" => d \in Bureau(p, f)
<1>1. \A e \in Foir(p, f) : e.of = "foir"
  BY DEF Foir
<1>2. \A e \in Ltv(p, f) : e.of = "ltv"
  BY DEF Ltv
<1>3. \A e \in Bureau(p, f) : e.of = "minimum"
  BY DEF Bureau
<1> QED
  BY <1>1, <1>2, <1>3 DEF Found, Rules

\* The check of an income: there is one if the policy has a rule; it is decided if the figures
\* are there and a line is selected, as that line says.
LEMMA FoirIs ==
  ASSUME NEW p, NEW f
  PROVE  /\ p.foir.says # <<>> => Foir(p, f) # {}
         /\ Foir(p, f) # {} => p.foir.says # <<>>
         /\ \A d \in Foir(p, f) : d.of = "foir"
         /\ f.net # 0 /\ f.emi # 0 /\ p.foir.says # <<>> /\ Select(p.foir.says, f.net) # {} =>
              \E d \in Foir(p, f) : d.of = "foir" /\ d.status # "unverified"
         /\ \A d \in Foir(p, f) : d.status # "unverified" => Select(p.foir.says, f.net) # {}
         /\ \A l, d : d \in Foir(p, f) /\ d.status # "unverified" /\ Select(p.foir.says, f.net) = {l} =>
              (d.status = "met" <=> f.emi * 100 <= p.foir.says[l].ceiling * f.net)
<1> DEFINE lines == p.foir.says
           chosen == Select(p.foir.says, f.net)
           judged(i) == [of |-> "foir", status |-> Verdict(f.emi * 100 <= Band(lines[i]).ceiling * f.net)]
           open == [of |-> "foir", status |-> "unverified"]
<1>1. Foir(p, f) = IF lines = <<>> THEN {}
                   ELSE IF f.net = 0 \/ f.emi = 0 \/ chosen = {} THEN {open}
                   ELSE {judged(i) : i \in chosen}
  BY Zenon DEF Foir
<1>2. \A i : /\ judged(i).of = "foir" /\ judged(i).status # "unverified"
             /\ judged(i).status = "met" <=> f.emi * 100 <= lines[i].ceiling * f.net
  <2> SUFFICES ASSUME NEW i
               PROVE  /\ judged(i).of = "foir" /\ judged(i).status # "unverified"
                      /\ judged(i).status = "met" <=> f.emi * 100 <= lines[i].ceiling * f.net
    OBVIOUS
  <2>1. Band(lines[i]).ceiling = lines[i].ceiling
    BY DEF Band
  <2>2. PICK holds : holds = (f.emi * 100 <= lines[i].ceiling * f.net)
    OBVIOUS
  <2>3. judged(i) = [of |-> "foir", status |-> IF holds THEN "met" ELSE "not_met"]
    BY <2>1, <2>2, Zenon DEF Verdict
  <2>4. judged(i).of = "foir" /\ judged(i).status = IF holds THEN "met" ELSE "not_met"
    BY <2>3
  <2> HIDE DEF judged
  <2>5. judged(i).status # "unverified" /\ (judged(i).status = "met" <=> holds)
    BY <2>4
  <2> QED
    BY <2>2, <2>4, <2>5, Zenon
<1>3. open.status = "unverified" /\ open.of = "foir"
  OBVIOUS
<1> HIDE DEF judged, open
<1> QED
  BY <1>1, <1>2, <1>3

\* The check of an amount: there is one if a line is selected; it is decided if the value is
\* there, as that line says.
LEMMA LtvIs ==
  ASSUME NEW p, NEW f
  PROVE  /\ Ltv(p, f) # {} => f.principal # 0 /\ Select(p.ltv.says, f.principal) # {}
         /\ f.principal # 0 /\ Select(p.ltv.says, f.principal) # {} =>
              \E d \in Ltv(p, f) : d.of = "ltv" /\ (f.value # 0 => d.status # "unverified")
         /\ \A l, d : d \in Ltv(p, f) /\ d.status # "unverified" /\ Select(p.ltv.says, f.principal) = {l} =>
              (d.status = "met" <=> f.principal * 100 <= p.ltv.says[l].ceiling * f.value)
<1> DEFINE chosen == IF f.principal = 0 THEN {} ELSE Select(p.ltv.says, f.principal)
           status(i) == IF f.value = 0 THEN "unverified"
                        ELSE Verdict(f.principal * 100 <= Band(p.ltv.says[i]).ceiling * f.value)
           judged(i) == [of |-> "ltv", status |-> status(i)]
<1>1. Ltv(p, f) = {judged(i) : i \in chosen}
  BY Zenon DEF Ltv
<1>2. \A i : /\ judged(i).of = "ltv" /\ (f.value # 0 => judged(i).status # "unverified")
             /\ judged(i).status # "unverified" =>
                  (judged(i).status = "met" <=> f.principal * 100 <= p.ltv.says[i].ceiling * f.value)
  <2> SUFFICES ASSUME NEW i
               PROVE  /\ judged(i).of = "ltv" /\ (f.value # 0 => judged(i).status # "unverified")
                      /\ judged(i).status # "unverified" =>
                           (judged(i).status = "met" <=> f.principal * 100 <= p.ltv.says[i].ceiling * f.value)
    OBVIOUS
  <2>1. Band(p.ltv.says[i]).ceiling = p.ltv.says[i].ceiling
    BY DEF Band
  <2>2. PICK holds : holds = (f.principal * 100 <= p.ltv.says[i].ceiling * f.value)
    OBVIOUS
  <2>3. status(i) = IF f.value = 0 THEN "unverified" ELSE IF holds THEN "met" ELSE "not_met"
    BY <2>1, <2>2, Zenon DEF Verdict
  <2> HIDE DEF status
  <2>4. judged(i).of = "ltv" /\ judged(i).status = status(i)
    OBVIOUS
  <2> HIDE DEF judged
  <2>5. /\ f.value # 0 => judged(i).status # "unverified"
        /\ judged(i).status # "unverified" => (judged(i).status = "met" <=> holds)
    BY <2>3, <2>4
  <2> QED
    BY <2>2, <2>4, <2>5, Zenon
<1> HIDE DEF judged
<1> QED
  BY <1>1, <1>2

\* The check of a bureau score: there is one if the policy has a minimum.
LEMMA BureauIs ==
  ASSUME NEW p, NEW f
  PROVE  (p.minimum.says # 0 <=> Bureau(p, f) # {}) /\ \A d \in Bureau(p, f) : d.of = "minimum"
<1> DEFINE c == [of |-> "minimum", status |-> IF f.score = 0 THEN "unverified" ELSE Verdict(f.score >= p.minimum.says)]
<1>1. Bureau(p, f) = IF p.minimum.says = 0 THEN {} ELSE {c}
  BY Zenon DEF Bureau
<1>2. c.of = "minimum"
  OBVIOUS
<1> HIDE DEF c
<1> QED
  BY <1>1, <1>2

\* What is decided is decided by a rule that the policy states.
LEMMA DecidedIsStated ==
  ASSUME Infinity \in Nat, NEW p, RulesTyped(p), NEW f \in [Names -> Numbers], NEW d \in Found(p, f)
  PROVE  p[d.of].says # NoRules[d.of]
<1>0. /\ NoRules["foir"] = <<>> /\ NoRules["ltv"] = <<>> /\ NoRules["minimum"] = 0
  BY DEF NoRules
<1>1. CASE d.of = "foir"
  BY <1>0, <1>1, FoirIs, FoundOf
<1>2. CASE d.of = "ltv"
  <2>1. f.principal \in Numbers /\ p.ltv.says \in Seq(BandLines)
    BY DEF Names, RulesTyped
  <2>2. Select(p.ltv.says, f.principal) # {}
    BY <1>2, LtvIs, FoundOf
  <2>3. p.ltv.says # <<>>
    BY <2>1, <2>2, LineSelected
  <2> QED
    BY <1>0, <1>2, <2>3
<1>3. CASE d.of = "minimum"
  BY <1>0, <1>3, BureauIs, FoundOf
<1> QED
  BY <1>1, <1>2, <1>3, FoundOf DEF Rules

\* An applicant's check of a ratio was made as a line says that decides the amount.
LEMMA JudgedAsSaid ==
  ASSUME Infinity \in Nat, ChecksInv, NEW i \in DOMAIN facts
  PROVE  /\ JudgedBy(i, "foir", facts[i].net, facts[i].emi, facts[i].net)
         /\ JudgedBy(i, "ltv", facts[i].principal, facts[i].principal, facts[i].value)
<1> DEFINE f == facts[i]
<1>1. /\ f.net \in Numbers /\ f.principal \in Numbers
      /\ policy["foir"].says \in Seq(BandLines) /\ policy["ltv"].says \in Seq(BandLines)
  BY DEF ChecksInv, FiguresTyped, Names, RulesTyped
<1>2. ASSUME NEW c \in Decided(checks), c.who = i
      PROVE  \E d \in Found(policy, f) : d.of = c.of /\ d.status = c.status /\ d.status # "unverified"
  <2>1. c \in Applied(policy, facts) /\ c.status # "unverified"
    BY <1>2, InCodeIs DEF ChecksInv, Decided
  <2>2. PICK j \in DOMAIN facts : \E d \in Found(policy, facts[j]) : c = [who |-> j, of |-> d.of, status |-> d.status]
    BY <2>1, AppliedIs
  <2>3. PICK d \in Found(policy, facts[j]) : c = [who |-> j, of |-> d.of, status |-> d.status]
    BY <2>2
  <2>4. c.who = j /\ c.of = d.of /\ c.status = d.status
    BY <2>3
  <2> QED
    BY <1>2, <2>1, <2>4
<1> HIDE DEF f
<1> DEFINE Told(lines, amount, c, part, whole) ==
             /\ \E l \in DOMAIN lines : lines[l].low <= amount /\ (lines[l].high # 0 => amount <= lines[l].high)
             /\ \/ Deciding(lines, amount) = {}
                \/ \E j \in Beginning(lines, amount) : \A l \in Deciding(lines, amount) : Precedes(lines, j, l)
                \/ \E l \in Deciding(lines, amount) :
                     /\ \A j \in Deciding(lines, amount) : Width(lines[l]) <= Width(lines[j])
                     /\ c.status = "met" <=> part * 100 <= lines[l].ceiling * whole
<1>3. ASSUME NEW lines \in Seq(BandLines), NEW amount \in Numbers, NEW c, NEW part, NEW whole,
             Select(lines, amount) # {},
             \A l : Select(lines, amount) = {l} =>
               (c.status = "met" <=> part * 100 <= lines[l].ceiling * whole)
      PROVE  Told(lines, amount, c, part, whole)
  <2>1. \/ Deciding(lines, amount) = {}
        \/ \E j \in Beginning(lines, amount) : \A l \in Deciding(lines, amount) : Precedes(lines, j, l)
        \/ \E l \in Deciding(lines, amount) :
             /\ Select(lines, amount) = {l}
             /\ \A j \in Deciding(lines, amount) : Width(lines[l]) <= Width(lines[j])
    BY LineSelected
  <2>2. \E l \in DOMAIN lines : lines[l].low <= amount /\ (lines[l].high # 0 => amount <= lines[l].high)
    BY <1>3, LineSelected
  <2>3. ASSUME NEW l \in Deciding(lines, amount), Select(lines, amount) = {l}
        PROVE  c.status = "met" <=> part * 100 <= lines[l].ceiling * whole
    BY <1>3, <2>3, Zenon
  <2> QED
    BY <2>1, <2>2, <2>3, Zenon
<1>4. ASSUME NEW c \in Decided(checks), c.who = i, c.of = "foir"
      PROVE  Told(policy["foir"].says, f.net, c, f.emi, f.net)
  <2>1. PICK d \in Found(policy, f) : d.of = c.of /\ d.status = c.status /\ d.status # "unverified"
    BY <1>2, <1>4
  <2>2. d \in Foir(policy, f)
    BY <1>4, <2>1, FoundOf
  <2>3. Select(policy["foir"].says, f.net) # {}
    BY <2>1, <2>2, FoirIs
  <2>4. \A l : Select(policy["foir"].says, f.net) = {l} =>
               (d.status = "met" <=> f.emi * 100 <= policy["foir"].says[l].ceiling * f.net)
    BY <2>1, <2>2, FoirIs
  <2>5. \A l : Select(policy["foir"].says, f.net) = {l} =>
               (c.status = "met" <=> f.emi * 100 <= policy["foir"].says[l].ceiling * f.net)
    BY <2>1, <2>4, Zenon
  <2> HIDE DEF Told
  <2> QED
    BY <1>1, <1>3, <2>3, <2>5
<1>5. ASSUME NEW c \in Decided(checks), c.who = i, c.of = "ltv"
      PROVE  Told(policy["ltv"].says, f.principal, c, f.principal, f.value)
  <2>1. PICK d \in Found(policy, f) : d.of = c.of /\ d.status = c.status /\ d.status # "unverified"
    BY <1>2, <1>5
  <2>2. d \in Ltv(policy, f)
    BY <1>5, <2>1, FoundOf
  <2>3. Select(policy["ltv"].says, f.principal) # {}
    BY <2>2, LtvIs
  <2>4. \A l : Select(policy["ltv"].says, f.principal) = {l} =>
               (d.status = "met" <=> f.principal * 100 <= policy["ltv"].says[l].ceiling * f.value)
    BY <2>1, <2>2, LtvIs
  <2>5. \A l : Select(policy["ltv"].says, f.principal) = {l} =>
               (c.status = "met" <=> f.principal * 100 <= policy["ltv"].says[l].ceiling * f.value)
    BY <2>1, <2>4, Zenon
  <2> HIDE DEF Told
  <2> QED
    BY <1>1, <1>3, <2>3, <2>5
<1>6. JudgedBy(i, "foir", f.net, f.emi, f.net)
  BY <1>4, Zenon DEF JudgedBy
<1>7. JudgedBy(i, "ltv", f.principal, f.principal, f.value)
  BY <1>5, Zenon DEF JudgedBy
<1> QED
  BY <1>6, <1>7 DEF f

\* Whoever has the figures and a line that decides them is checked.
LEMMA WhoHasIsChecked ==
  ASSUME Infinity \in Nat, ChecksInv, NEW i \in DOMAIN facts
  PROVE  /\ facts[i].net # 0 /\ facts[i].emi # 0 /\ Deciding(policy["foir"].says, facts[i].net) # {} =>
              \E c \in Decided(checks) : c.who = i /\ c.of = "foir"
         /\ 0 \notin {facts[i].value, facts[i].principal} /\ Deciding(policy["ltv"].says, facts[i].principal) # {} =>
              \E c \in Decided(checks) : c.who = i /\ c.of = "ltv"
<1> DEFINE f == facts[i]
<1>1. /\ f.net \in Numbers /\ f.principal \in Numbers
      /\ policy["foir"].says \in Seq(BandLines) /\ policy["ltv"].says \in Seq(BandLines)
  BY DEF ChecksInv, FiguresTyped, Names, RulesTyped
<1>2. ASSUME NEW d \in Found(policy, f), d.status # "unverified"
      PROVE  \E c \in Decided(checks) : c.who = i /\ c.of = d.of
  <2> DEFINE c == [who |-> i, of |-> d.of, status |-> d.status]
  <2>1. c.who = i /\ c.of = d.of /\ c.status = d.status
    OBVIOUS
  <2>2. c \in Applied(policy, facts)
    BY AppliedIs
  <2> HIDE DEF c
  <2>3. c \in checks
    BY <1>2, <2>1, <2>2, InCodeIs DEF ChecksInv
  <2> QED
    BY <1>2, <2>1, <2>3 DEF Decided
<1> HIDE DEF f
<1>3. ASSUME f.net # 0, f.emi # 0, Deciding(policy["foir"].says, f.net) # {}
      PROVE  \E c \in Decided(checks) : c.who = i /\ c.of = "foir"
  <2>1. Select(policy["foir"].says, f.net) # {} /\ policy["foir"].says # <<>>
    BY <1>1, <1>3, LineSelected
  <2>2. PICK d \in Foir(policy, f) : d.of = "foir" /\ d.status # "unverified"
    BY <1>3, <2>1, FoirIs
  <2> QED
    BY <1>2, <2>2 DEF Found
<1>4. ASSUME f.value # 0, f.principal # 0, Deciding(policy["ltv"].says, f.principal) # {}
      PROVE  \E c \in Decided(checks) : c.who = i /\ c.of = "ltv"
  <2>1. Select(policy["ltv"].says, f.principal) # {}
    BY <1>1, <1>4, LineSelected
  <2>2. PICK d \in Ltv(policy, f) : d.of = "ltv" /\ d.status # "unverified"
    BY <1>4, <2>1, LtvIs
  <2> QED
    BY <1>2, <2>2 DEF Found
<1> QED
  BY <1>3, <1>4 DEF f

\* What the search passes over is told of every applicant.
LEMMA SkippedIsTold ==
  ASSUME Infinity \in Nat, ChecksInv, NEW r \in Rules, policy[r].source \in skipped, NEW i \in DOMAIN facts
  PROVE  \/ r = "ltv" /\ Deciding(policy["ltv"].says, facts[i].principal) = {}
         \/ \E c \in sheet : c.who = i /\ c.of = r
<1> DEFINE f == facts[i]
<1>0. f \in [Names -> Numbers] /\ \A j \in DOMAIN facts : facts[j] \in [Names -> Numbers]
  BY DEF ChecksInv, FiguresTyped
<1>1. PICK s \in Decided(checks) : policy[s.of].source = policy[r].source
  BY DEF ChecksInv, Settled
<1>2. s \in checks /\ checks = Applied(policy, facts)
  BY <1>1, InCodeIs DEF ChecksInv, Decided
<1>3. policy[r].says # NoRules[r]
  <2>1. PICK j \in DOMAIN facts : \E d \in Found(policy, facts[j]) : s = [who |-> j, of |-> d.of, status |-> d.status]
    BY <1>2, AppliedIs
  <2>2. PICK d \in Found(policy, facts[j]) : s = [who |-> j, of |-> d.of, status |-> d.status]
    BY <2>1
  <2>3. s.of = d.of /\ d.of \in Rules
    BY <2>2, FoundOf
  <2>4. policy[s.of].says # NoRules[s.of]
    BY <1>0, <2>3, DecidedIsStated DEF ChecksInv
  <2>5. policy[s.of].source # ""
    BY <2>3, <2>4 DEF ChecksInv, RulesTyped
  <2> QED
    BY <1>1, <2>5 DEF ChecksInv, RulesTyped
<1>4. ASSUME NEW d \in Found(policy, f) PROVE \E c \in sheet : c.who = i /\ c.of = d.of
  <2> DEFINE c == [who |-> i, of |-> d.of, status |-> d.status]
  <2>1. c.who = i /\ c.of = d.of
    OBVIOUS
  <2>2. c \in Applied(policy, facts)
    BY AppliedIs
  <2> QED
    BY <1>2, <2>1, <2>2 DEF ChecksInv
<1> HIDE DEF f
<1>5. CASE r = "foir"
  <2>1. policy["foir"].says # <<>>
    BY <1>3, <1>5 DEF NoRules
  <2>2. PICK d \in Foir(policy, f) : d.of = "foir"
    BY <2>1, FoirIs
  <2> QED
    BY <1>4, <1>5, <2>2 DEF Found
<1>6. CASE r = "minimum"
  <2>1. policy["minimum"].says # 0
    BY <1>3, <1>6 DEF NoRules
  <2>2. PICK d \in Bureau(policy, f) : d.of = "minimum"
    BY <2>1, BureauIs
  <2> QED
    BY <1>4, <1>6, <2>2 DEF Found
<1>7. ASSUME r = "ltv", Deciding(policy["ltv"].says, f.principal) # {} PROVE \E c \in sheet : c.who = i /\ c.of = r
  <2>1. f.principal \in Numbers /\ policy["ltv"].says \in Seq(BandLines)
    BY <1>0 DEF Names, ChecksInv, RulesTyped
  <2>2. Select(policy["ltv"].says, f.principal) # {}
    BY <1>7, <2>1, LineSelected
  <2>3. f.principal # 0
    <3> SUFFICES ASSUME f.principal = 0, NEW l \in Deciding(policy["ltv"].says, f.principal) PROVE FALSE
      BY <1>7
    <3>1. policy["ltv"].says[l] \in BandLines /\ policy["ltv"].says[l].low < 0
      BY <2>1 DEF Deciding, Says
    <3> QED
      BY <3>1 DEF BandLines, Amounts
  <2>4. PICK d \in Ltv(policy, f) : d.of = "ltv"
    BY <2>2, <2>3, LtvIs
  <2> QED
    BY <1>4, <1>7, <2>4 DEF Found
<1> QED
  BY <1>5, <1>6, <1>7 DEF Rules, f

\* What code decides of a pack and the papers of a folder is what the invariant says.
LEMMA ChecksStep == ChecksInv /\ [AttachPolicy]_pvars => ChecksInv'
<1> SUFFICES ASSUME ChecksInv, [AttachPolicy]_pvars PROVE ChecksInv'
  OBVIOUS
<1>1. CASE AttachPolicy
  <2>1. PICK given \in Packs, s \in Sheets :
          /\ policy' = LoadRules(given) /\ factSheet' = s /\ facts' = [i \in DOMAIN s.groups |-> Merge(s, i)]
          /\ checks' = InCode(policy', facts') /\ sheet' = checks' /\ skipped' = Settled(policy', checks')
    BY <1>1 DEF AttachPolicy
  <2>2. RulesTyped(policy')
    BY <2>1, RulesLoaded, PolicyAssumption
  <2>3. SheetTyped(s) /\ Infinity \in Nat
    BY PolicyAssumption DEF SheetTyped
  <2>4. FiguresTyped(facts')
    BY <2>1, <2>3, FiguresMerged DEF FiguresTyped
  <2> QED
    BY <2>1, <2>2, <2>3, <2>4 DEF ChecksInv
<1>2. CASE UNCHANGED pvars
  BY <1>2 DEF pvars, ChecksInv
<1> QED
  BY <1>1, <1>2

\* For any policy documents and papers of applicants: what code decides of an applicant's own
\* papers is what the policy's words say of the amount, where lines meet, overlap or leave a
\* gap, unless a paper has a namesake or a narrower line begins at the amount; whoever has the
\* figures is checked, and what the search for clauses passes over is told to every applicant
\* it concerns.
THEOREM ChecksAreRightAlways == PolicySpec => []ChecksAreRight
<1>1. PolicyInit => ChecksInv
  <2> SUFFICES ASSUME PolicyInit PROVE ChecksInv
    OBVIOUS
  <2>1. RulesTyped(policy)
    <3>1. [authored |-> <<>>, prose |-> <<>>].authored \in Seq(PolicyDocuments)
          /\ [authored |-> <<>>, prose |-> <<>>].prose \in Seq(PolicyDocuments)
      OBVIOUS
    <3> QED
      BY <3>1, RulesLoaded DEF PolicyInit, NoPolicy
  <2>2. facts = <<>> /\ checks = {} /\ sheet = {} /\ skipped = {}
    BY DEF PolicyInit
  <2>3. Applied(policy, <<>>) = {}
    BY DEF Applied
  <2>4. InCode(policy, facts) = {} /\ Settled(policy, {}) = {}
    BY <2>2, <2>3 DEF InCode, Settled, Decided
  <2>5. SheetTyped(factSheet) /\ facts = [i \in DOMAIN factSheet.groups |-> Merge(factSheet, i)]
    <3>1. factSheet.documents = <<>> /\ factSheet.groups = <<>>
      BY DEF PolicyInit, NoSheet
    <3>2. DOMAIN factSheet.groups = {}
      BY <3>1
    <3> QED
      BY <2>2, <3>1, <3>2 DEF SheetTyped
  <2> QED
    BY <2>1, <2>2, <2>4, <2>5 DEF ChecksInv, FiguresTyped
<1>2. ChecksInv => ChecksAreRight
  <2> SUFFICES ASSUME ChecksInv PROVE ChecksAreRight
    OBVIOUS
  <2>1. Infinity \in Nat
    BY PolicyAssumption
  <2>2. \A r \in Rules : policy[r].source \in skipped =>
          \A i \in DOMAIN facts :
            \/ r = "ltv" /\ Deciding(policy.ltv.says, facts[i].principal) = {}
            \/ \E c \in sheet : c.who = i /\ c.of = r
    BY <2>1, SkippedIsTold
  <2>5. ASSUME NEW i \in DOMAIN facts, ~HasNamesake(i) PROVE OwnFigures(i) = facts[i]
    <3>1. i \in DOMAIN factSheet.groups /\ facts[i] = Merge(factSheet, i) /\ SheetTyped(factSheet)
      BY DEF ChecksInv
    <3>2. \A n \in DOMAIN factSheet.groups[i] : Namesakes(factSheet, factSheet.groups[i][n]) = {factSheet.groups[i][n]}
      BY <2>5 DEF HasNamesake
    <3> QED
      BY <2>1, <3>1, <3>2, FiguresMerged DEF OwnFigures
  <2>3. ASSUME NEW i \in DOMAIN facts
        PROVE  /\ JudgedBy(i, "foir", facts[i].net, facts[i].emi, facts[i].net)
               /\ JudgedBy(i, "ltv", facts[i].principal, facts[i].principal, facts[i].value)
    BY <2>1, JudgedAsSaid
  <2>4. ASSUME NEW i \in DOMAIN facts
        PROVE  /\ facts[i].net # 0 /\ facts[i].emi # 0 /\ Deciding(policy["foir"].says, facts[i].net) # {} =>
                    \E c \in Decided(checks) : c.who = i /\ c.of = "foir"
               /\ 0 \notin {facts[i].value, facts[i].principal} /\ Deciding(policy["ltv"].says, facts[i].principal) # {} =>
                    \E c \in Decided(checks) : c.who = i /\ c.of = "ltv"
    BY <2>1, WhoHasIsChecked
  <2>6. ASSUME NEW i \in DOMAIN facts, NEW f, f = OwnFigures(i)
        PROVE  \/ HasNamesake(i)
               \/ /\ JudgedBy(i, "foir", f.net, f.emi, f.net)
                  /\ JudgedBy(i, "ltv", f.principal, f.principal, f.value)
                  /\ f.net # 0 /\ f.emi # 0 /\ Deciding(policy.foir.says, f.net) # {} =>
                       \E c \in Decided(checks) : c.who = i /\ c.of = "foir"
                  /\ 0 \notin {f.value, f.principal} /\ Deciding(policy.ltv.says, f.principal) # {} =>
                       \E c \in Decided(checks) : c.who = i /\ c.of = "ltv"
    <3>1. CASE HasNamesake(i)
      BY <3>1
    <3>2. CASE ~HasNamesake(i)
      <4>1. f = facts[i]
        BY <2>5, <2>6, <3>2
      <4> QED
        BY <2>3, <2>4, <4>1, Zenon
    <3> QED
      BY <3>1, <3>2
  <2> QED
    BY <2>2, <2>6, Zenon DEF ChecksAreRight
<1> QED
  BY <1>1, <1>2, ChecksStep, PTL DEF PolicySpec
=============================================================================
