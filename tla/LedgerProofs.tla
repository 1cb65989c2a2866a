---------------------------- MODULE LedgerProofs ----------------------------
(***************************************************************************)
(* Proofs about the ledger.                                                *)
(*                                                                         *)
(* DecisionLedger, for any number of objects and entries: type             *)
(* correctness, that a chain verifies for as long as every entry was       *)
(* chained from an up-to-date cache onto an undamaged file, and that every *)
(* other entry is found.                                                   *)
(*                                                                         *)
(* RunLedger, for any number of runs, stages, answers and retrievals: what *)
(* an object of a run's own writes always links, the audit of a run says   *)
(* of its ledger what is so, and no gate is decided that nobody answered.  *)
(***************************************************************************)
EXTENDS DecisionLedger, RunLedger, FiniteSetTheorems, TLAPS

-----------------------------------------------------------------------------
(* Lemmas about the operators of LedgerChain *)

\* _load_tail never reads more lines than the file holds.
LEMMA ReadablePrefixBound ==
  ASSUME NEW L, NEW f \in Seq(L)
  PROVE  ReadablePrefix(f) \in 0 .. Len(f)
<1> DEFINE S == {n \in 1 .. Len(f) : \A k \in 1 .. n : f[k].parses}
<1>0. Len(f) \in Nat
  OBVIOUS
<1>1. IsFiniteSet(1 .. Len(f)) /\ Cardinality(1 .. Len(f)) = Len(f)
  BY <1>0, FS_Interval
<1>2. IsFiniteSet(S) /\ Cardinality(S) <= Cardinality(1 .. Len(f))
  BY <1>1, FS_Subset
<1>3. Cardinality(S) \in Nat
  BY <1>2, FS_CardinalityType
<1> QED BY <1>1, <1>2, <1>3 DEF ReadablePrefix

\* On a file without a damaged line it reads all of them.
LEMMA ReadablePrefixFull ==
  ASSUME NEW L, NEW f \in Seq(L), \A k \in 1 .. Len(f) : f[k].parses
  PROVE  ReadablePrefix(f) = Len(f)
<1>1. {n \in 1 .. Len(f) : \A k \in 1 .. n : f[k].parses} = 1 .. Len(f)
  OBVIOUS
<1>2. Len(f) \in Nat
  OBVIOUS
<1>3. Cardinality(1 .. Len(f)) = Len(f)
  BY <1>2, FS_Interval
<1> QED BY <1>1, <1>3 DEF ReadablePrefix

\* What a new object caches.
LEMMA LoadTailType ==
  ASSUME NEW f \in Seq(Line)
  PROVE  LoadTail(f).seq \in Nat /\ LoadTail(f).head \in Nat
<1>1. CASE ReadablePrefix(f) = 0
  BY <1>1 DEF LoadTail, GENESIS_HASH
<1>2. CASE ReadablePrefix(f) # 0
  <2>1. ReadablePrefix(f) \in 1 .. Len(f)
    BY <1>2, ReadablePrefixBound
  <2>2. f[ReadablePrefix(f)] \in Line
    BY <2>1
  <2>3. f[ReadablePrefix(f)].seq \in Nat /\ f[ReadablePrefix(f)].hash \in Nat
    BY <2>2 DEF Line
  <2> QED BY <1>2, <2>3 DEF LoadTail
<1> QED BY <1>1, <1>2

\* On a chain that verifies, a new object caches the tail of the file.
LEMMA LoadTailOfIntact ==
  ASSUME NEW L, NEW f \in Seq(L), VerifyFile(f)
  PROVE  LoadTail(f).seq = Len(f) /\ LoadTail(f).head = LastHash(f)
<1>1. ReadablePrefix(f) = Len(f)
  BY ReadablePrefixFull DEF VerifyFile, Linked
<1>2. CASE Len(f) = 0
  BY <1>1, <1>2 DEF LoadTail, LastHash
<1>3. CASE Len(f) # 0
  <2>1. f # <<>> /\ Len(f) \in 1 .. Len(f)
    BY <1>3
  <2>2. f[Len(f)].seq = Len(f)
    BY <2>1 DEF VerifyFile, Linked
  <2> QED BY <1>1, <1>3, <2>1, <2>2 DEF LoadTail, LastHash
<1> QED BY <1>2, <1>3

\* Writing a line keeps the file a sequence of lines.
LEMMA WriteLineType ==
  ASSUME NEW f \in Seq(Line), NEW b \in BOOLEAN, NEW e \in Line
  PROVE  WriteLine(f, b, e) \in Seq(Line)
<1>1. CASE b \/ f = <<>>
  BY <1>1 DEF WriteLine
<1>2. CASE ~(b \/ f = <<>>)
  <2>1. Len(f) \in 1 .. Len(f) /\ f[Len(f)] \in Line
    BY <1>2
  <2>2. Torn(f[Len(f)]) \in Line
    BY <2>1 DEF Torn, Line
  <2>3. WriteLine(f, b, e) = [f EXCEPT ![Len(f)] = Torn(f[Len(f)])]
    BY <1>2 DEF WriteLine
  <2> QED BY <2>1, <2>2, <2>3
<1> QED BY <1>1, <1>2

\* An entry chained from the tail extends a chain that verifies.
LEMMA AppendLinks ==
  ASSUME NEW f \in Seq(Line), VerifyFile(f), NEW h \in Nat
  PROVE  VerifyFile(Append(f, NextEntry(Len(f), LastHash(f), h)))
<1> DEFINE e == NextEntry(Len(f), LastHash(f), h)
           g == Append(f, e)
<1>1. Len(g) = Len(f) + 1 /\ g[Len(f) + 1] = e /\ \A k \in 1 .. Len(f) : g[k] = f[k]
  OBVIOUS
<1> SUFFICES ASSUME NEW k \in 1 .. Len(f) + 1 PROVE Linked(g, k)
  BY <1>1 DEF VerifyFile
<1>3. CASE k <= Len(f)
  <2>1. Linked(f, k)
    BY <1>3 DEF VerifyFile
  <2>2. g[k] = f[k] /\ (k # 1 => g[k - 1] = f[k - 1])
    BY <1>1, <1>3
  <2> QED BY <2>1, <2>2 DEF Linked
<1>4. CASE k = Len(f) + 1
  <2>1. e.parses /\ e.seq = Len(f) + 1 /\ e.prev = LastHash(f)
    BY DEF NextEntry
  <2>2. LastHash(f) = IF k = 1 THEN GENESIS_HASH ELSE g[k - 1].hash
    BY <1>1, <1>4 DEF LastHash
  <2> QED BY <1>1, <1>4, <2>1, <2>2 DEF Linked
<1> QED BY <1>3, <1>4

\* What is left of a chain that verifies still verifies.
LEMMA PrefixVerifies ==
  ASSUME NEW f \in Seq(Line), VerifyFile(f), NEW n \in 0 .. Len(f)
  PROVE  VerifyFile(SubSeq(f, 1, n))
BY DEF VerifyFile, Linked

-----------------------------------------------------------------------------
(* Type correctness *)

\* The types hold at the start.
LEMMA InitTypeOK == Init => TypeOK
<1> SUFFICES ASSUME Init PROVE TypeOK
  OBVIOUS
<1>1. file \in Seq(Line) /\ hashed \in Nat
  BY DEF Init
<1>2. seq \in [Instances -> Nat] /\ head \in [Instances -> Nat]
  BY DEF Init, GENESIS_HASH
<1>3. eol \in BOOLEAN /\ broken \in BOOLEAN /\ lost \in BOOLEAN
  BY DEF Init
<1>4. live \in SUBSET Instances /\ overtaken \in SUBSET Instances
  BY DEF Init
<1> QED BY <1>1, <1>2, <1>3, <1>4 DEF TypeOK

\* Every step keeps the types.
LEMMA NextTypeOK == TypeOK /\ [Next]_vars => TypeOK'
<1> SUFFICES ASSUME TypeOK, [Next]_vars PROVE TypeOK'
  OBVIOUS
<1> USE DEF TypeOK
<1>1. ASSUME NEW i \in Instances, Open(i) PROVE TypeOK'
  BY <1>1, LoadTailType DEF Open
<1>2. ASSUME NEW i \in Instances, Drop(i) PROVE TypeOK'
  BY <1>2 DEF Drop
<1>3. ASSUME NEW i \in Instances, AppendEntry(i) PROVE TypeOK'
  <2> DEFINE e == NextEntry(seq[i], head[i], hashed + 1)
  <2>1. e \in Line /\ e.seq \in Nat /\ e.hash \in Nat
    BY DEF NextEntry, Line
  <2>2. file' \in Seq(Line)
    BY <1>3, <2>1, WriteLineType DEF AppendEntry
  <2> QED BY <1>3, <2>1, <2>2 DEF AppendEntry
<1>4. ASSUME NEW i \in Instances, AppendFails(i) PROVE TypeOK'
  <2> DEFINE e == NextEntry(seq[i], head[i], hashed + 1)
  <2>0. e \in Line
    BY DEF NextEntry, Line
  <2>1. e \in Line /\ Torn(e) \in Line
    <3> HIDE DEF e
    <3> QED BY <2>0 DEF Torn, Line
  <2>2. file' \in Seq(Line)
    BY <1>4, <2>1, WriteLineType DEF AppendFails
  <2>3. broken' \in BOOLEAN /\ eol' \in BOOLEAN
    BY <1>4 DEF AppendFails
  <2>4. hashed' \in Nat /\ overtaken' \in SUBSET Instances
    BY <1>4 DEF AppendFails
  <2> QED BY <1>4, <2>2, <2>3, <2>4 DEF AppendFails
<1>5. ASSUME PowerLoss PROVE TypeOK'
  <2>1. PICK n \in 0 .. Len(file) :
           /\ file' = SubSeq(file, 1, n)
           /\ eol' = (eol \/ n < Len(file))
           /\ lost' = (lost \/ n < Len(file))
    BY <1>5 DEF PowerLoss
  <2>2. file' \in Seq(Line)
    BY <2>1
  <2> QED BY <1>5, <2>1, <2>2 DEF PowerLoss
<1>6. CASE UNCHANGED vars
  BY <1>6 DEF vars
<1> QED BY <1>1, <1>2, <1>3, <1>4, <1>5, <1>6 DEF Next

\* The file always holds lines, the caches always hold a sequence number and a
\* hash, for any number of objects and entries.
THEOREM TypeCorrect == Spec => []TypeOK
BY InitTypeOK, NextTypeOK, PTL DEF Spec

-----------------------------------------------------------------------------
(* The chain *)

ChainInv == TypeOK /\ IntactUnlessBroken /\ CacheIsTail

\* An empty file verifies.
LEMMA InitChainInv == Init => ChainInv
<1> SUFFICES ASSUME Init PROVE ChainInv
  OBVIOUS
<1>1. TypeOK
  BY InitTypeOK
<1> QED BY <1>1 DEF Init, ChainInv, IntactUnlessBroken, CacheIsTail, VerifyFile

\* Every step keeps the chain, or overtakes or damages.
LEMMA NextChainInv == ChainInv /\ [Next]_vars => ChainInv'
<1> SUFFICES ASSUME ChainInv, [Next]_vars PROVE ChainInv'
  OBVIOUS
<1> USE DEF ChainInv
<1>0. TypeOK' /\ TypeOK
  BY NextTypeOK
<1>1. ASSUME NEW i \in Instances, Open(i) PROVE ChainInv'
  <2>1. IntactUnlessBroken'
    BY <1>1 DEF Open, IntactUnlessBroken
  <2>2. ASSUME ~broken', NEW j \in live' \ overtaken'
        PROVE  seq'[j] = Len(file') /\ head'[j] = LastHash(file')
    <3>1. VerifyFile(file) /\ ~broken /\ file' = file
      BY <1>1, <2>2 DEF Open, IntactUnlessBroken
    <3>2. CASE j = i
      BY <1>0, <1>1, <3>1, <3>2, LoadTailOfIntact DEF Open, TypeOK
    <3>3. CASE j # i
      BY <1>0, <1>1, <2>2, <3>1, <3>3 DEF Open, TypeOK, CacheIsTail
    <3> QED BY <3>2, <3>3
  <2> QED BY <1>0, <2>1, <2>2 DEF CacheIsTail
<1>2. ASSUME NEW i \in Instances, Drop(i) PROVE ChainInv'
  BY <1>0, <1>2 DEF Drop, IntactUnlessBroken, CacheIsTail
<1>3. ASSUME NEW i \in Instances, AppendEntry(i) PROVE ChainInv'
  <2> DEFINE e == NextEntry(seq[i], head[i], hashed + 1)
  <2>1. ASSUME ~broken'
        PROVE  /\ VerifyFile(file')
               /\ seq'[i] = Len(file') /\ head'[i] = LastHash(file')
               /\ live' \ overtaken' \subseteq {i}
    <3>1. ~broken /\ eol /\ i \in live \ overtaken /\ file' = Append(file, e)
      BY <1>3, <2>1 DEF AppendEntry, WriteLine
    <3>2. seq[i] = Len(file) /\ head[i] = LastHash(file) /\ VerifyFile(file)
      BY <3>1 DEF CacheIsTail, IntactUnlessBroken
    <3>3. VerifyFile(file')
      BY <1>0, <3>1, <3>2, AppendLinks DEF TypeOK
    <3>4. seq'[i] = Len(file) + 1 /\ head'[i] = hashed + 1
      BY <1>0, <1>3, <3>2 DEF AppendEntry, NextEntry, TypeOK
    <3>5. Len(file') = Len(file) + 1 /\ file'[Len(file')] = e /\ file' # <<>>
      BY <1>0, <3>1 DEF TypeOK
    <3>6. LastHash(file') = hashed + 1
      BY <3>5 DEF LastHash, NextEntry
    <3>7. live' \ overtaken' \subseteq {i}
      BY <1>3 DEF AppendEntry
    <3> QED BY <3>3, <3>4, <3>5, <3>6, <3>7
  <2> QED BY <1>0, <2>1 DEF IntactUnlessBroken, CacheIsTail
<1>4. ASSUME NEW i \in Instances, AppendFails(i) PROVE ChainInv'
  <2> DEFINE e == NextEntry(seq[i], head[i], hashed + 1)
  <2>1. live' \ overtaken' = {}
    BY <1>4 DEF AppendFails
  <2>2. ASSUME ~broken' PROVE VerifyFile(file')
    <3>1. ~broken /\ eol /\ i \in live \ overtaken /\ file' = Append(file, e)
      BY <1>4, <2>2 DEF AppendFails, WriteLine
    <3>2. seq[i] = Len(file) /\ head[i] = LastHash(file) /\ VerifyFile(file)
      BY <3>1 DEF CacheIsTail, IntactUnlessBroken
    <3> QED BY <1>0, <3>1, <3>2, AppendLinks DEF TypeOK
  <2> QED BY <1>0, <2>1, <2>2 DEF IntactUnlessBroken, CacheIsTail
<1>5. ASSUME PowerLoss PROVE ChainInv'
  <2>1. PICK n \in 0 .. Len(file) : file' = SubSeq(file, 1, n)
    BY <1>5 DEF PowerLoss
  <2>2. ~broken' => VerifyFile(file')
    BY <1>0, <1>5, <2>1, PrefixVerifies DEF PowerLoss, TypeOK, IntactUnlessBroken
  <2>3. live' = {}
    BY <1>5 DEF PowerLoss
  <2> QED BY <1>0, <2>2, <2>3 DEF IntactUnlessBroken, CacheIsTail
<1>6. CASE UNCHANGED vars
  BY <1>0, <1>6 DEF vars, IntactUnlessBroken, CacheIsTail
<1> QED BY <1>1, <1>2, <1>3, <1>4, <1>5, <1>6 DEF Next

\* Sessions that follow each other keep one chain that verifies, through
\* restarts and power losses, for any number of ledger objects and entries.
THEOREM ChainIntact == Spec => [](IntactUnlessBroken /\ CacheIsTail)
<1>1. ChainInv => IntactUnlessBroken /\ CacheIsTail
  BY DEF ChainInv
<1> QED BY <1>1, InitChainInv, NextChainInv, PTL DEF Spec

-----------------------------------------------------------------------------
(* A break stays visible *)

\* If a file verifies, so did the file before its last line, which links to it.
LEMMA VerifiedAppend ==
  ASSUME NEW f \in Seq(Line), NEW e \in Line, VerifyFile(Append(f, e))
  PROVE  VerifyFile(f) /\ e.parses /\ e.prev = LastHash(f)
<1> DEFINE g == Append(f, e)
<1>1. Len(g) = Len(f) + 1 /\ g[Len(f) + 1] = e /\ Len(f) \in Nat /\ \A k \in 1 .. Len(f) : g[k] = f[k]
  OBVIOUS
<1> HIDE DEF g
<1>2. VerifyFile(g)
  BY DEF g
<1>3. VerifyFile(f)
  <2> SUFFICES ASSUME NEW k \in 1 .. Len(f) PROVE Linked(f, k)
    BY DEF VerifyFile
  <2>1. Linked(g, k) /\ g[k] = f[k] /\ (k # 1 => g[k - 1] = f[k - 1])
    BY <1>1, <1>2 DEF VerifyFile
  <2> QED BY <2>1 DEF Linked
<1>4. Linked(g, Len(f) + 1)
  BY <1>1, <1>2 DEF VerifyFile
<1>5. e.parses /\ e.prev = IF Len(f) + 1 = 1 THEN GENESIS_HASH ELSE g[Len(f)].hash
  BY <1>1, <1>4 DEF Linked
<1>6. CASE Len(f) = 0
  BY <1>3, <1>5, <1>6 DEF LastHash
<1>7. CASE Len(f) # 0
  <2>1. f # <<>> /\ g[Len(f)] = f[Len(f)]
    BY <1>1, <1>7
  <2> QED BY <1>1, <1>3, <1>5, <1>7, <2>1 DEF LastHash
<1> QED BY <1>6, <1>7

\* A line that two entries share is found.
LEMMA TornIsFound ==
  ASSUME NEW f \in Seq(Line), NEW e \in Line, f # <<>>
  PROVE  ~VerifyFile(WriteLine(f, FALSE, e))
<1>1. Len(f) \in 1 .. Len(f)
  OBVIOUS
<1>2. WriteLine(f, FALSE, e) = [f EXCEPT ![Len(f)] = Torn(f[Len(f)])]
  BY DEF WriteLine
<1> DEFINE g == [f EXCEPT ![Len(f)] = Torn(f[Len(f)])]
<1>3. Len(g) = Len(f) /\ g[Len(f)] = Torn(f[Len(f)])
  BY <1>1
<1> HIDE DEF g
<1>4. ~g[Len(f)].parses
  BY <1>3 DEF Torn
<1>5. ~VerifyFile(g)
  BY <1>1, <1>3, <1>4 DEF VerifyFile, Linked
<1> QED BY <1>2, <1>5 DEF g

\* A hash is given once: no cache and no line holds one that is yet to come.
Hashes ==
  /\ \A i \in Instances : head[i] <= hashed
  /\ \A k \in 1 .. Len(file) : file[k].hash <= hashed

\* As long as nothing was lost, a file that verifies has no break, and an object that
\* was overtaken would break it.
Visible ==
  ~lost /\ VerifyFile(file) => ~broken /\ \A i \in live \cap overtaken : head[i] # LastHash(file)

FoundInv == TypeOK /\ (~eol => file # <<>>) /\ Hashes /\ Visible

\* At the start nothing is broken.
LEMMA InitFoundInv == Init => FoundInv
<1> SUFFICES ASSUME Init PROVE FoundInv
  OBVIOUS
<1>1. TypeOK
  BY InitTypeOK
<1> QED BY <1>1 DEF Init, FoundInv, Hashes, Visible, GENESIS_HASH

\* An entry, whole or torn, is written by an object.
LEMMA WriteIsVisible ==
  ASSUME FoundInv, TypeOK', NEW i \in live, NEW e \in Line,
         e.hash = hashed + 1, e.prev = head[i], hashed' = hashed + 1,
         file' = WriteLine(file, eol, e), live' = live, lost' = lost,
         broken' <=> broken \/ i \in overtaken \/ ~eol \/ ~e.parses,
         \A j \in Instances : head'[j] <= hashed + 1,
         \A j \in live' \cap overtaken' : head'[j] = head[j] \/ j = i,
         i \in overtaken' => i \in overtaken \/ head'[i] = head[i]
  PROVE  file' # <<>> /\ Hashes' /\ Visible'
<1>1. /\ file \in Seq(Line) /\ Len(file) \in Nat /\ hashed \in Nat /\ live \subseteq Instances
      /\ head \in [Instances -> Nat] /\ eol \in BOOLEAN
  BY DEF FoundInv, TypeOK
<1>2. \A k \in 1 .. Len(file) : file[k].hash \in Nat
  <2> SUFFICES ASSUME NEW k \in 1 .. Len(file) PROVE file[k].hash \in Nat
    OBVIOUS
  <2>1. file[k] \in Line
    BY <1>1
  <2> QED BY <2>1 DEF Line
<1>3. CASE eol \/ file = <<>>
  <2>1. file' = Append(file, e)
    BY <1>3 DEF WriteLine
  <2>2. /\ Len(file') = Len(file) + 1 /\ file'[Len(file')] = e /\ file' # <<>>
        /\ \A k \in 1 .. Len(file) : file'[k] = file[k]
    BY <1>1, <2>1
  <2>3. Hashes'
    <3>1. \A k \in 1 .. Len(file) : file[k].hash <= hashed /\ file[k].hash \in Nat
      BY <1>2 DEF FoundInv, Hashes
    <3>2. ASSUME NEW k \in 1 .. Len(file') PROVE file'[k].hash <= hashed'
      <4>1. CASE k = Len(file')
        BY <1>1, <2>2, <4>1
      <4>2. CASE k \in 1 .. Len(file)
        BY <1>1, <2>2, <3>1, <4>2
      <4> QED BY <1>1, <2>2, <4>1, <4>2
    <3> QED BY <3>2 DEF Hashes
  <2>4. LastHash(file') = hashed + 1
    BY <2>2 DEF LastHash
  <2>5. ASSUME ~lost, VerifyFile(file')
        PROVE  ~broken' /\ \A j \in live' \cap overtaken' : head'[j] # LastHash(file')
    <3>1. VerifyFile(file) /\ e.parses /\ e.prev = LastHash(file)
      BY <1>1, <2>1, <2>5, VerifiedAppend
    <3>2. ~broken /\ i \notin overtaken
      BY <2>5, <3>1 DEF FoundInv, Visible
    <3>3. eol
      BY <1>3 DEF FoundInv
    <3>4. \A j \in live' \cap overtaken' : head'[j] = head[j]
      BY <3>2
    <3>5. \A j \in live : head[j] <= hashed /\ head[j] \in Nat
      BY <1>1 DEF FoundInv, Hashes
    <3>6. \A j \in live' \cap overtaken' : head'[j] # LastHash(file')
      BY <1>1, <2>4, <3>4, <3>5
    <3> QED BY <3>1, <3>2, <3>3, <3>6
  <2> QED BY <2>2, <2>3, <2>5 DEF Visible
<1>4. CASE ~eol /\ file # <<>>
  <2>1. ~VerifyFile(file')
    BY <1>1, <1>4, TornIsFound
  <2>2. Len(file) \in 1 .. Len(file) /\ file' = [file EXCEPT ![Len(file)] = Torn(file[Len(file)])]
    BY <1>1, <1>4 DEF WriteLine
  <2>3. Len(file') = Len(file) /\ \A k \in 1 .. Len(file) : file'[k].hash = file[k].hash
    <3>1. Len(file') = Len(file)
      BY <1>1, <2>2
    <3>2. ASSUME NEW k \in 1 .. Len(file) PROVE file'[k].hash = file[k].hash
      <4>1. CASE k = Len(file)
        <5>1. file'[k] = Torn(file[k])
          BY <1>1, <2>2, <4>1
        <5>2. file[k] \in Line
          BY <1>1
        <5> QED BY <5>1, <5>2 DEF Torn, Line
      <4>2. CASE k # Len(file)
        BY <1>1, <2>2, <4>2
      <4> QED BY <4>1, <4>2
    <3> QED BY <3>1, <3>2
  <2>4. Hashes'
    <3>1. \A k \in 1 .. Len(file) : file[k].hash <= hashed
      BY DEF FoundInv, Hashes
    <3>2. \A k \in 1 .. Len(file') : file'[k].hash <= hashed'
      BY <1>1, <1>2, <2>3, <3>1
    <3> QED BY <3>2 DEF Hashes
  <2>5. file' # <<>>
    <3>1. Len(file) # 0
      BY <1>1, <1>4
    <3>2. Len(file') # 0
      BY <2>3, <3>1
    <3> QED BY <3>2
  <2> QED BY <2>1, <2>4, <2>5 DEF Visible
<1> QED BY <1>1, <1>3, <1>4

\* No step hides a break.
LEMMA NextFoundInv == FoundInv /\ [Next]_vars => FoundInv'
<1> SUFFICES ASSUME FoundInv, [Next]_vars PROVE FoundInv'
  OBVIOUS
<1> USE DEF FoundInv
<1>0. TypeOK' /\ TypeOK
  BY NextTypeOK
<1>1. ASSUME NEW i \in Instances, Open(i) PROVE FoundInv'
  <2>1. LoadTail(file).head \in Nat /\ LoadTail(file).head <= hashed
    <3>1. CASE ReadablePrefix(file) = 0
      BY <1>0, <3>1 DEF LoadTail, GENESIS_HASH, TypeOK
    <3>2. CASE ReadablePrefix(file) # 0
      <4>1. ReadablePrefix(file) \in 1 .. Len(file)
        BY <1>0, <3>2, ReadablePrefixBound DEF TypeOK
      <4> QED BY <1>0, <3>2, <4>1, LoadTailType DEF LoadTail, Hashes, TypeOK
    <3> QED BY <3>1, <3>2
  <2>2. /\ head' = [head EXCEPT ![i] = LoadTail(file).head]
        /\ live' = live \cup {i} /\ overtaken' = overtaken \ {i}
        /\ UNCHANGED <<file, eol, hashed, broken, lost>>
    BY <1>1 DEF Open
  <2>3. \A j \in Instances : head'[j] = IF j = i THEN LoadTail(file).head ELSE head[j]
    BY <1>0, <2>2 DEF TypeOK
  <2>4. Hashes'
    BY <2>1, <2>2, <2>3 DEF Hashes
  <2>5. Visible'
    BY <1>0, <2>2, <2>3 DEF Visible, TypeOK
  <2> QED BY <1>0, <2>2, <2>4, <2>5
<1>2. ASSUME NEW i \in Instances, Drop(i) PROVE FoundInv'
  BY <1>0, <1>2 DEF Drop, Hashes, Visible
<1>3. ASSUME NEW i \in Instances, AppendEntry(i) PROVE FoundInv'
  <2> DEFINE e == NextEntry(seq[i], head[i], hashed + 1)
  <2>1. /\ e \in Line /\ e.hash = hashed + 1 /\ e.prev = head[i] /\ e.parses = TRUE
    BY <1>0 DEF NextEntry, Line, TypeOK
  <2>2. /\ i \in live /\ file' = WriteLine(file, eol, e) /\ head' = [head EXCEPT ![i] = e.hash]
        /\ eol' = TRUE /\ hashed' = hashed + 1 /\ overtaken' = overtaken \cup (live \ {i})
        /\ broken' = (broken \/ i \in overtaken \/ ~eol) /\ live' = live /\ lost' = lost
    BY <1>3 DEF AppendEntry
  <2> HIDE DEF e
  <2>3. \A j \in Instances : head'[j] = IF j = i THEN hashed + 1 ELSE head[j]
    BY <1>0, <2>1, <2>2 DEF TypeOK
  <2>4. \A j \in Instances : head'[j] <= hashed + 1
    BY <1>0, <2>3 DEF Hashes, TypeOK
  <2>5. /\ \A j \in live' \cap overtaken' : head'[j] = head[j] \/ j = i
        /\ i \in overtaken' => i \in overtaken \/ head'[i] = head[i]
    BY <1>0, <2>2, <2>3 DEF TypeOK
  <2>6. broken' <=> broken \/ i \in overtaken \/ ~eol \/ ~e.parses
    BY <2>1, <2>2
  <2>7. file' # <<>> /\ Hashes' /\ Visible'
    BY <1>0, <2>1, <2>2, <2>4, <2>5, <2>6, WriteIsVisible
  <2> QED BY <1>0, <2>7
<1>4. ASSUME NEW i \in Instances, AppendFails(i) PROVE FoundInv'
  <2>1. PICK whole \in BOOLEAN :
          LET e == NextEntry(seq[i], head[i], hashed + 1)
          IN /\ file' = WriteLine(file, eol, IF whole THEN e ELSE Torn(e))
             /\ broken' = (broken \/ i \in overtaken \/ ~eol \/ ~whole)
    BY <1>4 DEF AppendFails
  <2> DEFINE e == IF whole THEN NextEntry(seq[i], head[i], hashed + 1)
                  ELSE Torn(NextEntry(seq[i], head[i], hashed + 1))
  <2>2. /\ e \in Line /\ e.hash = hashed + 1 /\ e.prev = head[i] /\ e.parses = whole
    <3> DEFINE w == NextEntry(seq[i], head[i], hashed + 1)
    <3>1. /\ w \in Line /\ w.hash = hashed + 1 /\ w.prev = head[i] /\ w.parses = TRUE
      BY <1>0 DEF NextEntry, Line, TypeOK
    <3>2. /\ Torn(w) \in Line /\ Torn(w).hash = hashed + 1 /\ Torn(w).prev = head[i]
          /\ Torn(w).parses = FALSE
      BY <3>1 DEF Torn, Line
    <3> HIDE DEF w
    <3>3. CASE whole
      <4>1. e = w
        BY <3>3 DEF w
      <4> QED BY <3>1, <3>3, <4>1
    <3>4. CASE ~whole
      <4>1. e = Torn(w)
        BY <3>4 DEF w
      <4> QED BY <3>2, <3>4, <4>1
    <3> QED BY <3>3, <3>4
  <2>3. file' = WriteLine(file, eol, e)
    BY <2>1
  <2> HIDE DEF e
  <2>4. /\ i \in live /\ eol' = FALSE /\ hashed' = hashed + 1 /\ overtaken' = overtaken \cup live
        /\ head' = head /\ live' = live /\ lost' = lost
    BY <1>4 DEF AppendFails
  <2>5. broken' <=> broken \/ i \in overtaken \/ ~eol \/ ~e.parses
    BY <2>1, <2>2
  <2>6. \A j \in Instances : head'[j] <= hashed + 1
    BY <1>0, <2>4 DEF Hashes, TypeOK
  <2>7. file' # <<>> /\ Hashes' /\ Visible'
    BY <1>0, <2>2, <2>3, <2>4, <2>5, <2>6, WriteIsVisible
  <2> QED BY <1>0, <2>7
<1>5. ASSUME PowerLoss PROVE FoundInv'
  <2>1. PICK n \in 0 .. Len(file) :
           /\ file' = SubSeq(file, 1, n)
           /\ eol' = (eol \/ n < Len(file))
           /\ lost' = (lost \/ n < Len(file))
    BY <1>5 DEF PowerLoss
  <2>2. live' = {} /\ UNCHANGED <<head, hashed, broken>>
    BY <1>5 DEF PowerLoss
  <2>3. Len(file') = n /\ \A k \in 1 .. n : file'[k] = file[k]
    BY <1>0, <2>1 DEF TypeOK
  <2>4. n = Len(file) => file' = file
    BY <1>0, <2>1 DEF TypeOK
  <2>5. Hashes'
    BY <2>1, <2>2, <2>3 DEF Hashes
  <2>6. CASE n = Len(file)
    <3>1. file' = file /\ (lost' <=> lost) /\ (eol' <=> eol)
      BY <1>0, <2>1, <2>4, <2>6 DEF TypeOK
    <3>2. Visible'
      BY <2>2, <3>1 DEF Visible
    <3> QED BY <1>0, <2>5, <3>1, <3>2
  <2>7. CASE n < Len(file)
    <3>1. lost' /\ eol'
      BY <2>1, <2>7
    <3>2. Visible'
      BY <3>1 DEF Visible
    <3> QED BY <1>0, <2>5, <3>1, <3>2
  <2> QED BY <1>0, <2>6, <2>7 DEF TypeOK
<1>6. CASE UNCHANGED vars
  BY <1>0, <1>6 DEF vars, Hashes, Visible
<1> QED BY <1>1, <1>2, <1>3, <1>4, <1>5, <1>6 DEF Next

\* Whatever is appended behind it, an entry chained from an overtaken cache or a damaged
\* line is found by verify_file, unless lines at the end of the file were lost.
THEOREM BreaksAreFound == Spec => []BrokenIsDetected
<1>1. FoundInv => BrokenIsDetected
  BY DEF FoundInv, Visible, BrokenIsDetected
<1> QED BY <1>1, InitFoundInv, NextFoundInv, PTL DEF Spec

\* verify_file accepts a file nobody broke and refuses one that was broken, unless the lines that
\* show it are lost: for any number of objects, entries, failed writes and power losses.
THEOREM VerifyIsRight == Spec => []VerifyTellsTheTruth
<1>1. ChainInv /\ FoundInv => VerifyTellsTheTruth
  BY DEF ChainInv, FoundInv, Visible, BrokenIsDetected, VerifyTellsTheTruth
<1> QED BY <1>1, InitChainInv, NextChainInv, InitFoundInv, NextFoundInv, PTL DEF Spec

-----------------------------------------------------------------------------
(* RunLedger: types *)

RunEntry == [parses : BOOLEAN, seq : Nat, prev : Nat, hash : Nat,
             event : Events, of : Runs \cup {NoRun}, gate : Nat]

FileTypes ==
  /\ ledger \in [Runs -> Seq(RunEntry)]
  /\ tail \in [Runs -> [seq : Nat, head : Nat]]
  /\ entries \in [Runs -> Nat] /\ failed \in [Runs -> Nat]
  /\ newline \in [Runs -> BOOLEAN]
  /\ \A r \in Runs : ~newline[r] => ledger[r] # <<>> /\ ledger[r][Len(ledger[r])].event = "ui_decision"

ThreadTypes ==
  /\ pc \in [Runs -> {"new", "running", "gate", "ended"}]
  /\ node \in [Runs -> Nat \ {0}] /\ pos \in [Runs -> 0 .. 5]
  /\ \A r \in Runs : pc[r] = "gate" => pos[r] \in {1, 4}
  /\ had \in [Runs -> Seq({"approve", "reject"})]
  /\ approvalEvent \in [Runs -> BOOLEAN] /\ cancelled \in [Runs -> BOOLEAN]

RequestTypes ==
  /\ at \in [Requests -> {"idle", "opened", "sealed"}]
  /\ req \in [Requests -> [run : Runs \cup {NoRun}, gate : Nat, seq : Nat, head : Nat]]
  /\ \A q \in Requests : at[q] # "idle" => req[q].run \in Runs

RunTypes ==
  /\ FileTypes /\ ThreadTypes /\ RequestTypes
  /\ active \in Runs \cup {NoRun}
  /\ audit \in [Runs -> [valid : BOOLEAN, head : Nat]]

\* The gates of a stage.
LEMMA ScriptGates ==
  ASSUME NEW n \in Nat \ {0}
  PROVE  /\ Script(n)[1].gate = 2 * n - 1 /\ Script(n)[2].gate = 2 * n - 1
         /\ Script(n)[4].gate = 2 * n /\ Script(n)[5].gate = 2 * n
BY DEF Script

\* A gate's number.
LEMMA GateNumber ==
  ASSUME NEW n \in Nat \ {0}, NEW p \in {1, 2, 4, 5}
  PROVE  Script(n)[p].gate \in Nat
<1>1. 2 * n - 1 \in Nat /\ 2 * n \in Nat
  OBVIOUS
<1>2. p = 1 \/ p = 2 \/ p = 4 \/ p = 5
  OBVIOUS
<1> QED BY <1>1, <1>2, ScriptGates

\* What a new object on a run's file caches.
LEMMA RunTailType ==
  ASSUME NEW f \in Seq(RunEntry)
  PROVE  LoadTail(f) \in [seq : Nat, head : Nat]
<1>1. CASE ReadablePrefix(f) = 0
  BY <1>1 DEF LoadTail, GENESIS_HASH
<1>2. CASE ReadablePrefix(f) # 0
  <2>1. ReadablePrefix(f) \in 1 .. Len(f)
    BY <1>2, ReadablePrefixBound
  <2>2. f[ReadablePrefix(f)] \in RunEntry
    BY <2>1
  <2>3. f[ReadablePrefix(f)].seq \in Nat /\ f[ReadablePrefix(f)].hash \in Nat
    BY <2>2 DEF RunEntry
  <2> QED BY <1>2, <2>3 DEF LoadTail
<1> QED BY <1>1, <1>2

\* An entry is chained from the tail its object has cached.
Chained(e, t) == e.parses /\ e.seq = t.seq + 1 /\ e.prev = t.head

\* The entry that Record and ApproveSeal append.
LEMMA EntryType ==
  ASSUME FileTypes, NEW r \in Runs, NEW t \in [seq : Nat, head : Nat], NEW event \in Events,
         NEW of \in Runs \cup {NoRun}, NEW g \in Nat
  PROVE  LET e == Entry(r, t, event, of, g)
         IN /\ e \in RunEntry /\ Chained(e, t)
            /\ e.event = event /\ e.gate = g /\ e.hash = entries[r] + 1
<1>1. entries[r] + 1 \in Nat /\ t.seq + 1 \in Nat /\ t.head \in Nat
  BY DEF FileTypes
<1>2. Entry(r, t, event, of, g) =
        [parses |-> TRUE, seq |-> t.seq + 1, prev |-> t.head, hash |-> entries[r] + 1,
         event |-> event, of |-> of, gate |-> g]
  BY DEF Entry, NextEntry
<1> QED BY <1>1, <1>2 DEF RunEntry, Chained

\* A file whose last line has had the next one written to its end.
Glued(f) == [f EXCEPT ![Len(f)] = Torn(@)]

\* What such a file looks like.
LEMMA GluedFile ==
  ASSUME NEW f \in Seq(RunEntry), f # <<>>
  PROVE  /\ Glued(f) \in Seq(RunEntry) /\ Glued(f) # <<>> /\ Len(Glued(f)) = Len(f)
         /\ \A k \in 1 .. Len(f) : k # Len(f) => Glued(f)[k] = f[k]
         /\ \A k \in 1 .. Len(f) : Glued(f)[k].event = f[k].event /\ Glued(f)[k].gate = f[k].gate
         /\ ~Glued(f)[Len(f)].parses
<1>1. Len(f) \in 1 .. Len(f) /\ f[Len(f)] \in RunEntry
  OBVIOUS
<1>2. /\ Torn(f[Len(f)]) \in RunEntry /\ ~Torn(f[Len(f)]).parses
      /\ Torn(f[Len(f)]).event = f[Len(f)].event /\ Torn(f[Len(f)]).gate = f[Len(f)].gate
  BY <1>1 DEF Torn, RunEntry
<1>3. Glued(f) = [f EXCEPT ![Len(f)] = Torn(f[Len(f)])]
  BY DEF Glued
<1> HIDE DEF RunEntry
<1>4. /\ Glued(f) \in Seq(RunEntry) /\ Len(Glued(f)) = Len(f)
      /\ \A k \in 1 .. Len(f) : Glued(f)[k] = IF k = Len(f) THEN Torn(f[Len(f)]) ELSE f[k]
  BY <1>1, <1>2, <1>3
<1>5. Glued(f) # <<>>
  BY <1>1, <1>4
<1> QED BY <1>1, <1>2, <1>4, <1>5

\* A line written to a run's file is a line of its own, or lost in the one before.
LEMMA RunWrites ==
  ASSUME FileTypes, NEW r \in Runs, NEW e \in RunEntry
  PROVE  LET f == ledger[r]
             g == WriteLine(f, newline[r], e)
         IN /\ g \in Seq(RunEntry)
            /\ \/ (newline[r] \/ f = <<>>) /\ g = Append(f, e)
               \/ ~newline[r] /\ f # <<>> /\ g = Glued(f)
<1>1. ledger[r] \in Seq(RunEntry) /\ newline[r] \in BOOLEAN
  BY DEF FileTypes
<1>2. CASE newline[r] \/ ledger[r] = <<>>
  BY <1>1, <1>2 DEF WriteLine
<1>3. CASE ~newline[r] /\ ledger[r] # <<>>
  <2>1. WriteLine(ledger[r], newline[r], e) = Glued(ledger[r])
    BY <1>3 DEF WriteLine, Glued
  <2> QED BY <1>1, <1>3, <2>1, GluedFile
<1> QED BY <1>1, <1>2, <1>3

\* What Record does, without the helpers.
LEMMA RecordAppends ==
  ASSUME FileTypes, NEW r \in Runs, NEW event \in Events, NEW of \in Runs \cup {NoRun},
         NEW g \in Nat, Record(r, event, of, g)
  PROVE  \E e \in RunEntry :
           /\ Chained(e, tail[r]) /\ e.event = event /\ e.gate = g
           /\ ledger' = [ledger EXCEPT ![r] = WriteLine(ledger[r], newline[r], e)]
           /\ newline' = [newline EXCEPT ![r] = TRUE]
           /\ tail' = [tail EXCEPT ![r] = [seq |-> e.seq, head |-> e.hash]]
           /\ entries' = [entries EXCEPT ![r] = @ + 1]
<1>1. tail[r] \in [seq : Nat, head : Nat]
  BY DEF FileTypes
<1> DEFINE e == Entry(r, tail[r], event, of, g)
<1>2. e \in RunEntry /\ Chained(e, tail[r]) /\ e.event = event /\ e.gate = g
  BY <1>1, EntryType
<1>3. /\ ledger' = [ledger EXCEPT ![r] = WriteLine(ledger[r], newline[r], e)]
      /\ newline' = [newline EXCEPT ![r] = TRUE]
      /\ tail' = [tail EXCEPT ![r] = [seq |-> e.seq, head |-> e.hash]]
      /\ entries' = [entries EXCEPT ![r] = @ + 1]
  BY DEF Record, Write
<1> HIDE DEF e
<1> QED BY <1>2, <1>3

\* The line of an answer, whole or in part.
LEMMA AnswerType ==
  ASSUME FileTypes, RequestTypes, NEW q \in Requests, at[q] = "opened"
  PROVE  /\ req[q].run \in Runs
         /\ Answer(q) \in RunEntry /\ Answer(q).event = "ui_decision" /\ Answer(q).parses
         /\ Torn(Answer(q)) \in RunEntry /\ Torn(Answer(q)).event = "ui_decision" /\ ~Torn(Answer(q)).parses
<1>1. req[q].run \in Runs /\ req[q] \in [run : Runs \cup {NoRun}, gate : Nat, seq : Nat, head : Nat]
  BY DEF RequestTypes
<1> DEFINE t == [seq |-> req[q].seq, head |-> req[q].head]
<1>2. t \in [seq : Nat, head : Nat] /\ req[q].gate \in Nat /\ "ui_decision" \in Events
  BY <1>1 DEF Events
<1>3. Answer(q) \in RunEntry /\ Answer(q).event = "ui_decision" /\ Answer(q).parses
  BY <1>1, <1>2, EntryType DEF Answer, Chained
<1>4. Torn(Answer(q)) \in RunEntry /\ Torn(Answer(q)).event = "ui_decision" /\ ~Torn(Answer(q)).parses
  BY <1>3 DEF Torn, RunEntry
<1> QED BY <1>1, <1>3, <1>4

\* What ApproveSeal and ApproveSealFails do to the file: nothing, or one line is written,
\* and the file ends with a newline unless the seal failed.
SealWrites(q, ends) ==
  \E e \in RunEntry :
    /\ e.event = "ui_decision" /\ (ends => e.parses)
    /\ ledger' = [ledger EXCEPT ![req[q].run] = WriteLine(ledger[req[q].run], newline[req[q].run], e)]
    /\ newline' = [newline EXCEPT ![req[q].run] = ends]
    /\ entries' = [entries EXCEPT ![req[q].run] = @ + 1]

\* The same, without the helpers.
LEMMA SealAppends ==
  ASSUME FileTypes, RequestTypes, NEW q \in Requests
  PROVE  /\ ApproveSeal(q) => req[q].run \in Runs /\ SealWrites(q, TRUE)
         /\ ApproveSealFails(q) => req[q].run \in Runs /\ (UNCHANGED runFile \/ SealWrites(q, FALSE))
<1>1. ASSUME ApproveSeal(q) PROVE req[q].run \in Runs /\ SealWrites(q, TRUE)
  <2>1. req[q].run \in Runs /\ Answer(q) \in RunEntry /\ Answer(q).event = "ui_decision" /\ Answer(q).parses
    BY <1>1, AnswerType DEF ApproveSeal
  <2> QED BY <1>1, <2>1 DEF ApproveSeal, Write, SealWrites
<1>2. ASSUME ApproveSealFails(q)
      PROVE  req[q].run \in Runs /\ (UNCHANGED runFile \/ SealWrites(q, FALSE))
  <2>1. /\ req[q].run \in Runs /\ Answer(q) \in RunEntry /\ Answer(q).event = "ui_decision"
        /\ Torn(Answer(q)) \in RunEntry /\ Torn(Answer(q)).event = "ui_decision"
    BY <1>2, AnswerType DEF ApproveSealFails
  <2>2. \/ UNCHANGED runFile
        \/ Write(req[q].run, Torn(Answer(q)), FALSE)
        \/ Write(req[q].run, Answer(q), FALSE)
    BY <1>2 DEF ApproveSealFails
  <2> QED BY <2>1, <2>2 DEF Write, SealWrites
<1> QED BY <1>1, <1>2

\* A line written to a file keeps its types, when only an answer may be left without its newline.
LEMMA WriteTypes ==
  ASSUME FileTypes, NEW r \in Runs, NEW e \in RunEntry, NEW b \in BOOLEAN, ~b => e.event = "ui_decision",
         ledger' = [ledger EXCEPT ![r] = WriteLine(ledger[r], newline[r], e)],
         newline' = [newline EXCEPT ![r] = b],
         entries' = [entries EXCEPT ![r] = @ + 1],
         tail' \in [Runs -> [seq : Nat, head : Nat]], failed' \in [Runs -> Nat]
  PROVE  FileTypes'
<1> DEFINE f == ledger[r]
           g == WriteLine(f, newline[r], e)
<1>1. f \in Seq(RunEntry) /\ g \in Seq(RunEntry)
      /\ (g = Append(f, e) \/ (~newline[r] /\ f # <<>> /\ g = Glued(f)))
  BY RunWrites DEF FileTypes
<1>2. ~b => g # <<>> /\ g[Len(g)].event = "ui_decision"
  <2>1. CASE g = Append(f, e)
    <3>1. Len(g) = Len(f) + 1 /\ g[Len(g)] = e /\ Len(f) \in Nat
      BY <1>1, <2>1
    <3> QED BY <1>1, <3>1
  <2>2. CASE ~newline[r] /\ f # <<>> /\ g = Glued(f)
    <3>1. f[Len(f)].event = "ui_decision" /\ Len(f) \in 1 .. Len(f)
      BY <1>1, <2>2 DEF FileTypes
    <3> QED BY <1>1, <2>2, <3>1, GluedFile
  <2> QED BY <1>1, <2>1, <2>2
<1>3. ledger' \in [Runs -> Seq(RunEntry)] /\ newline' \in [Runs -> BOOLEAN] /\ entries' \in [Runs -> Nat]
  BY <1>1 DEF FileTypes
<1>4. ASSUME NEW p \in Runs, ~newline'[p]
      PROVE  ledger'[p] # <<>> /\ ledger'[p][Len(ledger'[p])].event = "ui_decision"
  <2>1. CASE p = r
    <3>1. ledger'[p] = g /\ newline'[p] = b
      BY <2>1 DEF FileTypes
    <3> HIDE DEF g
    <3> QED BY <1>2, <1>4, <3>1
  <2>2. CASE p # r
    <3>1. ledger'[p] = ledger[p] /\ newline'[p] = newline[p]
      BY <2>2 DEF FileTypes
    <3> QED BY <1>4, <3>1 DEF FileTypes
  <2> QED BY <2>1, <2>2
<1> QED BY <1>3, <1>4 DEF FileTypes

\* The types hold at the start.
LEMMA InitRunTypes == RunInit => RunTypes
BY DEF RunInit, RunTypes, FileTypes, ThreadTypes, RequestTypes, Tail0, NoAudit, GENESIS_HASH

\* An append keeps the ledger a sequence of entries.
LEMMA RecordTypes ==
  ASSUME FileTypes, NEW r \in Runs, NEW event \in Events, NEW of \in Runs \cup {NoRun},
         NEW g \in Nat, Record(r, event, of, g), failed' = failed
  PROVE  FileTypes'
<1>1. PICK e \in RunEntry :
           /\ ledger' = [ledger EXCEPT ![r] = WriteLine(ledger[r], newline[r], e)]
           /\ newline' = [newline EXCEPT ![r] = TRUE]
           /\ tail' = [tail EXCEPT ![r] = [seq |-> e.seq, head |-> e.hash]]
           /\ entries' = [entries EXCEPT ![r] = @ + 1]
  BY RecordAppends
<1>2. [seq |-> e.seq, head |-> e.hash] \in [seq : Nat, head : Nat]
  BY DEF RunEntry
<1>3. tail' \in [Runs -> [seq : Nat, head : Nat]] /\ failed' \in [Runs -> Nat]
  BY <1>1, <1>2 DEF FileTypes
<1> QED BY <1>1, <1>3, WriteTypes

\* Every step keeps the types.
LEMMA NextRunTypes == RunTypes /\ [RunNext]_runVars => RunTypes'
<1> SUFFICES ASSUME RunTypes, [RunNext]_runVars PROVE RunTypes'
  OBVIOUS
<1> USE DEF RunTypes
<1>0. /\ "work" \in Events /\ "gate_presented" \in Events /\ "gate_decision" \in Events
      /\ "rag_retrieval" \in Events /\ "run_complete" \in Events /\ 0 \in Nat
  BY DEF Events
<1>1. ASSUME NEW r \in Runs, Activate(r) PROVE RunTypes'
  <2>1. ledger[r] \in Seq(RunEntry)
    BY DEF FileTypes
  <2>2. LoadTail(ledger[r]) \in [seq : Nat, head : Nat]
    BY <2>1, RunTailType
  <2>3. FileTypes'
    BY <1>1, <2>2 DEF Activate, runFile, FileTypes
  <2>4. ThreadTypes'
    BY <1>1 DEF Activate, ThreadTypes
  <2>5. RequestTypes'
    BY <1>1 DEF Activate, RequestTypes
  <2> QED BY <1>1, <2>3, <2>4, <2>5 DEF Activate
<1>2. ASSUME NEW r \in Runs, Start(r) PROVE RunTypes'
  <2>1. FileTypes'
    BY <1>0, <1>2, RecordTypes DEF Start
  <2>2. ThreadTypes'
    BY <1>2 DEF Start, ThreadTypes
  <2>3. RequestTypes'
    BY <1>2 DEF Start, RequestTypes
  <2> QED BY <1>2, <2>1, <2>2, <2>3 DEF Start
<1>3. ASSUME NEW r \in Runs, PresentGate(r) PROVE RunTypes'
  <2>0. node[r] \in Nat \ {0} /\ pos[r] \in {1, 4}
    BY <1>3 DEF PresentGate, ThreadTypes
  <2>1. Record(r, "gate_presented", r, Script(node[r])[pos[r]].gate)
    BY <1>3 DEF PresentGate
  <2>2. Script(node[r])[pos[r]].gate \in Nat
    BY <2>0, GateNumber
  <2>3. FileTypes'
    BY <1>0, <1>3, <2>1, <2>2, RecordTypes DEF PresentGate
  <2>4. ThreadTypes'
    <3>1. UNCHANGED <<node, had, approvalEvent, cancelled>>
      BY <1>3 DEF PresentGate
    <3>2. CASE pos' = [pos EXCEPT ![r] = @ + 1] /\ UNCHANGED pc
      <4>1. pos[r] + 1 \in 0 .. 5 /\ pc[r] = "running"
        BY <1>3, <2>0 DEF PresentGate
      <4>2. pos' \in [Runs -> 0 .. 5]
        BY <3>2, <4>1 DEF ThreadTypes
      <4> QED BY <3>1, <3>2, <4>1, <4>2 DEF ThreadTypes
    <3>3. CASE pc' = [pc EXCEPT ![r] = "gate"] /\ UNCHANGED pos
      BY <2>0, <3>1, <3>3 DEF ThreadTypes
    <3> QED BY <1>3, <3>2, <3>3 DEF PresentGate
  <2>5. RequestTypes'
    BY <1>3 DEF PresentGate, RequestTypes
  <2> QED BY <1>3, <2>3, <2>4, <2>5 DEF PresentGate
<1>4. ASSUME NEW r \in Runs, Wake(r) PROVE RunTypes'
  <2>1. PICK verdict \in {"approve", "reject"} : had' = [had EXCEPT ![r] = Append(@, verdict)]
    BY <1>4 DEF Wake
  <2>2. Append(had[r], verdict) \in Seq({"approve", "reject"})
    BY DEF ThreadTypes
  <2>3. had' \in [Runs -> Seq({"approve", "reject"})]
    BY <2>1, <2>2 DEF ThreadTypes
  <2>4. ThreadTypes'
    BY <1>4, <2>3 DEF Wake, ThreadTypes
  <2>5. FileTypes' /\ RequestTypes'
    BY <1>4 DEF Wake, runFile, FileTypes, RequestTypes
  <2> QED BY <1>4, <2>4, <2>5 DEF Wake
<1>5. ASSUME NEW r \in Runs, DecideGate(r) PROVE RunTypes'
  <2>0. node[r] \in Nat \ {0} /\ pos[r] \in {2, 5}
    BY <1>5 DEF DecideGate, ThreadTypes
  <2>1. Record(r, "gate_decision", r, Script(node[r])[pos[r]].gate)
    BY <1>5 DEF DecideGate
  <2>2. Script(node[r])[pos[r]].gate \in Nat
    BY <2>0, GateNumber
  <2>3. FileTypes'
    BY <1>0, <1>5, <2>1, <2>2, RecordTypes DEF DecideGate
  <2>4. ThreadTypes'
    <3>1. UNCHANGED <<approvalEvent, cancelled>> /\ pc[r] = "running"
      BY <1>5 DEF DecideGate
    <3>2. CASE pc' = [pc EXCEPT ![r] = "ended"] /\ UNCHANGED <<node, pos, had>>
      BY <3>1, <3>2 DEF ThreadTypes
    <3>3. CASE UNCHANGED pc /\ pos' = [pos EXCEPT ![r] = 3] /\ UNCHANGED <<node, had>>
      BY <3>1, <3>3 DEF ThreadTypes
    <3>4. CASE UNCHANGED pc /\ node' = [node EXCEPT ![r] = @ + 1]
               /\ pos' = [pos EXCEPT ![r] = 1] /\ had' = [had EXCEPT ![r] = <<>>]
      <4>1. node' \in [Runs -> Nat \ {0}] /\ had' \in [Runs -> Seq({"approve", "reject"})]
        BY <2>0, <3>4 DEF ThreadTypes
      <4> QED BY <3>1, <3>4, <4>1 DEF ThreadTypes
    <3> QED BY <1>5, <3>2, <3>3, <3>4 DEF DecideGate
  <2>5. RequestTypes'
    BY <1>5 DEF DecideGate, RequestTypes
  <2> QED BY <1>5, <2>3, <2>4, <2>5 DEF DecideGate
<1>6. ASSUME NEW r \in Runs, Spawn(r) PROVE RunTypes'
  <2>1. FileTypes'
    BY <1>0, <1>6, RecordTypes DEF Spawn
  <2>2. ThreadTypes'
    BY <1>6 DEF Spawn, ThreadTypes
  <2>3. RequestTypes'
    BY <1>6 DEF Spawn, RequestTypes
  <2> QED BY <1>6, <2>1, <2>2, <2>3 DEF Spawn
<1>7. ASSUME NEW r \in Runs, Complete(r) PROVE RunTypes'
  <2>1. FileTypes'
    BY <1>0, <1>7, RecordTypes DEF Complete
  <2>2. VerifyFile(ledger'[r]) \in BOOLEAN /\ tail'[r].head \in Nat
    BY <2>1 DEF VerifyFile, FileTypes
  <2>3. audit' \in [Runs -> [valid : BOOLEAN, head : Nat]]
    BY <1>7, <2>2 DEF Complete
  <2>4. ThreadTypes'
    BY <1>7 DEF Complete, ThreadTypes
  <2>5. RequestTypes'
    BY <1>7 DEF Complete, RequestTypes
  <2> QED BY <1>7, <2>1, <2>3, <2>4, <2>5 DEF Complete
<1>8. ASSUME NEW r \in Runs, Cancel(r) PROVE RunTypes'
  BY <1>8 DEF Cancel, thread, runFile, FileTypes, ThreadTypes, RequestTypes
<1>9. ASSUME NEW q \in Requests, NEW r \in Runs, ApproveOpen(q, r) PROVE RunTypes'
  <2>1. ledger[r] \in Seq(RunEntry)
    BY DEF FileTypes
  <2>2. LoadTail(ledger[r]) \in [seq : Nat, head : Nat]
    BY <2>1, RunTailType
  <2>3. GateOf(r) \in Nat
    <3>1. node[r] \in Nat \ {0} /\ (pc[r] = "gate" => pos[r] \in {1, 4})
      BY DEF ThreadTypes
    <3>2. pc[r] = "gate" => pos[r] \in {1, 2, 4, 5}
      BY <3>1
    <3>3. pc[r] = "gate" => Script(node[r])[pos[r]].gate \in Nat
      BY <3>1, <3>2, GateNumber
    <3> QED BY <3>3 DEF GateOf
  <2>4. req' = [req EXCEPT ![q] = [run |-> r, gate |-> GateOf(r), seq |-> LoadTail(ledger[r]).seq,
                                   head |-> LoadTail(ledger[r]).head]]
    BY <1>9 DEF ApproveOpen
  <2>5. RequestTypes'
    BY <1>9, <2>2, <2>3, <2>4 DEF ApproveOpen, RequestTypes
  <2>6. FileTypes' /\ ThreadTypes'
    BY <1>9 DEF ApproveOpen, thread, runFile, FileTypes, ThreadTypes
  <2> QED BY <1>9, <2>5, <2>6 DEF ApproveOpen
<1>10. ASSUME NEW q \in Requests, ApproveSeal(q) \/ ApproveSealFails(q) PROVE RunTypes'
  <2>1. req[q].run \in Runs /\ (UNCHANGED runFile \/ \E b \in BOOLEAN : SealWrites(q, b))
    BY <1>10, SealAppends
  <2>2. tail' \in [Runs -> [seq : Nat, head : Nat]] /\ failed' \in [Runs -> Nat] /\ tail' = tail
    <3>1. tail' = tail /\ (failed' = failed \/ failed' = [failed EXCEPT ![req[q].run] = @ + 1])
      BY <1>10 DEF ApproveSeal, ApproveSealFails
    <3>2. failed' \in [Runs -> Nat]
      BY <3>1 DEF FileTypes
    <3> QED BY <3>1, <3>2 DEF FileTypes
  <2>3. FileTypes'
    <3>1. CASE UNCHANGED runFile
      BY <2>2, <3>1 DEF runFile, FileTypes
    <3>2. ASSUME NEW b \in BOOLEAN, SealWrites(q, b) PROVE FileTypes'
      <4>1. PICK e \in RunEntry :
              /\ e.event = "ui_decision"
              /\ ledger' = [ledger EXCEPT ![req[q].run] = WriteLine(ledger[req[q].run], newline[req[q].run], e)]
              /\ newline' = [newline EXCEPT ![req[q].run] = b]
              /\ entries' = [entries EXCEPT ![req[q].run] = @ + 1]
        BY <3>2 DEF SealWrites
      <4> QED BY <2>1, <2>2, <4>1, WriteTypes
    <3> QED BY <2>1, <3>1, <3>2
  <2>5. ThreadTypes'
    BY <1>10 DEF ApproveSeal, ApproveSealFails, thread, ThreadTypes
  <2>6. RequestTypes'
    BY <1>10, <2>1 DEF ApproveSeal, ApproveSealFails, RequestTypes
  <2> QED BY <1>10, <2>3, <2>5, <2>6 DEF ApproveSeal, ApproveSealFails
<1>11. ASSUME NEW q \in Requests, ApproveDecide(q) PROVE RunTypes'
  BY <1>11 DEF ApproveDecide, thread, runFile, GENESIS_HASH, FileTypes, ThreadTypes, RequestTypes
<1>12. ASSUME Retrieve PROVE RunTypes'
  <2>1. active \in Runs /\ Record(active, "rag_retrieval", NoRun, 0)
    BY <1>12 DEF Retrieve
  <2>2. FileTypes'
    BY <1>0, <1>12, <2>1, RecordTypes DEF Retrieve
  <2>3. ThreadTypes' /\ RequestTypes'
    BY <1>12 DEF Retrieve, thread, ThreadTypes, RequestTypes
  <2> QED BY <1>12, <2>2, <2>3 DEF Retrieve
<1>13. CASE UNCHANGED runVars
  BY <1>13 DEF runVars, thread, runFile, FileTypes, ThreadTypes, RequestTypes
<1> QED BY <1>1, <1>2, <1>3, <1>4, <1>5, <1>6, <1>7, <1>8, <1>9, <1>10, <1>11, <1>12, <1>13 DEF RunNext

-----------------------------------------------------------------------------
(* RunLedger: the chain of a run *)

\* What verify_file says of a line does not depend on the lines behind it.
LEMMA LinkedAppend ==
  ASSUME NEW L, NEW f \in Seq(L), NEW e \in L, NEW k \in 1 .. Len(f)
  PROVE  Linked(Append(f, e), k) <=> Linked(f, k)
<1>1. Append(f, e)[k] = f[k] /\ (k # 1 => Append(f, e)[k - 1] = f[k - 1])
  OBVIOUS
<1> QED BY <1>1 DEF Linked

\* An entry that is chained from the tail of a file links.
LEMMA LinkedLast ==
  ASSUME NEW L, NEW f \in Seq(L), NEW e \in L,
         Chained(e, [seq |-> Len(f), head |-> LastHash(f)])
  PROVE  Linked(Append(f, e), Len(f) + 1)
<1>1. Len(f) \in Nat /\ Append(f, e)[Len(f) + 1] = e /\ (Len(f) # 0 => Append(f, e)[Len(f)] = f[Len(f)])
  OBVIOUS
<1>2. e.parses /\ e.seq = Len(f) + 1 /\ e.prev = LastHash(f)
  BY DEF Chained
<1>3. LastHash(f) = IF Len(f) = 0 THEN GENESIS_HASH ELSE f[Len(f)].hash
  BY DEF LastHash
<1> QED BY <1>1, <1>2, <1>3 DEF Linked

\* entries_checked counts the lines before the first that does not link.
LEMMA CheckedPrefix ==
  ASSUME NEW L, NEW f \in Seq(L)
  PROVE  /\ Checked(f) \in 0 .. Len(f)
         /\ \A k \in 1 .. Checked(f) : Linked(f, k)
         /\ Checked(f) < Len(f) => ~Linked(f, Checked(f) + 1)
         /\ \A k \in 1 .. Len(f) : (\A j \in 1 .. k : Linked(f, j)) => k <= Checked(f)
<1> DEFINE S == {n \in 1 .. Len(f) : \A k \in 1 .. n : Linked(f, k)}
           c == Cardinality(S)
<1>0. Len(f) \in Nat
  OBVIOUS
<1>1. IsFiniteSet(1 .. Len(f)) /\ Cardinality(1 .. Len(f)) = Len(f)
  BY <1>0, FS_Interval
<1>2. S \in SUBSET (1 .. Len(f)) /\ \A n \in S : \A k \in 1 .. n : k \in S /\ Linked(f, k)
  BY <1>0
<1>3. \A n \in 1 .. Len(f) : (\A k \in 1 .. n : Linked(f, k)) => n \in S
  OBVIOUS
<1> HIDE DEF S
<1>4. IsFiniteSet(S) /\ c <= Len(f) /\ c \in Nat
  BY <1>1, <1>2, FS_Subset, FS_CardinalityType
<1> HIDE DEF c
<1>5. ASSUME NEW n \in S PROVE n <= c
  <2>1. n \in Nat /\ 1 .. n \in SUBSET S
    BY <1>0, <1>2, <1>5
  <2>2. Cardinality(1 .. n) <= c
    BY <1>4, <2>1, FS_Subset DEF c
  <2>3. Cardinality(1 .. n) = n
    <3>1. n >= 1
      BY <1>2, <1>5
    <3> QED BY <2>1, <3>1, FS_Interval
  <2> QED BY <2>2, <2>3
<1>6. S = 1 .. c
  <2>1. IsFiniteSet(1 .. c) /\ Cardinality(1 .. c) = c
    BY <1>4, FS_Interval
  <2>2. S \in SUBSET (1 .. c)
    BY <1>0, <1>2, <1>4, <1>5
  <2> QED BY <2>1, <2>2, FS_Subset DEF c
<1>7. \A k \in 1 .. c : Linked(f, k)
  <2> SUFFICES ASSUME NEW k \in 1 .. c PROVE Linked(f, k)
    OBVIOUS
  <2>1. k \in S /\ k \in 1 .. k
    BY <1>4, <1>6
  <2> QED BY <1>2, <2>1
<1>8. ASSUME c < Len(f), Linked(f, c + 1) PROVE FALSE
  <2>1. c + 1 \in 1 .. Len(f) /\ \A k \in 1 .. c + 1 : Linked(f, k)
    BY <1>0, <1>4, <1>7, <1>8
  <2>2. c + 1 \in S
    BY <1>3, <2>1
  <2> QED BY <1>4, <1>5, <2>2
<1>9. Checked(f) = c
  BY DEF Checked, c, S
<1> QED BY <1>0, <1>3, <1>4, <1>5, <1>7, <1>8, <1>9

\* What one step may do to the ledger of a run and to what its own object has cached.
RunStep(r) ==
  \/ ledger'[r] = ledger[r] /\ newline'[r] = newline[r] /\ tail'[r] \in {tail[r], LoadTail(ledger[r])}
  \/ \E e \in RunEntry :
       /\ ledger'[r] = WriteLine(ledger[r], newline[r], e)
       /\ \/ e.event = "ui_decision" /\ tail'[r] = tail[r]
          \/ Chained(e, tail[r]) /\ tail'[r] = [seq |-> e.seq, head |-> e.hash] /\ newline'[r]

\* Record appends to one run.
LEMMA RecordStep ==
  ASSUME FileTypes, NEW r \in Runs, NEW event \in Events, NEW of \in Runs \cup {NoRun},
         NEW g \in Nat, Record(r, event, of, g), NEW p \in Runs
  PROVE  RunStep(p)
<1>1. PICK e \in RunEntry :
           /\ Chained(e, tail[r])
           /\ ledger' = [ledger EXCEPT ![r] = WriteLine(ledger[r], newline[r], e)]
           /\ newline' = [newline EXCEPT ![r] = TRUE]
           /\ tail' = [tail EXCEPT ![r] = [seq |-> e.seq, head |-> e.hash]]
  BY RecordAppends
<1>2. CASE p = r
  BY <1>1, <1>2 DEF RunStep, FileTypes
<1>3. CASE p # r
  BY <1>1, <1>3 DEF RunStep, FileTypes
<1> QED BY <1>2, <1>3

\* Every step appends at most one entry, chained from the run's cached tail unless it
\* is the answer of a user.
LEMMA StepsAppend ==
  ASSUME RunTypes, [RunNext]_runVars, NEW p \in Runs
  PROVE  RunStep(p)
<1> USE DEF RunTypes
<1>0. /\ "work" \in Events /\ "gate_presented" \in Events /\ "gate_decision" \in Events
      /\ "rag_retrieval" \in Events /\ "run_complete" \in Events /\ 0 \in Nat
  BY DEF Events
<1>1. ASSUME NEW r \in Runs, Activate(r) PROVE RunStep(p)
  BY <1>1 DEF Activate, RunStep, runFile, FileTypes
<1>2. ASSUME NEW r \in Runs, Start(r) \/ Spawn(r) PROVE RunStep(p)
  <2>1. Record(r, "work", r, 0)
    BY <1>2 DEF Start, Spawn
  <2> QED BY <1>0, <2>1, RecordStep
<1>3. ASSUME NEW r \in Runs, PresentGate(r) PROVE RunStep(p)
  <2>1. node[r] \in Nat \ {0} /\ pos[r] \in {1, 4} /\ Record(r, "gate_presented", r, Script(node[r])[pos[r]].gate)
    BY <1>3 DEF PresentGate, ThreadTypes
  <2>2. Script(node[r])[pos[r]].gate \in Nat
    BY <2>1, GateNumber
  <2> QED BY <1>0, <2>1, <2>2, RecordStep
<1>4. ASSUME NEW r \in Runs, DecideGate(r) PROVE RunStep(p)
  <2>1. node[r] \in Nat \ {0} /\ pos[r] \in {2, 5} /\ Record(r, "gate_decision", r, Script(node[r])[pos[r]].gate)
    BY <1>4 DEF DecideGate, ThreadTypes
  <2>2. Script(node[r])[pos[r]].gate \in Nat
    BY <2>1, GateNumber
  <2> QED BY <1>0, <2>1, <2>2, RecordStep
<1>5. ASSUME NEW r \in Runs, Complete(r) PROVE RunStep(p)
  <2>1. Record(r, "run_complete", r, 0)
    BY <1>5 DEF Complete
  <2> QED BY <1>0, <2>1, RecordStep
<1>6. ASSUME Retrieve PROVE RunStep(p)
  <2>1. active \in Runs /\ Record(active, "rag_retrieval", NoRun, 0)
    BY <1>6 DEF Retrieve
  <2> QED BY <1>0, <2>1, RecordStep
<1>7. ASSUME NEW q \in Requests, ApproveSeal(q) \/ ApproveSealFails(q) PROVE RunStep(p)
  <2>1. req[q].run \in Runs /\ tail' = tail /\ (UNCHANGED runFile \/ \E b \in BOOLEAN : SealWrites(q, b))
    BY <1>7, SealAppends DEF ApproveSeal, ApproveSealFails
  <2>2. CASE UNCHANGED runFile
    BY <2>1, <2>2 DEF RunStep, runFile
  <2>3. ASSUME NEW b \in BOOLEAN, SealWrites(q, b) PROVE RunStep(p)
    <3>1. PICK e \in RunEntry :
            /\ e.event = "ui_decision"
            /\ ledger' = [ledger EXCEPT ![req[q].run] = WriteLine(ledger[req[q].run], newline[req[q].run], e)]
            /\ newline' = [newline EXCEPT ![req[q].run] = b]
      BY <2>3 DEF SealWrites
    <3>2. CASE p = req[q].run
      BY <2>1, <3>1, <3>2 DEF RunStep, FileTypes
    <3>3. CASE p # req[q].run
      BY <2>1, <3>1, <3>3 DEF RunStep, FileTypes
    <3> QED BY <3>2, <3>3
  <2> QED BY <2>1, <2>2, <2>3
<1>8. ASSUME UNCHANGED <<ledger, newline, tail>> PROVE RunStep(p)
  BY <1>8 DEF RunStep
<1>9. ASSUME NEW r \in Runs, Wake(r) \/ Cancel(r) PROVE UNCHANGED <<ledger, newline, tail>>
  BY <1>9 DEF Wake, Cancel, runFile
<1>10. ASSUME NEW q \in Requests, ApproveDecide(q) \/ \E r \in Runs : ApproveOpen(q, r)
       PROVE  UNCHANGED <<ledger, newline, tail>>
  BY <1>10 DEF ApproveDecide, ApproveOpen, runFile
<1>11. UNCHANGED runVars => UNCHANGED <<ledger, newline, tail>>
  BY DEF runVars, runFile
<1> QED BY <1>1, <1>2, <1>3, <1>4, <1>5, <1>6, <1>7, <1>8, <1>9, <1>10, <1>11 DEF RunNext

\* Lines that do not link, and a cache that is not the tail, are a user's answer or behind one.
RunChain ==
  \A r \in Runs :
    /\ \A k \in 1 .. Len(ledger[r]) :
         Linked(ledger[r], k) \/ \E j \in 1 .. k : ledger[r][j].event = "ui_decision"
    /\ \/ tail[r] = [seq |-> Len(ledger[r]), head |-> LastHash(ledger[r])]
       \/ \E j \in 1 .. Len(ledger[r]) : ledger[r][j].event = "ui_decision"

\* The head of an audit that calls its ledger valid is a line up to which all link, and
\* nothing can be written to its end.
HeadAt(r, k) ==
  /\ ledger[r][k].hash = audit[r].head /\ \A j \in 1 .. k : Linked(ledger[r], j)
  /\ newline[r] \/ k < Len(ledger[r])
AuditHead == \A r \in Runs : audit[r].valid => \E k \in 1 .. Len(ledger[r]) : HeadAt(r, k)

\* The requests that have sealed an answer and not passed it on.
SealedFor(r) == {q \in Requests : at[q] = "sealed" /\ req[q].run = r}

\* How many gates of its stage a run has passed where it stands.
GateShape(r) ==
  /\ Len(had[r]) <= 2
  /\ pos[r] = 0 => Len(had[r]) = 0
  /\ pos[r] \in {2, 3, 4} => Len(had[r]) >= 1
  /\ pos[r] = 5 => Len(had[r]) = 2
  /\ pc[r] = "gate" => Len(had[r]) = IF pos[r] = 1 THEN 0 ELSE 1

\* The sealed answers that the next write may still cost: what it is glued to, and itself.
AtStake(r) ==
  IF newline[r] THEN 0 ELSE IF ledger[r][Len(ledger[r])].parses THEN 2 ELSE 1

\* The answers that the ledger tells of whatever is written next.
Told(r) == SealedAnswers(r) - AtStake(r)

\* As long as nobody cancelled, every answer a run has had, is woken by or is to be woken by
\* was sealed, and it has decided no gate beyond its answers.
AnswersSealed(r) ==
  ~cancelled[r] =>
    /\ GatesWith(r, "gate_decision") \subseteq 1 .. Answers(r)
    /\ Answers(r) + (IF approvalEvent[r] THEN 1 ELSE 0) + Cardinality(SealedFor(r))
         <= Told(r) + 2 * failed[r]

Decided(r) == GateShape(r) /\ IsFiniteSet(SealedFor(r)) /\ AnswersSealed(r)

DecidersInv == \A r \in Runs : Decided(r)
\* The chain at the start.
LEMMA InitRunChain == RunInit => RunChain /\ AuditHead
BY DEF RunInit, RunChain, AuditHead, HeadAt, Tail0, NoAudit, LastHash

\* The chain of a run after a step.
LEMMA StepRunChain ==
  ASSUME FileTypes, FileTypes', RunChain, NEW r \in Runs, RunStep(r)
  PROVE  /\ \A k \in 1 .. Len(ledger'[r]) :
              Linked(ledger'[r], k) \/ \E j \in 1 .. k : ledger'[r][j].event = "ui_decision"
         /\ \/ tail'[r] = [seq |-> Len(ledger'[r]), head |-> LastHash(ledger'[r])]
            \/ \E j \in 1 .. Len(ledger'[r]) : ledger'[r][j].event = "ui_decision"
<1> DEFINE f == ledger[r]
           g == ledger'[r]
           Said(h, n) == \E j \in 1 .. n : h[j].event = "ui_decision"
<1>1. f \in Seq(RunEntry) /\ g \in Seq(RunEntry) /\ Len(f) \in Nat
  BY DEF FileTypes
<1>2. /\ \A k \in 1 .. Len(f) : Linked(f, k) \/ Said(f, k)
      /\ tail[r] = [seq |-> Len(f), head |-> LastHash(f)] \/ Said(f, Len(f))
  BY DEF RunChain
<1>3. CASE g = f /\ tail'[r] \in {tail[r], LoadTail(f)}
  <2>1. CASE Said(f, Len(f))
    BY <1>2, <1>3, <2>1
  <2>2. CASE ~Said(f, Len(f))
    <3>1. \A k \in 1 .. Len(f) : ~Said(f, k)
      BY <1>1, <2>2
    <3>2. VerifyFile(f)
      BY <1>2, <3>1 DEF VerifyFile
    <3>3. LoadTail(f).seq = Len(f) /\ LoadTail(f).head = LastHash(f)
      BY <1>1, <3>2, LoadTailOfIntact
    <3>4. LoadTail(f) \in [seq : Nat, head : Nat]
      BY <1>1, RunTailType
    <3>5. LoadTail(f) = [seq |-> Len(f), head |-> LastHash(f)]
      BY <3>3, <3>4
    <3> QED BY <1>2, <1>3, <2>2, <3>5
  <2> QED BY <2>1, <2>2
<1>5. ASSUME ~newline[r], f # <<>>, g = Glued(f)
      PROVE  /\ \A k \in 1 .. Len(g) : Linked(g, k) \/ Said(g, k)
             /\ Said(g, Len(g))
  <2>1. /\ Len(g) = Len(f) /\ \A k \in 1 .. Len(f) : g[k].event = f[k].event
        /\ \A k \in 1 .. Len(f) : k # Len(f) => g[k] = f[k]
    BY <1>1, <1>5, GluedFile
  <2>2. Len(f) \in 1 .. Len(f) /\ g[Len(f)].event = "ui_decision"
    <3>1. f[Len(f)].event = "ui_decision"
      BY <1>5 DEF FileTypes
    <3>2. Len(f) \in 1 .. Len(f)
      BY <1>1, <1>5
    <3> QED BY <2>1, <3>1, <3>2
  <2>3. ASSUME NEW k \in 1 .. Len(f), k # Len(f) PROVE Linked(g, k) \/ Said(g, k)
    <3>1. g[k] = f[k] /\ (k # 1 => g[k - 1] = f[k - 1]) /\ \A j \in 1 .. k : g[j].event = f[j].event
      BY <1>1, <2>1, <2>3
    <3>2. Linked(f, k) => Linked(g, k)
      BY <3>1 DEF Linked
    <3>3. Said(f, k) => Said(g, k)
      BY <3>1
    <3> QED BY <1>2, <3>2, <3>3
  <2>4. Said(g, Len(g))
    BY <2>1, <2>2
  <2> QED BY <2>1, <2>3, <2>4
<1>4. ASSUME NEW e \in RunEntry, g = Append(f, e),
             \/ e.event = "ui_decision" /\ tail'[r] = tail[r]
             \/ Chained(e, tail[r]) /\ tail'[r] = [seq |-> e.seq, head |-> e.hash]
      PROVE  /\ \A k \in 1 .. Len(g) : Linked(g, k) \/ Said(g, k)
             /\ tail'[r] = [seq |-> Len(g), head |-> LastHash(g)] \/ Said(g, Len(g))
  <2>1. Len(g) = Len(f) + 1 /\ g[Len(g)] = e /\ \A k \in 1 .. Len(f) : g[k] = f[k]
    BY <1>1, <1>4
  <2>2. ASSUME NEW k \in 1 .. Len(f) PROVE (Linked(f, k) => Linked(g, k)) /\ (Said(f, k) => Said(g, k))
    <3>1. Linked(f, k) => Linked(g, k)
      BY <1>1, <1>4, LinkedAppend
    <3>2. \A j \in 1 .. k : g[j] = f[j]
      BY <1>1, <2>1
    <3> QED BY <3>1, <3>2
  <2>3. \A k \in 1 .. Len(f) : Linked(g, k) \/ Said(g, k)
    BY <1>2, <2>2
  <2>4. CASE e.event = "ui_decision"
    <3>1. Said(g, Len(g))
      BY <1>1, <2>1, <2>4
    <3>2. \A k \in 1 .. Len(g) : k \in 1 .. Len(f) \/ k = Len(g)
      BY <1>1, <2>1
    <3> QED BY <2>3, <3>1, <3>2
  <2>5. CASE Said(f, Len(f))
    <3>1. Said(g, Len(g))
      BY <1>1, <2>1, <2>5
    <3>2. \A k \in 1 .. Len(g) : k \in 1 .. Len(f) \/ k = Len(g)
      BY <1>1, <2>1
    <3> QED BY <2>3, <3>1, <3>2
  <2>6. CASE ~Said(f, Len(f)) /\ e.event # "ui_decision"
    <3>1. tail[r] = [seq |-> Len(f), head |-> LastHash(f)] /\ Chained(e, tail[r])
          /\ tail'[r] = [seq |-> e.seq, head |-> e.hash]
      BY <1>2, <1>4, <2>6
    <3>2. Linked(g, Len(g))
      BY <1>1, <1>4, <2>1, <3>1, LinkedLast
    <3>3. tail'[r] = [seq |-> Len(g), head |-> LastHash(g)]
      <4>1. e.seq = Len(f) + 1
        BY <3>1 DEF Chained
      <4>2. g # <<>> /\ LastHash(g) = e.hash
        BY <1>1, <2>1 DEF LastHash
      <4> QED BY <2>1, <3>1, <4>1, <4>2
    <3>4. \A k \in 1 .. Len(g) : k \in 1 .. Len(f) \/ k = Len(g)
      BY <1>1, <2>1
    <3> QED BY <2>3, <3>2, <3>3, <3>4
  <2> QED BY <2>4, <2>5, <2>6
<1>6. ASSUME NEW e \in RunEntry PROVE LET h == WriteLine(f, newline[r], e)
                                     IN h = Append(f, e) \/ (~newline[r] /\ f # <<>> /\ h = Glued(f))
  BY RunWrites
<1>7. CASE g = f /\ tail'[r] \in {tail[r], LoadTail(f)}
  BY <1>3, <1>7
<1>8. ASSUME NEW e \in RunEntry, g = WriteLine(f, newline[r], e),
             \/ e.event = "ui_decision" /\ tail'[r] = tail[r]
             \/ Chained(e, tail[r]) /\ tail'[r] = [seq |-> e.seq, head |-> e.hash]
      PROVE  /\ \A k \in 1 .. Len(g) : Linked(g, k) \/ Said(g, k)
             /\ tail'[r] = [seq |-> Len(g), head |-> LastHash(g)] \/ Said(g, Len(g))
  <2>1. CASE g = Append(f, e)
    BY <1>4, <1>8, <2>1
  <2>2. CASE ~newline[r] /\ f # <<>> /\ g = Glued(f)
    BY <1>5, <2>2
  <2> QED BY <1>6, <1>8, <2>1, <2>2
<1> QED BY <1>7, <1>8 DEF RunStep

\* Every step keeps the chains.
LEMMA NextRunChain == RunTypes /\ RunTypes' /\ RunChain /\ [RunNext]_runVars => RunChain'
<1> SUFFICES ASSUME RunTypes, RunTypes', RunChain, [RunNext]_runVars PROVE RunChain'
  OBVIOUS
<1>1. FileTypes /\ FileTypes'
  BY DEF RunTypes
<1>2. \A r \in Runs : RunStep(r)
  BY StepsAppend
<1> QED BY <1>1, <1>2, StepRunChain DEF RunChain

\* Runs side by side and retrievals outside any run leave every chain whole: for any number
\* of runs, stages, requests and retrievals, only a user's answer breaks one.
THEOREM AnswersAloneBreak == RunSpec => []OnlyDecisionsBreak
<1>1. RunTypes /\ RunChain => OnlyDecisionsBreak
  <2> SUFFICES ASSUME RunTypes, RunChain, NEW r \in Runs, Checked(ledger[r]) < Len(ledger[r])
               PROVE  \E k \in 1 .. Checked(ledger[r]) + 1 : ledger[r][k].event = "ui_decision"
    BY DEF OnlyDecisionsBreak
  <2>1. ledger[r] \in Seq(RunEntry)
    BY DEF RunTypes, FileTypes
  <2>2. Checked(ledger[r]) \in 0 .. Len(ledger[r]) /\ ~Linked(ledger[r], Checked(ledger[r]) + 1)
    BY <2>1, CheckedPrefix
  <2>3. Checked(ledger[r]) + 1 \in 1 .. Len(ledger[r])
    BY <2>1, <2>2
  <2> QED BY <2>2, <2>3 DEF RunChain
<1> QED BY <1>1, InitRunTypes, NextRunTypes, InitRunChain, NextRunChain, PTL DEF RunSpec

-----------------------------------------------------------------------------
(* RunLedger: the audit *)

\* An entry written behind it does not touch what an audit says.
LEMMA StepAuditHead ==
  ASSUME FileTypes, FileTypes', AuditHead, NEW r \in Runs, RunStep(r),
         audit'[r] = audit[r]
  PROVE  audit'[r].valid => \E k \in 1 .. Len(ledger'[r]) : HeadAt(r, k)'
<1> SUFFICES ASSUME audit[r].valid
             PROVE  \E k \in 1 .. Len(ledger'[r]) : HeadAt(r, k)'
  OBVIOUS
<1>0. ledger[r] \in Seq(RunEntry) /\ newline[r] \in BOOLEAN /\ newline'[r] \in BOOLEAN
  BY DEF FileTypes
<1>1. PICK k \in 1 .. Len(ledger[r]) : HeadAt(r, k)
  BY DEF AuditHead
<1>2. CASE ledger'[r] = ledger[r] /\ newline'[r] = newline[r]
  BY <1>1, <1>2 DEF HeadAt
<1>3. ASSUME NEW e \in RunEntry, ledger'[r] = Append(ledger[r], e)
      PROVE  \E m \in 1 .. Len(ledger'[r]) : HeadAt(r, m)'
  <2>2. k \in 1 .. Len(ledger'[r]) /\ ledger'[r][k] = ledger[r][k] /\ k < Len(ledger'[r])
    BY <1>0, <1>3
  <2>3. \A j \in 1 .. k : j \in 1 .. Len(ledger[r])
    BY <1>0
  <2>4. \A j \in 1 .. k : Linked(ledger'[r], j)
    BY <1>0, <1>1, <1>3, <2>3, LinkedAppend DEF HeadAt
  <2> QED BY <1>1, <2>2, <2>4 DEF HeadAt
<1>4. CASE ~newline[r] /\ ledger[r] # <<>> /\ ledger'[r] = Glued(ledger[r])
  <2>1. /\ Len(ledger'[r]) = Len(ledger[r])
        /\ \A j \in 1 .. Len(ledger[r]) : j # Len(ledger[r]) => ledger'[r][j] = ledger[r][j]
    BY <1>0, <1>4, GluedFile
  <2>2. k < Len(ledger[r])
    BY <1>1, <1>4 DEF HeadAt
  <2>3. \A j \in 1 .. k : j \in 1 .. Len(ledger[r]) /\ j # Len(ledger[r])
    BY <1>0, <2>2
  <2>4. ASSUME NEW j \in 1 .. k PROVE Linked(ledger'[r], j)
    <3>1. Linked(ledger[r], j) /\ (j # 1 => j - 1 \in 1 .. k)
      BY <1>1, <2>4 DEF HeadAt
    <3>2. ledger'[r][j] = ledger[r][j] /\ (j # 1 => ledger'[r][j - 1] = ledger[r][j - 1])
      BY <2>1, <2>3, <3>1
    <3> QED BY <3>1, <3>2 DEF Linked
  <2>5. ledger'[r][k] = ledger[r][k] /\ k \in 1 .. Len(ledger'[r])
    BY <2>1, <2>2
  <2> QED BY <1>1, <2>1, <2>2, <2>4, <2>5 DEF HeadAt
<1>5. \A e \in RunEntry : ledger'[r] = WriteLine(ledger[r], newline[r], e) =>
        \/ ledger'[r] = Append(ledger[r], e)
        \/ ~newline[r] /\ ledger[r] # <<>> /\ ledger'[r] = Glued(ledger[r])
  BY RunWrites
<1> QED BY <1>2, <1>3, <1>4, <1>5 DEF RunStep

\* Every step keeps the audits right.
LEMMA NextAuditHead == RunTypes /\ RunTypes' /\ AuditHead /\ [RunNext]_runVars => AuditHead'
<1> SUFFICES ASSUME RunTypes, RunTypes', AuditHead, [RunNext]_runVars, NEW p \in Runs
             PROVE  audit'[p].valid => \E k \in 1 .. Len(ledger'[p]) : HeadAt(p, k)'
  BY DEF AuditHead
<1>0. FileTypes /\ FileTypes' /\ RunStep(p)
  BY StepsAppend DEF RunTypes
<1>1. CASE audit'[p] = audit[p]
  BY <1>0, <1>1, StepAuditHead
<1>2. ASSUME NEW r \in Runs, Complete(r), audit'[p] # audit[p], audit'[p].valid
      PROVE  \E k \in 1 .. Len(ledger'[p]) : HeadAt(p, k)'
  <2>1. p = r /\ audit'[p] = [valid |-> VerifyFile(ledger'[p]), head |-> tail'[p].head]
    BY <1>2 DEF Complete, RunTypes
  <2>2. VerifyFile(ledger'[p]) /\ audit'[p].head = tail'[p].head
    BY <1>2, <2>1
  <2>3. Record(p, "run_complete", p, 0) /\ "run_complete" \in Events
    BY <1>2, <2>1 DEF Complete, Events
  <2>4. PICK e \in RunEntry :
          /\ ledger' = [ledger EXCEPT ![p] = WriteLine(ledger[p], newline[p], e)]
          /\ newline' = [newline EXCEPT ![p] = TRUE]
          /\ tail' = [tail EXCEPT ![p] = [seq |-> e.seq, head |-> e.hash]]
    BY <1>0, <2>3, RecordAppends
  <2>5. /\ ledger[p] \in Seq(RunEntry) /\ ledger'[p] = WriteLine(ledger[p], newline[p], e)
        /\ tail'[p].head = e.hash /\ newline'[p]
    BY <1>0, <2>4 DEF FileTypes
  <2>7. \A j \in 1 .. Len(ledger'[p]) : Linked(ledger'[p], j)
    BY <2>2 DEF VerifyFile
  <2>8. ledger'[p] = Append(ledger[p], e)
    <3>1. SUFFICES ASSUME ledger[p] # <<>>, ledger'[p] = Glued(ledger[p]) PROVE FALSE
      BY <1>0, <2>5, RunWrites
    <3>2. ~ledger'[p][Len(ledger[p])].parses /\ Len(ledger'[p]) = Len(ledger[p]) /\ Len(ledger[p]) \in 1 .. Len(ledger[p])
      BY <2>5, <3>1, GluedFile
    <3> QED BY <2>7, <3>2 DEF Linked
  <2>6. Len(ledger'[p]) \in 1 .. Len(ledger'[p]) /\ ledger'[p][Len(ledger'[p])] = e
    BY <2>5, <2>8
  <2> QED BY <2>2, <2>5, <2>6, <2>7 DEF HeadAt
<1>3. (\E r \in Runs : Complete(r)) \/ audit' = audit
  BY DEF RunNext, runVars, Activate, Start, PresentGate, Wake, DecideGate, Spawn, Cancel,
         ApproveOpen, ApproveSeal, ApproveSealFails, ApproveDecide, Retrieve
<1> QED BY <1>1, <1>2, <1>3

\* An audit that calls its ledger valid is right about the chain up to the head it embeds,
\* whatever anybody appends afterwards.
THEOREM AuditsAreRight == RunSpec => []AuditIsRight
<1>1. RunTypes /\ AuditHead => AuditIsRight
  <2> SUFFICES ASSUME RunTypes, AuditHead, NEW r \in Runs, audit[r].valid
               PROVE  \E k \in 1 .. Checked(ledger[r]) : ledger[r][k].hash = audit[r].head
    BY DEF AuditIsRight
  <2>1. ledger[r] \in Seq(RunEntry)
    BY DEF RunTypes, FileTypes
  <2>2. PICK k \in 1 .. Len(ledger[r]) :
          ledger[r][k].hash = audit[r].head /\ \A j \in 1 .. k : Linked(ledger[r], j)
    BY DEF AuditHead, HeadAt
  <2>3. k <= Checked(ledger[r]) /\ Checked(ledger[r]) \in Nat
    BY <2>1, <2>2, CheckedPrefix
  <2> QED BY <2>2, <2>3
<1> QED BY <1>1, InitRunTypes, NextRunTypes, InitRunChain, NextAuditHead, PTL DEF RunSpec

-----------------------------------------------------------------------------
(* RunLedger: who decided *)

\* The lines of a file with the sealed answers.
AnswerLines(f) == {k \in 1 .. Len(f) : f[k].event = "ui_decision" /\ f[k].parses}

\* There are finitely many of them.
LEMMA AnswerLinesFinite ==
  ASSUME NEW f \in Seq(RunEntry)
  PROVE  IsFiniteSet(AnswerLines(f)) /\ Cardinality(AnswerLines(f)) \in Nat
<1>1. Len(f) \in Nat /\ AnswerLines(f) \in SUBSET (1 .. Len(f))
  BY DEF AnswerLines
<1>2. IsFiniteSet(1 .. Len(f))
  BY <1>1, FS_Interval
<1> QED BY <1>1, <1>2, FS_Subset, FS_CardinalityType

\* A line of its own tells of an answer if it is one.
LEMMA AnswerAppended ==
  ASSUME NEW f \in Seq(RunEntry), NEW e \in RunEntry
  PROVE  Cardinality(AnswerLines(Append(f, e)))
           = Cardinality(AnswerLines(f)) + IF e.event = "ui_decision" /\ e.parses THEN 1 ELSE 0
<1> DEFINE g == Append(f, e)
           S == AnswerLines(f)
           T == AnswerLines(g)
<1>1. Len(f) \in Nat /\ Len(g) = Len(f) + 1 /\ g[Len(g)] = e /\ \A k \in 1 .. Len(f) : g[k] = f[k]
  OBVIOUS
<1>2. IsFiniteSet(S) /\ Cardinality(S) \in Nat
  BY AnswerLinesFinite
<1>3. T = S \cup IF e.event = "ui_decision" /\ e.parses THEN {Len(g)} ELSE {}
  BY <1>1 DEF AnswerLines
<1>4. Len(g) \notin S
  BY <1>1 DEF AnswerLines
<1> HIDE DEF S, T, g
<1>5. Cardinality(S \cup {Len(g)}) = Cardinality(S) + 1
  BY <1>2, <1>4, FS_AddElement
<1>6. CASE e.event = "ui_decision" /\ e.parses
  BY <1>3, <1>5, <1>6 DEF S, T, g
<1>7. CASE ~(e.event = "ui_decision" /\ e.parses)
  <2>1. T = S
    BY <1>3, <1>7
  <2> QED BY <1>2, <1>7, <2>1 DEF S, T, g
<1> QED BY <1>6, <1>7

\* What is glued to an answer takes it away.
LEMMA AnswerGlued ==
  ASSUME NEW f \in Seq(RunEntry), f # <<>>, f[Len(f)].event = "ui_decision"
  PROVE  Cardinality(AnswerLines(Glued(f)))
           = Cardinality(AnswerLines(f)) - IF f[Len(f)].parses THEN 1 ELSE 0
<1> DEFINE S == AnswerLines(f)
           T == AnswerLines(Glued(f))
<1>1. /\ Len(f) \in 1 .. Len(f) /\ Len(Glued(f)) = Len(f) /\ ~Glued(f)[Len(f)].parses
      /\ \A k \in 1 .. Len(f) : k # Len(f) => Glued(f)[k] = f[k]
  BY GluedFile
<1>2. T = S \ {Len(f)}
  BY <1>1 DEF AnswerLines
<1>3. Len(f) \in S <=> f[Len(f)].parses
  BY <1>1 DEF AnswerLines
<1>4. IsFiniteSet(S) /\ Cardinality(S) \in Nat
  BY AnswerLinesFinite
<1> HIDE DEF S, T
<1>5. CASE f[Len(f)].parses
  <2>1. Cardinality(S \ {Len(f)}) = Cardinality(S) - 1
    BY <1>3, <1>4, <1>5, FS_RemoveElement
  <2> QED BY <1>2, <1>5, <2>1 DEF S, T
<1>6. CASE ~f[Len(f)].parses
  <2>1. T = S
    BY <1>2, <1>3, <1>6
  <2> QED BY <1>4, <1>6, <2>1 DEF S, T
<1> QED BY <1>5, <1>6

\* What a written line does to what the ledger tells: a line with its newline takes nothing
\* away, and adds the answer that it is; one without takes at most one answer away.
LEMMA WriteTells ==
  ASSUME FileTypes, FileTypes', NEW r \in Runs, NEW e \in RunEntry,
         ledger'[r] = WriteLine(ledger[r], newline[r], e)
  PROVE  /\ Told(r) \in Int /\ Told(r)' \in Int
         /\ newline'[r] => Told(r)' >= Told(r) + IF e.event = "ui_decision" /\ e.parses THEN 1 ELSE 0
         /\ ~newline'[r] /\ e.event = "ui_decision" => Told(r)' >= Told(r) - 1
         /\ GatesWith(r, "gate_decision")' \subseteq
              GatesWith(r, "gate_decision") \cup IF e.event = "gate_decision" THEN {e.gate} ELSE {}
<1> DEFINE f == ledger[r]
           g == ledger'[r]
           n == Cardinality(AnswerLines(f))
           m == Cardinality(AnswerLines(g))
<1>1. f \in Seq(RunEntry) /\ g \in Seq(RunEntry) /\ newline[r] \in BOOLEAN /\ newline'[r] \in BOOLEAN
      /\ (~newline[r] => f # <<>> /\ f[Len(f)].event = "ui_decision")
  BY DEF FileTypes
<1>2. (newline[r] /\ g = Append(f, e)) \/ (~newline[r] /\ f # <<>> /\ g = Glued(f))
  BY <1>1, RunWrites
<1>3. n \in Nat /\ m \in Nat
  BY <1>1, AnswerLinesFinite
<1>4. SealedAnswers(r) = n /\ SealedAnswers(r)' = m
  BY DEF SealedAnswers, AnswerLines
<1>5. CASE newline[r] /\ g = Append(f, e)
  <2>1. Len(g) = Len(f) + 1 /\ g[Len(g)] = e /\ Len(f) \in Nat /\ \A k \in 1 .. Len(f) : g[k] = f[k]
    <3>1. f \in Seq(RunEntry) /\ g = Append(f, e)
      BY <1>1, <1>5
    <3> HIDE DEF f, g
    <3> QED BY <3>1
  <2>2. m = n + IF e.event = "ui_decision" /\ e.parses THEN 1 ELSE 0
    BY <1>1, <1>5, AnswerAppended
  <2>3. AtStake(r) = 0 /\ AtStake(r)' = IF newline'[r] THEN 0 ELSE IF e.parses THEN 2 ELSE 1
    BY <1>5, <2>1 DEF AtStake
  <2>4. GatesWith(r, "gate_decision")' \subseteq
          GatesWith(r, "gate_decision") \cup IF e.event = "gate_decision" THEN {e.gate} ELSE {}
    BY <2>1 DEF GatesWith
  <2> HIDE DEF n, m, g, f
  <2> QED BY <1>1, <1>3, <1>4, <2>2, <2>3, <2>4 DEF Told
<1>6. CASE ~newline[r] /\ f # <<>> /\ g = Glued(f)
  <2>1. /\ Len(g) = Len(f) /\ ~g[Len(g)].parses
        /\ \A k \in 1 .. Len(f) : g[k].event = f[k].event /\ g[k].gate = f[k].gate
    BY <1>1, <1>6, GluedFile
  <2>2. m = n - IF f[Len(f)].parses THEN 1 ELSE 0
    BY <1>1, <1>6, AnswerGlued
  <2>3. /\ AtStake(r) = IF f[Len(f)].parses THEN 2 ELSE 1
        /\ AtStake(r)' = IF newline'[r] THEN 0 ELSE 1
    BY <1>6, <2>1 DEF AtStake
  <2>4. GatesWith(r, "gate_decision")' = GatesWith(r, "gate_decision")
    BY <2>1 DEF GatesWith
  <2> HIDE DEF n, m, g, f
  <2> QED BY <1>1, <1>3, <1>4, <2>2, <2>3, <2>4 DEF Told
<1> QED BY <1>2, <1>5, <1>6

\* The numbers that AnswersSealed compares.
LEMMA CountTypes ==
  ASSUME FileTypes, ThreadTypes, NEW r \in Runs, IsFiniteSet(SealedFor(r))
  PROVE  /\ Answers(r) \in Nat /\ Cardinality(SealedFor(r)) \in Nat
         /\ SealedAnswers(r) \in Nat /\ AtStake(r) \in 0 .. 2 /\ Told(r) \in Int
         /\ failed[r] \in Nat
<1>1. node[r] - 1 \in Nat /\ Len(had[r]) \in Nat /\ failed[r] \in Nat
  BY DEF ThreadTypes, FileTypes
<1>2. ledger[r] \in Seq(RunEntry)
  BY DEF FileTypes
<1>3. SealedAnswers(r) \in Nat
  BY <1>2, AnswerLinesFinite DEF SealedAnswers, AnswerLines
<1>4. AtStake(r) \in 0 .. 2
  BY DEF AtStake
<1> QED BY <1>1, <1>3, <1>4, FS_CardinalityType DEF Answers, Told

\* A step that passes no answer on keeps the comparison.
LEMMA OthersKeepDecided ==
  ASSUME RunTypes, RunTypes', NEW p \in Runs, Decided(p), GateShape(p)',
         SealedFor(p)' = SealedFor(p), Answers(p)' = Answers(p),
         approvalEvent'[p] = approvalEvent[p], cancelled'[p] = cancelled[p],
         failed'[p] = failed[p],
         \/ ledger'[p] = ledger[p] /\ newline'[p] = newline[p]
         \/ \E e \in RunEntry :
              /\ ledger'[p] = WriteLine(ledger[p], newline[p], e) /\ newline'[p]
              /\ e.event = "gate_decision" => e.gate \in 1 .. Answers(p)
  PROVE  Decided(p)'
<1>1. FileTypes /\ FileTypes' /\ ThreadTypes /\ IsFiniteSet(SealedFor(p))
  BY DEF RunTypes, Decided
<1>2. CASE ledger'[p] = ledger[p] /\ newline'[p] = newline[p]
  <2>1. Told(p)' = Told(p)
    BY <1>2 DEF Told, SealedAnswers, AtStake
  <2>2. GatesWith(p, "gate_decision")' = GatesWith(p, "gate_decision")
    BY <1>2 DEF GatesWith
  <2> QED BY <2>1, <2>2 DEF Decided, AnswersSealed
<1>3. ASSUME NEW e \in RunEntry,
             /\ ledger'[p] = WriteLine(ledger[p], newline[p], e) /\ newline'[p]
             /\ e.event = "gate_decision" => e.gate \in 1 .. Answers(p)
      PROVE  Decided(p)'
  <2>1. Told(p) \in Int /\ Told(p)' \in Int /\ Told(p)' >= Told(p)
    BY <1>1, <1>3, WriteTells
  <2>2. GatesWith(p, "gate_decision")' \subseteq
          GatesWith(p, "gate_decision") \cup IF e.event = "gate_decision" THEN {e.gate} ELSE {}
    BY <1>1, <1>3, WriteTells
  <2>3. GatesWith(p, "gate_decision") \subseteq 1 .. Answers(p)
          => GatesWith(p, "gate_decision")' \subseteq 1 .. Answers(p)
    BY <1>3, <2>2
  <2>4. Answers(p) \in Nat /\ Cardinality(SealedFor(p)) \in Nat /\ failed[p] \in Nat
    BY <1>1, CountTypes
  <2>5. AnswersSealed(p)'
    BY <2>1, <2>3, <2>4 DEF Decided, AnswersSealed
  <2> QED BY <1>1, <2>5 DEF Decided
<1> QED BY <1>2, <1>3

\* A step that leaves a run alone.
LEMMA FrameDecided ==
  ASSUME RunTypes, RunTypes', NEW p \in Runs, Decided(p),
         ledger'[p] = ledger[p], newline'[p] = newline[p], failed'[p] = failed[p], pc'[p] = pc[p], node'[p] = node[p], pos'[p] = pos[p],
         had'[p] = had[p], approvalEvent'[p] = approvalEvent[p], cancelled'[p] = cancelled[p],
         SealedFor(p)' = SealedFor(p)
  PROVE  Decided(p)'
<1>1. Answers(p)' = Answers(p) /\ GateShape(p)'
  BY DEF Answers, GateShape, Decided
<1> QED BY <1>1, OthersKeepDecided

\* At the start nothing was answered.
LEMMA InitDecidersInv == RunInit => DecidersInv
<1> SUFFICES ASSUME RunInit, NEW r \in Runs PROVE Decided(r)
  BY DEF DecidersInv
<1>1. /\ ledger[r] = <<>> /\ newline[r] /\ failed[r] = 0 /\ pc[r] = "new" /\ node[r] = 1 /\ pos[r] = 0 /\ had[r] = <<>>
      /\ approvalEvent[r] = FALSE /\ \A q \in Requests : at[q] = "idle"
  BY DEF RunInit
<1>2. SealedFor(r) = {} /\ IsFiniteSet({}) /\ Cardinality({}) = 0
  BY <1>1, FS_EmptySet DEF SealedFor
<1>3. Told(r) = 0 /\ GatesWith(r, "gate_decision") = {}
  <2>1. {k \in 1 .. Len(ledger[r]) : ledger[r][k].event = "ui_decision" /\ ledger[r][k].parses} = {}
    BY <1>1
  <2>2. {k \in 1 .. Len(ledger[r]) : ledger[r][k].event = "gate_decision"} = {}
    BY <1>1
  <2>3. AtStake(r) = 0
    BY <1>1 DEF AtStake
  <2>4. SealedAnswers(r) = 0
    BY <1>2, <2>1 DEF SealedAnswers
  <2> QED BY <2>2, <2>3, <2>4 DEF Told, GatesWith
<1>4. Answers(r) = 0
  BY <1>1 DEF Answers
<1> QED BY <1>1, <1>2, <1>3, <1>4 DEF Decided, GateShape, AnswersSealed

\* Every step keeps decisions within the answers that were sealed.
LEMMA NextDecidersInv == RunTypes /\ RunTypes' /\ DecidersInv /\ [RunNext]_runVars => DecidersInv'
<1> SUFFICES ASSUME RunTypes, RunTypes', DecidersInv, [RunNext]_runVars, NEW p \in Runs
             PROVE  Decided(p)'
  BY DEF DecidersInv
<1>0. /\ Decided(p) /\ FileTypes /\ FileTypes' /\ ThreadTypes /\ RequestTypes /\ ThreadTypes'
      /\ "work" \in Events /\ "gate_presented" \in Events /\ "gate_decision" \in Events
      /\ "rag_retrieval" \in Events /\ "run_complete" \in Events /\ 0 \in Nat
  BY DEF DecidersInv, RunTypes, Events
<1>s. at' = at /\ req' = req => SealedFor(p)' = SealedFor(p)
  BY DEF SealedFor
<1>w. ASSUME NEW r \in Runs, NEW event \in Events, NEW of \in Runs \cup {NoRun}, NEW g \in Nat,
             Record(r, event, of, g),
             event = "gate_decision" /\ p = r => g \in 1 .. Answers(p)
      PROVE  \/ ledger'[p] = ledger[p] /\ newline'[p] = newline[p]
             \/ \E e \in RunEntry :
                  /\ ledger'[p] = WriteLine(ledger[p], newline[p], e) /\ newline'[p]
                  /\ e.event = "gate_decision" => e.gate \in 1 .. Answers(p)
  <2>1. PICK e \in RunEntry :
          /\ e.event = event /\ e.gate = g
          /\ ledger' = [ledger EXCEPT ![r] = WriteLine(ledger[r], newline[r], e)]
          /\ newline' = [newline EXCEPT ![r] = TRUE]
    BY <1>0, <1>w, RecordAppends
  <2>2. CASE p = r
    BY <1>0, <1>w, <2>1, <2>2 DEF FileTypes
  <2>3. CASE p # r
    BY <1>0, <2>1, <2>3 DEF FileTypes
  <2> QED BY <2>2, <2>3
<1>1. ASSUME NEW r \in Runs, Activate(r) PROVE Decided(p)'
  <2>1. SealedFor(p)' = SealedFor(p) /\ ledger' = ledger /\ newline' = newline
       /\ UNCHANGED <<node, pos, had, approvalEvent, cancelled, failed>>
    BY <1>1, <1>s DEF Activate, runFile
  <2>2. pc' = [pc EXCEPT ![r] = "running"]
    BY <1>1 DEF Activate
  <2>3. GateShape(p)'
    BY <1>0, <2>1, <2>2 DEF GateShape, Decided, ThreadTypes
  <2>4. Answers(p)' = Answers(p)
    BY <2>1 DEF Answers
  <2> QED BY <1>0, <2>1, <2>3, <2>4, OthersKeepDecided
<1>2. ASSUME NEW r \in Runs, Start(r) PROVE Decided(p)'
  <2>1. /\ Record(r, "work", r, 0) /\ pos[r] = 0 /\ pos' = [pos EXCEPT ![r] = 1]
        /\ UNCHANGED <<pc, node, had, approvalEvent, cancelled, at, req, failed>> /\ pc[r] = "running"
    BY <1>2 DEF Start
  <2>2. GateShape(p)'
    BY <1>0, <2>1 DEF GateShape, Decided, ThreadTypes
  <2>3. Answers(p)' = Answers(p)
    BY <2>1 DEF Answers
  <2> QED BY <1>0, <1>s, <1>w, <2>1, <2>2, <2>3, OthersKeepDecided
<1>3. ASSUME NEW r \in Runs, PresentGate(r) PROVE Decided(p)'
  <2>0. node[r] \in Nat \ {0} /\ pos[r] \in {1, 4} /\ pc[r] = "running"
    BY <1>0, <1>3 DEF PresentGate, ThreadTypes
  <2>1. /\ Record(r, "gate_presented", r, Script(node[r])[pos[r]].gate)
        /\ UNCHANGED <<node, had, approvalEvent, cancelled, at, req, failed>>
    BY <1>3 DEF PresentGate
  <2>2. Script(node[r])[pos[r]].gate \in Nat
    BY <2>0, GateNumber
  <2>3. Answers(p)' = Answers(p)
    BY <2>1 DEF Answers
  <2>4. GateShape(p)'
    <3>1. CASE p # r
      <4>1. pc'[p] = pc[p] /\ pos'[p] = pos[p]
        BY <1>0, <1>3, <3>1 DEF PresentGate, ThreadTypes
      <4> QED BY <1>0, <2>1, <4>1 DEF GateShape, Decided
    <3>2. CASE p = r /\ Len(had[r]) >= (IF pos[r] = 1 THEN 1 ELSE 2)
      <4>1. pos'[p] = pos[p] + 1 /\ pc'[p] = "running"
        BY <1>0, <1>3, <2>0, <3>2 DEF PresentGate, ThreadTypes
      <4>2. Len(had[r]) \in Nat
        BY <1>0 DEF ThreadTypes
      <4>3. Len(had[p]) <= 2 /\ Len(had'[p]) = Len(had[p])
        BY <1>0, <2>1 DEF GateShape, Decided
      <4>4. CASE pos[p] = 1
        BY <3>2, <4>1, <4>2, <4>3, <4>4 DEF GateShape
      <4>5. CASE pos[p] = 4
        <5>0. Len(had[p]) >= 2 /\ Len(had[p]) \in Nat
          BY <3>2, <4>2, <4>5
        <5>1. Len(had'[p]) = 2
          <6>1. \A n \in Nat : n >= 2 /\ n <= 2 => n = 2
            OBVIOUS
          <6>2. Len(had[p]) = 2
            BY <4>3, <5>0, <6>1
          <6> QED BY <4>3, <6>2
        <5>2. pos'[p] = 5
          BY <4>1, <4>5
        <5> QED BY <4>1, <5>1, <5>2 DEF GateShape
      <4> QED BY <2>0, <3>2, <4>4, <4>5
    <3>3. CASE p = r /\ ~(Len(had[r]) >= (IF pos[r] = 1 THEN 1 ELSE 2))
      <4>1. pos'[p] = pos[p] /\ pc'[p] = "gate"
        BY <1>0, <1>3, <2>0, <3>3 DEF PresentGate, ThreadTypes
      <4>2. Len(had[r]) \in Nat
        BY <1>0 DEF ThreadTypes
      <4> QED BY <1>0, <2>0, <2>1, <3>3, <4>1, <4>2 DEF GateShape, Decided
    <3> QED BY <3>1, <3>2, <3>3
  <2> QED BY <1>0, <1>s, <1>w, <2>1, <2>2, <2>3, <2>4, OthersKeepDecided
<1>4. ASSUME NEW r \in Runs, DecideGate(r) PROVE Decided(p)'
  <2>0. node[r] \in Nat \ {0} /\ pos[r] \in {2, 5} /\ pc[r] = "running" /\ Len(had[r]) \in Nat
    BY <1>0, <1>4 DEF DecideGate, ThreadTypes
  <2>1. /\ Record(r, "gate_decision", r, Script(node[r])[pos[r]].gate)
        /\ UNCHANGED <<approvalEvent, cancelled, at, req, failed>>
    BY <1>4 DEF DecideGate
  <2>2. Script(node[r])[pos[r]].gate \in Nat
    BY <2>0, GateNumber
  <2>3. Script(node[r])[pos[r]].gate \in 1 .. Answers(r)
    <3>1. CASE pos[r] = 2
      <4>1. Decided(r) /\ Script(node[r])[2].gate = 2 * node[r] - 1
        BY <2>0, ScriptGates DEF DecidersInv
      <4>2. Len(had[r]) >= 1
        BY <3>1, <4>1 DEF Decided, GateShape
      <4> QED BY <2>0, <3>1, <4>1, <4>2 DEF Answers
    <3>2. CASE pos[r] = 5
      <4>1. Decided(r) /\ Script(node[r])[5].gate = 2 * node[r]
        BY <2>0, ScriptGates DEF DecidersInv
      <4>2. Len(had[r]) = 2
        BY <3>2, <4>1 DEF Decided, GateShape
      <4> QED BY <2>0, <3>2, <4>1, <4>2 DEF Answers
    <3> QED BY <2>0, <3>1, <3>2
  <2>4. GateShape(p)' /\ Answers(p)' = Answers(p)
    <3>1. CASE p # r
      <4>1. pc'[p] = pc[p] /\ pos'[p] = pos[p] /\ node'[p] = node[p] /\ had'[p] = had[p]
        BY <1>0, <1>4, <3>1 DEF DecideGate, ThreadTypes
      <4> QED BY <1>0, <4>1 DEF GateShape, Decided, Answers
    <3>2. CASE pc' = [pc EXCEPT ![r] = "ended"] /\ UNCHANGED <<node, pos, had>>
      BY <1>0, <3>2 DEF GateShape, Decided, Answers, ThreadTypes
    <3>3. CASE p = r /\ pos[r] = 2 /\ UNCHANGED pc /\ pos' = [pos EXCEPT ![r] = 3] /\ UNCHANGED <<node, had>>
      BY <1>0, <2>0, <3>3 DEF GateShape, Decided, Answers, ThreadTypes
    <3>4. CASE p = r /\ pos[r] = 5 /\ UNCHANGED pc /\ node' = [node EXCEPT ![r] = @ + 1]
               /\ pos' = [pos EXCEPT ![r] = 1] /\ had' = [had EXCEPT ![r] = <<>>]
      <4>1. Len(had[p]) = 2 /\ had'[p] = <<>> /\ node'[p] = node[p] + 1 /\ pos'[p] = 1 /\ pc'[p] = "running"
        BY <1>0, <2>0, <3>4 DEF GateShape, Decided, ThreadTypes
      <4> QED BY <2>0, <3>4, <4>1 DEF GateShape, Answers
    <3> QED BY <1>4, <2>0, <3>1, <3>2, <3>3, <3>4 DEF DecideGate
  <2> QED BY <1>0, <1>s, <1>w, <2>1, <2>2, <2>3, <2>4, OthersKeepDecided
<1>5. ASSUME NEW r \in Runs, Wake(r) PROVE Decided(p)'
  <2>1. /\ pc[r] = "gate" /\ approvalEvent[r] /\ approvalEvent' = [approvalEvent EXCEPT ![r] = FALSE]
        /\ pc' = [pc EXCEPT ![r] = "running"] /\ pos' = [pos EXCEPT ![r] = 1]
        /\ UNCHANGED <<ledger, newline, node, cancelled, at, req, failed>>
    BY <1>5 DEF Wake, runFile
  <2>2. PICK verdict \in {"approve", "reject"} : had' = [had EXCEPT ![r] = Append(@, verdict)]
    BY <1>5 DEF Wake
  <2>3. CASE p # r
    <3>1. /\ pc'[p] = pc[p] /\ pos'[p] = pos[p] /\ had'[p] = had[p]
          /\ approvalEvent'[p] = approvalEvent[p]
      BY <1>0, <2>1, <2>2, <2>3 DEF ThreadTypes
    <3> QED BY <1>0, <1>s, <2>1, <3>1, FrameDecided
  <2>4. CASE p = r
    <3>1. /\ had[p] \in Seq({"approve", "reject"}) /\ had'[p] = Append(had[p], verdict)
          /\ pc'[p] = "running" /\ pos'[p] = 1 /\ approvalEvent'[p] = FALSE /\ approvalEvent[p]
      BY <1>0, <2>1, <2>2, <2>4 DEF ThreadTypes
    <3>2. Len(had'[p]) = Len(had[p]) + 1 /\ Len(had[p]) \in Nat /\ Len(had[p]) <= 1
      BY <1>0, <2>1, <2>4, <3>1 DEF Decided, GateShape
    <3>3. GateShape(p)'
      BY <3>1, <3>2 DEF GateShape
    <3>4. Answers(p)' = Answers(p) + 1
      BY <1>0, <2>1, <3>2 DEF Answers, ThreadTypes
    <3>5. /\ SealedFor(p)' = SealedFor(p) /\ Told(p)' = Told(p) /\ failed'[p] = failed[p]
          /\ GatesWith(p, "gate_decision")' = GatesWith(p, "gate_decision") /\ cancelled'[p] = cancelled[p]
      BY <1>s, <2>1 DEF Told, SealedAnswers, AtStake, GatesWith
    <3>6. Answers(p) \in Nat /\ Cardinality(SealedFor(p)) \in Nat /\ Told(p) \in Int /\ failed[p] \in Nat
      BY <1>0, CountTypes DEF Decided
    <3>7. AnswersSealed(p)'
      BY <1>0, <3>1, <3>4, <3>5, <3>6 DEF Decided, AnswersSealed
    <3> QED BY <1>0, <3>3, <3>5, <3>7 DEF Decided
  <2> QED BY <2>3, <2>4
<1>6. ASSUME NEW r \in Runs, Spawn(r) PROVE Decided(p)'
  <2>1. /\ Record(r, "work", r, 0) /\ pos[r] = 3 /\ pos' = [pos EXCEPT ![r] = 4]
        /\ UNCHANGED <<pc, node, had, approvalEvent, cancelled, at, req, failed>> /\ pc[r] = "running"
    BY <1>6 DEF Spawn
  <2>2. GateShape(p)'
    BY <1>0, <2>1 DEF GateShape, Decided, ThreadTypes
  <2>3. Answers(p)' = Answers(p)
    BY <2>1 DEF Answers
  <2> QED BY <1>0, <1>s, <1>w, <2>1, <2>2, <2>3, OthersKeepDecided
<1>7. ASSUME NEW r \in Runs, Complete(r) PROVE Decided(p)'
  <2>1. /\ Record(r, "run_complete", r, 0) /\ pc' = [pc EXCEPT ![r] = "ended"]
        /\ UNCHANGED <<pos, node, had, approvalEvent, cancelled, at, req, failed>>
    BY <1>7 DEF Complete
  <2>2. GateShape(p)'
    BY <1>0, <2>1 DEF GateShape, Decided, ThreadTypes
  <2>3. Answers(p)' = Answers(p)
    BY <2>1 DEF Answers
  <2> QED BY <1>0, <1>s, <1>w, <2>1, <2>2, <2>3, OthersKeepDecided
<1>8. ASSUME NEW r \in Runs, Cancel(r) PROVE Decided(p)'
  <2>1. /\ cancelled' = [cancelled EXCEPT ![r] = TRUE] /\ approvalEvent' = [approvalEvent EXCEPT ![r] = TRUE]
        /\ UNCHANGED <<ledger, newline, failed, pc, node, pos, had, at, req>>
    BY <1>8 DEF Cancel, thread, runFile
  <2>2. CASE p # r
    <3>1. cancelled'[p] = cancelled[p] /\ approvalEvent'[p] = approvalEvent[p]
      BY <1>0, <2>1, <2>2 DEF ThreadTypes
    <3> QED BY <1>0, <1>s, <2>1, <3>1, FrameDecided
  <2>3. CASE p = r
    <3>1. cancelled'[p] = TRUE
      BY <1>0, <2>1, <2>3 DEF ThreadTypes
    <3>2. SealedFor(p)' = SealedFor(p) /\ GateShape(p)'
      BY <1>0, <1>s, <2>1 DEF GateShape, Decided
    <3> QED BY <1>0, <3>1, <3>2 DEF Decided, AnswersSealed
  <2> QED BY <2>2, <2>3
<1>9. ASSUME NEW q \in Requests, NEW r \in Runs, ApproveOpen(q, r) PROVE Decided(p)'
  <2>1. /\ at[q] = "idle" /\ at' = [at EXCEPT ![q] = "opened"]
        /\ \A x \in Requests \ {q} : req'[x] = req[x]
        /\ UNCHANGED <<ledger, newline, failed, pc, node, pos, had, approvalEvent, cancelled>>
    BY <1>0, <1>9 DEF ApproveOpen, thread, runFile, RequestTypes
  <2>2. SealedFor(p)' = SealedFor(p)
    <3>1. \A x \in Requests : at'[x] = IF x = q THEN "opened" ELSE at[x]
      BY <1>0, <2>1 DEF RequestTypes
    <3> QED BY <2>1, <3>1 DEF SealedFor
  <2> QED BY <1>0, <2>1, <2>2, FrameDecided
<1>10. ASSUME NEW q \in Requests, ApproveSeal(q) \/ ApproveSealFails(q) PROVE Decided(p)'
  <2>1. /\ at[q] = "opened" /\ at' = [at EXCEPT ![q] = "sealed"] /\ req' = req
        /\ UNCHANGED <<pc, node, pos, had, approvalEvent, cancelled>>
    BY <1>10 DEF ApproveSeal, ApproveSealFails, thread
  <2>2. /\ req[q].run \in Runs
        /\ \/ SealWrites(q, TRUE) /\ failed' = failed
           \/ (UNCHANGED runFile \/ SealWrites(q, FALSE)) /\ failed' = [failed EXCEPT ![req[q].run] = @ + 1]
    BY <1>0, <1>10, SealAppends DEF ApproveSeal, ApproveSealFails
  <2>4. \A x \in Requests : at'[x] = IF x = q THEN "sealed" ELSE at[x]
    BY <1>0, <2>1 DEF RequestTypes
  <2>5. CASE p # req[q].run
    <3>1. ledger'[p] = ledger[p] /\ newline'[p] = newline[p] /\ failed'[p] = failed[p]
      BY <1>0, <2>2, <2>5 DEF FileTypes, SealWrites, runFile
    <3>2. SealedFor(p)' = SealedFor(p)
      BY <2>1, <2>4, <2>5 DEF SealedFor
    <3> QED BY <1>0, <2>1, <3>1, <3>2, FrameDecided
  <2>6. CASE p = req[q].run
    <3>1. SealedFor(p)' = SealedFor(p) \cup {q} /\ q \notin SealedFor(p)
      BY <2>1, <2>4, <2>6 DEF SealedFor
    <3>2. IsFiniteSet(SealedFor(p)') /\ Cardinality(SealedFor(p)') = Cardinality(SealedFor(p)) + 1
      BY <1>0, <3>1, FS_AddElement DEF Decided
    <3>3. Answers(p) \in Nat /\ Cardinality(SealedFor(p)) \in Nat /\ Told(p) \in Int /\ failed[p] \in Nat
      BY <1>0, CountTypes DEF Decided
    <3>4. Answers(p)' = Answers(p) /\ GateShape(p)'
      BY <1>0, <2>1 DEF Answers, GateShape, Decided
    <3>5. ASSUME NEW b \in BOOLEAN, SealWrites(q, b)
          PROVE  /\ Told(p)' \in Int /\ Told(p)' >= Told(p) + IF b THEN 1 ELSE -1
                 /\ GatesWith(p, "gate_decision")' \subseteq GatesWith(p, "gate_decision")
      <4>1. PICK e \in RunEntry :
              /\ e.event = "ui_decision" /\ (b => e.parses)
              /\ ledger' = [ledger EXCEPT ![p] = WriteLine(ledger[p], newline[p], e)]
              /\ newline' = [newline EXCEPT ![p] = b]
        BY <2>6, <3>5 DEF SealWrites
      <4>2. ledger'[p] = WriteLine(ledger[p], newline[p], e) /\ newline'[p] = b
        BY <1>0, <4>1 DEF FileTypes
      <4>3. /\ Told(p)' \in Int
            /\ newline'[p] => Told(p)' >= Told(p) + IF e.event = "ui_decision" /\ e.parses THEN 1 ELSE 0
            /\ ~newline'[p] /\ e.event = "ui_decision" => Told(p)' >= Told(p) - 1
            /\ GatesWith(p, "gate_decision")' \subseteq GatesWith(p, "gate_decision") \cup {}
        BY <1>0, <4>1, <4>2, WriteTells
      <4>4. CASE b
        BY <3>3, <4>1, <4>2, <4>3, <4>4
      <4>5. CASE ~b
        BY <3>3, <4>1, <4>2, <4>3, <4>5
      <4> QED BY <4>4, <4>5
    <3>6. CASE SealWrites(q, TRUE) /\ failed' = failed
      <4>1. /\ Told(p)' \in Int /\ Told(p)' >= Told(p) + 1
            /\ GatesWith(p, "gate_decision")' \subseteq GatesWith(p, "gate_decision")
        BY <3>5, <3>6
      <4>2. failed'[p] = failed[p]
        BY <3>6
      <4>3. AnswersSealed(p)'
        BY <1>0, <2>1, <3>2, <3>3, <3>4, <4>1, <4>2 DEF AnswersSealed, Decided
      <4> QED BY <3>2, <3>4, <4>3 DEF Decided
    <3>7. CASE (UNCHANGED runFile \/ SealWrites(q, FALSE)) /\ failed' = [failed EXCEPT ![p] = @ + 1]
      <4>1. /\ Told(p)' \in Int /\ Told(p)' >= Told(p) - 1
            /\ GatesWith(p, "gate_decision")' \subseteq GatesWith(p, "gate_decision")
        <5>1. CASE UNCHANGED runFile
          <6>1. Told(p)' = Told(p) /\ GatesWith(p, "gate_decision")' = GatesWith(p, "gate_decision")
            BY <5>1 DEF runFile, Told, SealedAnswers, AtStake, GatesWith
          <6> QED BY <3>3, <6>1
        <5>2. CASE SealWrites(q, FALSE)
          BY <3>3, <3>5, <5>2
        <5> QED BY <3>7, <5>1, <5>2
      <4>2. failed'[p] = failed[p] + 1
        BY <1>0, <3>7 DEF FileTypes
      <4>3. AnswersSealed(p)'
        BY <1>0, <2>1, <3>2, <3>3, <3>4, <4>1, <4>2 DEF AnswersSealed, Decided
      <4> QED BY <3>2, <3>4, <4>3 DEF Decided
    <3> QED BY <2>2, <2>6, <3>6, <3>7
  <2> QED BY <2>5, <2>6
<1>11. ASSUME NEW q \in Requests, ApproveDecide(q) PROVE Decided(p)'
  <2>1. /\ at[q] = "sealed" /\ at' = [at EXCEPT ![q] = "idle"]
        /\ approvalEvent' = [approvalEvent EXCEPT ![req[q].run] = TRUE]
        /\ UNCHANGED <<ledger, newline, failed, pc, node, pos, had, cancelled>>
        /\ \A x \in Requests \ {q} : req'[x] = req[x]
    BY <1>0, <1>11 DEF ApproveDecide, thread, runFile, RequestTypes
  <2>2. req[q].run \in Runs
    BY <1>0, <2>1 DEF RequestTypes
  <2>3. \A x \in Requests : at'[x] = IF x = q THEN "idle" ELSE at[x]
    BY <1>0, <2>1 DEF RequestTypes
  <2>4. CASE p # req[q].run
    <3>1. approvalEvent'[p] = approvalEvent[p]
      BY <1>0, <2>1, <2>2, <2>4 DEF ThreadTypes
    <3>2. SealedFor(p)' = SealedFor(p)
      BY <2>1, <2>3, <2>4 DEF SealedFor
    <3> QED BY <1>0, <2>1, <3>1, <3>2, FrameDecided
  <2>5. CASE p = req[q].run
    <3>1. SealedFor(p)' = SealedFor(p) \ {q} /\ q \in SealedFor(p)
      BY <2>1, <2>3, <2>5 DEF SealedFor
    <3>2. IsFiniteSet(SealedFor(p)') /\ Cardinality(SealedFor(p)') = Cardinality(SealedFor(p)) - 1
      BY <1>0, <3>1, FS_RemoveElement DEF Decided
    <3>3. Answers(p) \in Nat /\ Cardinality(SealedFor(p)) \in Nat /\ Told(p) \in Int /\ failed[p] \in Nat
      BY <1>0, CountTypes DEF Decided
    <3>4. /\ Told(p)' = Told(p) /\ failed'[p] = failed[p]
          /\ GatesWith(p, "gate_decision")' = GatesWith(p, "gate_decision")
      BY <2>1 DEF Told, SealedAnswers, AtStake, GatesWith
    <3>5. Answers(p)' = Answers(p) /\ GateShape(p)'
      BY <1>0, <2>1 DEF Answers, GateShape, Decided
    <3>6. AnswersSealed(p)'
      BY <1>0, <2>1, <3>2, <3>3, <3>4, <3>5 DEF AnswersSealed, Decided
    <3> QED BY <3>2, <3>5, <3>6 DEF Decided
  <2> QED BY <2>4, <2>5
<1>12. ASSUME Retrieve PROVE Decided(p)'
  <2>1. /\ active \in Runs /\ Record(active, "rag_retrieval", NoRun, 0)
        /\ UNCHANGED <<pc, node, pos, had, approvalEvent, cancelled, at, req, failed>>
    BY <1>12 DEF Retrieve, thread, RunTypes
  <2>2. Answers(p)' = Answers(p) /\ GateShape(p)'
    BY <1>0, <2>1 DEF Answers, GateShape, Decided
  <2> QED BY <1>0, <1>s, <1>w, <2>1, <2>2, OthersKeepDecided
<1>13. CASE UNCHANGED runVars
  BY <1>0, <1>s, <1>13, FrameDecided DEF runVars, thread, runFile
<1> QED BY <1>1, <1>2, <1>3, <1>4, <1>5, <1>6, <1>7, <1>8, <1>9, <1>10, <1>11, <1>12, <1>13 DEF RunNext

\* A run that was not cancelled records no gate as decided that it had no answer for, and
\* its answers can be read in its ledger but for what failed seals cost: for any number of
\* stages, requests, answers and failures, however often a resumed node records again.
THEOREM DecidersAreSealed == RunSpec => []DecidersSealedFirst
<1>1. RunTypes /\ DecidersInv => DecidersSealedFirst
  <2> SUFFICES ASSUME RunTypes, DecidersInv, NEW r \in Runs, ~cancelled[r]
               PROVE  /\ GatesWith(r, "gate_decision") \subseteq 1 .. Answers(r)
                      /\ Answers(r) <= SealedAnswers(r) + 2 * failed[r]
    BY DEF DecidersSealedFirst
  <2>1. Decided(r) /\ FileTypes /\ ThreadTypes
    BY DEF DecidersInv, RunTypes
  <2>2. /\ Answers(r) \in Nat /\ Cardinality(SealedFor(r)) \in Nat /\ SealedAnswers(r) \in Nat
        /\ AtStake(r) \in 0 .. 2 /\ failed[r] \in Nat
    BY <2>1, CountTypes DEF Decided
  <2> QED BY <2>1, <2>2 DEF Decided, AnswersSealed, Told
<1> QED BY <1>1, InitRunTypes, NextRunTypes, InitDecidersInv, NextDecidersInv, PTL DEF RunSpec

\* The chain of a run can be relied on: it breaks at the user's answers only, and an audit that calls
\* it valid stays right.
THEOREM RunChainsHold == RunSpec => []RunChainHolds
<1>1. OnlyDecisionsBreak /\ AuditIsRight => RunChainHolds
  BY DEF RunChainHolds
<1> QED BY <1>1, AnswersAloneBreak, AuditsAreRight, PTL
=============================================================================
