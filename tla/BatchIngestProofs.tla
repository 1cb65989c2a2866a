------------------------- MODULE BatchIngestProofs -------------------------
(***************************************************************************)
(* Proofs about a batch, for any number of documents, of workers here and  *)
(* elsewhere, of permits and tokens, and of failures, restarts and         *)
(* redelivered messages.                                                   *)
(***************************************************************************)
EXTENDS BatchIngest, TLAPS, FiniteSetTheorems

States == Outcomes \cup {"none"}
Entries == [event : {"batch_started", "batch_classified", "gate_decision", "batch_usage",
                     "batch_completed", "doc_processed"},
            doc : Docs \cup {NoDoc}, state : States]

\* A document has an entry in the batch's shard, or in another node's ledger.
Sealed(d) == (\E i \in 1 .. Len(shard) : shard[i].doc = d) \/ d \in elsewhere

\* Who holds what.
Held ==
  /\ backend \in {"memory", "redis", "sqs"}
  /\ shard \in Seq(Entries)
  /\ job \in [Workers -> Docs \cup {NoDoc}]
  /\ DOMAIN pc = Workers

\* A worker elsewhere has a document only from SQS; one about to delete its message
\* has sealed its document; only an idle or dead worker has nothing in hand.
Hands ==
  /\ backend # "sqs" => \A w \in Remote \ Home : pc[w] \in {"idle", "dead"}
  /\ \A w \in Workers : pc[w] = "ack" => Sealed(job[w])
  /\ queue \subseteq Docs /\ invisible \subseteq Docs /\ accepted \subseteq Docs

\* What the queue took is sealed, still with SQS, or with a worker of this process.
Accounted ==
  \A d \in accepted :
    \/ Sealed(d)
    \/ d \in queue \cup invisible
    \/ /\ backend # "sqs"
       /\ restarted \/ \E w \in Home : job[w] = d /\ pc[w] # "idle"

LossInv == Held /\ Hands /\ Accounted

\* At the start no document was accepted.
LEMMA LossInit == Init => LossInv
<1> SUFFICES ASSUME Init PROVE LossInv
  OBVIOUS
<1>1. backend \in {"memory", "redis", "sqs"} /\ shard \in Seq(Entries)
  BY DEF Init
<1>2. job \in [Workers -> Docs \cup {NoDoc}]
  BY DEF Init
<1>3. DOMAIN pc = Workers /\ \A w \in Workers : pc[w] = "idle"
  BY DEF Init
<1>4. Hands
  BY <1>3 DEF Init, Hands, Workers
<1>5. Accounted
  BY DEF Init, Accounted
<1> QED
  BY <1>1, <1>2, <1>3, <1>4, <1>5 DEF LossInv, Held

-----------------------------------------------------------------------------
(* What a step does to the sealed documents *)

\* Entries are only added, so what is sealed stays sealed.
LEMMA Grows ==
  ASSUME Held, NEW s \in Seq(Entries), shard' = shard \o s, elsewhere \subseteq elsewhere', NEW d
  PROVE  shard' \in Seq(Entries) /\ (Sealed(d) => Sealed(d)')
BY DEF Held, Sealed

\* The entry a worker appends seals its document.
LEMMA SealsIts ==
  ASSUME Held, NEW w \in Workers, NEW o \in Outcomes, Seal(w, o)
  PROVE  /\ shard' \in Seq(Entries)
         /\ \A d : Sealed(d) => Sealed(d)'
         /\ \A d : d = job[w] => Sealed(d)'
<1> DEFINE entry == [event |-> "doc_processed", doc |-> job[w], state |-> o]
<1>1. CASE w \in Home
  <2>1. entry \in Entries /\ entry.doc = job[w]
    BY DEF Entries, Held, States
  <2>2. shard' = Append(shard, entry) /\ elsewhere' = elsewhere
    BY <1>1 DEF Seal
  <2> HIDE DEF entry
  <2>3. shard' \in Seq(Entries) /\ Len(shard') = Len(shard) + 1 /\ shard'[Len(shard')] = entry
    BY <2>1, <2>2 DEF Held
  <2>4. \A i \in 1 .. Len(shard) : i \in 1 .. Len(shard') /\ shard'[i] = shard[i]
    BY <2>1, <2>2 DEF Held
  <2>5. Len(shard') \in 1 .. Len(shard')
    BY <2>3 DEF Held
  <2> QED
    BY <2>1, <2>2, <2>3, <2>4, <2>5, Zenon DEF Sealed
<1>2. CASE w \notin Home
  BY <1>2 DEF Seal, Sealed, Held
<1> QED
  BY <1>1, <1>2

\* A document ends as o, or the worker goes on at onError.
LEMMA Finishes ==
  ASSUME Held, NEW w \in Workers, NEW o \in Outcomes, NEW onError, Finish(w, o, onError)
  PROVE  /\ shard' \in Seq(Entries)
         /\ \A d : Sealed(d) => Sealed(d)'
         /\ \E p \in {"ack", onError} : /\ pc' = [pc EXCEPT ![w] = p]
                                        /\ p = "ack" /\ onError # "ack" => \A d : d = job[w] => Sealed(d)'
<1>1. CASE Seal(w, o) /\ pc' = [pc EXCEPT ![w] = "ack"]
  BY <1>1, SealsIts
<1>2. CASE pc' = [pc EXCEPT ![w] = onError] /\ UNCHANGED <<shard, elsewhere>>
  BY <1>2 DEF Held, Sealed
<1> QED
  BY <1>1, <1>2, Zenon DEF Finish

\* A worker that has a document goes on with it.
LEMMA GoesOn ==
  ASSUME LossInv, NEW w \in Workers, NEW p, pc' = [pc EXCEPT ![w] = p],
         p # "idle", pc[w] \notin {"idle", "dead"}, p = "ack" => \A d : d = job[w] => Sealed(d)',
         shard' \in Seq(Entries), \A d : Sealed(d) => Sealed(d)',
         UNCHANGED <<backend, queue, invisible, accepted, restarted, job>>
  PROVE  LossInv'
<1> USE DEF LossInv
<1>1. Held'
  BY DEF Held
<1>2. Hands'
  <2>1. \A v \in Workers : pc'[v] = "ack" => Sealed(job[v])'
    BY DEF Held, Hands
  <2> QED
    BY <2>1 DEF Held, Hands, Workers
<1>3. Accounted'
  BY DEF Held, Hands, Accounted, Workers
<1> QED
  BY <1>1, <1>2, <1>3

-----------------------------------------------------------------------------
(* The steps *)

\* No step loses a document.
LEMMA LossStep == LossInv /\ [Next]_vars => LossInv'
<1> SUFFICES ASSUME LossInv, [Next]_vars PROVE LossInv'
  OBVIOUS
<1> USE DEF LossInv
<1>1. CASE Plan \/ Close
  <2>1. PICK s \in Seq(Entries) : shard' = shard \o s
    <3>1. \A event \in {"batch_started", "batch_classified", "gate_decision", "batch_usage", "batch_completed"} :
            Entry(event) \in Entries
      BY DEF Entry, Entries, States
    <3>2. Opened \in Seq(Entries) /\ Append(Opened, Entry("batch_completed")) \in Seq(Entries)
      BY <3>1 DEF Opened
    <3>3. Append(<<Entry("batch_usage")>>, Entry("batch_completed")) \in Seq(Entries)
      BY <3>1
    <3>4. \/ shard' = shard \o Opened
          \/ shard' = shard \o Append(Opened, Entry("batch_completed"))
          \/ shard' = shard \o Append(<<Entry("batch_usage")>>, Entry("batch_completed"))
      BY <1>1, Zenon DEF Plan, Close, SealBatch
    <3> QED
      BY <3>2, <3>3, <3>4, Zenon
  <2>2. UNCHANGED <<backend, queue, invisible, accepted, restarted, pc, job, elsewhere>>
    BY <1>1 DEF Plan, Close, SealBatch, queues
  <2>3. shard' \in Seq(Entries) /\ \A d : Sealed(d) => Sealed(d)'
    BY <2>1, <2>2, Grows
  <2> QED
    BY <2>2, <2>3 DEF Held, Hands, Accounted
<1>2. CASE Restart
  BY <1>2 DEF Restart, Held, Hands, Accounted, Workers, Sealed
<1>3. ASSUME NEW d \in Docs, Send(d) PROVE LossInv'
  BY <1>3 DEF Send, Held, Hands, Accounted, Sealed, pools
<1>4. ASSUME NEW d \in Docs, Redeliver(d) PROVE LossInv'
  BY <1>4 DEF Redeliver, Held, Hands, Accounted, Sealed, run, pools
<1>5. ASSUME NEW w \in Workers, Take(w) PROVE LossInv'
  BY <1>5 DEF Take, Held, Hands, Accounted, Sealed, run, Workers
<1>6. ASSUME NEW w \in Workers, Ack(w) PROVE LossInv'
  BY <1>6 DEF Ack, Held, Hands, Accounted, Sealed, Workers
<1>7. ASSUME NEW w \in Workers, ReceiveFails(w) PROVE LossInv'
  BY <1>7 DEF ReceiveFails, Held, Hands, Accounted, Sealed, run, queues, Workers
<1>8. ASSUME NEW w \in Workers, ProcessRaises(w) \/ Acquire(w) PROVE LossInv'
  BY <1>8, GoesOn DEF ProcessRaises, Acquire, BeginCall, run, queues, Held, Sealed
<1>9. ASSUME NEW w \in Workers, NEW o \in Outcomes, NEW onError \in {"failing", "dead"}, Finish(w, o, onError),
             pc[w] \notin {"idle", "dead"}, UNCHANGED <<backend, queue, invisible, accepted, restarted, job>>
      PROVE  LossInv'
  <2>1. /\ shard' \in Seq(Entries)
        /\ \A d : Sealed(d) => Sealed(d)'
        /\ \E p \in {"ack", onError} : /\ pc' = [pc EXCEPT ![w] = p]
                                       /\ p = "ack" /\ onError # "ack" => \A d : d = job[w] => Sealed(d)'
    BY <1>9, Finishes
  <2>2. PICK p \in {"ack", onError} : /\ pc' = [pc EXCEPT ![w] = p]
                                      /\ p = "ack" => \A d : d = job[w] => Sealed(d)'
    BY <2>1
  <2>3. p # "idle"
    OBVIOUS
  <2>4. LossInv
    BY Zenon
  <2> HIDE DEF LossInv
  <2> QED
    BY <1>9, <2>1, <2>2, <2>3, <2>4, GoesOn
<1>10. ASSUME NEW w \in Workers, Extracted(w) PROVE LossInv'
  BY <1>10, <1>9, GoesOn DEF Extracted, BeginCall, run, queues, Outcomes, Held, Sealed
<1>11. ASSUME NEW w \in Workers, Answered(w) PROVE LossInv'
  BY <1>11, <1>9, GoesOn DEF Answered, run, queues, Outcomes, Held, Sealed
<1>12. ASSUME NEW w \in Workers, CallFails(w) \/ DirectAnswered(w) \/ Timeout(w) \/ Failing(w) PROVE LossInv'
  BY <1>12, <1>9 DEF CallFails, DirectAnswered, Timeout, Failing, Busy, run, queues, Outcomes
<1>13. CASE UNCHANGED vars
  BY <1>13 DEF vars, Held, Hands, Accounted, Sealed
<1> QED
  BY <1>1, <1>2, <1>3, <1>4, <1>5, <1>6, <1>7, <1>8, <1>10, <1>11, <1>12, <1>13 DEF Next, Step

\* The invariant says that nothing is lost.
LEMMA LossInvSuffices == LossInv => NothingLost
BY DEF LossInv, Accounted, Held, Sealed, NothingLost, SealsOf

\* For any number of documents, workers, failures, restarts and redelivered
\* messages: a document SQS took is sealed or still with SQS; on the other
\* queues only a worker that died or a restart loses one.
THEOREM NeverDropped == Spec => []NothingLost
BY LossInit, LossStep, LossInvSuffices, PTL DEF Spec

-----------------------------------------------------------------------------
(* The pool *)

Number(place) == Cardinality(In(place))
Asking == {"waiting", "calling"}

\* Only workers of this process call the model through the pool.
OnlyHome == DOMAIN pc = Workers /\ \A w \in Workers \ Home : pc[w] \notin Asking

Permits == permits \in Int /\ permits + Number("calling") = Slots

Counters ==
  /\ pool \in [{"started", "ok", "failed", "in_flight"} -> Nat]
  /\ pool["in_flight"] >= Number("calling")
  /\ pool["started"] = pool["ok"] + pool["failed"] + pool["in_flight"]

\* Whoever passed the check and has not been charged may still be charged once.
Spending ==
  /\ spent \in Nat
  /\ spent + (Number("waiting") + Number("calling")) * MaxCost <= Limit - 1 + Cardinality(Home) * MaxCost

PoolInv == OnlyHome /\ Permits /\ Counters /\ Spending

\* The workers at a place can be counted.
LEMMA Finite == ASSUME NEW place PROVE /\ IsFiniteSet(In(place)) /\ Number(place) \in Nat
                                       /\ Cardinality(Home) \in Nat
<1>1. IsFiniteSet(Home) /\ In(place) \in SUBSET Home
  BY PoolAssumption DEF In
<1> QED
  BY <1>1, FS_Subset, FS_CardinalityType DEF Number

\* A worker that moves to p is counted there and no longer where it was.
LEMMA Counts ==
  ASSUME OnlyHome, NEW w \in Workers, NEW p, pc' = [pc EXCEPT ![w] = p], NEW place
  PROVE  /\ w \notin Home \/ (p = place <=> pc[w] = place) => Number(place)' = Number(place)
         /\ w \in Home /\ p = place /\ pc[w] # place => Number(place)' = Number(place) + 1
         /\ w \in Home /\ p # place /\ pc[w] = place =>
              Number(place)' = Number(place) - 1 /\ Number(place) >= 1
<1> USE DEF OnlyHome
<1>1. IsFiniteSet(In(place)) /\ Number(place) \in Nat
  BY Finite
<1>2. ASSUME w \notin Home \/ (p = place <=> pc[w] = place) PROVE Number(place)' = Number(place)
  <2>1. In(place)' = In(place)
    BY <1>2 DEF In, Workers
  <2> QED
    BY <2>1 DEF Number
<1>3. ASSUME w \in Home, p = place, pc[w] # place PROVE Number(place)' = Number(place) + 1
  <2>1. In(place)' = In(place) \cup {w} /\ w \notin In(place)
    BY <1>3 DEF In, Workers
  <2> QED
    BY <1>1, <2>1, FS_AddElement DEF Number
<1>4. ASSUME w \in Home, p # place, pc[w] = place
      PROVE  Number(place)' = Number(place) - 1 /\ Number(place) >= 1
  <2>1. In(place)' = In(place) \ {w} /\ w \in In(place)
    BY <1>4 DEF In, Workers
  <2>2. Number(place)' = Number(place) - 1
    BY <1>1, <2>1, FS_RemoveElement DEF Number
  <2>3. Number(place) # 0
    BY <1>1, <2>1, FS_EmptySet DEF Number
  <2> QED
    BY <1>1, <2>2, <2>3
<1> QED
  BY <1>2, <1>3, <1>4

\* A worker is in one place.
LEMMA Askers == Number("waiting") + Number("calling") <= Cardinality(Home)
<1>1. In("waiting") \cap In("calling") = {} /\ In("waiting") \cup In("calling") \in SUBSET Home
  BY DEF In
<1>2. Cardinality(In("waiting") \cup In("calling")) = Number("waiting") + Number("calling")
  BY <1>1, Finite, FS_Union, FS_EmptySet DEF Number
<1> QED
  BY <1>1, <1>2, FS_Subset, PoolAssumption

\* The same, a step later.
LEMMA FiniteNext == (Number("waiting") \in Nat /\ Number("calling") \in Nat)'
<1>1. Number("waiting") \in Nat /\ Number("calling") \in Nat
  BY Finite
<1> QED
  BY <1>1, PTL

\* There are never more calls than workers of the process.
LEMMA AskersNext == (Number("waiting") + Number("calling") <= Cardinality(Home))'
BY Askers, PTL

\* At the start the pool is full and nothing was spent.
LEMMA PoolInit == Init => PoolInv
<1> SUFFICES ASSUME Init PROVE PoolInv
  OBVIOUS
<1>1. OnlyHome
  BY DEF Init, OnlyHome, Asking
<1>2. In("waiting") = {} /\ In("calling") = {}
  BY DEF Init, In, Workers
<1>3. Number("waiting") = 0 /\ Number("calling") = 0
  BY <1>2, FS_EmptySet DEF Number
<1>4. Permits
  BY <1>3, PoolAssumption DEF Init, NewPool, Permits
<1>5. Counters
  BY <1>3 DEF Init, NewPool, Counters
<1>6. Cardinality(Home) * MaxCost \in Nat
  BY Finite, PoolAssumption
<1>7. Spending
  BY <1>3, <1>6, PoolAssumption DEF Init, NewPool, Spending
<1> QED
  BY <1>1, <1>4, <1>5, <1>7 DEF PoolInv

\* Each of n workers may be charged at most MaxCost.
LEMMA Charges == ASSUME NEW m \in Nat, NEW n \in Nat
                 PROVE  /\ m * MaxCost \in Nat /\ (m + 1) * MaxCost = m * MaxCost + MaxCost
                        /\ m <= n => m * MaxCost <= n * MaxCost
<1>1. MaxCost \in Nat
  BY PoolAssumption
<1>2. ASSUME NEW c \in Nat PROVE m * c \in Nat /\ (m + 1) * c = m * c + c /\ (m <= n => m * c <= n * c)
  OBVIOUS
<1> QED
  BY <1>1, <1>2

\* One worker less may be charged, and was charged at most MaxCost.
LEMMA SpendingLeaves ==
  ASSUME PoolInv, NEW cost \in 0 .. MaxCost, spent' = spent + cost,
         Number("waiting")' + Number("calling")' + 1 = Number("waiting") + Number("calling"),
         Number("waiting")' \in Nat, Number("calling")' \in Nat
  PROVE  Spending'
<1> DEFINE n == Number("waiting")' + Number("calling")'
<1>1. n \in Nat /\ n + 1 = Number("waiting") + Number("calling") /\ Cardinality(Home) \in Nat
  BY Finite
<1>2. n * MaxCost \in Nat /\ (n + 1) * MaxCost = n * MaxCost + MaxCost /\ Cardinality(Home) * MaxCost \in Nat
  BY <1>1, Charges
<1>3. spent \in Nat /\ spent + (n + 1) * MaxCost <= Limit - 1 + Cardinality(Home) * MaxCost
  BY <1>1 DEF PoolInv, Spending
<1> HIDE DEF n
<1>4. spent' \in Nat /\ spent' + n * MaxCost <= Limit - 1 + Cardinality(Home) * MaxCost
  BY <1>2, <1>3, PoolAssumption
<1> QED
  BY <1>4 DEF Spending, n

\* As long as the budget is not spent, every worker may ask.
LEMMA SpendingEnters ==
  ASSUME PoolInv, ~BudgetSpent, spent' = spent, Number("waiting")' \in Nat, Number("calling")' \in Nat,
         Number("waiting")' + Number("calling")' <= Cardinality(Home)
  PROVE  Spending'
<1> DEFINE n == Number("waiting")' + Number("calling")'
<1>1. n \in Nat /\ n <= Cardinality(Home) /\ Cardinality(Home) \in Nat
  BY Finite
<1>2. n * MaxCost \in Nat /\ n * MaxCost <= Cardinality(Home) * MaxCost /\ Cardinality(Home) * MaxCost \in Nat
  BY <1>1, Charges
<1>3. spent \in Nat /\ spent <= Limit - 1
  BY PoolAssumption DEF PoolInv, Spending, BudgetSpent
<1> HIDE DEF n
<1>4. spent' \in Nat /\ spent' + n * MaxCost <= Limit - 1 + Cardinality(Home) * MaxCost
  BY <1>2, <1>3, PoolAssumption
<1> QED
  BY <1>4 DEF Spending, n

\* A worker that neither asked nor asks.
LEMMA Aside ==
  ASSUME PoolInv, NEW w \in Workers, NEW p, pc' = [pc EXCEPT ![w] = p], UNCHANGED pools,
         p \notin Asking, pc[w] \notin Asking
  PROVE  PoolInv'
<1>1. UNCHANGED <<Number("waiting"), Number("calling")>>
  BY Counts DEF PoolInv, Asking
<1>2. OnlyHome'
  BY DEF PoolInv, OnlyHome
<1> QED
  BY <1>1, <1>2 DEF PoolInv, Permits, Counters, Spending, pools

CounterNames == {"started", "ok", "failed", "in_flight"}

\* A worker takes a permit.
LEMMA Begins ==
  ASSUME PoolInv, NEW w \in Home, BeginCall(w), pc[w] # "calling"
  PROVE  OnlyHome' /\ Permits' /\ Counters' /\ Number("calling")' = Number("calling") + 1
<1>1. pc' = [pc EXCEPT ![w] = "calling"] /\ permits' = permits - 1 /\ w \in Workers
  BY DEF BeginCall, Workers
<1>2. Number("calling")' = Number("calling") + 1 /\ Number("calling") \in Nat
  BY <1>1, Counts, Finite DEF PoolInv
<1>3. OnlyHome'
  BY <1>1 DEF PoolInv, OnlyHome
<1>4. Permits'
  BY <1>1, <1>2, PoolAssumption DEF PoolInv, Permits
<1>5. pool \in [CounterNames -> Nat]
  BY DEF PoolInv, Counters, CounterNames
<1>6. /\ pool' \in [CounterNames -> Nat]
      /\ pool'["in_flight"] = pool["in_flight"] + 1 /\ pool'["started"] = pool["started"] + 1
      /\ pool'["ok"] = pool["ok"] /\ pool'["failed"] = pool["failed"]
  BY <1>5 DEF BeginCall, Counted, CounterNames
<1>7. Counters'
  BY <1>2, <1>5, <1>6 DEF PoolInv, Counters, CounterNames
<1> QED
  BY <1>2, <1>3, <1>4, <1>7

\* A worker gives its permit back and is counted as answered or failed, or is
\* cancelled and no longer counted.
LEMMA Returns ==
  ASSUME PoolInv, NEW w \in Workers, NEW p, pc' = [pc EXCEPT ![w] = p], p \notin Asking,
         pc[w] = "calling", permits' = permits + 1,
         Counted({"ok", "in_flight"}) \/ Counted({"failed", "in_flight"}) \/ UNCHANGED pool
  PROVE  /\ OnlyHome' /\ Permits' /\ Counters'
         /\ Number("waiting")' + Number("calling")' + 1 = Number("waiting") + Number("calling")
<1>1. w \in Home
  BY DEF PoolInv, OnlyHome, Asking
<1>2. /\ Number("calling")' = Number("calling") - 1 /\ Number("calling") >= 1
      /\ Number("waiting")' = Number("waiting")
      /\ Number("calling") \in Nat /\ Number("waiting") \in Nat
  BY <1>1, Counts, Finite DEF PoolInv, Asking
<1>3. OnlyHome'
  BY DEF PoolInv, OnlyHome
<1>4. Permits'
  BY <1>2, PoolAssumption DEF PoolInv, Permits
<1>5. pool \in [CounterNames -> Nat] /\ pool["in_flight"] >= 1
  BY <1>2 DEF PoolInv, Counters, CounterNames
<1>6. /\ pool' \in [CounterNames -> Nat]
      /\ pool'["started"] = pool["started"]
      /\ \/ pool'["in_flight"] = pool["in_flight"] - 1
            /\ pool'["ok"] + pool'["failed"] = pool["ok"] + pool["failed"] + 1
         \/ pool'["in_flight"] = pool["in_flight"]
            /\ pool'["ok"] + pool'["failed"] = pool["ok"] + pool["failed"]
  <2>1. CASE Counted({"ok", "in_flight"})
    BY <1>5, <2>1 DEF Counted, CounterNames
  <2>2. CASE Counted({"failed", "in_flight"})
    BY <1>5, <2>2 DEF Counted, CounterNames
  <2>3. CASE UNCHANGED pool
    BY <1>5, <2>3 DEF CounterNames
  <2> QED
    BY <2>1, <2>2, <2>3
<1>7. Counters'
  BY <1>2, <1>5, <1>6 DEF PoolInv, Counters, CounterNames
<1> QED
  BY <1>2, <1>3, <1>4, <1>7

\* Every step keeps the accounts of the pool.
LEMMA PoolStep == PoolInv /\ [Next]_vars => PoolInv'
<1> SUFFICES ASSUME PoolInv, [Next]_vars PROVE PoolInv'
  OBVIOUS
<1>1. ASSUME UNCHANGED <<pc, pools>> PROVE PoolInv'
  <2>1. UNCHANGED <<Number("waiting"), Number("calling")>>
    BY <1>1 DEF Number, In
  <2> QED
    BY <1>1, <2>1 DEF PoolInv, OnlyHome, Permits, Counters, Spending, pools
<1>2. CASE Plan \/ Close
  BY <1>1, <1>2 DEF Plan, Close
<1>3. ASSUME NEW d \in Docs, Send(d) \/ Redeliver(d) PROVE PoolInv'
  BY <1>1, <1>3 DEF Send, Redeliver
<1>4. CASE Restart
  <2>1. In("waiting")' = {} /\ In("calling")' = {}
    BY <1>4 DEF Restart, In, Workers
  <2>2. Number("waiting")' = 0 /\ Number("calling")' = 0
    BY <2>1, FS_EmptySet DEF Number
  <2>3. OnlyHome'
    BY <1>4 DEF Restart, PoolInv, OnlyHome
  <2>4. permits' = Slots /\ spent' = spent
    BY <1>4 DEF Restart
  <2>5. Permits'
    BY <2>2, <2>4, PoolAssumption DEF Permits
  <2>6. pool \in [CounterNames -> Nat] /\ pool' = [c \in DOMAIN pool |-> 0]
    BY <1>4 DEF Restart, PoolInv, Counters, CounterNames
  <2>7. pool' = [c \in CounterNames |-> 0]
    BY <2>6
  <2>8. Counters'
    BY <2>2, <2>7 DEF Counters, CounterNames
  <2>9. Spending'
    <3>1. 0 * MaxCost = 0 /\ Cardinality(Home) * MaxCost \in Nat
      BY Finite, Charges, PoolAssumption
    <3>2. (Number("waiting") + Number("calling")) * MaxCost \in Nat
      BY Finite, Charges
    <3> QED
      BY <2>2, <2>4, <3>1, <3>2, PoolAssumption DEF PoolInv, Spending
  <2> QED
    BY <2>3, <2>5, <2>8, <2>9 DEF PoolInv
<1>5. ASSUME NEW w \in Workers, NEW o \in Outcomes, NEW onError \in {"failing", "dead"},
             Finish(w, o, onError)
      PROVE  \E p \in {"ack", "failing", "dead"} : pc' = [pc EXCEPT ![w] = p]
  BY <1>5 DEF Finish
<1>6. ASSUME NEW w \in Workers, Take(w) \/ Ack(w) \/ ReceiveFails(w) \/ ProcessRaises(w) \/ DirectAnswered(w)
                                 \/ Failing(w)
      PROVE  PoolInv'
  <2>1. UNCHANGED pools /\ pc[w] \notin Asking
    BY <1>6 DEF Take, Ack, ReceiveFails, ProcessRaises, DirectAnswered, Failing, Asking
  <2>2. \E p \in {"idle", "extract", "dead", "failing", "ack"} : pc' = [pc EXCEPT ![w] = p]
    BY <1>5, <1>6 DEF Take, Ack, ReceiveFails, ProcessRaises, DirectAnswered, Failing, Outcomes
  <2> QED
    BY <2>1, <2>2, Aside DEF Asking
<1>7. ASSUME NEW w \in Workers, Extracted(w) PROVE PoolInv'
  <2>1. pc[w] = "extract" /\ w \in Workers
    BY <1>7 DEF Extracted
  <2>2. ASSUME UNCHANGED pools, NEW o \in Outcomes, Finish(w, o, "failing") PROVE PoolInv'
    BY <1>5, <2>1, <2>2, Aside DEF Asking
  <2>3. ASSUME HasResolver(w), ~BudgetSpent, BeginCall(w), UNCHANGED spent PROVE PoolInv'
    <3>1. w \in Home
      BY <2>3 DEF HasResolver
    <3>2. OnlyHome' /\ Permits' /\ Counters'
      BY <2>1, <2>3, <3>1, Begins
    <3>3. Number("waiting")' \in Nat /\ Number("calling")' \in Nat
          /\ Number("waiting")' + Number("calling")' <= Cardinality(Home)
      BY Finite, Askers, FiniteNext, AskersNext
    <3> QED
      BY <2>3, <3>2, <3>3, SpendingEnters DEF PoolInv
  <2>4. ASSUME HasResolver(w), ~BudgetSpent, pc' = [pc EXCEPT ![w] = "waiting"], UNCHANGED pools PROVE PoolInv'
    <3>1. w \in Home
      BY <2>4 DEF HasResolver
    <3>2. Number("calling")' = Number("calling")
      <4>1. OnlyHome /\ ("waiting" = "calling" <=> pc[w] = "calling")
        BY <2>1 DEF PoolInv
      <4> QED
        BY <2>4, <4>1, Counts
    <3>3. OnlyHome'
      BY <2>4, <3>1 DEF PoolInv, OnlyHome
    <3>4. Permits' /\ Counters'
      BY <2>4, <3>2 DEF PoolInv, Permits, Counters, pools
    <3>5. Spending'
      BY <2>4, FiniteNext, AskersNext, SpendingEnters DEF pools
    <3> QED
      BY <3>3, <3>4, <3>5 DEF PoolInv
  <2>5. ASSUME pc' = [pc EXCEPT ![w] = "direct"], UNCHANGED pools PROVE PoolInv'
    BY <2>1, <2>5, Aside DEF Asking
  <2> QED
    BY <1>7, <2>2, <2>3, <2>4, <2>5 DEF Extracted, Outcomes
<1>8. ASSUME NEW w \in Workers, Acquire(w) PROVE PoolInv'
  <2>1. pc[w] = "waiting" /\ BeginCall(w) /\ UNCHANGED spent
    BY <1>8 DEF Acquire
  <2>2. w \in Home
    BY <2>1 DEF PoolInv, OnlyHome, Asking
  <2>3. OnlyHome' /\ Permits' /\ Counters' /\ Number("calling")' = Number("calling") + 1
    BY <2>1, <2>2, Begins
  <2>4. Number("waiting")' = Number("waiting") - 1
    BY <2>1, <2>2, Counts DEF PoolInv, BeginCall
  <2>5. Number("waiting")' + Number("calling")' = Number("waiting") + Number("calling")
    BY <2>3, <2>4, Finite
  <2>6. Spending'
    BY <2>1, <2>5 DEF PoolInv, Spending
  <2> QED
    BY <2>3, <2>6 DEF PoolInv
<1>9. ASSUME NEW w \in Workers, Answered(w) PROVE PoolInv'
  <2>1. pc[w] = "calling" /\ permits' = permits + 1 /\ Counted({"ok", "in_flight"})
    BY <1>9 DEF Answered
  <2>2. PICK cost \in 1 .. MaxCost : spent' = spent + cost
    BY <1>9 DEF Answered
  <2>3. \E p \in {"ack", "failing", "dead"} : pc' = [pc EXCEPT ![w] = p]
    BY <1>5, <1>9 DEF Answered, Outcomes
  <2>4. /\ OnlyHome' /\ Permits' /\ Counters'
        /\ Number("waiting")' + Number("calling")' + 1 = Number("waiting") + Number("calling")
    BY <2>1, <2>3, Returns DEF Asking
  <2>5. cost \in 0 .. MaxCost
    BY PoolAssumption
  <2>6. Spending'
    BY <2>2, <2>4, <2>5, FiniteNext, SpendingLeaves
  <2> QED
    BY <2>4, <2>6 DEF PoolInv
<1>10. ASSUME NEW w \in Workers, CallFails(w) \/ (Timeout(w) /\ pc[w] = "calling") PROVE PoolInv'
  <2>1. pc[w] = "calling" /\ permits' = permits + 1 /\ spent' = spent
        /\ (Counted({"failed", "in_flight"}) \/ UNCHANGED pool)
    BY <1>10 DEF CallFails, Timeout
  <2>2. \E p \in {"ack", "failing", "dead"} : pc' = [pc EXCEPT ![w] = p]
    BY <1>5, <1>10 DEF CallFails, Timeout, Outcomes
  <2>3. /\ OnlyHome' /\ Permits' /\ Counters'
        /\ Number("waiting")' + Number("calling")' + 1 = Number("waiting") + Number("calling")
    BY <2>1, <2>2, Returns DEF Asking
  <2>4. spent' = spent + 0 /\ 0 \in 0 .. MaxCost
    BY <2>1, PoolAssumption DEF PoolInv, Spending
  <2>5. Spending'
    BY <2>3, <2>4, FiniteNext, SpendingLeaves
  <2> QED
    BY <2>3, <2>5 DEF PoolInv
<1>11. ASSUME NEW w \in Workers, Timeout(w), pc[w] # "calling" PROVE PoolInv'
  <2>1. PICK p \in {"ack", "failing", "dead"} : pc' = [pc EXCEPT ![w] = p]
    BY <1>5, <1>11 DEF Timeout, Outcomes
  <2>2. UNCHANGED pools
    BY <1>11 DEF Timeout, pools
  <2>3. CASE pc[w] # "waiting"
    BY <1>11, <2>1, <2>2, <2>3, Aside DEF Asking
  <2>4. CASE pc[w] = "waiting"
    <3>1. w \in Home
      BY <2>4 DEF PoolInv, OnlyHome, Asking
    <3>2. Number("waiting")' = Number("waiting") - 1 /\ Number("calling")' = Number("calling")
      BY <2>1, <2>4, <3>1, Counts DEF PoolInv
    <3>3. OnlyHome'
      BY <2>1, <3>1 DEF PoolInv, OnlyHome
    <3>4. Permits' /\ Counters'
      BY <2>2, <3>2 DEF PoolInv, Permits, Counters, pools
    <3>5. spent' = spent + 0 /\ 0 \in 0 .. MaxCost
      BY <2>2, PoolAssumption DEF PoolInv, Spending, pools
    <3>6. Spending'
      BY <3>2, <3>5, Finite, FiniteNext, SpendingLeaves
    <3> QED
      BY <3>3, <3>4, <3>6 DEF PoolInv
  <2> QED
    BY <2>3, <2>4
<1>12. CASE UNCHANGED vars
  <2>1. UNCHANGED <<pc, pools>>
    BY <1>12 DEF vars, pools
  <2> QED
    BY <1>1, <2>1
<1>13. ASSUME NEW w \in Workers, Step(w) PROVE PoolInv'
  <2>1. CASE Timeout(w)
    BY <1>10, <1>11, <2>1
  <2> QED
    BY <1>6, <1>13, <2>1 DEF Step
<1>14. ASSUME NEW w \in Workers,
              ReceiveFails(w) \/ Extracted(w) \/ ProcessRaises(w) \/ Acquire(w) \/ Answered(w)
                \/ CallFails(w) \/ DirectAnswered(w)
       PROVE  PoolInv'
  <2>1. CASE ReceiveFails(w) \/ ProcessRaises(w) \/ DirectAnswered(w)
    BY <1>6, <2>1
  <2>2. CASE Extracted(w) \/ Acquire(w) \/ Answered(w)
    BY <1>7, <1>8, <1>9, <2>2
  <2>3. CASE CallFails(w)
    BY <1>10, <2>3
  <2> QED
    BY <1>14, <2>1, <2>2, <2>3
<1> QED
  BY <1>2, <1>3, <1>4, <1>12, <1>13, <1>14 DEF Next

\* The invariant says that the accounts are right.
LEMMA PoolInvSuffices == PoolInv => PoolAccounts
<1> SUFFICES ASSUME PoolInv PROVE PoolAccounts
  OBVIOUS
<1>1. (Number("waiting") + Number("calling")) * MaxCost \in Nat /\ Cardinality(Home) * MaxCost \in Nat
  BY Finite, Charges
<1>2. spent <= Limit - 1 + Cardinality(Home) * MaxCost
  BY <1>1, PoolAssumption DEF PoolInv, Spending
<1> QED
  BY <1>2 DEF PoolInv, PoolAccounts, Permits, Counters, Number

\* For any number of workers, permits, tokens and prices of a call, and whatever
\* is cancelled, fails or is restarted: no permit is lost or made, the counters
\* add up, and the budget is overdrawn by at most one call of each worker.
THEOREM PoolHolds == Spec => []PoolAccounts
BY PoolInit, PoolStep, PoolInvSuffices, PTL DEF Spec

-----------------------------------------------------------------------------
(* The counters and the ledger *)

\* What the shard says ended as o, and the workers about to count such a document.
Entered(o) == {i \in DOMAIN shard : shard[i].state = o}
Acking(o) == {w \in In("ack") : result[w] = o}

\* Each is a number, so that they can be added.
Typed ==
  /\ Held
  /\ tally \in [Outcomes -> Nat]
  /\ result \in [Workers -> Outcomes]

TallyInv == Typed /\ TallyMatchesLedger

\* Both sets are finite.
LEMMA Finites ==
  ASSUME Typed, NEW o
  PROVE  /\ IsFiniteSet(Entered(o)) /\ Cardinality(Entered(o)) \in Nat
         /\ IsFiniteSet(Acking(o)) /\ Cardinality(Acking(o)) \in Nat
<1>1. IsFiniteSet(1 .. Len(shard)) /\ Entered(o) \in SUBSET (1 .. Len(shard))
  BY FS_Interval DEF Held, Typed, Entered
<1>2. IsFiniteSet(Home) /\ Acking(o) \in SUBSET Home
  BY PoolAssumption DEF Acking, In
<1> QED
  BY <1>1, <1>2, FS_Subset, FS_CardinalityType

\* An entry of the batch itself counts for no outcome.
LEMMA BatchEntry ==
  ASSUME Typed, NEW s \in Seq(Entries), \A i \in 1 .. Len(s) : s[i].state = "none", shard' = shard \o s,
         NEW o \in Outcomes
  PROVE  Entered(o)' = Entered(o)
<1> USE DEF Held, Typed
<1>1. shard' \in Seq(Entries) /\ Len(shard') = Len(shard) + Len(s) /\ Len(shard) \in Nat /\ Len(s) \in Nat
  OBVIOUS
<1>2. \A i \in 1 .. Len(shard) : shard'[i] = shard[i]
  OBVIOUS
<1>3. \A i \in 1 .. Len(shard') : i \notin 1 .. Len(shard) => shard'[i].state = "none"
  <2> SUFFICES ASSUME NEW i \in 1 .. Len(shard'), i \notin 1 .. Len(shard) PROVE shard'[i].state = "none"
    OBVIOUS
  <2>1. i - Len(shard) \in 1 .. Len(s) /\ shard'[i] = s[i - Len(shard)]
    BY <1>1
  <2> QED
    BY <2>1
<1>4. "none" # o
  BY DEF Outcomes
<1>5. DOMAIN shard = 1 .. Len(shard) /\ DOMAIN shard' = 1 .. Len(shard')
  BY <1>1
<1>6. \A i : i \in Entered(o)' <=> i \in Entered(o)
  BY <1>1, <1>2, <1>3, <1>4, <1>5 DEF Entered
<1> QED
  BY <1>1, <1>6

\* A document sealed as c is one more entry for c and none for another outcome.
LEMMA DocumentEntry ==
  ASSUME Typed, NEW w \in Home, NEW c \in Outcomes, Seal(w, c), NEW o \in Outcomes
  PROVE  Cardinality(Entered(o)') = Cardinality(Entered(o)) + (IF o = c THEN 1 ELSE 0)
<1> DEFINE entry == [event |-> "doc_processed", doc |-> job[w], state |-> c]
<1>1. entry \in Entries /\ entry.state = c
  BY DEF Entries, Held, Typed, States, Workers
<1>2. shard' = Append(shard, entry)
  BY DEF Seal
<1> HIDE DEF entry
<1>3. /\ shard' \in Seq(Entries) /\ Len(shard') = Len(shard) + 1 /\ shard'[Len(shard) + 1] = entry
      /\ \A i \in 1 .. Len(shard) : shard'[i] = shard[i]
      /\ DOMAIN shard = 1 .. Len(shard) /\ DOMAIN shard' = 1 .. Len(shard') /\ Len(shard) \in Nat
  BY <1>1, <1>2 DEF Held, Typed
<1>4. IsFiniteSet(Entered(o)) /\ Cardinality(Entered(o)) \in Nat
  BY Finites
<1>5. CASE o = c
  <2>1. Entered(o)' = Entered(o) \cup {Len(shard) + 1} /\ Len(shard) + 1 \notin Entered(o)
    BY <1>1, <1>3, <1>5 DEF Entered
  <2> QED
    BY <1>3, <1>4, <1>5, <2>1, FS_AddElement
<1>6. CASE o # c
  <2>1. Entered(o)' = Entered(o)
    BY <1>1, <1>3, <1>6 DEF Entered
  <2> QED
    BY <1>3, <1>4, <1>6, <2>1
<1> QED
  BY <1>5, <1>6

\* A worker that does not count changes nothing by moving.
LEMMA MovesAside ==
  ASSUME TallyInv, NEW w \in Workers, NEW p, pc' = [pc EXCEPT ![w] = p],
         p # "ack", w \notin Home \/ pc[w] # "ack", UNCHANGED <<result, shard, tally, restarted>>, Held'
  PROVE  TallyInv'
<1>1. Typed'
  BY DEF TallyInv, Held, Typed
<1>2. \A o : Acking(o)' = Acking(o) /\ Entered(o)' = Entered(o)
  BY DEF TallyInv, Held, Typed, Acking, Entered, In, Workers
<1> QED
  BY <1>1, <1>2 DEF TallyInv, TallyMatchesLedger, Acking, Entered

\* Sealing a document is what makes a worker count it.
LEMMA EndsAs ==
  ASSUME TallyInv, NEW w \in Workers, NEW c \in Outcomes, NEW onError \in {"failing", "dead"},
         Finish(w, c, onError), pc[w] # "ack", UNCHANGED <<tally, restarted>>, Held'
  PROVE  TallyInv'
<1>1. CASE pc' = [pc EXCEPT ![w] = onError] /\ UNCHANGED <<shard, elsewhere, result>>
  BY <1>1, MovesAside DEF TallyInv, Held, Typed
<1>2. CASE /\ Seal(w, c) /\ result' = [result EXCEPT ![w] = c]
           /\ pc' = [pc EXCEPT ![w] = "ack"]
  <2> USE DEF TallyInv
  <2>1. CASE w \in Home
    <3>1. Typed'
      BY <1>2, <2>1, DocumentEntry DEF Held, Typed
    <3>2. ASSUME NEW o \in Outcomes
          PROVE  Cardinality(Acking(o)') = Cardinality(Acking(o)) + (IF o = c THEN 1 ELSE 0)
      <4>1. IsFiniteSet(Acking(o)) /\ Cardinality(Acking(o)) \in Nat
        BY Finites
      <4>2. CASE o = c
        <5>1. Acking(o)' = Acking(o) \cup {w} /\ w \notin Acking(o)
          BY <1>2, <2>1, <4>2 DEF Acking, In, Held, Typed, Workers
        <5> QED
          BY <4>1, <4>2, <5>1, FS_AddElement
      <4>3. CASE o # c
        <5>1. Acking(o)' = Acking(o)
          BY <1>2, <2>1, <4>3 DEF Acking, In, Held, Typed, Workers
        <5> QED
          BY <4>1, <4>3, <5>1
      <4> QED
        BY <4>2, <4>3
    <3>3. ASSUME NEW o \in Outcomes
          PROVE  Cardinality(Entered(o)') = Cardinality(Entered(o)) + (IF o = c THEN 1 ELSE 0)
      BY <1>2, <2>1, DocumentEntry
    <3>4. ASSUME ~restarted, NEW o \in Outcomes
          PROVE  Cardinality(Entered(o)') = tally[o] + Cardinality(Acking(o)')
      <4>1. Cardinality(Entered(o)) = tally[o] + Cardinality(Acking(o))
        BY <3>4 DEF TallyMatchesLedger, Entered, Acking
      <4>2. tally[o] \in Nat /\ Cardinality(Acking(o)) \in Nat
        BY Finites DEF Held, Typed
      <4> QED
        BY <3>2, <3>3, <4>1, <4>2
    <3>5. TallyMatchesLedger'
      BY <3>4 DEF TallyMatchesLedger, Entered, Acking
    <3> QED
      BY <3>1, <3>5
  <2>2. CASE w \notin Home
    <3>1. shard' = shard
      BY <1>2, <2>2 DEF Seal
    <3>2. Typed'
      BY <1>2, <3>1 DEF Held, Typed
    <3>3. \A o : Acking(o)' = Acking(o) /\ Entered(o)' = Entered(o)
      BY <1>2, <2>2, <3>1 DEF Held, Typed, Acking, Entered, In, Workers
    <3> QED
      BY <3>2, <3>3 DEF TallyMatchesLedger, Acking, Entered
  <2> QED
    BY <2>1, <2>2
<1> QED
  BY <1>1, <1>2, Zenon DEF Finish

\* Counting a document moves it from those about to be counted to the counters.
LEMMA AckCounts ==
  ASSUME TallyInv, NEW w \in Workers, Ack(w), Held'
  PROVE  TallyInv'
<1> USE DEF TallyInv
<1>1. /\ pc[w] = "ack" /\ pc' = [pc EXCEPT ![w] = "idle"] /\ job' = [job EXCEPT ![w] = NoDoc]
      /\ tally' = IF HasResolver(w) THEN [tally EXCEPT ![result[w]] = @ + 1] ELSE tally
      /\ UNCHANGED <<restarted, result, shard>>
  BY DEF Ack
<1>2. result[w] \in Outcomes
  BY DEF Held, Typed
<1>3. Typed'
  BY <1>1, <1>2 DEF Held, Typed
<1>4. \A o : Entered(o)' = Entered(o)
  BY <1>1 DEF Entered
<1>5. CASE w \in Home /\ ~restarted
  <2>1. tally' = [tally EXCEPT ![result[w]] = @ + 1]
    BY <1>1, <1>5 DEF HasResolver
  <2>2. ASSUME NEW o \in Outcomes
        PROVE  tally'[o] + Cardinality(Acking(o)') = tally[o] + Cardinality(Acking(o))
    <3>1. IsFiniteSet(Acking(o)) /\ Cardinality(Acking(o)) \in Nat /\ tally[o] \in Nat
      BY Finites DEF Held, Typed
    <3>2. CASE o = result[w]
      <4>1. Acking(o)' = Acking(o) \ {w} /\ w \in Acking(o)
        BY <1>1, <1>5, <3>2 DEF Acking, In, Held, Typed, Workers
      <4>2. Cardinality(Acking(o)') = Cardinality(Acking(o)) - 1
        BY <3>1, <4>1, FS_RemoveElement
      <4>3. tally'[o] = tally[o] + 1
        BY <2>1, <3>2 DEF Held, Typed
      <4> QED
        BY <3>1, <4>2, <4>3
    <3>3. CASE o # result[w]
      <4>1. Acking(o)' = Acking(o)
        BY <1>1, <1>5, <3>3 DEF Acking, In, Held, Typed, Workers
      <4>2. tally'[o] = tally[o]
        BY <2>1, <3>3 DEF Held, Typed
      <4> QED
        BY <4>1, <4>2
    <3> QED
      BY <3>2, <3>3
  <2> QED
    BY <1>1, <1>3, <1>4, <2>2 DEF TallyMatchesLedger, Entered, Acking
<1>6. CASE w \notin Home
  BY <1>1, <1>6, <1>3, MovesAside DEF HasResolver, Held, Typed
<1>7. CASE restarted
  BY <1>1, <1>3, <1>7 DEF TallyMatchesLedger
<1> QED
  BY <1>5, <1>6, <1>7

\* At the start nothing was sealed and nobody counts.
LEMMA TallyInit == Init => TallyInv
<1> SUFFICES ASSUME Init PROVE TallyInv
  OBVIOUS
<1>1. Typed
  BY LossInit DEF LossInv, Init, Typed, Outcomes
<1>2. \A o \in Outcomes : Entered(o) = {} /\ Acking(o) = {} /\ tally[o] = 0
  BY DEF Init, Entered, Acking, In, Workers
<1>3. \A o \in Outcomes : Cardinality(Entered(o)) = tally[o] + Cardinality(Acking(o))
  <2>1. Cardinality({}) = 0
    BY FS_EmptySet
  <2> QED
    BY <1>2, <2>1
<1> QED
  BY <1>1, <1>3 DEF TallyInv, TallyMatchesLedger, Entered, Acking

\* Every step keeps the counters and the ledger together.
LEMMA TallyStep == TallyInv /\ LossInv' /\ [Next]_vars => TallyInv'
<1> SUFFICES ASSUME TallyInv, Held', [Next]_vars PROVE TallyInv'
  BY DEF LossInv
<1>1. ASSUME UNCHANGED <<pc, result, shard, tally, restarted>> PROVE TallyInv'
  BY <1>1 DEF TallyInv, Held, Typed, TallyMatchesLedger, In
<1>2. CASE Plan \/ Close
  <2> DEFINE Quiet(s) == s \in Seq(Entries) /\ \A i \in 1 .. Len(s) : s[i].state = "none"
  <2>1. PICK s \in Seq(Entries) : shard' = shard \o s /\ \A i \in 1 .. Len(s) : s[i].state = "none"
    <3>1. \A event \in {"batch_started", "batch_classified", "gate_decision", "batch_usage", "batch_completed"} :
            Entry(event) \in Entries /\ Entry(event).state = "none"
      BY DEF Entry, Entries, States
    <3>2. Quiet(Opened)
      BY <3>1 DEF Opened
    <3>3. Quiet(Append(Opened, Entry("batch_completed")))
      BY <3>1 DEF Opened
    <3>4. Quiet(Append(<<Entry("batch_usage")>>, Entry("batch_completed")))
      BY <3>1
    <3>5. \/ shard' = shard \o Opened
          \/ shard' = shard \o Append(Opened, Entry("batch_completed"))
          \/ shard' = shard \o Append(<<Entry("batch_usage")>>, Entry("batch_completed"))
      BY <1>2, Zenon DEF Plan, Close, SealBatch
    <3> QED
      BY <3>2, <3>3, <3>4, <3>5, Zenon
  <2>2. UNCHANGED <<pc, result, tally, restarted>>
    BY <1>2 DEF Plan, Close, SealBatch
  <2>3. \A o \in Outcomes : Entered(o)' = Entered(o)
    BY <2>1, BatchEntry DEF TallyInv
  <2> QED
    BY <2>2, <2>3 DEF TallyInv, Held, Typed, TallyMatchesLedger, Entered, In
<1>3. ASSUME NEW d \in Docs, Send(d) \/ Redeliver(d) PROVE TallyInv'
  BY <1>1, <1>3 DEF Send, Redeliver, run
<1>4. CASE Restart
  BY <1>4 DEF Restart, TallyInv, Held, Typed, TallyMatchesLedger
<1>5. ASSUME NEW w \in Workers, Take(w) PROVE TallyInv'
  <2>1. UNCHANGED <<result, shard, tally, restarted>> /\ pc[w] = "idle" /\ pc' = [pc EXCEPT ![w] = "extract"]
    BY <1>5 DEF Take, run
  <2> QED
    BY <2>1, MovesAside DEF TallyInv, Held, Typed
<1>6. ASSUME NEW w \in Workers, ReceiveFails(w) \/ ProcessRaises(w) \/ Acquire(w) PROVE TallyInv'
  BY <1>6, MovesAside DEF ReceiveFails, ProcessRaises, Acquire, BeginCall, run, TallyInv, Held, Typed
<1>7. ASSUME NEW w \in Workers, Extracted(w) PROVE TallyInv'
  BY <1>7, EndsAs, MovesAside DEF Extracted, BeginCall, run, Outcomes, TallyInv, Held, Typed
<1>8. ASSUME NEW w \in Workers, Answered(w) PROVE TallyInv'
  BY <1>8, EndsAs, MovesAside DEF Answered, run, Outcomes, TallyInv, Held, Typed
<1>9. ASSUME NEW w \in Workers, CallFails(w) \/ DirectAnswered(w) \/ Timeout(w) \/ Failing(w) PROVE TallyInv'
  BY <1>9, EndsAs DEF CallFails, DirectAnswered, Timeout, Failing, Busy, run, Outcomes
<1>10. ASSUME NEW w \in Workers, Ack(w) PROVE TallyInv'
  BY <1>10, AckCounts
<1>11. CASE UNCHANGED vars
  BY <1>1, <1>11 DEF vars
<1> QED
  BY <1>2, <1>3, <1>4, <1>5, <1>6, <1>7, <1>8, <1>9, <1>10, <1>11 DEF Next, Step

\* For any number of documents, workers, failures and redelivered messages, and
\* whatever is cancelled or raises: until a restart, the counters of the batch and
\* the documents about to be counted are, per outcome, the entries of its ledger.
THEOREM CountersFollowLedger == Spec => []TallyMatchesLedger
<1>1. TallyInv => TallyMatchesLedger
  BY DEF TallyInv
<1> QED
  BY <1>1, TallyInit, TallyStep, LossInit, LossStep, PTL DEF Spec

-----------------------------------------------------------------------------
(* The seal *)

\* A document has an entry in the shard; a worker has a document it has not sealed.
Has(d) == \E i \in 1 .. Len(shard) : shard[i].doc = d
Working == {"extract", "waiting", "calling", "direct", "failing"}
AtWork(w) == w \in Home /\ pc[w] \in Working

\* Without redelivery a document is at one place until it is sealed: not yet sent, in the
\* queue, or with one worker.
Apart ==
  /\ unsent \subseteq Docs /\ invisible = {}
  /\ \A d \in unsent : d \notin queue /\ ~Has(d)
  /\ \A d \in queue : ~Has(d)
  /\ \A w : AtWork(w) => job[w] \in Docs /\ job[w] \notin queue \cup unsent /\ ~Has(job[w])
  /\ \A w, v : AtWork(w) /\ AtWork(v) /\ job[w] = job[v] => w = v

\* No document has two entries, and what counts for an outcome is a document's entry.
EachOnce ==
  /\ \A i, j \in 1 .. Len(shard) : shard[i].doc = shard[j].doc /\ shard[i].doc \in Docs => i = j
  /\ \A i \in 1 .. Len(shard) : shard[i].state \in Outcomes => shard[i].doc \in Docs

\* Nothing happens before the plan, nor after the last document.
Fresh == phase = "new" => queue = {} /\ (\A w : ~AtWork(w)) /\ \A d \in Docs : ~Has(d)
Closed == phase = "closed" => sealedAt = Len(shard) /\ \A d \in Docs : Has(d)

OnceInv == backend # "sqs" => Apart /\ EachOnce /\ Fresh /\ Closed

\* At the start there is no entry and no document anywhere.
LEMMA OnceInit == Init => OnceInv
BY DEF Init, OnceInv, Apart, EachOnce, Fresh, Closed, Has, AtWork, Working, Workers

\* The batch's own entries are about no document.
LEMMA QuietEntries ==
  ASSUME Held, EachOnce, NEW s \in Seq(Entries), shard' = shard \o s,
         \A i \in 1 .. Len(s) : s[i].state = "none" /\ s[i].doc = NoDoc
  PROVE  EachOnce' /\ \A d \in Docs : Has(d)' <=> Has(d)
<1>1. /\ Len(shard') = Len(shard) + Len(s) /\ Len(shard) \in Nat /\ Len(s) \in Nat
      /\ \A i \in 1 .. Len(shard) : shard'[i] = shard[i]
  BY DEF Held
<1>2. \A i \in 1 .. Len(shard') : i \notin 1 .. Len(shard) => shard'[i].state = "none" /\ shard'[i].doc = NoDoc
  <2> SUFFICES ASSUME NEW i \in 1 .. Len(shard'), i \notin 1 .. Len(shard)
               PROVE  shard'[i].state = "none" /\ shard'[i].doc = NoDoc
    OBVIOUS
  <2>1. i - Len(shard) \in 1 .. Len(s) /\ shard'[i] = s[i - Len(shard)]
    BY <1>1 DEF Held
  <2> QED
    BY <2>1
<1>3. NoDoc \notin Docs /\ "none" \notin Outcomes
  BY PoolAssumption DEF Outcomes
<1>4. EachOnce'
  BY <1>1, <1>2, <1>3 DEF EachOnce
<1>5. \A d \in Docs : Has(d)' <=> Has(d)
  BY <1>1, <1>2, <1>3 DEF Has
<1> QED
  BY <1>4, <1>5

\* A worker at work has the only copy of its document: it seals it, or goes on with it.
LEMMA SealsOnce ==
  ASSUME Held, OnceInv, backend # "sqs", NEW w \in Home, AtWork(w), NEW c \in Outcomes,
         NEW onError \in {"failing", "dead"}, Finish(w, c, onError),
         UNCHANGED <<queues, phase, sealedAt, job>>
  PROVE  OnceInv'
<1> USE DEF OnceInv
<1>1. CASE pc' = [pc EXCEPT ![w] = onError] /\ UNCHANGED <<shard, elsewhere>>
  BY <1>1 DEF Held, Apart, EachOnce, Fresh, Closed, Has, AtWork, Working, queues, Workers
<1>2. CASE Seal(w, c) /\ pc' = [pc EXCEPT ![w] = "ack"]
  <2> DEFINE entry == [event |-> "doc_processed", doc |-> job[w], state |-> c]
  <2>1. job[w] \in Docs /\ ~Has(job[w]) /\ entry.doc = job[w] /\ entry \in Entries
    BY DEF Apart, Entries, States
  <2>2. shard' = Append(shard, entry)
    BY <1>2 DEF Seal
  <2> HIDE DEF entry
  <2>3. /\ Len(shard') = Len(shard) + 1 /\ shard'[Len(shard) + 1] = entry /\ Len(shard) \in Nat
        /\ \A i \in 1 .. Len(shard) : shard'[i] = shard[i]
    BY <2>1, <2>2 DEF Held
  <2>4. EachOnce'
    BY <2>1, <2>3 DEF EachOnce, Has
  <2>5. \A d : Has(d)' <=> Has(d) \/ d = job[w]
    BY <2>1, <2>3 DEF Has
  <2>6. \A v : AtWork(v)' <=> AtWork(v) /\ v # w
    BY <1>2 DEF AtWork, Working, Held, Workers
  <2>7. Apart'
    BY <2>5, <2>6 DEF Apart, queues
  <2>8. phase \notin {"new", "closed"}
    BY <2>1 DEF Fresh, Closed
  <2> QED
    BY <2>4, <2>7, <2>8 DEF Fresh, Closed, queues
<1> QED
  BY <1>1, <1>2, Zenon DEF Finish

\* A worker at work goes on with its document; another ends its turn.
LEMMA MovesOn ==
  ASSUME Held, OnceInv, NEW w \in Workers, NEW p, pc' = [pc EXCEPT ![w] = p],
         p \in Working => AtWork(w), job' = job \/ (p \notin Working /\ job' = [job EXCEPT ![w] = NoDoc]),
         UNCHANGED <<backend, unsent, queue, phase, sealedAt, shard>>,
         backend # "sqs" => invisible' = {}
  PROVE  OnceInv'
<1>1. \A v : AtWork(v)' => AtWork(v) /\ job'[v] = job[v]
  BY DEF AtWork, Held, Workers
<1> QED
  BY <1>1 DEF OnceInv, Apart, EachOnce, Fresh, Closed, Has

\* Disjoint sets add up.
LEMMA Disjoint ==
  ASSUME NEW S, NEW T, IsFiniteSet(S), IsFiniteSet(T), S \cap T = {}
  PROVE  /\ IsFiniteSet(S \cup T) /\ Cardinality(S \cup T) \in Nat
         /\ Cardinality(S \cup T) = Cardinality(S) + Cardinality(T)
<1>1. Cardinality(S) \in Nat /\ Cardinality(T) \in Nat
  BY FS_CardinalityType
<1>2. Cardinality(S \cap T) = 0
  BY FS_EmptySet
<1>3. /\ IsFiniteSet(S \cup T)
      /\ Cardinality(S \cup T) = Cardinality(S) + Cardinality(T) - Cardinality(S \cap T)
  BY FS_Union, Zenon
<1> QED
  BY <1>1, <1>2, <1>3

\* The counters are complete: there are as many entries of documents as documents, and as
\* none has two, each has one.
LEMMA CompleteCovers ==
  ASSUME TallyInv, EachOnce, ~restarted, Complete
  PROVE  \A d \in Docs : Has(d)
<1> SUFFICES ASSUME NEW d \in Docs, ~Has(d) PROVE FALSE
  OBVIOUS
<1> USE DEF TallyInv
<1>1. \A o \in Outcomes : /\ IsFiniteSet(Entered(o)) /\ Cardinality(Entered(o)) \in Nat
                          /\ tally[o] \in Nat /\ Cardinality(Acking(o)) \in Nat
                          /\ Cardinality(Entered(o)) = tally[o] + Cardinality(Acking(o))
  BY Finites DEF Typed, TallyMatchesLedger, Entered, Acking
<1> DEFINE Clean == Entered("clean")
           Byllm == Entered("resolved_by_llm")
           Up == Entered("escalated")
           Bad == Entered("failed")
           All == (Clean \cup Byllm) \cup (Up \cup Bad)
           of == [i \in All |-> shard[i].doc]
<1>2. /\ Clean \cap Byllm = {} /\ Up \cap Bad = {}
      /\ (Clean \cup Byllm) \cap (Up \cup Bad) = {}
  BY DEF Entered
<1>3. /\ IsFiniteSet(Clean) /\ IsFiniteSet(Byllm) /\ IsFiniteSet(Up) /\ IsFiniteSet(Bad)
      /\ Cardinality(Clean) \in Nat /\ Cardinality(Clean) >= tally["clean"]
      /\ Cardinality(Byllm) \in Nat /\ Cardinality(Byllm) >= tally["resolved_by_llm"]
      /\ Cardinality(Up) \in Nat /\ Cardinality(Up) >= tally["escalated"]
      /\ Cardinality(Bad) \in Nat /\ Cardinality(Bad) >= tally["failed"]
      /\ \A o \in Outcomes : tally[o] \in Nat
  BY <1>1 DEF Outcomes
<1>4. \A i \in All : i \in 1 .. Len(shard) /\ shard[i].doc \in Docs \ {d}
  BY DEF Entered, EachOnce, Has, Typed, Held, Outcomes
<1>5. of \in [All -> Docs \ {d}]
  BY <1>4
<1> HIDE DEF Clean, Byllm, Up, Bad
<1>6. /\ IsFiniteSet(Clean \cup Byllm) /\ Cardinality(Clean \cup Byllm) = Cardinality(Clean) + Cardinality(Byllm)
      /\ IsFiniteSet(Up \cup Bad) /\ Cardinality(Up \cup Bad) = Cardinality(Up) + Cardinality(Bad)
  BY <1>2, <1>3, Disjoint
<1>7. /\ IsFiniteSet(All) /\ Cardinality(All) \in Nat
      /\ Cardinality(All) = Cardinality(Clean) + Cardinality(Byllm) + Cardinality(Up) + Cardinality(Bad)
  <2>1. /\ IsFiniteSet(All) /\ Cardinality(All) \in Nat
        /\ Cardinality(All) = Cardinality(Clean \cup Byllm) + Cardinality(Up \cup Bad)
    BY <1>2, <1>6, Disjoint, Zenon
  <2> QED
    BY <1>3, <1>6, <2>1
<1>8. Cardinality(All) >= Cardinality(Docs) /\ Cardinality(Docs) \in Nat
  <2>1. Done \in Nat /\ Done >= Cardinality(Docs) /\ Cardinality(Docs) \in Nat
    BY <1>3, FS_CardinalityType, PoolAssumption DEF Complete, Done, Outcomes
  <2> QED
    BY <1>3, <1>7, <2>1 DEF Done, Outcomes
<1>9. IsFiniteSet(Docs \ {d}) /\ Cardinality(Docs \ {d}) = Cardinality(Docs) - 1
  BY FS_RemoveElement, PoolAssumption
<1> HIDE DEF All, of
<1>10. Cardinality(Docs \ {d}) < Cardinality(All)
  BY <1>7, <1>8, <1>9
<1>11. \E i, j \in All : i # j /\ of[i] = of[j]
  BY <1>5, <1>7, <1>9, <1>10, FS_PigeonHole
<1> QED
  BY <1>4, <1>11 DEF of, EachOnce

\* Every step keeps documents apart.
LEMMA OnceStep == OnceInv /\ TallyInv /\ LossInv /\ [Next]_vars => OnceInv'
<1> SUFFICES ASSUME OnceInv, TallyInv, Held, Hands, [Next]_vars, backend # "sqs", backend' = backend PROVE OnceInv'
  BY DEF LossInv, OnceInv, Next, vars, Step, Plan, Close, Restart, Send, Redeliver, Take, Timeout, Failing, Ack,
         ReceiveFails, Extracted, ProcessRaises, Acquire, Answered, CallFails, DirectAnswered, queues
<1>1. Apart /\ EachOnce /\ Fresh /\ Closed /\ invisible = {}
  BY DEF OnceInv, Apart
<1>2. \A event \in {"batch_started", "batch_classified", "gate_decision", "batch_usage", "batch_completed"} :
            Entry(event) \in Entries /\ Entry(event).state = "none" /\ Entry(event).doc = NoDoc
  BY DEF Entry, Entries, States
<1> DEFINE Quiet(s) == /\ s \in Seq(Entries)
                       /\ \A i \in 1 .. Len(s) : s[i].state = "none" /\ s[i].doc = NoDoc
<1>3. CASE Plan
  <2>1. Quiet(Opened)
    BY <1>2 DEF Opened
  <2>2. Quiet(Append(Opened, Entry("batch_completed")))
    BY <1>2 DEF Opened
  <2>3. PICK s \in Seq(Entries) : shard' = shard \o s /\ Quiet(s)
    BY <1>3, <2>1, <2>2, Zenon DEF Plan, SealBatch
  <2>4. EachOnce' /\ \A d \in Docs : Has(d)' <=> Has(d)
    BY <1>1, <2>3, QuietEntries
  <2>5. /\ phase = "new" /\ phase' \in {"sending", "rejected"}
        /\ unsent' = Docs \/ unsent' = unsent
        /\ UNCHANGED <<queue, invisible, pc, job>>
    BY <1>3 DEF Plan
  <2>6. \A w : ~AtWork(w)'
    BY <1>1, <2>5 DEF Fresh, AtWork
  <2>7. Apart'
    BY <1>1, <2>4, <2>5, <2>6 DEF Apart, Fresh
  <2> QED
    BY <2>4, <2>5, <2>7 DEF OnceInv, Fresh, Closed
<1>4. CASE Close
  <2>1. Quiet(Append(<<Entry("batch_usage")>>, Entry("batch_completed")))
    BY <1>2
  <2>2. PICK s \in Seq(Entries) : shard' = shard \o s /\ Quiet(s)
    BY <1>4, <2>1, Zenon DEF Close, SealBatch
  <2>3. EachOnce' /\ \A d \in Docs : Has(d)' <=> Has(d)
    BY <1>1, <2>2, QuietEntries
  <2>4. \A d \in Docs : Has(d)
    BY <1>1, <1>4, CompleteCovers DEF Close
  <2>5. /\ phase' = "closed" /\ sealedAt' = Len(shard')
        /\ UNCHANGED <<unsent, queue, invisible, pc, job>>
    BY <1>4 DEF Close, SealBatch, queues
  <2>6. Apart'
    BY <1>1, <2>3, <2>5 DEF Apart, AtWork, Hands
  <2> QED
    BY <2>3, <2>4, <2>5, <2>6 DEF OnceInv, Fresh, Closed
<1>5. CASE Restart
  <2>1. \A w : ~AtWork(w)'
    BY <1>5 DEF Restart, AtWork, Working, Held, Workers
  <2> QED
    BY <1>1, <1>5, <2>1 DEF Restart, OnceInv, Apart, EachOnce, Fresh, Closed, Has
<1>6. ASSUME NEW d \in Docs, Send(d) PROVE OnceInv'
  <2>1. /\ phase = "sending" /\ phase' \in {"sending", "polling", "aborted"} /\ d \in unsent
        /\ \/ queue' = queue \cup {d} /\ unsent' = unsent \ {d}
           \/ UNCHANGED <<queue, unsent>>
        /\ UNCHANGED <<invisible, pc, job, shard>>
    BY <1>6 DEF Send
  <2>2. \A w : AtWork(w)' <=> AtWork(w)
    BY <2>1 DEF AtWork
  <2> QED
    BY <1>1, <2>1, <2>2 DEF OnceInv, Apart, EachOnce, Fresh, Closed, Has
<1>7. ASSUME NEW d \in Docs, Redeliver(d) PROVE OnceInv'
  BY <1>1, <1>7 DEF Redeliver, Apart
<1>8. ASSUME NEW w \in Workers, Take(w) PROVE OnceInv'
  <2>1. w \in Home
    BY <1>8 DEF Take, Workers
  <2>2. PICK d \in queue : queue' = queue \ {d} /\ job' = [job EXCEPT ![w] = d]
    BY <1>8 DEF Take
  <2>3. /\ pc' = [pc EXCEPT ![w] = "extract"] /\ invisible' = invisible
        /\ UNCHANGED <<unsent, phase, sealedAt, shard>>
    BY <1>8 DEF Take, run
  <2>4. d \in Docs
    BY DEF Hands
  <2>5. \A v : (AtWork(v)' <=> AtWork(v) \/ v = w) /\ (v \in Home => job'[v] = IF v = w THEN d ELSE job[v])
    BY <2>1, <2>2, <2>3 DEF AtWork, Working, Held, Workers
  <2>6. \A e : Has(e)' <=> Has(e)
    BY <2>3 DEF Has
  <2>7. Apart'
    <3>1. \A v : AtWork(v) => v \in Home
      BY DEF AtWork
    <3> QED
      BY <1>1, <2>1, <2>2, <2>3, <2>4, <2>5, <2>6, <3>1 DEF Apart
  <2> QED
    BY <1>1, <2>2, <2>3, <2>6, <2>7 DEF OnceInv, EachOnce, Fresh, Closed
<1>9. ASSUME NEW w \in Workers, pc[w] \in Working PROVE AtWork(w) /\ w \in Home
  BY <1>9 DEF AtWork, Working, Hands, Workers
<1>10. ASSUME NEW w \in Workers, ReceiveFails(w) \/ ProcessRaises(w) \/ Acquire(w) PROVE OnceInv'
  <2>1. /\ UNCHANGED <<backend, unsent, queue, invisible, phase, sealedAt, shard, job>>
        /\ \/ pc' = [pc EXCEPT ![w] = "dead"]
           \/ pc[w] \in Working /\ \E p \in Working : pc' = [pc EXCEPT ![w] = p]
    BY <1>10 DEF ReceiveFails, ProcessRaises, Acquire, BeginCall, queues, run, Working
  <2>2. PICK p : pc' = [pc EXCEPT ![w] = p] /\ (p \in Working => AtWork(w))
    BY <1>9, <2>1 DEF Working
  <2>3. invisible' = {} /\ job' = job /\ UNCHANGED <<backend, unsent, queue, phase, sealedAt, shard>>
    BY <1>1, <2>1
  <2> QED
    BY <2>1, <2>2, <2>3, MovesOn
<1>11. ASSUME NEW w \in Workers, NEW c \in Outcomes, NEW onError \in {"failing", "dead"}, Finish(w, c, onError),
              pc[w] \in Working, UNCHANGED <<queues, run, job>>
       PROVE  OnceInv'
  BY <1>9, <1>11, SealsOnce DEF run
<1>12. ASSUME NEW w \in Workers, NEW p \in Working, pc[w] \in Working, pc' = [pc EXCEPT ![w] = p],
              UNCHANGED <<queues, run, job, shard>>
       PROVE  OnceInv'
  <2>1. invisible' = {} /\ job' = job /\ UNCHANGED <<backend, unsent, queue, phase, sealedAt, shard>>
    BY <1>1, <1>12 DEF queues, run
  <2>2. AtWork(w)
    BY <1>9, <1>12
  <2> QED
    BY <1>12, <2>1, <2>2, MovesOn
<1>13. ASSUME NEW w \in Workers, Extracted(w) \/ Answered(w) PROVE OnceInv'
  BY <1>11, <1>12, <1>13 DEF Extracted, Answered, BeginCall, Working, Outcomes
<1>14. ASSUME NEW w \in Workers, CallFails(w) \/ DirectAnswered(w) \/ Timeout(w) \/ Failing(w) PROVE OnceInv'
  BY <1>11, <1>14 DEF CallFails, DirectAnswered, Timeout, Failing, Busy, Working, Outcomes
<1>15. ASSUME NEW w \in Workers, Ack(w) PROVE OnceInv'
  <2>1. /\ pc' = [pc EXCEPT ![w] = "idle"] /\ job' = [job EXCEPT ![w] = NoDoc]
        /\ UNCHANGED <<backend, unsent, queue, phase, sealedAt, shard>>
        /\ invisible' = invisible \ {job[w]}
    BY <1>15 DEF Ack
  <2>2. invisible' = {} /\ "idle" \notin Working
    BY <1>1, <2>1 DEF Apart, Working
  <2> QED
    BY <2>1, <2>2, MovesOn
<1>16. CASE UNCHANGED vars
  <2>1. \A w : AtWork(w)' <=> AtWork(w)
    BY <1>16 DEF vars, AtWork
  <2> QED
    BY <1>1, <1>16, <2>1 DEF vars, OnceInv, Apart, EachOnce, Fresh, Closed, Has
<1> QED
  BY <1>3, <1>4, <1>5, <1>6, <1>7, <1>8, <1>10, <1>13, <1>14, <1>15, <1>16 DEF Next, Step

\* What is sealed and at most once is sealed once.
LEMMA OnceSuffices == OnceInv /\ Held => SealCoversEveryDocument
<1> SUFFICES ASSUME OnceInv, Held, backend # "sqs", phase = "closed", NEW d \in Docs
             PROVE  VerifyAll /\ Cardinality(SealsOf(d)) = 1
  BY DEF SealCoversEveryDocument, OnceInv, Closed, VerifyAll
<1>1. PICK i \in 1 .. Len(shard) : shard[i].doc = d
  BY DEF OnceInv, Closed, Has
<1>2. SealsOf(d) = {i}
  BY <1>1 DEF SealsOf, OnceInv, EachOnce, Held
<1> QED
  BY <1>2, FS_Singleton DEF OnceInv, Closed, VerifyAll

\* For any number of documents, workers, failures and restarts: a batch that closed on a
\* queue without redelivery has one entry per document, and nothing follows its seal.
THEOREM SealIsWhole == Spec => []SealCoversEveryDocument
<1>1. LossInv => Held
  BY DEF LossInv
<1> QED
  BY <1>1, OnceInit, OnceStep, OnceSuffices, TallyInit, TallyStep, LossInit, LossStep, PTL DEF Spec

\* The batch's ledger is the record of the batch: of what was counted at any time, and of every
\* document when the batch is closed.
THEOREM LedgerTellsTheBatch == Spec => []LedgerIsTheBatch
<1>1. TallyMatchesLedger /\ SealCoversEveryDocument => LedgerIsTheBatch
  BY DEF LedgerIsTheBatch
<1> QED BY <1>1, CountersFollowLedger, SealIsWhole, PTL
=============================================================================
