---------------------------- MODULE BatchIngest ----------------------------
(***************************************************************************)
(* One governed batch of documents: BatchOrchestrator.run_batch, the       *)
(* workers and the queue of IngestService, the batch's ledger shard and    *)
(* its seal in the master chain, and the pooled resolver with its token    *)
(* budget and semaphore.                                                   *)
(*                                                                         *)
(* The workers of the home process are asyncio tasks, so a step runs from  *)
(* one await to the next.  The workers of run_worker.py live in processes  *)
(* of their own: they read the same SQS queue, but have no BatchState, no  *)
(* ledger manager and no resolver.  A shard has one writer object at a     *)
(* time, so it is kept as the sequence of its entries (DecisionLedger is   *)
(* about the chain); an append that raises leaves nothing in it.           *)
(***************************************************************************)
EXTENDS Integers, Sequences, FiniteSets

CONSTANTS Docs, Home, Remote, NoDoc,
          Slots,        \* POOL_MAX_CONCURRENCY
          Limit,        \* BATCH_TOKEN_BUDGET
          MaxCost,      \* bound: tokens one call costs
          MaxFailures,  \* bound: appends, receives, sends and acks that fail, restarts
          MaxRedelivered \* bound: messages SQS delivers again

ASSUME PoolAssumption ==
  /\ Slots \in Nat \ {0} /\ Limit \in Nat \ {0} /\ MaxCost \in Nat
  /\ MaxFailures \in Nat /\ MaxRedelivered \in Nat
  /\ IsFiniteSet(Docs) /\ IsFiniteSet(Home) /\ NoDoc \notin Docs

Workers == Home \cup Remote
Outcomes == {"clean", "resolved_by_llm", "escalated", "failed"}
Busy == {"extract", "waiting", "calling", "direct"}   \* inside wait_for(_process)

VARIABLES
  backend,    \* the queue start() chose
  phase,      \* where run_batch is
  unsent,     \* documents submit_batch still has to send
  queue,      \* documents a worker may receive
  invisible,  \* SQS messages received and not deleted
  pc, job, result, \* each worker's place, document and outcome
  tally,      \* the counters of BatchState; done is their sum
  shard,      \* the batch's ledger: its entries
  sealedAt,   \* batch_entry_count in the master's batch_sealed entry, -1 before
  elsewhere,  \* documents sealed in the ledger of a worker-only node
  spent, permits, pool, \* token budget, semaphore, counters of the PoolRecord
  restarted,  \* the home process was started again while run_batch was polling
  accepted,   \* history: documents the queue took
  failures, redelivered

vars == <<backend, phase, unsent, queue, invisible, pc, job, result, tally, shard,
          sealedAt, elsewhere, spent, permits, pool, restarted, accepted, failures, redelivered>>
queues == <<backend, unsent, queue, invisible, accepted, redelivered>>
pools == <<spent, permits, pool>>
run == <<phase, tally, sealedAt, restarted>>

Entry(event) == [event |-> event, doc |-> NoDoc, state |-> "none"]
SealsOf(d) == {i \in DOMAIN shard : shard[i].doc = d}
In(place) == {w \in Home : pc[w] = place}
Done == tally["clean"] + tally["resolved_by_llm"] + tally["escalated"] + tally["failed"]
MayFail == failures < MaxFailures

\* PooledAgentFactory: a budget, a semaphore and an empty PoolRecord.
NewPool ==
  /\ spent = 0 /\ permits = Slots
  /\ pool = [c \in {"started", "ok", "failed", "in_flight"} |-> 0]

Init ==
  /\ backend \in {"memory", "redis", "sqs"}
  /\ phase = "new" /\ unsent = {} /\ queue = {} /\ invisible = {}
  /\ pc = [w \in Workers |-> "idle"]
  /\ job = [w \in Workers |-> NoDoc]
  /\ result = [w \in Workers |-> "clean"]
  /\ tally = [o \in Outcomes |-> 0]
  /\ shard = <<>> /\ sealedAt = -1 /\ elsewhere = {}
  /\ NewPool
  /\ restarted = FALSE /\ accepted = {}
  /\ failures = 0 /\ redelivered = 0

-----------------------------------------------------------------------------
(* run_batch *)

\* What open_batch and run_batch append before the plan gate's answer takes effect.
Opened == <<Entry("batch_started"), Entry("batch_classified"), Entry("gate_decision")>>

\* seal_batch: the closing entry, then the shard's length rolled into the master.
SealBatch(entries) ==
  /\ shard' = shard \o Append(entries, Entry("batch_completed"))
  /\ sealedAt' = Len(shard')

\* verify_all's comparison of the shard with the master entry (head, digest, count).
VerifyAll == sealedAt = Len(shard)

\* From open_batch to the plan gate and the creation of the BatchState: no await.
\* submit_batch opens the batch again, which appends nothing.
Plan ==
  /\ phase = "new"
  /\ \/ phase' = "sending" /\ unsent' = Docs /\ shard' = shard \o Opened /\ UNCHANGED sealedAt
     \/ phase' = "rejected" /\ SealBatch(Opened) /\ UNCHANGED unsent
  /\ UNCHANGED <<backend, queue, invisible, accepted, redelivered, pc, job, result, tally,
                 elsewhere, pools, restarted, failures>>

\* One document goes to the queue.  An entry SQS rejects is named in a response
\* nobody reads; another error of the queue ends run_batch.
Send(d) ==
  /\ phase = "sending" /\ d \in unsent
  /\ \/ /\ queue' = queue \cup {d} /\ accepted' = accepted \cup {d}
        /\ unsent' = unsent \ {d}
        /\ phase' = IF unsent = {d} THEN "polling" ELSE phase
        /\ UNCHANGED failures
     \/ /\ backend # "memory" /\ MayFail
        /\ failures' = failures + 1
        /\ \/ phase' = "aborted" /\ UNCHANGED unsent
           \/ /\ backend = "sqs" /\ unsent' = unsent \ {d}
              /\ phase' = IF unsent = {d} THEN "polling" ELSE phase
        /\ UNCHANGED <<queue, accepted>>
  /\ UNCHANGED <<backend, invisible, redelivered, pc, job, result, tally, shard, sealedAt,
                 elsewhere, pools, restarted>>

\* Mutant: completion is tested before the last document is counted.
CompleteEarly == Done >= Cardinality(Docs) - 1

\* The "complete" of BatchState.snapshot.
Complete == Done >= Cardinality(Docs)

\* run_batch's poll sees the batch complete: usage, closing entry, master entry.
Close ==
  /\ phase = "polling" /\ ~restarted /\ Complete
  /\ SealBatch(<<Entry("batch_usage")>>)
  /\ phase' = "closed"
  /\ UNCHANGED <<queues, pc, job, result, tally, elsewhere, pools, restarted, failures>>

\* The home process stops while run_batch polls and is started again: nobody polls
\* this batch any more, its BatchState and its resolver are gone, and so is what
\* asyncio.Queue held and what the workers had taken off Redis.
Restart ==
  /\ phase = "polling" /\ ~restarted /\ MayFail
  /\ failures' = failures + 1 /\ restarted' = TRUE
  /\ queue' = IF backend = "memory" THEN {} ELSE queue
  /\ pc' = [w \in Workers |-> IF w \in Home THEN "idle" ELSE pc[w]]
  /\ job' = [w \in Workers |-> IF w \in Home THEN NoDoc ELSE job[w]]
  /\ permits' = Slots
  /\ pool' = [c \in DOMAIN pool |-> 0]
  /\ UNCHANGED <<backend, phase, unsent, invisible, accepted, redelivered, result, tally, shard,
                 sealedAt, elsewhere, spent>>

-----------------------------------------------------------------------------
(* A worker *)

\* Mutant: the message is deleted when it is received.
TakeDeletes(w) ==
  /\ pc[w] = "idle" /\ (w \in Remote => backend = "sqs")
  /\ \E d \in queue :
       /\ queue' = queue \ {d}
       /\ job' = [job EXCEPT ![w] = d]
       /\ pc' = [pc EXCEPT ![w] = "extract"]
  /\ UNCHANGED <<backend, unsent, accepted, redelivered, invisible, run, result, shard, elsewhere,
                 pools, failures>>

\* _next_job returns a document; SQS keeps the message, invisible, until it is deleted.
Take(w) ==
  /\ pc[w] = "idle" /\ (w \in Remote => backend = "sqs")
  /\ \E d \in queue :
       /\ queue' = queue \ {d}
       /\ invisible' = IF backend = "sqs" THEN invisible \cup {d} ELSE invisible
       /\ job' = [job EXCEPT ![w] = d]
       /\ pc' = [pc EXCEPT ![w] = "extract"]
  /\ UNCHANGED <<backend, unsent, accepted, redelivered, run, result, shard, elsewhere, pools, failures>>

\* receive or blpop raises outside any try: the worker's task ends.
ReceiveFails(w) ==
  /\ pc[w] = "idle" /\ backend # "memory" /\ MayFail /\ (w \in Remote => backend = "sqs")
  /\ pc' = [pc EXCEPT ![w] = "dead"]
  /\ failures' = failures + 1
  /\ UNCHANGED <<queues, run, job, result, shard, elsewhere, pools>>

\* _seal: an entry of the shard, or of the node's own ledger, whose record() never raises.
Seal(w, o) ==
  IF w \in Home
  THEN /\ shard' = Append(shard, [event |-> "doc_processed", doc |-> job[w], state |-> o])
       /\ UNCHANGED elsewhere
  ELSE elsewhere' = elsewhere \cup {job[w]} /\ UNCHANGED shard

\* The document ends as o; if the append raises, the worker goes on at onError.
Finish(w, o, onError) ==
  \/ /\ Seal(w, o)
     /\ result' = [result EXCEPT ![w] = o]
     /\ pc' = [pc EXCEPT ![w] = "ack"]
     /\ UNCHANGED failures
  \/ /\ w \in Home /\ MayFail /\ failures' = failures + 1
     /\ pc' = [pc EXCEPT ![w] = onError]
     /\ UNCHANGED <<shard, elsewhere, result>>

HasResolver(w) == w \in Home /\ ~restarted

\* TokenBudget.check raises, _call turns that into "escalate".
BudgetSpent == spent >= Limit

Counted(counters) ==
  pool' = [c \in DOMAIN pool |->
             IF c = "in_flight" /\ c \in counters
             THEN (IF "started" \in counters THEN pool[c] + 1
                   ELSE IF pool[c] = 0 THEN 0 ELSE pool[c] - 1)
             ELSE IF c \in counters THEN pool[c] + 1 ELSE pool[c]]

\* A call begins: the semaphore is taken and call_started counts it.
BeginCall(w) ==
  /\ pc' = [pc EXCEPT ![w] = "calling"]
  /\ permits' = permits - 1
  /\ Counted({"started", "in_flight"})

\* Localising or extracting the document, or writing its output, raises.
ProcessRaises(w) ==
  /\ pc[w] \in {"extract", "direct"}
  /\ pc' = [pc EXCEPT ![w] = "failing"]
  /\ UNCHANGED <<queues, run, job, result, shard, elsewhere, pools, failures>>

\* The extraction thread returned.  Exceptions beyond a row, or too many of them,
\* escalate; row exceptions go to the pooled resolver, or to the model directly.
Extracted(w) ==
  /\ pc[w] = "extract"
  /\ \/ \E o \in {"clean", "escalated"} : Finish(w, o, "failing") /\ UNCHANGED pools
     \/ /\ HasResolver(w) /\ BudgetSpent
        /\ Finish(w, "escalated", "failing") /\ UNCHANGED pools
     \/ /\ HasResolver(w) /\ ~BudgetSpent
        /\ IF permits > 0 /\ In("waiting") = {}
           THEN BeginCall(w) /\ UNCHANGED spent
           ELSE pc' = [pc EXCEPT ![w] = "waiting"] /\ UNCHANGED pools
        /\ UNCHANGED <<result, shard, elsewhere, failures>>
     \/ /\ ~HasResolver(w)
        /\ pc' = [pc EXCEPT ![w] = "direct"]
        /\ UNCHANGED <<result, shard, elsewhere, failures, pools>>
  /\ UNCHANGED <<queues, run, job>>

\* A waiter gets the semaphore.
Acquire(w) ==
  /\ pc[w] = "waiting" /\ permits > 0
  /\ BeginCall(w)
  /\ UNCHANGED <<queues, run, job, result, shard, elsewhere, spent, failures>>

\* The model answered: the semaphore is released, then the tokens are charged.
\* The repairs may be complete, incomplete, or lack a field.
Answered(w) ==
  /\ pc[w] = "calling"
  /\ permits' = permits + 1
  /\ \E cost \in 1 .. MaxCost : spent' = spent + cost
  /\ Counted({"ok", "in_flight"})
  /\ \/ \E o \in {"resolved_by_llm", "escalated"} : Finish(w, o, "failing")
     \/ pc' = [pc EXCEPT ![w] = "failing"] /\ UNCHANGED <<result, shard, elsewhere, failures>>
  /\ UNCHANGED <<queues, run, job>>

\* The pooled call raised: counted as failed, the document escalates.
CallFails(w) ==
  /\ pc[w] = "calling"
  /\ permits' = permits + 1 /\ UNCHANGED spent
  /\ Counted({"failed", "in_flight"})
  /\ Finish(w, "escalated", "failing")
  /\ UNCHANGED <<queues, run, job>>

\* The direct call answered (if it raised: ProcessRaises).
DirectAnswered(w) ==
  /\ pc[w] = "direct"
  /\ \E o \in {"resolved_by_llm", "escalated"} : Finish(w, o, "failing")
  /\ UNCHANGED <<queues, run, job, pools>>

\* Mutants: a cancelled call keeps its permit; the time limit never strikes.
TimeoutLeaks(w) ==
  /\ pc[w] \in Busy
  /\ Finish(w, "escalated", "dead")
  /\ UNCHANGED <<queues, run, job, pools>>
TimeoutNever(w) == FALSE /\ UNCHANGED vars

\* wait_for gives up: _process is cancelled.  Leaving the semaphore's block frees the
\* permit, but call_finished is not reached: in_flight keeps counting the call.
\* The clock of another process makes the limit arbitrary, so it may strike at any await.
Timeout(w) ==
  /\ pc[w] \in Busy
  /\ permits' = IF pc[w] = "calling" THEN permits + 1 ELSE permits
  /\ Finish(w, "escalated", "dead")
  /\ UNCHANGED <<queues, run, job, spent, pool>>

\* The branch for any other exception seals the document as failed; if that raises too,
\* the worker's task ends with the document uncounted.
Failing(w) ==
  /\ pc[w] = "failing"
  /\ Finish(w, "failed", "dead")
  /\ UNCHANGED <<queues, run, job, pools>>

\* The message is deleted, if the delete succeeds, and the outcome is counted where
\* this process holds the batch's state.
Ack(w) ==
  /\ pc[w] = "ack"
  /\ \/ /\ invisible' = invisible \ {job[w]}
        /\ queue' = IF backend = "sqs" THEN queue \ {job[w]} ELSE queue
        /\ UNCHANGED failures
     \/ /\ backend = "sqs" /\ MayFail /\ failures' = failures + 1
        /\ UNCHANGED <<queue, invisible>>
  /\ tally' = IF HasResolver(w) THEN [tally EXCEPT ![result[w]] = @ + 1] ELSE tally
  /\ pc' = [pc EXCEPT ![w] = "idle"] /\ job' = [job EXCEPT ![w] = NoDoc]
  /\ UNCHANGED <<backend, unsent, accepted, redelivered, phase, sealedAt, restarted, result, shard,
                 elsewhere, pools>>

\* SQS makes a message visible again 30 s after it was received.
Redeliver(d) ==
  /\ d \in invisible /\ redelivered < MaxRedelivered
  /\ invisible' = invisible \ {d} /\ queue' = queue \cup {d}
  /\ redelivered' = redelivered + 1
  /\ UNCHANGED <<backend, unsent, accepted, run, pc, job, result, shard, elsewhere, pools, failures>>

\* What a worker does without waiting for anybody else.
Step(w) == Take(w) \/ Timeout(w) \/ Failing(w) \/ Ack(w)

Next ==
  \/ Plan \/ Close \/ Restart
  \/ \E d \in Docs : Send(d) \/ Redeliver(d)
  \/ \E w \in Workers :
       \/ Step(w) \/ ReceiveFails(w) \/ Extracted(w) \/ ProcessRaises(w)
       \/ Acquire(w) \/ Answered(w) \/ CallFails(w) \/ DirectAnswered(w)

\* The event loop runs every task that can go on, and the time limit ends every
\* document; nothing is assumed of the extraction, the model or SQS.
Fairness ==
  /\ WF_vars(Close) /\ WF_vars(\E d \in Docs : Send(d))
  /\ \A w \in Home : WF_vars(Step(w))

Spec == Init /\ [][Next]_vars /\ Fairness

-----------------------------------------------------------------------------
(* Properties *)

\* What the batch's counters say is what its ledger says: per terminal state, the
\* documents counted and those about to be counted are those sealed in the shard,
\* duplicates included (_worker seals before it counts, on every path).
TallyMatchesLedger ==
  ~restarted => \A o \in Outcomes :
    Cardinality({i \in DOMAIN shard : shard[i].state = o})
      = tally[o] + Cardinality({w \in In("ack") : result[w] = o})

\* "Every document terminates in exactly one sealed state": when a batch on a queue
\* without redelivery is sealed, each of its documents has exactly one entry, and the
\* shard still is what the master entry says (verify_all answers OK).
SealCoversEveryDocument ==
  backend # "sqs" /\ phase = "closed" =>
    /\ VerifyAll
    /\ \A d \in Docs : Cardinality(SealsOf(d)) = 1

\* "never silently dropped": a document SQS took is sealed somewhere or still with SQS,
\* whatever workers and processes die; on the other queues only a worker that died or a
\* restart loses one.
NothingLost ==
  \A d \in accepted :
    \/ SealsOf(d) # {} \/ d \in elsewhere \/ d \in queue \cup invisible
    \/ /\ backend # "sqs"
       /\ restarted \/ \E w \in Home : job[w] = d /\ pc[w] # "idle"

\* A call that was cancelled or failed gives its permit back, and the pool's counters
\* never understate the calls that are out.  What the resolver spends beyond its budget is
\* bounded by the calls that passed the check together: one per worker, whatever order
\* they wait, answer and time out in.
PoolAccounts ==
  /\ permits + Cardinality(In("calling")) = Slots
  /\ pool["in_flight"] >= Cardinality(In("calling"))
  /\ pool["started"] = pool["ok"] + pool["failed"] + pool["in_flight"]
  /\ spent <= Limit - 1 + Cardinality(Home) * MaxCost

\* run_batch's loop without a limit ends: on a queue without redelivery every batch is
\* closed unless the process restarts, the sending fails or a worker died.
BatchCloses ==
  phase = "sending" /\ backend # "sqs" ~>
    \/ phase \in {"closed", "aborted"}
    \/ restarted
    \/ \E w \in Home : pc[w] = "dead"

\* The batch's ledger is the record of the batch: of what was counted at any time, and of
\* every document when it is closed.
LedgerIsTheBatch == TallyMatchesLedger /\ SealCoversEveryDocument
=============================================================================
