----------------------------- MODULE RunLedger -----------------------------
(***************************************************************************)
(* The decision ledgers of the runs of one web server: who appends to      *)
(* which ledger, through which DecisionLedger object.                      *)
(*                                                                         *)
(* A run's pipeline thread activates a ledger object of its own and        *)
(* records through it (its context variable).  POST /approve builds        *)
(* another object on the run's file.  A thread outside any run (a chat     *)
(* retrieval) falls back to the object activated last.  An append is one   *)
(* step: the object's lock covers it, and the objects do not share one.    *)
(*                                                                         *)
(* Entries carry, besides the chain, the event and the run and gate it     *)
(* is about.  The seal of an answer may fail, and leave nothing, a part of *)
(* its line or a line without its newline: approve logs the exception and  *)
(* goes on.  The other writes do not fail here; DecisionLedger has that    *)
(* part.                                                                   *)
(***************************************************************************)
EXTENDS LedgerChain

CONSTANTS Runs, Requests,  \* runs of the server; /approve requests that may be in flight
          NoRun,
          MaxNodes,        \* bound: stages of a run, each with two gates
          MaxAnswers,      \* bound: /approve requests on one run
          MaxRetrievals,   \* bound: retrievals sealed into one run's ledger
          MaxFailed,       \* bound: seals of each run that fail
          MaxEntries       \* bound: entries hashed for each run

ASSUME RunAssumption ==
  /\ NoRun \notin Runs
  /\ {MaxNodes, MaxAnswers, MaxRetrievals} \subseteq Nat /\ {MaxFailed, MaxEntries} \subseteq [Runs -> Nat]

VARIABLES
  ledger,        \* each run's decision_ledger.jsonl
  newline,       \* the file ends with a newline
  tail,          \* the cached tail of its pipeline's ledger object
  active,        \* _active
  pc,            \* where its pipeline thread is
  node, pos,     \* the node it runs, and the entry of that node it comes to (see Script)
  had,           \* the answers that the node's gates have had
  approvalEvent, cancelled, \* RunContext
  at, req,       \* where each /approve request is; its run, gate and ledger object
  audit,         \* the decision_ledger part of each audit_log.json
  entries,       \* entries hashed so far for each run
  failed         \* history: seals of each run that raised

thread == <<pc, node, pos, had>>
runFile == <<ledger, newline, entries>>
runVars == <<runFile, tail, active, thread, approvalEvent, cancelled, at, req, audit, failed>>

Gates == 0 .. 2 * MaxNodes

Events == {"work", "gate_presented", "gate_decision", "ui_decision", "rag_retrieval", "run_complete"}
Tail0 == [seq |-> 0, head |-> GENESIS_HASH]
NoAudit == [valid |-> FALSE, head |-> GENESIS_HASH]

RunInit ==
  /\ ledger = [r \in Runs |-> <<>>] /\ newline = [r \in Runs |-> TRUE] /\ tail = [r \in Runs |-> Tail0] /\ active = NoRun
  /\ pc = [r \in Runs |-> "new"] /\ node = [r \in Runs |-> 1] /\ pos = [r \in Runs |-> 0]
  /\ had = [r \in Runs |-> <<>>]
  /\ approvalEvent = [r \in Runs |-> FALSE] /\ cancelled = [r \in Runs |-> FALSE]
  /\ at = [q \in Requests |-> "idle"]
  /\ req = [q \in Requests |-> [run |-> NoRun, gate |-> 0, seq |-> 0, head |-> GENESIS_HASH]]
  /\ audit = [r \in Runs |-> NoAudit]
  /\ entries = [r \in Runs |-> 0] /\ failed = [r \in Runs |-> 0]

\* The entry an object on run r's file, with cached tail t, appends.
Entry(r, t, event, of, g) ==
  LET e == NextEntry(t.seq, t.head, entries[r] + 1)
  IN [parses |-> e.parses, seq |-> e.seq, prev |-> e.prev, hash |-> e.hash,
      event |-> event, of |-> of, gate |-> g]

\* A line written to run r's file, up to its newline or not.
Write(r, line, ends) ==
  /\ entries[r] < MaxEntries[r]
  /\ ledger' = [ledger EXCEPT ![r] = WriteLine(@, newline[r], line)]
  /\ newline' = [newline EXCEPT ![r] = ends]
  /\ entries' = [entries EXCEPT ![r] = @ + 1]

\* An append to run r's file through its pipeline's object.
Record(r, event, of, g) ==
  LET e == Entry(r, tail[r], event, of, g)
  IN /\ Write(r, e, TRUE)
     /\ tail' = [tail EXCEPT ![r] = [seq |-> e.seq, head |-> e.hash]]

Recorded(r, event) == Cardinality({k \in 1 .. Len(ledger[r]) : ledger[r][k].event = event})

-----------------------------------------------------------------------------
(* The pipeline threads *)

\* activate_ledger
Activate(r) ==
  /\ pc[r] = "new"
  /\ active' = r
  /\ tail' = [tail EXCEPT ![r] = LoadTail(ledger[r])]
  /\ pc' = [pc EXCEPT ![r] = "running"]
  /\ UNCHANGED <<runFile, node, pos, had, approvalEvent, cancelled, at, req, audit, failed>>

\* What a stage node records when it runs from its top to its end, with the
\* gate it is about.  A resumed node starts from the top again; before the
\* first node there is run_started.
Script(n) ==
  << [event |-> "gate_presented", gate |-> 2 * n - 1],
     [event |-> "gate_decision",  gate |-> 2 * n - 1],
     [event |-> "work",           gate |-> 0],          \* agent_spawn
     [event |-> "gate_presented", gate |-> 2 * n],
     [event |-> "gate_decision",  gate |-> 2 * n] >>

\* The run's current gate, 0 if it is at none.
GateOf(r) == IF pc[r] = "gate" THEN Script(node[r])[pos[r]].gate ELSE 0

Start(r) ==
  /\ pc[r] = "running" /\ pos[r] = 0
  /\ Record(r, "work", r, 0)
  /\ pos' = [pos EXCEPT ![r] = 1]
  /\ UNCHANGED <<active, pc, node, had, approvalEvent, cancelled, at, req, audit, failed>>

\* _approval_gate up to interrupt(), which suspends the node unless the gate
\* was answered before.
PresentGate(r) ==
  /\ pc[r] = "running" /\ pos[r] \in {1, 4} /\ node[r] <= MaxNodes
  /\ LET gate == Script(node[r])[pos[r]].gate
     IN /\ Record(r, "gate_presented", r, gate)
        /\ IF Len(had[r]) >= (IF pos[r] = 1 THEN 1 ELSE 2)
           THEN pos' = [pos EXCEPT ![r] = @ + 1] /\ UNCHANGED pc
           ELSE pc' = [pc EXCEPT ![r] = "gate"] /\ UNCHANGED pos
  /\ UNCHANGED <<active, node, had, approvalEvent, cancelled, at, req, audit, failed>>

\* The thread is woken and resumes the node with the decision.
Wake(r) ==
  /\ pc[r] = "gate" /\ approvalEvent[r]
  /\ approvalEvent' = [approvalEvent EXCEPT ![r] = FALSE]
  /\ \E verdict \in {"approve", "reject"} :
       /\ cancelled[r] => verdict = "reject"
       /\ had' = [had EXCEPT ![r] = Append(@, verdict)]
  /\ pc' = [pc EXCEPT ![r] = "running"] /\ pos' = [pos EXCEPT ![r] = 1]
  /\ UNCHANGED <<runFile, tail, active, node, cancelled, at, req, audit, failed>>

\* The rest of _approval_gate: gate_decision, then the node goes on, the next
\* one starts or, on a rejection, the run ends (without run_complete).
DecideGate(r) ==
  /\ pc[r] = "running" /\ pos[r] \in {2, 5}
  /\ Record(r, "gate_decision", r, Script(node[r])[pos[r]].gate)
  /\ IF had[r][IF pos[r] = 2 THEN 1 ELSE 2] = "reject"
     THEN pc' = [pc EXCEPT ![r] = "ended"] /\ UNCHANGED <<node, pos, had>>
     ELSE /\ UNCHANGED pc
          /\ IF pos[r] = 2
             THEN pos' = [pos EXCEPT ![r] = 3] /\ UNCHANGED <<node, had>>
             ELSE /\ node' = [node EXCEPT ![r] = @ + 1]
                  /\ pos' = [pos EXCEPT ![r] = 1] /\ had' = [had EXCEPT ![r] = <<>>]
  /\ UNCHANGED <<active, approvalEvent, cancelled, at, req, audit, failed>>

\* AgentFactory.spawn
Spawn(r) ==
  /\ pc[r] = "running" /\ pos[r] = 3
  /\ Record(r, "work", r, 0)
  /\ pos' = [pos EXCEPT ![r] = 4]
  /\ UNCHANGED <<active, pc, node, had, approvalEvent, cancelled, at, req, audit, failed>>

\* write_audit: the closing entry, and the verified head for audit_log.json.
Complete(r) ==
  /\ pc[r] = "running" /\ node[r] > MaxNodes
  /\ Record(r, "run_complete", r, 0)
  /\ audit' = [audit EXCEPT ![r] = [valid |-> VerifyFile(ledger'[r]), head |-> tail'[r].head]]
  /\ pc' = [pc EXCEPT ![r] = "ended"]
  /\ UNCHANGED <<active, node, pos, had, approvalEvent, cancelled, at, req, failed>>

-----------------------------------------------------------------------------
(* Other threads *)

\* Mutant: the decision is passed on first and sealed afterwards.
ApproveOpenDecides(q, r) ==
  /\ at[q] = "idle" /\ pc[r] = "gate" /\ Recorded(r, "ui_decision") < MaxAnswers
  /\ LET t == LoadTail(ledger[r])
     IN req' = [req EXCEPT ![q] = [run |-> r, gate |-> GateOf(r), seq |-> t.seq, head |-> t.head]]
  /\ at' = [at EXCEPT ![q] = "opened"]
  /\ approvalEvent' = [approvalEvent EXCEPT ![r] = TRUE]
  /\ UNCHANGED <<runFile, tail, active, thread, cancelled, audit, failed>>

\* approve, on a gate the user sees: DecisionLedger(ctx.project_dir) ...
ApproveOpen(q, r) ==
  /\ at[q] = "idle" /\ pc[r] = "gate" /\ Recorded(r, "ui_decision") < MaxAnswers
  /\ LET t == LoadTail(ledger[r])
     IN req' = [req EXCEPT ![q] = [run |-> r, gate |-> GateOf(r), seq |-> t.seq, head |-> t.head]]
  /\ at' = [at EXCEPT ![q] = "opened"]
  /\ UNCHANGED <<runFile, tail, active, thread, approvalEvent, cancelled, audit, failed>>

\* The entry of the answer that a request brings.
Answer(q) ==
  Entry(req[q].run, [seq |-> req[q].seq, head |-> req[q].head], "ui_decision", req[q].run, req[q].gate)

\* ... .append("ui_decision") ...
ApproveSeal(q) ==
  /\ at[q] = "opened"
  /\ Write(req[q].run, Answer(q), TRUE)
  /\ at' = [at EXCEPT ![q] = "sealed"]
  /\ UNCHANGED <<tail, active, thread, approvalEvent, cancelled, req, audit, failed>>

\* ... which may raise (a full disk, a field that cannot be encoded) before anything, after a
\* part of the line or after all of it but the newline has reached the file: "ui_decision
\* seal failed" is logged and the request goes on as if it had sealed ...
ApproveSealFails(q) ==
  /\ at[q] = "opened" /\ failed[req[q].run] < MaxFailed[req[q].run]
  /\ \/ UNCHANGED runFile
     \/ Write(req[q].run, Torn(Answer(q)), FALSE)
     \/ Write(req[q].run, Answer(q), FALSE)
  /\ failed' = [failed EXCEPT ![req[q].run] = @ + 1]
  /\ at' = [at EXCEPT ![q] = "sealed"]
  /\ UNCHANGED <<tail, active, thread, approvalEvent, cancelled, req, audit>>

\* ... and set_decision.
ApproveDecide(q) ==
  /\ at[q] = "sealed"
  /\ approvalEvent' = [approvalEvent EXCEPT ![req[q].run] = TRUE]
  /\ at' = [at EXCEPT ![q] = "idle"]
  /\ req' = [req EXCEPT ![q] = [run |-> NoRun, gate |-> 0, seq |-> 0, head |-> GENESIS_HASH]]
  /\ UNCHANGED <<runFile, tail, active, thread, cancelled, audit, failed>>

\* request_cancel, which the ledger hears nothing of.
Cancel(r) ==
  /\ pc[r] \in {"running", "gate"} /\ ~cancelled[r]
  /\ cancelled' = [cancelled EXCEPT ![r] = TRUE]
  /\ approvalEvent' = [approvalEvent EXCEPT ![r] = TRUE]
  /\ UNCHANGED <<runFile, tail, active, thread, at, req, audit, failed>>

\* Mutant: a retrieval outside any run opens the ledger file itself.
RetrieveOpens ==
  /\ active # NoRun /\ Recorded(active, "rag_retrieval") < MaxRetrievals
  /\ Write(active, Entry(active, LoadTail(ledger[active]), "rag_retrieval", NoRun, 0), TRUE)
  /\ UNCHANGED <<tail, active, thread, approvalEvent, cancelled, at, req, audit, failed>>

\* A retrieval outside any run (POST /chat): active_ledger() falls back to
\* _active, whatever became of that run.
Retrieve ==
  /\ active # NoRun /\ Recorded(active, "rag_retrieval") < MaxRetrievals
  /\ Record(active, "rag_retrieval", NoRun, 0)
  /\ UNCHANGED <<active, thread, approvalEvent, cancelled, at, req, audit, failed>>

RunNext ==
  \/ \E r \in Runs : \/ Activate(r) \/ Start(r) \/ PresentGate(r) \/ Wake(r) \/ DecideGate(r)
                     \/ Spawn(r) \/ Complete(r)
                     \/ Cancel(r)
                     \/ \E q \in Requests : ApproveOpen(q, r)
  \/ \E q \in Requests : ApproveSeal(q) \/ ApproveSealFails(q) \/ ApproveDecide(q)
  \/ Retrieve

RunSpec == RunInit /\ [][RunNext]_runVars

-----------------------------------------------------------------------------
(* Properties *)

\* Runs side by side and retrievals outside any run keep every chain whole:
\* the first line that does not verify is a ui_decision or comes after one.
OnlyDecisionsBreak ==
  \A r \in Runs : LET n == Checked(ledger[r]) IN
    n < Len(ledger[r]) => \E k \in 1 .. n + 1 : ledger[r][k].event = "ui_decision"

GatesWith(r, event) == {ledger[r][k].gate : k \in {j \in 1 .. Len(ledger[r]) : ledger[r][j].event = event}}

\* The answers a run's thread has been let past its gates with.
Answers(r) == 2 * (node[r] - 1) + Len(had[r])

\* The answers that can be read in its ledger.
SealedAnswers(r) ==
  Cardinality({k \in 1 .. Len(ledger[r]) : ledger[r][k].event = "ui_decision" /\ ledger[r][k].parses})

\* "Seal WHO decided": approve seals before it wakes the pipeline.  A run that was not
\* cancelled records no gate as decided that it had no answer for, however often a resumed
\* node records again, and for its answers there are as many ui_decision lines that can be
\* read.  What is missing is owed to seals that failed: such a seal costs its own line and
\* at most one more, the line that is glued to what it left.
DecidersSealedFirst ==
  \A r \in Runs : ~cancelled[r] =>
    /\ GatesWith(r, "gate_decision") \subseteq 1 .. Answers(r)
    /\ Answers(r) <= SealedAnswers(r) + 2 * failed[r]

\* approve: "Safe from this thread: the pipeline thread is blocked at the gate,
\* and DecisionLedger reloads the chain tail from disk on init."
ChainVerifies == \A r \in Runs : VerifyFile(ledger[r])

\* write_audit: an audit_log.json that calls its ledger valid is right about
\* the chain up to the head it embeds, and stays so, whatever is appended.
AuditIsRight ==
  \A r \in Runs : audit[r].valid =>
    \E k \in 1 .. Checked(ledger[r]) : ledger[r][k].hash = audit[r].head

\* A run's chain can be relied on: it breaks at the user's answers only, and an audit that
\* calls it valid stays right.
RunChainHolds == OnlyDecisionsBreak /\ AuditIsRight
=============================================================================
