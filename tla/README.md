# PrefectOS in TLA+

PrefectOS runs a staged pipeline of language-model agents whose every stage is
held at two approval gates, keeps a hash-chained ledger of what was decided,
and streams what happens to browsers.  Around that core the repository has a
document data plane (batch ingest, loan documents, e-mail intake), a governance
gateway in front of a bank core, and a web interface.

This directory holds TLA+ modules of the parts in which threads, requests,
processes and restarts meet and of the arithmetic the data plane decides by, the
TLC configurations that check them on small instances, and TLAPS proofs of what
matters most for every value of the constants.  Paths are relative to `src/`.

- [1. The system](#1-the-system)
- [2. The modules and the code](#2-the-modules-and-the-code)
- [3. The runs](#3-the-runs)
- [4. Where the code and its documentation disagree](#4-where-the-code-and-its-documentation-disagree)
- [5. What is proved](#5-what-is-proved)
- [6. What is not modelled](#6-what-is-not-modelled)
- [7. What could follow](#7-what-could-follow)

Run a model with `tlc -workers 2 -config MCApprovalGate.cfg MCApprovalGate`,
check proofs with `tlapm ApprovalGateProofs.tla`.

## 1. The system

### A web run

One process (`server.py`, Flask with a thread per request) serves many runs.
These threads meet in a run:

```
 browser windows                 request threads               pipeline thread
 usePipelineRun.js   POST        /approve /cancel              _run_pipeline
   EventSource ----------------> /pause /resume  --RunContext--> _handle_interrupt
        ^                            |        |                     |  invoke / Command(resume)
        |  GET /stream               | emit   | DecisionLedger      v
        +------ RunEventStore <------+        | (own object)     LangGraph: core/nodes.py
                 |   ^                        v                     |  AgentFactory, AgentRegistry
                 v   +---- emit --------  decision_ledger.jsonl <---+  record() (active ledger)
            events.jsonl                                            v
                                                           launch_generated_app
```

| Component | State | Operations | What is hard | What makes it correct | Module |
|---|---|---|---|---|---|
| Decision ledger, `decision_ledger.py` | `decision_ledger.jsonl`; per object a cached `_seq`, `_head` | `append`, `_load_tail`, `verify_file`; `activate_ledger`, `record`, `active_ledger` | several objects on one file, writes that stop half way (their error is hidden by `record`), no fsync | the chain verifies as long as nobody appended past an object's back; every break is found and stays where it is | `DecisionLedger`, `RunLedger` |
| Approval gates, `server.py` `RunContext`, `_handle_interrupt`, `/approve`, `/cancel`, `/pause`, `/resume` | one approval event, decision and edited text for all gates; cancel event; pause flag and pause gate; status | set and wait, without a lock | an answer is not tied to a gate; every statement of two requests may interleave | a gate ends with the answer given to it; no answer is lost; a cancel wins; a pause holds; a cancelled run ends | `ApprovalGate` |
| Event log, `run_events.py` `RunEventStore` | numbered events in memory (trimmed), subscribers' queues, `events.jsonl` | `emit`, `bind`, `subscribe`, `unsubscribe`, `replay_from_disk` | fan-out and writes outside the lock; events before the file is known; failing writes | no gaps and no duplicates for an attached window; a crash costs only what was in flight | `RunEvents` |
| End of a stream, `_run_pipeline`, `GET /stream`, `usePipelineRun.js` | status, `stream_end`, each window's connection | reconnect with `Last-Event-ID`, 15 s timeout, replay of past runs | the status is set long before the last event; restarts | nobody is told the end of a run that goes on; everybody is told the end of one that is over | `RunStream` |
| Pipeline stages, `core/nodes.py`, `core/graph.py` | `GraphState`, documents in the project directory | seven nodes, each `_check_budget`, gate, agent, gate, result | LangGraph resumes a node from its first line: everything above a gate is done again | only approved stages go on; an edit reaches the state | `AgentPipeline` |
| Agents and registry, `core/agents.py`, `core/registry.py` | `_total_spawned`, one record per agent | `spawn`, `invoke`, `teardown` | an agent may be spawned twice by one stage | never more than `MAX_AGENTS` | `AgentPipeline` |
| Dashboard, `ui/src/hooks/usePipelineRun.js`, `SSERegistry`, run routes of `server.py` | per window the status, stages, agents, dialog and buttons; per run the graph thread | start, adopt, replay, answer, cancel, pause, resume | a window reduces events and its user's own clicks into one picture, in the order they happen to arrive | a window that caught up shows the gate that waits and what the run has come to | `Dashboard` |
| Generated applications, `server.py` | a process and a port per run, `app_pid`, `app_url` | `launch_generated_app`, stop, status | a port taken between the probe and the bind; a zombie looks alive | the link leads to the application of its run | `AppLaunch` |
| Audit, `core/reporting.py` | `audit_log.json` with the ledger's head and verdict | `write_audit` | the head is the object's, the verdict the file's | an audit that calls its ledger valid is right | `RunLedger` |
| Retrieval and chat, `rag_pipeline.py`, `chat_rag.py`, `loan_policy.py` | chunks in memory and on disk, a manifest per policy pack | `retrieve`, `answer`, `ensure_indexed`, `add_chunks` | threads share a store without a lock, processes share its files; a crash between the chunks and the manifest | a search sees what a scan of the pack returns; a retrieval outside a run breaks no chain | `PolicyIndex`, `RunLedger` |
| Command line, `core/cli.py`, `core/projects.py` | project directories | `main`, `run_with_approvals` | one thread, hardly anything | the same gates as the web | - |
| Keys, leads and settings, `server.py`, `institution_settings_api.py`, `access.py` | three JSON files; the role of a key | `create_api_key`, `contact_sales`, `put_settings`, `check`, `resolve` | a list is read, extended and written whole without a lock, a file is empty while it is written, the keys' file is what guards the routes, and a request reloads `.env` | what one request at a time wrote stays; a route with a rule works for those it names | `BackendFiles` |
| Activity ledger, `activity_ledger.py` | one file per key, a line per thing done | `record`, `read`, `days` | a look-up outside the lock; two threads record one run; a torn line | sign-ins are not repeated; a run opens before it closes; a failed write costs one record | `ActivityLog` |

### The document data plane, governance and the rest

```
 mailboxes --poll--> EmailIngestor --> pending store <--> reviewers --> LoanJob thread --> boxes in a tab
                          |                                               |  (events on one queue)
                          v                                               v
                     batch queue (memory, Redis, SQS)            loan_extractors, policy_rules,
                          |                                      RagStore of the policy pack
       workers -----------+--> PooledResolver (budget, permits)
          |
          v
     BatchState, ledger shard --> master chain

 agents --> cbs_gateway --Governor per call--> receipts, autonomy, breaker, packs --> bank_core
 operators, reviewers --> governance_api (another process) --Governor per click--^
```

| Component | State | Operations | What is hard | What makes it correct | Module |
|---|---|---|---|---|---|
| Batch ingest, `batch_ingest/` | a queue (memory, Redis or SQS), `BatchState` counters per batch | `submit_batch`, `_worker`, `_process`, `_seal`, `run_batch` | at-least-once delivery, a time limit whose extraction thread goes on, a seal that raises, nodes that only work | counters agree with the ledger; nothing the queue accepted is dropped; the batch closes | `BatchIngest` |
| Pooled agents, `core/pooled_agents.py`, `core/pool_registry.py` | `TokenBudget`, a semaphore, counters | `acall`, `charge`, `check` | the check precedes the wait for the semaphore | overspending is bounded | `BatchIngest` |
| Batch ledger, `batch_ledger.py` | one chain per batch, a master chain | `open_batch`, `ledger_for`, `seal_batch`, `verify_all` | late documents after the seal | the seal covers every document | `BatchIngest` |
| Governance and gateway, `agent_governance.py`, `governance_api.py`, `cbs_gateway.py` | receipts, autonomy levels, breaker, packs | `authorize`, `record_outcome`, freeze, release, apply, revert, review, `gateway` | a `Governor` per call, which trusts what it read when it was loaded | nothing is forwarded without receipts that allow it; the files follow the receipts | `CbsGateway` |
| Bank cores, `bank_core.py`, `mock_cbs.py` | accounts and postings | `cash`, `transfer`, `open`, `eod` | balance read on one connection and changed on another | the books balance, no account owes more than the core lets through unchecked | `BankCore` |
| E-mail intake, `email_ingest.py`, `email_review.py`, `email_validation.py` | seen and handled files, pending store, audit chain, settings and templates | poll, park, submit, process, rerun, discard, save settings | a crash between two of five writes; two reviewers of one intake | a document is taken once; no mail leaves without a record; every job is on record; the verdict is right | `EmailIntake`, `DocumentRules`, `MailSettings` |
| Loan documents, `loan_processing.py`, `ui/src/loanJobStore.js` | jobs with status and an event queue; a box per tab | start, cancel, stream, snapshot, retention | every stream takes from one queue; jobs are forgotten | a cancelled job stops at a document; the box shows its end | `LoanJobs` |
| Extraction, `loan_extractors.py` | figures of documents | `extract`, `cross_document_checks` | missing figures, several applicants in one folder | what is clean adds up; verdicts rest on the applicant's own papers | `LoanExtractors` |
| Policy rules, `policy_rules.py`, `loan_policy.py` | bands of the bank's policy | `load_rules`, `select_band`, checks | bounds of bands, overlaps, conditions, zero | a check says what the policy's words say | `PolicyRules` |
| Operators' prompts, `loan_processing.py` | one file of texts by type | `save_prompt_overrides`, `prompt_for`, `list_prompts` | saved whole under a lock, read without it | a job takes the text last asked for | `PromptStore` |
| Document autonomy, `data/autonomy.py` | a track record per client and type | promote, demote | imported by nothing | - | - |

`PROJECT.json` lists every component with its status, and under `hazards` each
place where this code can go wrong in a way a test would hardly reach, with the
properties that watch it.

## 2. The modules and the code

| Module | Models | Extends / uses |
|---|---|---|
| `LedgerChain` | the pure part of `decision_ledger.py`: a line, an append, `_load_tail`, `verify_file` | - |
| `DecisionLedger` | `DecisionLedger` objects that share a file | `LedgerChain` |
| `RunLedger` | who appends to which run's ledger, through which object | `LedgerChain` |
| `ApprovalGate` | `RunContext`, `_handle_interrupt`, four request handlers, the windows | - |
| `EventLog` | abstract: a log that grows and readers that come and go | - |
| `RunEvents` | `RunEventStore`; implements `EventLog` | `EventLog` by `INSTANCE` |
| `RunStream` | the end of a run and of its streams, restarts | - |
| `AgentPipeline` | nodes, gates, budget, registry | - |
| `Dashboard` | the events, routes and windows of a web run; implements `AgentPipeline` | `AgentPipeline` |
| `AppLaunch` | launch, stop and link of the generated applications | - |
| `BatchIngest` | a batch: queue, workers, pool, counters, ledger shard and seal | - |
| `BankCore` | accounts and postings of `bank_core.py` | - |
| `CbsGateway` | gateway, governors with their files, operators' clicks | `BankCore` |
| `EmailIntake` | the connector's way of a mail, the pending store, the reviewers | - |
| `MailSettings` | settings of the connector and what may be saved | - |
| `DocumentRules` | the verdict on a mail | `MailSettings` |
| `LoanJobs` | a job's thread, its routes, a tab's box | - |
| `LoanExtractors` | the arithmetic on documents and the criteria that span them | - |
| `PolicyRules` | rules of a policy, bands, the three checks | - |
| `PolicyIndex` | the store of a policy's chunks under threads and processes | - |
| `BackendFiles` | the keys', leads' and settings' files, and who may call what | - |
| `ActivityLog` | the activity ledger of one key | - |
| `PromptStore` | the operators' prompts | - |
| `LedgerProofs` | proofs about `LedgerChain`, `DecisionLedger`, `RunLedger` | both state machines |
| `ApprovalGateProofs`, `BatchIngestProofs` | proofs | the module they are named after |
| `EmailIntakeProofs` | proofs about `EmailIntake` and `DocumentRules` | both |
| `RunEventsProofs` | proofs about `RunEvents`, `EventLog` and `RunStream` | both |
| `DashboardProofs` | proofs about `AgentPipeline`, `Dashboard`, `AppLaunch`, `BackendFiles` | all four |
| `CbsGatewayProofs` | proofs about `CbsGateway`, `BankCore`, `ActivityLog` and `LoanExtractors`, which count with the same sums | all four |
| `LoanProofs` | proofs about `LoanJobs`, `PolicyIndex`, `PromptStore` and `PolicyRules` | all four |
| `MC...` | the instances TLC checks | the modules named in section 3 |

`PROJECT.json` maps every definition to the lines it translates.  In short:

**LedgerChain, DecisionLedger.**  A file is a sequence of lines with `seq`,
`prev` and `hash`; SHA-256 is taken as collision free, so hashes are numbers
that are never reused.  A line that is not JSON has `parses = FALSE`.  `Open` is
the constructor with `_load_tail` (which stops at the first line that does not
parse and keeps what it has read), `AppendEntry` is
`append`, `AppendFails` an `append` whose write raised after part of the line, or
all of it but the newline, was out.  The object's lock makes an append one step.
`PowerLoss` cuts lines off the end: nothing is fsynced.

**RunLedger.**  The same file per run, with the event, run and gate of each
entry.  `Activate` is `activate_ledger`, `Script` is what a stage node records
from its top to its end; a node that is resumed starts its script again
(`Wake`), which is why `gate_presented` and `gate_decision` occur more than once
per gate in real ledgers.  `ApproveOpen`, `ApproveSeal`, `ApproveDecide` are the
three parts of `/approve` that the pipeline can interleave with; `ApproveSealFails` is a
seal that raises, with no line, part of one or one without its newline left behind, and
`/approve` goes on all the same.  `Retrieve` is a
retrieval in a thread that belongs to no run, for which `active_ledger()` falls
back to the ledger activated last.

**ApprovalGate.**  `RunContext` has no lock, so each statement that reads or
writes a shared attribute is an action: the fifteen actions of the pipeline thread from
`invoke` through both holds to the `Command`, four of `/approve` (`emit`,
`set_decision`'s three statements), six of `/cancel`, two each of `/pause` and
`/resume`.  A window (`Dashboards`) gets events, shows a gate and answers it
once; `Operators` are windows that cancel, pause and resume.  What a text says
does not matter, only at which gate it was edited.

**EventLog, RunEvents.**  `Record` is the part of `emit` under the lock; `Put`
tells one subscriber, `Write` appends to the file; `Bind` and `Flush` are the
two halves of `bind`.  A write may fail at any line; the line it leaves without
a newline swallows the next.  `Attach` is `subscribe` with `Last-Event-ID`.  The
refinement maps the log's length to `_seq` and what a reader has behind it to
its resume point and what it received since.

**RunStream.**  Here an emit is one step.  `SetStatus` and `EndStream` are the
two points at which a run ends, with the launch of the generated application
between them; `Timeout` is the 15 seconds after which `generate()` looks at the
status; `AttachPast`, `ReplayOver` and `NotFound` are what a window gets from a
server that was restarted.

**AgentPipeline.**  A node is `CheckBudget`, `AgentFileGate`, `Produce`,
`OutputGate`, `Finish`; `Answer` appends to the answers its interrupts have had
and starts it again from the top.  LangGraph itself is external and modelled
from how `core/graph.py` and `core/nodes.py` use it.  `EditOnDisk` is the user
who edits `plan.md` while the gate waits, which `planner_node` and
`spec_writer_node` read back.

**Dashboard.**  Puts threads, events and windows around those nodes:
`RunGraph`, `Present`, `Wake`, `Resumption` and `Launched` are `_run_pipeline`
and `_handle_interrupt`; `StartRoute` to `Tell` the routes, in two steps where an
event can come in between; `Applied` is the reducer of `usePipelineRun.js`, one
case per event, and `Adopt` the replay a window gets that is opened or reloaded.
`Lose` is a request that does not arrive or whose answer does not.  `seen` is
`seen_stages`, of which the window makes its stage bar.

**AppLaunch.**  `Find`, `Spawn`, `Up`, `NoPort`, `Dead`, `Install` are
`launch_generated_app` with its second attempt; `Bind` and `Crash` are what the
application itself does; `StopApp` and `Poll` the routes and the dashboard's
poll.  A process that ended keeps its pid on POSIX.

**BatchIngest.**  The home process's workers are asyncio tasks, so a step goes
from one await to the next: `Take`, `Extracted` (or `ProcessRaises`), `Acquire`,
`Answered` (or `CallFails`), and `Ack`, with `Seal` before the count on every
path.  `Timeout` cancels a worker wherever it is inside `wait_for`.  `backend`
chooses among the three queues; `Redeliver` belongs to SQS, where `Remote`
workers read too, without `BatchState`, ledger or resolver.  `Close` is
`run_batch` after its polling loop, `Restart` the home process starting again
with nothing but its files.

**BankCore, CbsGateway.**  Every request and click loads a `Governor` (`Load`)
and trusts from then on what it read: `gov` is that copy, `stale` the history of
which files were written from an outdated one.  `Authorize` is the gateway up to
its await of the body; `Forward`, `CorePosts`, `TimesOut` the call to the core, in
which the event loop is held, `Reply` the receipt of the outcome.  `Switch` and
`Review` are the operators' and reviewers' routes.  A posting is checked in one
step and made in another, as on two connections.  The body of a request is forwarded
unread, so an amount may have any sign and cash any kind (`"other"`); `start` is what an account
was opened with, which has no row in `transactions` if it is negative.

**EmailIntake.**  One connector handles a mail in the writes it makes, each an
action: `Fetch`, `Park` or `Submit`, `SaveSeen`, `SealTaken`, `MarkHandled`,
`Move` (a copy that the server refuses removes the mail all the same, one that raises does
not); `Crash` comes between any two and forgets all but the files, `PollFails`
(an error that `poll_once` catches) forgets nothing, so that memory is ahead of the
files.  Reviewers take an intake through `Check`, `Post`, `Processed`, or `Rerun` and
`Discard`, each having read the manifest before; the loan engine's jobs and the
batches released to the ingest queue are one kind of job.

**MailSettings, DocumentRules.**  `Savable` is what the settings page accepts,
`Loads` what the connector accepts, which is not the same.  `Classify` is the
matching of a document against the templates, `Detected` the choice of the
product, `Verdicts` the whole of `validate_message` (with the one choice that
depends on the order of a set) given what was taken before (`seenBefore`),
`Judge` a mail judged behind those before it.  `Apart` says of a mail that no two of its
files have one name, which the verdict relies on (section 4).

**LoanJobs.**  The thread in its two modes: `Parse`, `Resolve` and the facts'
report, or `Read`, `Ask` and the findings' report, with the checks for a cancel
where the code has them (`SeesCancel`).  `Steal` is a stream of a tab that is
gone, which takes events until a write fails.  The box is
`loanJobStore.js`: `Process`, `Attach`, `Started`, `Refused`, `Resumed`, `Gone`,
`Deliver`, `StreamTimesOut`, `Break`, `Reload`, `Snapshot`.

**LoanExtractors, PolicyRules.**  Pure functions, checked over sets of inputs.
A document is read into figures (small whole numbers, so that the code's
tolerances are zero), missing ones included; each parser is the set of reasons
why the document does not reconcile.  Where the code asks `if emi`, a figure of zero counts as
missing (`Given`).  Documents of a folder are known by their
place in it.  `Joins` says to whom the papers under a key belong in the end, as
`group_by_applicant` has it, `Bundle` which papers one applicant has, and `Rank` in which order the criteria
meet them: papers under the applicant's own key come first, except that with a single applicant the
order is the folder's.  The ratio of an instalment to the pay is
compared as the code's division has it, also for a negative pay (`AtMost`).  A line of a policy is
the band it names; `Select` is `select_band` with its tie-breaks, where all bands
without an upper bound are as wide as each other (`Width`); `Merge` looks an applicant's figures up by
file name, as `facts_from_fact_sheet` does, so that of several papers of one name the last answers
for all (`Namesakes`).  The properties compare with a
reference definition: sums from the first row to the last, and what the words of
a line say.

**PolicyIndex.**  `Signature`, `Compare`, `ReadFile`, `AddChunk`, `Flush`, `WriteManifest`
and `Search` are `ensure_indexed` and a search in one thread; threads of a
process share `memory`, processes share `rows` and the manifest.  The signature is of all `Files`,
what is read are those that `scan_documents` returns (`Scanned`).  A chunk is in memory before its line
leaves the buffer: `AddChunk` and `Flush` are two steps, and another thread may search between them.
`Edit` changes the operator's folder; `OpenFails`, `FlushFails` and `Restart` are the faults.

**BackendFiles.**  A request is `Arrive`, `Guard` (`access.check`, before every
request), `Identify` (`_identity_for` of the settings), `Begin`, `ReadList`, `Open`,
which empties the file, `Dump`, which writes the list that was read with its new entry
behind, and for a lead `LogMail`.  `Dump` of two writers at a time may leave a text nobody can
parse.  The keys' file begins as the repository has it (`Shipped`), with the demo's keys among the
issued ones.  Each of the two processes (`server.py`, and `batch_api.py` with the settings) has the variables
of its own environment, and the `Begin` of a contact lets `.env` override the server's (`Override`).
`Resolve` is the role of a key as the file and the environment tell it, `Holder` as it was
issued, by a register that no file can lose.  `Revoke` is the operator who marks an entry in the file;
a creation that had read the list before writes over the mark, which `undone` remembers.
`kept` is what the file owes: the entries written since two requests last wrote it at a time or
a write failed.  `DumpFails` is a full disk or the end of the process, `Expire` a date that passes.

**ActivityLog.**  `Record` takes the time, `Check` is `_recent_login` outside the
lock, `AppendLine` the write under it; `StartRun` and `CloseRun` are the two ends of
a run, which the request and the run's thread record.  `AppendFails` may leave part of a line,
on which the next record goes on.

**PromptStore.**  `Acquire` takes the lock, reads the file and merges the body into
it (`Merged`), `Truncate` and `WritePrompts` are the two halves of `write_text`; readers
come at any time.

## 3. The runs

| Run | Instance | States | Properties |
|---|---|---|---|
| `ledgers` | three objects, five hashed entries; one run to its end (15 entries) beside one of 2 entries, one request in flight, 2 answers, one seal that fails, 1 retrieval | 2 755 000 | `VerifyTellsTheTruth`, `RunChainHolds`, `DecidersSealedFirst` |
| `approval_gate` | 3 gates (the second an output gate), one answering window, two operators, 3 requests | 851 000 | `HonoursTheAnswer`, `NoAnswerLost`, `CancelWins`, `PauseHolds`, `CancelEndsUnlessPaused` |
| `run_events` | two emitters, two windows, buffer of 2, 3 events, 2 attaches | 632 000 | `ExactlyOnce`, `CrashLosesOnlyInFlight`, `ImplementsLog` |
| `run_stream` | two windows, 4 events, 2 drops or reloads, a restart | 304 000 | `NoEndBeforeTheResult`, `EveryStreamEnds` |
| `agent_pipeline` | six stages, two possible outputs per model call, budget 10, two windows that run at most 2 events behind and act twice beside answering; three applications, two on one port | 3 863 000 | `EditReachesTheState`, `EveryGateWasGranted`, `WindowShowsTheRun`, `LinksLeadHome` |
| `batch_ingest` | two documents on each of three queues, two workers at home and one elsewhere, one permit, a budget of one token, one failure or restart, one redelivery | 755 000 | `LedgerIsTheBatch`, `NothingLost`, `PoolAccounts`, `BatchCloses` |
| `cbs_gateway` | one agent promoted on the way, two requests (payment, cash of an unknown kind, end of day, opening with a positive or a negative deposit), two clicks, three accounts | 6 357 000 | `OnlyGovernedCallsReachTheCore`, `ChainBreaksByOverlap`, `FilesFollowReceipts`, `NoOverdraft`, `BooksBalance` |
| `email_intake` | two mails that share a document and two file names that collide, two mailboxes, two reviewers, one crash, error or lost answer, two jobs; two messages of a catalogue judged, of up to five documents, one save of settings or templates | 4 191 000 | `TakenOnce`, `NoMailDropped`, `JobsAreOnRecord`, `VerdictIsRight` |
| `loan_jobs` | two jobs of one document, one of each mode, one retained, two reloads, breaks or cancels; all folders of one document over a small grid of figures, of two and three out of eleven papers, and of four with co-borrowers; a grid of policies with a grid of sheets of figures; an index of one scanned file and one beyond the scan, with three threads in two processes, one edit, one fault | 1 845 000 | `BoxTellsTheTruth`, `CancelStopsTheCalls`, `RunIsNotLost`, `ChecksAreRight`, `SearchCoversPack`, `ReportIsEarned` |
| `backend_files` | two requests at a time and three in all, the demo's key and two that may be issued, one revocation, two environments and two texts of `.env`; two handlers and one run, three minutes, three lines; two operators, three saves of two types; one fault each | 3 284 000 | `AnsweredIsStored`, `OnlyTheEntitled`, `ActivityIsTold`, `PromptsAreAsAsked` |

Two more runs look for a counterexample and find it; see the next section.
A property that is the conjunction of several (`VerifyTellsTheTruth`, `RunChainHolds`,
`LedgerIsTheBatch`, `WindowShowsTheRun`, `ReportIsEarned`, `ActivityIsTold`) says one thing in
parts that are named and explained in its module.
Every property of a passing run has a mutant of the code (`PROJECT.json`,
`mutants`) that violates it.  `ledgers`, `agent_pipeline`, `email_intake`, `loan_jobs`
and `backend_files` each hold models that do not share state: while one moves, the others stay in
their initial state, so that their states add up and do not multiply.

**What they show.**
A ledger that is used by one object at a time survives failed sessions, full
disks that leave whole lines, and power losses; any other use is found by
`verify_file`, unless the lines that show it are lost (a file cut at a line
boundary verifies: the chain has no end mark).  With one window answering, gates
get their own answers, whatever is cancelled, paused and resumed meanwhile.
The event store is a log for whoever stays attached.  Every window learns the end of a run.
Runs side by side do not disturb each other's chains; only `/approve` does.  No
later stage starts that the user has not let start, and the windows show it as it
is once they have caught up, except for what section 4 lists.
A gate is decided on what its ledger says of who decided it, or a seal failed.
A batch's counters say what its ledger says, also with duplicates; nothing a
queue took is dropped except by a worker that died of a failing seal; the
resolver overspends by one call per worker at most.
Nothing reaches the core that the chain of receipts does not answer for, even
though each call trusts its own copy of the files; what overlapping calls cost is the
chain's verification and the last write of a file, and nothing else.  Until a forward
times out, when the core still works while the gateway goes on, an account owes no
more than what the core moves without a look at the funds: a negative initial deposit, and
cash of a kind it does not know.  However that may be, balances are what the rows say was moved.
Of a mail that is crashed upon, documents are taken once more at most; what is known of a mail whose
copy the server refused is a line in the audit, and its documents if they were accepted.  A box shows the end of its job unless another stream took the event.
Documents called clean add up, policies are applied as they read away from
the bounds of their bands to applicants whose papers have names of their own, and a search misses a file of
the scan only through a fault.
The files that the web backend writes without a lock keep what was written as long
as one request at a time writes them; two at a time lose an entry, or all of them.  Nobody
works with a role that was never his; but a key in the demo table or the environment has its role there
whenever the file does not show it, also after its revocation.  The ledger of a key is short of one
record per failed write; and saves of prompts do not disturb each other.

**Bounds.**  Three ledger objects are the pipeline's and two requests': with two
of them one may overtake the other, with the third a new one loads a broken
file.  Five entries leave room for a break, appends behind it by both and a
reload.  Three gates let an answer outlive the gate after its own; three
requests allow a pause, a resume and a cancel in every order.  A buffer of 2 with
3 events is trimmed while a window lags; two attaches are a reconnect, or two
windows at once.  One stage has both kinds of gate, and its second run repeats the ledger
entries of the first; the second run of the server only needs to be activated
and write while the first is at work.  A node's budget, stages and gates have no
bound; two windows are needed for a stray answer, and a lag of two events
lets a click come between what a gate emits.  Two applications on one port and one on
another are all that the port check can tell apart.
Two documents and two workers make one wait for the permit while the other
spends the budget of one token; the third worker is the node that only works.
Two requests and two clicks overlap in every order, thresholds of 1 and 2 let an
agent rise on the way; three accounts are a savings account, a current account
and one that is opened.  Two mails that share a document show a double submission,
two reviewers a double job.  Jobs of one document have every step of a longer
one, as each step looks at one document; the second job evicts the first.
Two requests lose each other's entry, the third reads what they left, or comes with the key that was revoked;
the key that is revoked or shipped is the demo administrator's, which has most to lose; keys and threads
that are alike are permuted by `SYMMETRY` (`Alike`), which is sound as no action or property
names one.

**Deadlock.**  It is switched off, as every one of these systems may stop: a run ends,
nobody has to answer a gate, all streams end, the bounded supply of events,
retrievals, mails, calls, jobs, requests or saves is used up.

**Fairness.**  `ApprovalGate`: the pipeline thread and the request threads are
threads of the operating system and run when they can; a model call returns or
raises (the client library has a time limit).  No fairness is assumed of any
user.  `RunEvents`: the emitters get on with an emit they have begun, the
pipeline thread binds, and a window that stays connected reads its stream.
`RunStream`: `EventSource` reconnects by itself, and a stream has something to
send or times out.  `BatchIngest`: the event loop runs the tasks of the home
process (workers, sending, `run_batch`), each of which has a time limit or a
client with one; nothing is assumed of nodes elsewhere or of SQS.  `LoanJobs`: a
job's thread works, the routes answer, and the browser follows its stream.  All
others: safety only.

## 4. Where the code and its documentation disagree

Two disagreements have a run of their own, in which TLC finds the behaviour.

| Run | Property | What happens |
|---|---|---|
| `run_ledger_chain` | `ChainVerifies` | `/approve` appends through an object of its own, the pipeline goes on from its cached tail: one approved gate forks the chain.  (`server.py:1225`; the comment at 1221 calls it safe) |
| `loan_checks_unverified` | `UnverifiedIsNeverMet` | "reconciles to its stated totals" is met whenever the statement is clean, and one that states no totals is clean.  (`loan_extractors.py:561`; the docstring at 468) |

Met while modelling, and part of the models, without a run of their own.

*Gates and runs*

- Two windows show one gate.  The first answer is taken; the second sets
  `approval_event` again, and the next gate's `wait()` returns at once with it: a
  gate nobody has seen is decided (`server.py:156`; README.md:12).
  `HonoursTheAnswer` has one answering window, `DialogIsTheGate` is about runs
  without such a stray answer.
- `/pause` is refused for finished and paused runs, not for cancelled ones; one
  that comes just after `/cancel` holds the thread at `wait_if_paused` for good
  (`server.py:1472`; 166, 173).
- `_paused` and `_pause_gate` are written in two steps, so a pause and a resume
  at the same time can leave the flag and the gate in disagreement
  (`server.py:183`).
- When a rejection and an approval of one gate meet, the later of the two
  `set_decision`s counts, whatever was acknowledged.
- A resumed node calls its model again, so the hash that `gate_decision` seals is
  that of a text produced after the approval (`core/nodes.py:132`;
  `decision_ledger.py:12`).
- A stage spawns its agent once before its output gate is answered and once
  after.  With a codebase five stages use all 10 slots and the tester has none
  (`core/agents.py:123`; README.md:90).
- The comprehension's gate accepts an edited document and `comprehender_node`
  drops it (`core/nodes.py:252`); `EditReachesTheState` is about plan and spec.
- A plan edited on disk while its gate is open is overwritten by the second
  model call before it is read back (`core/nodes.py:297`).
- `AgentRegistry._get` finds the first record of an agent that was spawned
  twice; the second stays PENDING (`core/registry.py:115`).
- A ledger cut at a line boundary verifies (`BrokenIsDetected` needs `~lost`).
- `/approve` seals "WHO decided" into the chain (`server.py:1219`), but an exception of the seal is only
  logged (1234); the gate is decided all the same (1254), and its ledger has a `gate_decision` with no
  `ui_decision`.  `DecidersSealedFirst` counts what each such failure may cost.
- A chat question is sealed into the ledger of the run activated last
  (`decision_ledger.py:197`); a cancelled gate is there as a rejection that no
  `ui_decision` explains (`DecidersSealedFirst` excludes cancelled runs).

*Events, streams and windows*

- The status is set before the application is launched; a stream that is silent
  for 15 seconds meanwhile is closed as drained and never gets `app_launched`
  (`server.py:599`; 1119).
- An event that was overtaken by a later one on its way to a window is skipped
  if the window reconnects between them (`run_events.py:81`); `ExactlyOnce` is
  about one connection for this reason.
- `bind` may write its backlog after an event that followed it
  (`run_events.py:68`), so the lines of `events.jsonl` need not be in order.
- Events that requests emit after `stream_end` are not shown by a replay, and
  `app_stopped` after it reaches no other window.
- A cancel does not announce the end of the gate that waits: the dialog stays
  open in every window and in replays, although the comment at `server.py:1236`
  says that a replayed run shows decided gates as closed.  A click on such a dialog
  sets the ended run to "running" and appends to its ledger.
- `approval_decided` may come after the completion, and a replay then shows the
  run as running; a rejected run leaves its stage "active"; `budgetUsed` is reset
  to the number of stages seen; pause and resume events may cross.
- A lost answer to `POST /run` leaves the window "failed" while the run goes on;
  a window that was open before a run started learns of it on reload.
- A crashed application is not noticed on POSIX, as its pid stays; its link may
  lead to another run's application.  The port check races with the bind and is
  not repeated on the second attempt, against the comment at `server.py:442`.

*Data plane*

- SQS completes a batch early when messages come twice; the answer of
  `send_message_batch` is not read (`queue_sqs.py:53`); nothing calls `drain_dlq`.
- The seal of a `Governor`'s file and of the chain is last-writer-wins: a receipt
  behind a stale head breaks the chain, a promotion may undo an incident.  The
  call budget is counted per `Governor`, of which a call has one of its own, so it is
  never reached (`agent_governance.py:361`).
- `gateway` forwards the body of a request unread (`cbs_gateway.py:117`).  `cash` looks for funds if
  `kind` is `WITHDRAW` and debits for every kind but `DEPOSIT` (`bank_core.py:139`, 141), so that cash of
  another kind is paid out unchecked; `open_account` takes a negative initial deposit, which sets the
  balance and writes no row (94-97), and the portal's field has no minimum (`cbs_portal.html:114`, 267).
  `NoOverdraft` says that nothing else overdraws an account; `BooksBalance` counts from what it was opened with.
- Two attachments of one name overwrite each other in the pending store; the
  seen set has both.
- `_move` says "never lose mail" (`email_ingest.py:743`) and guards against exceptions only.  A `COPY`
  that the server answers with `NO` raises none; the mail is then marked deleted and expunged, and there is
  no copy.  What remains is its line in the audit and, if its documents were accepted, those (`NoMailDropped`).
- `put_settings` saves `oauth_microsoft` at the top level without its ids
  (`email_review.py:520`); `default_mailbox` then raises and nothing is polled.  The
  notes at 527 and 597 say the connector applies changes on its next poll; with
  `--poll` it loads its settings once (`email_ingest.py:938`).
- `detect_product` keys the types it has found by file name (`email_ingest.py:457`), so of two
  files of one name only the last counts.  A complete home-loan pack (form, PAN, slip, deed) with a KYC
  form named like the application form is then taken for `kyc`, although the largest complete set is
  to win (docstring, 370-374).  TLC shows it when `VerdictIsRight` is asked of mails that are not `Apart`.
- The stream of a reloaded tab takes events from the queue of the new one, so a
  box may stay "running" after its job's end; its processor is shown alive after
  a cancel (`server.py:2020`).
- `documents/<stem>.json` collide for documents of one stem.
- An amount at the very bound of "above X" counts as above (`policy_rules.py:207`),
  and bands meet there; the header (25-28) tells it otherwise than `select_band`
  does.  An interest-free schedule has none of its rows checked, as a rate of 0 counts as none.
  Where papers contradict each other, the order of the upload decides with one applicant, and
  the papers with his own number come first with several (`loan_extractors.py:474`).  `sources_settled` passes over a document for all rules and applicants once
  one check from it is decided, against its docstring.  A figure of 0 in an
  earlier document shadows later ones; the last document of a type wins.
- "Narrowest wins - "above Rs 1,00,000" should not beat "50,001 to 1,00,000"" (`policy_rules.py:212`): among bands
  without an upper bound all are infinitely wide, so the first in the text wins, be it "above 0"; and at
  its own bound a narrower band that begins there does beat the one that ends there.
- `facts_from_fact_sheet` finds an applicant's figures by file name (`policy_rules.py:323`, 332), while folders are
  scanned recursively: papers of one name in two subfolders give one applicant the other's figures.
  `ChecksAreRight` is about applicants whose papers share no name.  Policy documents of one name are likewise passed
  over together (`loan_policy.py:288`).
- A minus before a net pay or an instalment is read as its sign (`loan_extractors.py:29`); a negative net pay makes a
  negative ratio, which is "at or below 50%" (506-509) and met.
- `scan_documents` returns the first 200 files of a policy pack (`loan_processing.py:327`); the signature covers all
  (`loan_policy.py:115`), so the others are never searched and neither `files_failed` nor `files_skipped`
  names them.
- A file's version in the policy index is its name, size and second of change; chunks that
  were superseded stay; a chunk may be added while another thread retrieves; what the command
  line indexes, a running server does not see.
- `create_api_key` and `contact_sales` read, extend and write their files without a lock,
  so two requests can lose an entry, one that reads while the file is empty begins a new
  list, and one that had read the list before the operator revoked a key in it writes the key back as active
  (`AnsweredIsStored` is about what was written since two requests last overlapped or a write failed).  While the
  file is torn, an issued key is an unknown one; where the environment sets no keys, the settings' routes take every
  unknown key for a licensee's (`institution_settings_api.py:57`).
- "Built-in demo keys, only while PREFECTOS_API_KEYS is unset" (`access.py:17`; `tests/test_access.py:114`): the
  repository's `data/api_keys.json` lists the demo's keys as issued and active, and issued keys are looked at first
  (`access.py:131`), so they work whatever the environment says.  The test points `PREFECTOS_KEYS_PATH` elsewhere.
- "An expired/revoked key is anonymous" (`access.py:18`): a demo key whose entry is marked revoked has its role
  again, where the environment sets no keys, while the file is empty under another creation, or once the entry was lost
  (`access.py:106`, 149).  `OnlyTheEntitled` names this case.
- `contact_sales`, a route without a rule, reloads `.env` with `override=True` (`server.py:809`) "for fresh SMTP
  settings"; the switch that enforces roles and the environment's keys change with it, in this process only.
- `create_api_key` writes `data/api_keys.json` (`server.py:954`) also where `PREFECTOS_KEYS_PATH` names
  another file to `access.py` (88); the key it answers with is then never recognised.
- A request for contact is answered with "Autonomous email immediately sent" also when no
  mail went out, which is then in a log that nothing reads (`server.py:878`).
- `api.py` does not start: it imports a module `orchestrator` that does not exist.

## 5. What is proved

TLAPS proves, for every value of the constants that satisfies the stated
assumptions:

| Theorem | Says |
|---|---|
| `LedgerProofs!ChainIntact` | `Spec => [](IntactUnlessBroken /\ CacheIsTail)`: any number of objects, appends, failed writes and power losses |
| `LedgerProofs!BreaksAreFound` | `Spec => []BrokenIsDetected`: whatever is appended behind a break |
| `LedgerProofs!VerifyIsRight` | so `Spec => []VerifyTellsTheTruth` |
| `LedgerProofs!TypeCorrect` | the type invariant |
| `LedgerProofs!AnswersAloneBreak` | `RunSpec => []OnlyDecisionsBreak`: any number of runs, stages, requests and retrievals |
| `LedgerProofs!DecidersAreSealed` | `RunSpec => []DecidersSealedFirst`: any number of seals that fail |
| `LedgerProofs!AuditsAreRight` | `RunSpec => []AuditIsRight` |
| `LedgerProofs!RunChainsHold` | so `RunSpec => []RunChainHolds` |
| `ApprovalGateProofs!AnswersWake` | `Spec => []NoAnswerLost`: any number of gates, windows and requests |
| `ApprovalGateProofs!CancelStopsTheRun` | `Spec => []CancelWins` |
| `ApprovalGateProofs!PausesHold` | `Spec => []PauseHolds` |
| `ApprovalGateProofs!OwnAnswer` | `Dashboards = {D}` for some `D` implies `Spec => []HonoursTheAnswer`: one window answers, any number cancel, pause and resume |
| `ApprovalGateProofs!OnlyPresentedGates` | no window shows and no request carries a gate that was not presented |
| `ApprovalGateProofs!TypeCorrect` | the type invariant |
| `DashboardProofs!GatesGranted` | `Spec => []EveryGateWasGranted`: any budget, with and without a codebase |
| `DashboardProofs!EditKept` | `Spec => []EditReachesTheState`: any outputs of the model |
| `DashboardProofs!BudgetKept` | `Spec => [](BudgetRespected /\ CheckedInTime)`: never more agents than `MAX_AGENTS`, and no stage is refused one between its gates |
| `DashboardProofs!TypeCorrect` | the type invariant |
| `DashboardProofs!WebRunIsARun` | `DashSpec => Spec`: a web run, with any number of windows, is a run of the stage nodes |
| `DashboardProofs!WebRunIsGoverned` | so the properties of the nodes hold of every web run |
| `DashboardProofs!WindowsShowTheRun` | `DashSpec => []WindowShowsTheRun`: any windows, clicks, lost requests, reloads and events behind |
| `DashboardProofs!EveryLinkLeadsHome` | `AppSpec => []LinksLeadHome`: any runs, ports and windows |
| `DashboardProofs!RolesAreChecked` | `BackendSpec => OnlyTheEntitled`: any requests, shipped and issued keys, revocations, environments and `.env` files |
| `DashboardProofs!StoredAsAnswered` | `BackendSpec => []AnsweredIsStored` |
| `RunEventsProofs!EachEventOnce` | `Spec => []ExactlyOnce`: any number of emitters, windows and events, any buffer |
| `RunEventsProofs!OnlyInFlightIsLost` | `Spec => []CrashLosesOnlyInFlight` |
| `RunEventsProofs!StoreIsTheLog` | `Spec => Log!Safety`: the store implements the abstract log |
| `RunEventsProofs!EndAfterTheResult` | `StreamSpec => []NoEndBeforeTheResult`: any number of windows, drops and events |
| `BatchIngestProofs!NeverDropped` | `Spec => []NothingLost`: any documents, workers, failures, redeliveries |
| `BatchIngestProofs!CountersFollowLedger` | `Spec => []TallyMatchesLedger` |
| `BatchIngestProofs!SealIsWhole` | `Spec => []SealCoversEveryDocument`: any documents, workers, failures |
| `BatchIngestProofs!LedgerTellsTheBatch` | so `Spec => []LedgerIsTheBatch` |
| `BatchIngestProofs!PoolHolds` | `Spec => []PoolAccounts`: any number of workers, permits and tokens |
| `CbsGatewayProofs!OnlyGoverned` | `Spec => []OnlyGovernedCallsReachTheCore`: any policy, packs, thresholds, requests and clicks |
| `CbsGatewayProofs!BreaksByOverlap` | `Spec => []ChainBreaksByOverlap` |
| `CbsGatewayProofs!FilesFollow` | `Spec => []FilesFollowReceipts`: any overlap of requests and clicks |
| `CbsGatewayProofs!NeverOverdrawn` | `Spec => []NoOverdraft`: any accounts, balances, and amounts of either sign |
| `CbsGatewayProofs!BooksAlwaysBalance` | `Spec => []BooksBalance`: any accounts, any number of postings, any deposits to begin with |
| `CbsGatewayProofs!ActivityIsToldAlways` | `ActSpec => []ActivityIsTold`: any handlers, runs, times, failing writes and limits of the screen |
| `CbsGatewayProofs!ReportIsEarnedAlways` | `ExtractSpec => []ReportIsEarned`: any folders, of any length, and figures of either sign |
| `EmailIntakeProofs!DocumentsTakenOnce` | `Spec => []TakenOnce`: any mails, mailboxes, crashes, errors and lost answers |
| `EmailIntakeProofs!MailsAreKept` | `Spec => []NoMailDropped` |
| `EmailIntakeProofs!EveryJobOnRecord` | `Spec => []JobsAreOnRecord`: any number of reviewers |
| `EmailIntakeProofs!VerdictsAreRight` | `RulesSpec => []VerdictIsRight`: any templates, sets, settings, mails and documents taken before |
| `LoanProofs!SearchCovers` | `IndexSpec => []SearchCoversPack`: any files, any part of them scanned, threads, processes, edits and faults |
| `LoanProofs!CancelStops` | `Spec => []CancelStopsTheCalls`: any number of jobs and documents |
| `LoanProofs!BoxIsTrue` | `Spec => []BoxTellsTheTruth`: any reloads, breaks and snapshots |
| `LoanProofs!PromptsAreKept` | `PromptSpec => []PromptsAreAsAsked`: any types, texts, operators, failed saves and restarts |
| `LoanProofs!ChecksAreRightAlways` | `PolicySpec => []ChecksAreRight`: any policies, bands, applicants and figures |

**Assumptions.**  Each module names its own: `BoundAssumption`, `RunAssumption`,
`GateAssumption`, `PipelineAssumption`, `EventAssumption`, `StreamAssumption`,
`PoolAssumption` (documents and home workers are finite sets), `BankAssumption`,
`GovernanceAssumption` (requests are not clicks, a request body has an action
and no `id`), `OpsAssumption`, `IntakeAssumption`, `IndexAssumption`, `LoanAssumption`,
`BackendAssumption`, `PromptAssumption`, `RulesAssumption` (sets of documents are finite,
"no product" is no product), `PolicyAssumption`, `ActivityAssumption` (the threads
of runs are not those of requests), `ExtractAssumption`.
They type the constants and keep distinct things apart; the bounds are arbitrary
numbers, so they do not weaken the theorems.  Two say more.  By `ExtractAssumption` a person's
name is no account number and nobody is called "unidentified", both of which are keys of one
dictionary in `group_by_applicant`, and a salary slip carries no account number; figures may have any sign.
By `BackendAssumption` the file that is shipped lists no key twice, and a key that is issued (64 random bits) is new.
`OpsAssumption` says which end of a posting is outside the bank, by its kind, and nothing of amounts.

**The ledger.**  `IntactUnlessBroken` is not inductive: that an append keeps the
chain depends on what the object has cached.  The invariant (`ChainInv`) adds
`CacheIsTail`, that an up-to-date object caches exactly the last line, and the
types.  `AppendEntry` then extends a verified
chain by a line that links; `AppendFails` either damages (and then `broken`
holds) or leaves a whole line, of which all objects but a new one are ignorant,
hence `overtaken`; `PowerLoss` leaves a prefix, and a prefix of a chain is a
chain.  Facts about `LoadTail`, `WriteLine` and `VerifyFile` are lemmas; the
prefix operators count with `Cardinality`, not recursively, to be within reach
of the provers.
*A break stays visible.*  A hash is given once (`Hashes`), so a cache that was
overtaken can never again name the last line.  `Visible` says so of every file that
still verifies: it has no break yet, and no overtaken object would link to its end.
A file that verifies after an append verified before it and the new line links
(`VerifiedAppend`); a line that two entries share never parses (`TornIsFound`).

*The ledgers of runs.*  `RunChain` is `OnlyDecisionsBreak` line by line, which is
inductive: a line links, or an answer is at it or before it; and the pipeline's cached tail is
the file's, or there is an answer.  An append from the cache links in the first case and
is behind an answer in the second.  `AuditHead` says of an audit that called its
ledger valid that its head is a line up to which all link; appends leave it there.
For `DecidersSealedFirst`, `GateShape` ties how far a stage is to the answers its
interrupts have had, and `AnswersSealed` counts: the answers a run has had, the one its event
announces and those whose requests are still under way are no more than the sealed ones
and two for each seal that failed.  A line that has no newline can still be lost to the next
write, so what is counted is what the file tells whatever is written next (`Told`), without what is
at stake at its end (`AtStake`).
A node that starts again records the gates it has passed once more, but no
new ones, so gates are counted as a set.

**The gates.**  *An answer wakes.*  If the thread waits at a gate that was
answered, the event must be set.  An answer's last statement sets it, and only
the thread clears it, after `wait()`; what has to be excluded is an answer to a
gate the thread has not reached (or has not presented) when it clears the event
left by another.  So the proof needs `PresentedInv`: what windows show, requests
carry and answers name are gates already presented, that is, before the present
one or the present one once the thread is past `present`.  `AnswerHeld` then says that between the
presentation of a gate and the thread's `clear`, an acknowledged answer to it
leaves the event set.
*A cancel stops.*  `limit` remembers how many stages had started when
`request_cancel` set the event.  `StagesInv` relates `stages` to it: the only
action that starts a stage, `Choose`, looks at the event in the same step.  The
event is never cleared.
*A pause holds.*  `heldAt` remembers where the thread was when the gate closed.
`HeldInv` says that as long as it does, the gate is closed, so that neither
`Hold` nor `HoldAgain` is enabled, and the thread stays on its side.
*The answer of one window.*  A gate goes through turns (`Unasked`, `Asked`,
`Answering`, `Answered`): with one answering window, at most one request to
`/approve` is under way, and it is for the gate presented last; what it wrote into
`RunContext` is still there when the thread takes it, and `Settled` says that no gate
behind can be answered again and none ahead was answered before.  With a
second window, an answer that comes late decides the next gate (section 4), hence the
assumption.

**The stage nodes.**  What a node knows is in its answers and the place where it
stands: `Places` says which place of which node, `PastGates` that a node past a
gate has its answer, `Grants` that answers were given by the user and `InOrder`
that `approvals` lists the stages behind.  For the edit, `SameText` says that the
document on disk below the second gate is what this run of the node produced,
and `HandedOn` what the last finished stage made of it.  `BudgetInv` adds that a
budget found at the top lasts to the spawn, as nothing else spawns meanwhile.
That a web run is such a run (`Dashboard`) needs one invariant, `Carried`: a decision
that a thread carries to `Command(resume)` is one that the node's `Answer` takes,
whoever clicked; every other step of the web leaves the nodes alone.

*What a window shows* is the fold of the reducer over the events still in its queue
(`Shows`), begun at its view.  `WindowInv` says of that fold what the property says of a window
that is up to date, so that an event that is told lengthens the fold, one that is
applied shortens it, and neither changes what it says.  The run itself is compared with `replay`, the view that
a window takes which opens now: `GateInReplay` says that it shows the gate that waits, and no other,
`PauseInReplay` that it shows a pause, `EndInReplay` the end, `DoneIsGranted` that a stage it shows as done was
granted.  The windows then follow `replay`: in their stages, agents and budget whatever their users click
(`FollowsProgress`), in their dialog unless an answer of theirs is still under way
(`FollowsDialog`); `QueueInOrder` keeps a preview in front of its gate.  That a fold over a longer queue is
one more event applied to the fold over the shorter one is proved once (`FoldApplies`).

**The applications.**  `OneListens` says that a port has one listener, as a second one's
bind fails.  `PortKept` says that from the time the port was found free nobody but the
application that is launched listens there, unless another run's came up meanwhile
(`crowded`), and `UpServes` that what was found up serves until it ends.  A live link
to a port then leads to the one listener, which is the application itself.

**Keys, leads and settings.**  `Authentic` says that what is in the keys' file, or in a list that a creation
has read, was issued, that no two creations add one entry, and that what a creation is about to add is in no
list; so an entry that the guard finds is that of the register.  `Standing` says of a revocation that nobody
wrote over that it is in the file and in every list that was read.  A role found in the file is then the holder's
(`FoundIsHolder`), and a key that is not found has a role only from the environment or the demo
table: before the first creation it is no key of the register, as the file is untouched (`Untouched`),
later it is the case that the property names.  Only `Guard` lets a request begin to work
(`GuardPasses`), in the step in which it asks.  For what is stored, `Keeping` says that a list in the hand of a
writer has everything that is owed, unless another is just writing, and so has the file when nobody is.

**Streams and events.**  A window is told the end by a `stream_end` or by a stream
closed as drained; `EndIsLast` says that what `stream_end` follows is final,
`Followers` what a window knows in each of its states.  For `ExactlyOnce`, `Numbers` types the counters, `Tellers` says
which events an emitter holds and has told to whom, `Queues` where the rest is;
`Once` is the partition itself: received, queued, or still to be put by the one
emitter that took the subscriber from the set under the lock.  `FileInv` is its
counterpart for the file, where a line may be damaged by the one before it.
The refinement maps steps of `emit` and `subscribe` to those of `EventLog` and all
others to stuttering.

**The batch.**  `Held` and `Hands` say who holds a document between the queue and
its seal, `Accounted` that every accepted document is in one of these places: a
worker that dies holds on to it, which is what `NothingLost` then admits.  For the
counters, `TallyInv` relates the entries of each outcome to what was counted and what
a worker is about to count; a restart forgets the counters, which the property admits.
For the seal, `Apart` says that without redelivery a document is in one hand and
has one entry, so that a counter that has reached the total means that all documents
have theirs (the pigeonhole principle on finite sets).  For the
pool, `Permits` counts the semaphore against the workers inside, `Counters` the
registry, and `Spending` bounds what was charged plus what workers past the
check may still charge; it is about cardinalities of sets of workers, each step
moving one worker.

**The gateway.**  `GovernedInv` follows one call: what its `Governor` copy allowed
when it was asked, that its receipts are in the chain since, and that the core
and its postings have only calls at or past the forward.  Files may be overwritten
by others meanwhile; receipts are only ever appended, which is what makes it
inductive.  `BreaksByOverlap` holds because an append links to the head that was
read, so it links to the last line exactly if no other call appended in between.

*The files.*  `Tally` counts the receipts about an agent: its level, streak and
incidents are what they earn it as long as no call wrote the autonomy file from an old copy.  A
call that writes from a copy that is up to date adds the receipt and what it
earns in one step; one whose copy is not makes the file `stale`, which it stays.
`LastClickTold` is the same for a scope of a switch: the file says what the
last receipt of a click on it says.
*No overdraft.*  Two withdrawals that both pass the check need two requests in the core
at a time.  `LoopInv` says that at most one request is past its body and before its
reply, because the gateway calls the core without an await; `FundsInv` that the core
works for that request alone, that the accounts still cover what it found
them to cover, and that none owes more than its `Debt`: a negative sum it was opened with, and the cash of
unknown kinds in the postings (`Unchecked`), which only grow.  It holds until a forward times out, when the gateway goes on and the core does too.
*The books.*  `Books` says with the balance of an account that it is what it was opened with and what was posted to it since, as
sums over finite sets of postings.  The library defines a sum by picking one element after the other;
that the order does not matter is proved for any finite set (`TotalTakes`), from which
`AmountsAdd` follows: a posting that was not on the books adds its amount to one account's credits and
another's debits.

**The activity of a key.**  `CutIsLast` says that only the last line can be without its end, so
lines that are whole never change again; `LossInv` that records answered are at most the whole lines and one for each
write that left part of one.  `RunsInv` ties the records of a run, on file or about to be, to how far the run is,
hence at most one end.  For the logins, every sign-in has the length of the file at the time it was looked up;
`ClearIn` says that the lines up to there have no sign-in it repeats, and lines that
are appended behind do not change that (`ClearStays`): two logins closer than the span that is collapsed
need two requests past `_recent_login` at once.  What the screen shows is cut into days,
whose counts add up to the lines shown (`CountedIs`).

**What is said of loan papers.**  The state is worked out from the folder in one step, so
`ExtractInv` says just that, and the work is in the functions.  That a clean statement adds
up is a telescoping sum: each row's balance is the one before it, moved by what the row says (`Moves`), hence the
last is the first moved by the sum of the column (`BalanceMoves`), and the sums of two columns
add up as their rows do (`Together`).  That
every paper is in one bundle and no bundle mixes two accounts rests on `JoinsIs`: papers stay under their key, or
have no account and join papers of which they name the borrower; those do have an account
(`HostHasAccount`), and so join nothing themselves (`JoinsOnce`).  Papers of one bundle
have an order, so that one of each type speaks for the applicant (`RankIs`, `OneSpeaks`), and each verdict is
compared with what that one states.

**What policies and rules say.**  `ChecksInv` says that the checks are those of the loaded policy
and figures.  For a band, the code's selection with its tie-breaks is compared with the words of the
line; the folds over lines and documents are taken apart in lemmas.  For a mail,
`VerdictInv` ties the verdict to what the connector had loaded; `Judged`, `KeptOf`,
`CountedAs` and `Allowed` take the loop over the attachments apart: what is kept is new, allowed
and counted under the type it has.

*Induction.*  The library's induction theorems take an operator as a parameter, which no
installed back end can instantiate.  Where a sum or a fold needs induction, the proofs
name the set of numbers for which the claim fails and take its least element (`Least`, from the
well-foundedness of `<` on `Nat`).

**The intake.**  `Copies` counts how often a document was taken.  `TakenInv` allows
one, for a document that memory or the step under way knows, and one for each fault: a crash
forgets what was not saved, a lost answer what was submitted.
`KeptInv` and `RecordInv` follow the order of the writes: what is accepted is in the
audit before it is taken, and a document counts as seen, or a mail as handled or
moved, only behind an audit line whose documents are in the pending store or in a job.
For the reviewers, `Alone` says that a request that had its intake to itself
still knows what the manifest says, `Holds` that what it posted and has not yet written is
that job, and `NoJobYet` that an intake that is not processed names none; two requests on
one intake make it `raced`, which the property admits.

**The jobs and their box.**  `PlaceOk` says what a job has done where its thread
stands, `CallsOk` how many calls it may still begin once it was cancelled (`Bound`), and
`QueueOk` that its queue is never ahead of it and holds its end once and as it was.
The tab's invariant has one difficulty: events stay in queues when a box has
moved on.  `OneJob` says that a stream that is open is that of the box's job, or one
that has nothing more to say (`Quiet`); `LedgerOk` that once the end of a job is in the
activity ledger, its queue has none left; `ForgottenEnded` that the server
forgets only jobs that have ended, so that a box may be given up when it is answered 404.

**The index.**  `Persisted` says that what a process has in memory is on file, was
lost by a fault or is in its buffer (`Pending`), of which the lock of the store allows one at a time (`Exclusive`); `Covering` that a thread has covered every file it is done with;
`ManifestCovers` that so has the process that wrote the manifest, which is why a thread of
that process, but not of another, may trust it.

**The prompts.**  `Tells` says of overrides, type by type, that they are what was asked for.  The
file's do when nobody is writing, and what the holder of the lock will write tells
what will then have been asked for (`SavingOk`); the lock makes it one at a time.  A save
that ends between its two halves leaves a file that tells of nothing, which is what its
failure asks for.

**Only model-checked.**  Every invariant of a passing run is stated by a theorem.  What stays with TLC
is liveness (`CancelEndsUnlessPaused`, `EveryStreamEnds`, `BatchCloses`, `RunIsNotLost`, and the
fairness part of `ImplementsLog`), which with anything about `ENABLED` is beyond the prover.
No module uses a `RECURSIVE` operator, with which the prover loses its SMT back
end.

## 6. What is not modelled

- What models answer, prompts, parsing of their answers, skills, memory, the
  layout of reports and exports: the properties do not tell texts apart beyond who
  wrote them and when.  Likewise how lines and amounts are found in documents, and the
  scores of a search.
- LangGraph, Flask, FastAPI, SQS, Redis, IMAP, the browser's `EventSource`:
  external, modelled from their use.
- Listing projects, uploads, pages: one request reads or writes one file.
- `api.py`, which does not start at this commit; `data/autonomy.py`, which no
  module imports; `Orchestrator.py`, which only exports `core/` again.
- Names, ids and validation of the fields of a key, a lead or the settings; the
  sending of a mail, of which `BackendFiles` has whether it went out.
- The export of the activity ledger, and the ledgers of other keys: each has its own file.
- The command line runner: the terminal drives the same graph, for which
  `AgentPipeline`'s `Answer` stands.
- The extraction inside a batch and its report; shadow mode, replays of proposed
  policies and reports of the governance routes, which only read; customers and
  beneficiaries of the bank core; opening of mailboxes and credentials.
- In `ApprovalGate`, a run that restarts (a run dies with its process), the
  status codes and messages of the handlers.
- In `RunLedger`, failing writes other than those of a seal of `/approve` (they are in `DecisionLedger`).
- In `BankCore`, the rounding of floats and amounts that are `NaN` or infinite.
- In `EmailIntake`, a mail that is marked deleted and expunged by a later cycle counts as gone at once.
- In `PolicyRules`, a property's value and a bureau score come in a fact sheet by themselves: no parser of this
  commit yields the fields `facts_from_fact_sheet` asks for.
- In `BackendFiles`, the keys' file is the default one; what the guard reads of the file and of the environment, a
  reload of `.env` and the operator's edit are one step each.  Other demo keys than the administrator's behave alike.
- In `ActivityLog`, details that were posted and are no numbers, on which `_day_totals` raises.
- In `Dashboard`, log lines, token counters, elapsed times and several runs in one
  window; the order of single statements of a request is `ApprovalGate`'s.
- In `AppLaunch`, Windows, where a process that ended is noticed.
- In `LoanJobs`, a tab's log of events, and the rebuilding of the index inside a
  job, which is `PolicyIndex`.
- Deployment scripts, sample data, demonstrations and the test suite.

## 7. What could follow

- Composition: `LoanJobs` with `PolicyIndex`, for a job that rebuilds the index
  while a chat searches; `EmailIntake` with `BatchIngest`, for mails submitted to
  the queue.
- Several runs in one window of `Dashboard`.
