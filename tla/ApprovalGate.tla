---------------------------- MODULE ApprovalGate ----------------------------
(***************************************************************************)
(* One web run (RunContext of server.py) at its approval gates: the        *)
(* pipeline thread in _handle_interrupt, and the request threads of        *)
(* POST /approve, /cancel, /pause and /resume.                             *)
(*                                                                         *)
(* RunContext has no lock: the threads share an Event for the decision, an *)
(* Event for the pause gate and plain attributes.  Every statement that    *)
(* reads or writes one of them is a step of its own here.                  *)
(*                                                                         *)
(* Gates are numbered in the order the run reaches them; the text of an    *)
(* edited document is represented by the number of the gate it was edited  *)
(* at, 0 is None.                                                          *)
(***************************************************************************)
EXTENDS Naturals, FiniteSets

CONSTANTS N,            \* number of gates of the run
          OutputGates,  \* gates whose stage ends in ":output" (their document can be edited)
          Dashboards,   \* windows that answer gates
          Operators,    \* windows that cancel, pause and resume
          MaxRequests   \* bound: /cancel, /pause and /resume requests

Gates == 1 .. N
Clients == Dashboards \cup Operators

ASSUME GateAssumption ==
  /\ N \in Nat \ {0} /\ OutputGates \subseteq Gates
  /\ Dashboards \cap Operators = {}
  /\ MaxRequests \in Nat

VARIABLES
  pc,               \* where the pipeline thread is
  gate,             \* the gate it is at (its local irpt); 0 before the first
  command,          \* the Command it invokes the graph with
  decision, edited, \* its locals of _handle_interrupt
  approvalEvent, approvalDecision, approvalEdited, \* RunContext
  cancelEvent, paused, pauseGate, status,          \* RunContext
  event,            \* approval_required and approval_decided events emitted so far
  open,             \* the gate these events show as open, 0 if none
  seen, shown,      \* what each dashboard has received of them
  at, post,         \* where each client's request is, and its body
  asked,            \* requests the operators have made
  \* history, not part of the program
  answer,           \* the last answer given to each gate
  answered,         \* gates an answer to which was acknowledged
  rejected,         \* gates a rejection of which was acknowledged
  outcome,          \* what each gate's decision was in the end
  stages, limit,    \* stages started; how many may be once the run is cancelled
  heldAt            \* where the pause that is in force found the thread

run == <<pc, gate, command, decision, edited>>
approval == <<approvalEvent, approvalDecision, approvalEdited>>
pause == <<paused, pauseGate>>
ctx == <<approval, cancelEvent, pause, status>>
ui == <<event, open, seen, shown>>
requests == <<at, post, asked>>
history == <<answer, answered, rejected, outcome, stages, limit, heldAt>>
vars == <<run, ctx, ui, requests, history>>

Verdict == [gate : 0 .. N, decision : {"approve", "reject"}]
Post == [gate : 0 .. N, decision : {"approve", "reject"}, edited : 0 .. N]
NoPost == [gate |-> 0, decision |-> "approve", edited |-> 0]
Cancelled == [gate |-> 0, decision |-> "reject", edited |-> 0]
NoLimit == 2 * N + 2

BeforeGate == {"invoke", "hold"}
AtGate == {"check", "present", "emitted", "wait", "clear", "read", "hold2"}
AfterGate == {"take", "reset", "choose"}
ApproveSteps == {"emit", "decision", "edited", "set"}
CancelSteps == {"c_event", "c_decision", "c_edited", "c_set"}
PauseSteps == {"p_flag", "p_close", "r_flag", "r_open"}

TypeOK ==
  /\ pc \in BeforeGate \cup AtGate \cup AfterGate \cup {"ended"}
  /\ gate \in 0 .. N
  /\ command \in {"start", "approve", "edit", "reject"}
  /\ decision \in Verdict
  /\ edited \in 0 .. N
  /\ approvalEvent \in BOOLEAN
  /\ approvalDecision \in Verdict
  /\ approvalEdited \in 0 .. N
  /\ cancelEvent \in BOOLEAN
  /\ paused \in BOOLEAN
  /\ pauseGate \in BOOLEAN
  /\ status \in {"running", "completed", "failed", "cancelled"}
  /\ event \in Nat
  /\ open \in 0 .. N
  /\ seen \in [Dashboards -> Nat]
  /\ shown \in [Dashboards -> 0 .. N]
  /\ at \in [Clients -> {"idle"} \cup ApproveSteps \cup CancelSteps \cup PauseSteps]
  /\ post \in [Clients -> Post]
  /\ asked \in 0 .. MaxRequests
  /\ answer \in [Gates -> Post]
  /\ answered \in SUBSET (0 .. N) /\ rejected \in SUBSET (0 .. N)
  /\ outcome \in [Gates -> Post]
  /\ stages \in 0 .. N + 1
  /\ limit \in Nat
  /\ heldAt \in {"nowhere", "stage", "gate", "past"}

Init ==
  /\ pc = "invoke" /\ gate = 0 /\ command = "start"
  /\ decision = [gate |-> 0, decision |-> "approve"] /\ edited = 0
  /\ approvalEvent = FALSE /\ approvalEdited = 0
  /\ approvalDecision = [gate |-> 0, decision |-> "approve"]
  /\ cancelEvent = FALSE /\ paused = FALSE /\ pauseGate = TRUE /\ status = "running"
  /\ event = 0 /\ open = 0
  /\ seen = [d \in Dashboards |-> 0] /\ shown = [d \in Dashboards |-> 0]
  /\ at = [c \in Clients |-> "idle"] /\ post = [c \in Clients |-> NoPost] /\ asked = 0
  /\ answer = [g \in Gates |-> NoPost] /\ answered = {} /\ rejected = {}
  /\ outcome = [g \in Gates |-> NoPost]
  /\ stages = 1 /\ limit = NoLimit /\ heldAt = "nowhere"

-----------------------------------------------------------------------------
(* The pipeline thread: _run_pipeline and _handle_interrupt *)

\* invoke runs the graph up to the next interrupt.
NextInterrupt ==
  /\ pc = "invoke" /\ command # "reject" /\ gate < N
  /\ gate' = gate + 1 /\ pc' = "hold"
  /\ UNCHANGED <<command, decision, edited, ctx, ui, requests, history>>

\* The graph is through: no task is left in the snapshot.
Complete ==
  /\ pc = "invoke" /\ command # "reject" /\ gate = N
  /\ pc' = "ended" /\ status' = "completed"
  /\ UNCHANGED <<gate, command, decision, edited, approval, cancelEvent, pause, ui, requests, history>>

\* The gate raises ApprovalRejectedError.
Rejected ==
  /\ pc = "invoke" /\ command = "reject"
  /\ pc' = "ended" /\ status' = IF cancelEvent THEN "cancelled" ELSE "failed"
  /\ UNCHANGED <<gate, command, decision, edited, approval, cancelEvent, pause, ui, requests, history>>

\* A stage raises anything else (the model call, the agent budget).
StageFails ==
  /\ pc = "invoke" /\ command # "reject"
  /\ pc' = "ended" /\ status' = "failed"
  /\ UNCHANGED <<gate, command, decision, edited, approval, cancelEvent, pause, ui, requests, history>>

\* The first wait_if_paused.
Hold ==
  /\ pc = "hold" /\ pauseGate
  /\ pc' = "check"
  /\ UNCHANGED <<gate, command, decision, edited, ctx, ui, requests, history>>

\* "Skip the approval-gate UI entirely and reject straight through."
CheckCancelled ==
  /\ pc = "check"
  /\ IF cancelEvent
     THEN /\ pc' = "invoke" /\ command' = "reject"
          /\ outcome' = [outcome EXCEPT ![gate] = Cancelled]
     ELSE pc' = "present" /\ UNCHANGED <<command, outcome>>
  /\ UNCHANGED <<gate, decision, edited, ctx, ui, requests, answer, answered, rejected, stages, limit, heldAt>>

\* wait_approval: emit approval_required ...
Present ==
  /\ pc = "present"
  /\ pc' = "emitted" /\ event' = event + 1 /\ open' = gate
  /\ UNCHANGED <<gate, command, decision, edited, ctx, seen, shown, requests, history>>

\* Mutant: an event left over from an earlier gate is cleared, but only after
\* the dashboards were told of this gate.
EmittedClears ==
  /\ pc = "emitted"
  /\ pc' = "wait" /\ approvalEvent' = FALSE
  /\ UNCHANGED <<gate, command, decision, edited, approvalDecision, approvalEdited,
                 cancelEvent, pause, status, ui, requests, history>>

\* ... return from emit, which wrote events.jsonl after telling the dashboards ...
Emitted ==
  /\ pc = "emitted"
  /\ pc' = "wait"
  /\ UNCHANGED <<gate, command, decision, edited, ctx, ui, requests, history>>

\* ... wait for the event ...
Wait ==
  /\ pc = "wait" /\ approvalEvent
  /\ pc' = "clear"
  /\ UNCHANGED <<gate, command, decision, edited, ctx, ui, requests, history>>

\* Mutant: the event is never cleared.
ClearForgets ==
  /\ pc = "clear"
  /\ pc' = "read"
  /\ UNCHANGED <<gate, command, decision, edited, ctx, ui, requests, history>>

\* ... clear it ...
Clear ==
  /\ pc = "clear"
  /\ pc' = "read" /\ approvalEvent' = FALSE
  /\ UNCHANGED <<gate, command, decision, edited, approvalDecision, approvalEdited,
                 cancelEvent, pause, status, ui, requests, history>>

\* ... and return the decision.
Read ==
  /\ pc = "read"
  /\ pc' = "hold2" /\ decision' = approvalDecision
  /\ UNCHANGED <<gate, command, edited, ctx, ui, requests, history>>

\* Mutant: the second hold is missing.
HoldAgainSkipped ==
  /\ pc = "hold2"
  /\ pc' = "take"
  /\ UNCHANGED <<gate, command, decision, edited, ctx, ui, requests, history>>

\* The second wait_if_paused: "Hold here too, so a pause requested while the
\* gate was open takes effect before the next stage starts".
HoldAgain ==
  /\ pc = "hold2" /\ pauseGate
  /\ pc' = "take"
  /\ UNCHANGED <<gate, command, decision, edited, ctx, ui, requests, history>>

\* edited = ctx.approval_edited
TakeEdited ==
  /\ pc = "take"
  /\ pc' = "reset" /\ edited' = approvalEdited
  /\ UNCHANGED <<gate, command, decision, ctx, ui, requests, history>>

\* ctx.approval_edited = None
ResetEdited ==
  /\ pc = "reset"
  /\ pc' = "choose" /\ approvalEdited' = 0
  /\ UNCHANGED <<gate, command, decision, edited, approvalEvent, approvalDecision,
                 cancelEvent, pause, status, ui, requests, history>>

\* The Command the graph is resumed with.
Resumption ==
  IF decision.decision = "reject" THEN "reject"
  ELSE IF edited # 0 /\ gate \in OutputGates THEN "edit" ELSE "approve"

\* What was decided about the gate, and what with.
Effective(how) ==
  IF cancelEvent THEN Cancelled
  ELSE [gate |-> decision.gate, decision |-> decision.decision,
        edited |-> IF how = "edit" THEN edited ELSE 0]

\* Mutant: only the decision counts, as before cancellation was added.
ChooseIgnoresCancel ==
  /\ pc = "choose"
  /\ pc' = "invoke" /\ command' = Resumption
  /\ outcome' = [outcome EXCEPT ![gate] = Effective(Resumption)]
  /\ stages' = IF command' = "reject" THEN stages ELSE stages + 1
  /\ UNCHANGED <<gate, decision, edited, ctx, ui, requests, answer, answered, rejected, limit, heldAt>>

\* is_cancelled is looked at once more, then the graph is resumed.
Choose ==
  /\ pc = "choose"
  /\ pc' = "invoke" /\ command' = IF cancelEvent THEN "reject" ELSE Resumption
  /\ outcome' = [outcome EXCEPT ![gate] = Effective(Resumption)]
  /\ stages' = IF command' = "reject" THEN stages ELSE stages + 1
  /\ UNCHANGED <<gate, decision, edited, ctx, ui, requests, answer, answered, rejected, limit, heldAt>>

Pipeline ==
  \/ NextInterrupt \/ Complete \/ Rejected \/ StageFails
  \/ Hold \/ CheckCancelled \/ Present \/ Emitted \/ Wait \/ Clear \/ Read
  \/ HoldAgain \/ TakeEdited \/ ResetEdited \/ Choose

-----------------------------------------------------------------------------
(* The dashboards *)

\* A dashboard catches up with the events.
Receive(d) ==
  /\ seen[d] < event
  /\ seen' = [seen EXCEPT ![d] = event]
  /\ shown' = [shown EXCEPT ![d] = open]
  /\ UNCHANGED <<run, ctx, event, open, requests, history>>

\* The user answers the gate the dashboard shows, which closes it there
\* (APPROVAL_SENT).  Only an output gate's document can be edited.
Click(d) ==
  /\ at[d] = "idle" /\ shown[d] # 0
  /\ \E verdict \in {"approve", "reject"} : \E edit \in {0, shown[d]} :
       /\ edit # 0 => verdict = "approve" /\ shown[d] \in OutputGates
       /\ post' = [post EXCEPT ![d] = [gate |-> shown[d], decision |-> verdict, edited |-> edit]]
  /\ answer' = [answer EXCEPT ![shown[d]] = post'[d]]
  /\ shown' = [shown EXCEPT ![d] = 0]
  /\ at' = [at EXCEPT ![d] = "emit"]
  /\ UNCHANGED <<run, ctx, event, open, seen, asked, answered, rejected, outcome, stages, limit, heldAt>>

-----------------------------------------------------------------------------
(* The request threads *)

Goes(c, from, to) ==
  /\ at[c] = from
  /\ at' = [at EXCEPT ![c] = to]
  /\ UNCHANGED <<post, asked>>

\* approve() has sealed the decision; it broadcasts approval_decided.
EmitDecided(c) ==
  /\ Goes(c, "emit", "decision")
  /\ event' = event + 1 /\ open' = 0
  /\ UNCHANGED <<run, ctx, seen, shown, history>>

\* set_decision
SetDecision(c) ==
  /\ Goes(c, "decision", "edited")
  /\ approvalDecision' = [gate |-> post[c].gate, decision |-> post[c].decision]
  /\ UNCHANGED <<run, approvalEvent, approvalEdited, cancelEvent, pause, status, ui, history>>

SetEdited(c) ==
  /\ Goes(c, "edited", "set")
  /\ approvalEdited' = post[c].edited
  /\ UNCHANGED <<run, approvalEvent, approvalDecision, cancelEvent, pause, status, ui, history>>

SetEvent(c) ==
  /\ at[c] = "set"
  /\ at' = [at EXCEPT ![c] = "idle"] /\ post' = [post EXCEPT ![c] = NoPost]
  /\ approvalEvent' = TRUE
  /\ answered' = answered \cup {post[c].gate}
  /\ rejected' = IF post[c].decision = "reject" THEN rejected \cup {post[c].gate} ELSE rejected
  /\ UNCHANGED <<run, approvalDecision, approvalEdited, cancelEvent, pause, status, ui, asked,
                 answer, outcome, stages, limit, heldAt>>

\* A request the handler accepts.
Ask(c, to) ==
  /\ at[c] = "idle" /\ asked < MaxRequests
  /\ asked' = asked + 1
  /\ at' = [at EXCEPT ![c] = to]
  /\ UNCHANGED <<run, ctx, ui, post, history>>

\* /cancel: refused once the run is finished.
AskCancel(c) == status = "running" /\ Ask(c, "c_event")

\* request_cancel
CancelEvent(c) ==
  /\ Goes(c, "c_event", "c_decision")
  /\ cancelEvent' = TRUE
  /\ limit' = IF cancelEvent THEN limit ELSE stages
  /\ UNCHANGED <<run, approval, pause, status, ui, answer, answered, rejected, outcome, stages, heldAt>>

CancelDecision(c) ==
  /\ Goes(c, "c_decision", "c_edited")
  /\ approvalDecision' = [gate |-> 0, decision |-> "reject"]
  /\ UNCHANGED <<run, approvalEvent, approvalEdited, cancelEvent, pause, status, ui, history>>

CancelEdited(c) ==
  /\ Goes(c, "c_edited", "c_set")
  /\ approvalEdited' = 0
  /\ UNCHANGED <<run, approvalEvent, approvalDecision, cancelEvent, pause, status, ui, history>>

\* Mutant: a pending gate is not unblocked.
CancelSetForgets(c) ==
  /\ Goes(c, "c_set", "r_flag")
  /\ UNCHANGED <<run, ctx, ui, history>>

CancelSet(c) ==
  /\ Goes(c, "c_set", "r_flag")
  /\ approvalEvent' = TRUE
  /\ UNCHANGED <<run, approvalDecision, approvalEdited, cancelEvent, pause, status, ui, history>>

\* /pause: refused once the run is finished or while it is paused.
AskPause(c) == status = "running" /\ ~paused /\ Ask(c, "p_flag")

\* request_pause
PauseFlag(c) ==
  /\ Goes(c, "p_flag", "p_close")
  /\ paused' = TRUE
  /\ UNCHANGED <<run, approval, cancelEvent, pauseGate, status, ui, history>>

PauseClose(c) ==
  /\ Goes(c, "p_close", "idle")
  /\ pauseGate' = FALSE
  /\ heldAt' = IF ~pauseGate THEN heldAt
               ELSE IF pc \in BeforeGate THEN "stage"
               ELSE IF pc \in AtGate THEN "gate" ELSE "past"
  /\ UNCHANGED <<run, approval, cancelEvent, paused, status, ui, answer, answered, rejected, outcome, stages, limit>>

\* /resume: refused unless the run is paused.
AskResume(c) == paused /\ Ask(c, "r_flag")

\* request_resume, and the end of request_cancel
ResumeFlag(c) ==
  /\ Goes(c, "r_flag", "r_open")
  /\ paused' = FALSE
  /\ UNCHANGED <<run, approval, cancelEvent, pauseGate, status, ui, history>>

ResumeOpen(c) ==
  /\ Goes(c, "r_open", "idle")
  /\ pauseGate' = TRUE /\ heldAt' = "nowhere"
  /\ UNCHANGED <<run, approval, cancelEvent, paused, status, ui, answer, answered, rejected, outcome, stages, limit>>

Handler(c) ==
  \/ EmitDecided(c) \/ SetDecision(c) \/ SetEdited(c) \/ SetEvent(c)
  \/ CancelEvent(c) \/ CancelDecision(c) \/ CancelEdited(c) \/ CancelSet(c)
  \/ PauseFlag(c) \/ PauseClose(c) \/ ResumeFlag(c) \/ ResumeOpen(c)

Next ==
  \/ Pipeline
  \/ \E d \in Dashboards : Receive(d) \/ Click(d)
  \/ \E c \in Operators : AskCancel(c) \/ AskPause(c) \/ AskResume(c)
  \/ \E c \in Clients : Handler(c)

Spec == Init /\ [][Next]_vars

\* Threads that can run do run, and a model call comes back.  Nobody has to
\* answer a gate, nor to resume a paused run.
FairSpec ==
  /\ Spec
  /\ WF_vars(Pipeline)
  /\ \A c \in Clients : WF_vars(Handler(c))

-----------------------------------------------------------------------------
(* Properties *)

\* Every gate is decided by the answer a user gave to that gate, with the text
\* edited at that gate and no other, unless the run was cancelled: the
\* approval event, the decision and the edited text, which live on from gate
\* to gate in RunContext, never carry one gate's answer to another.
HonoursTheAnswer ==
  \A g \in Gates : outcome[g] \in {NoPost, Cancelled} \/ outcome[g] = answer[g]

\* No answer is lost: once /approve has returned, the thread does not go on
\* waiting at that gate, whether the answer came before wait() or after.
NoAnswerLost == pc = "wait" /\ gate \in answered => approvalEvent

\* "a cancel during that hold wins": once request_cancel has set the event,
\* no stage starts, whatever answer arrives before or after it.
CancelWins == cancelEvent => stages <= limit

\* A pause that is in force when the thread comes to a boundary holds it
\* there: one requested during a stage, before the next gate is presented; one
\* requested at a gate, before the next stage starts.
PauseHolds ==
  /\ heldAt = "stage" => pc \in BeforeGate \cup {"ended"}
  /\ heldAt = "gate" => pc \in AtGate \cup {"ended"} \/ (pc = "invoke" /\ command = "reject")

\* A cancelled run ends, unless it is held paused for good.
CancelEndsUnlessPaused == []<>pauseGate => (cancelEvent ~> pc = "ended")

=============================================================================
