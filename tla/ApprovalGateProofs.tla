-------------------------- MODULE ApprovalGateProofs --------------------------
(***************************************************************************)
(* Theorems about ApprovalGate, for any number of gates, dashboards,       *)
(* operators and requests.                                                 *)
(***************************************************************************)
EXTENDS ApprovalGate, TLAPS

-----------------------------------------------------------------------------
(* An answer is only ever for a gate that the run has presented. *)

\* The last gate that was presented to the dashboards.
Presented == IF pc \in {"hold", "check", "present"} THEN gate - 1 ELSE gate

PresentedInv ==
  /\ gate \in 0 .. N
  /\ pc \in {"hold", "check", "present"} => gate # 0
  /\ open \in 0 .. Presented
  /\ shown \in [Dashboards -> 0 .. Presented]
  /\ post \in [Clients -> [gate : 0 .. Presented, decision : {"approve", "reject"}, edited : 0 .. N]]
  /\ answered \subseteq 0 .. Presented

\* At the start no gate was presented, shown or answered.
LEMMA PresentedInit == Init => PresentedInv
BY GateAssumption DEF Init, PresentedInv, Presented, NoPost, Clients

\* Windows, requests and answers go on naming presented gates only.
LEMMA PresentedStep == PresentedInv /\ [Next]_vars => PresentedInv'
<1> SUFFICES ASSUME PresentedInv, [Next]_vars PROVE PresentedInv'
  OBVIOUS
<1> USE GateAssumption DEF PresentedInv, Presented, run, approval, pause, ctx, ui, requests, history
<1>1. CASE NextInterrupt
  BY <1>1 DEF NextInterrupt
<1>2. CASE CheckCancelled
  BY <1>2 DEF CheckCancelled
<1>3. CASE Present
  BY <1>3 DEF Present
<1>4. CASE \E d \in Dashboards : Receive(d)
  BY <1>4 DEF Receive
<1>5. CASE \E d \in Dashboards : Click(d)
  <2>1. PICK d \in Dashboards : Click(d)
    BY <1>5
  <2>2. PICK verdict \in {"approve", "reject"}, edit \in {0, shown[d]} :
          post' = [post EXCEPT ![d] = [gate |-> shown[d], decision |-> verdict, edited |-> edit]]
    BY <2>1 DEF Click
  <2>3. shown[d] \in 0 .. Presented /\ shown[d] \in 0 .. N
    OBVIOUS
  <2>4. [gate |-> shown[d], decision |-> verdict, edited |-> edit]
          \in [gate : 0 .. Presented, decision : {"approve", "reject"}, edited : 0 .. N]
    BY <2>2, <2>3
  <2>5. post' \in [Clients -> [gate : 0 .. Presented, decision : {"approve", "reject"}, edited : 0 .. N]]
    BY <2>2, <2>4
  <2>6. /\ shown' = [shown EXCEPT ![d] = 0]
        /\ UNCHANGED <<pc, gate, open, answered>>
    BY <2>1 DEF Click
  <2> QED  BY <2>3, <2>5, <2>6
<1>6. CASE \E c \in Clients : EmitDecided(c)
  BY <1>6 DEF EmitDecided, Goes
<1>7. CASE \E c \in Clients : SetEvent(c)
  <2>1. PICK c \in Clients : SetEvent(c)
    BY <1>7
  <2>2. post[c].gate \in 0 .. Presented
    OBVIOUS
  <2>3. post' = [post EXCEPT ![c] = NoPost] /\ answered' = answered \cup {post[c].gate}
    BY <2>1 DEF SetEvent
  <2>4. UNCHANGED <<pc, gate, open, shown>>
    BY <2>1 DEF SetEvent
  <2>5. NoPost \in [gate : 0 .. Presented, decision : {"approve", "reject"}, edited : 0 .. N]
    BY DEF NoPost
  <2> QED  BY <2>2, <2>3, <2>4, <2>5
<1>8. CASE Complete \/ Rejected \/ StageFails \/ Hold \/ Emitted \/ Wait \/ Clear \/ Read
  BY <1>8 DEF Complete, Rejected, StageFails, Hold, Emitted, Wait, Clear, Read
<1>9. CASE HoldAgain \/ TakeEdited \/ ResetEdited \/ Choose
  BY <1>9 DEF HoldAgain, TakeEdited, ResetEdited, Choose, Resumption
<1>10. CASE \E c \in Operators : AskCancel(c) \/ AskPause(c) \/ AskResume(c)
  BY <1>10 DEF AskCancel, AskPause, AskResume, Ask
<1>11. CASE \E c \in Clients : SetDecision(c) \/ SetEdited(c) \/ CancelEvent(c) \/
          CancelDecision(c) \/ CancelEdited(c) \/ CancelSet(c) \/ PauseFlag(c) \/ PauseClose(c)
  BY <1>11 DEF SetDecision, SetEdited, CancelEvent, CancelDecision, CancelEdited, CancelSet,
            PauseFlag, PauseClose, Goes
<1>12. CASE \E c \in Clients : ResumeFlag(c) \/ ResumeOpen(c)
  BY <1>12 DEF ResumeFlag, ResumeOpen, Goes
<1>13. CASE UNCHANGED vars
  BY <1>13 DEF vars
<1> QED  BY <1>1, <1>2, <1>3, <1>4, <1>5, <1>6, <1>7, <1>8, <1>9, <1>10, <1>11, <1>12, <1>13 DEF
          Next, Pipeline, Handler

\* Nothing is ever answered that was not asked: no dashboard shows, no request
\* carries and no acknowledgement names a gate that was not presented
\* (approval_required in wait_approval).
THEOREM OnlyPresentedGates == Spec => []PresentedInv
<1>1. Init => PresentedInv
  BY PresentedInit
<1>2. PresentedInv /\ [Next]_vars => PresentedInv'
  BY PresentedStep
<1> QED  BY <1>1, <1>2, PTL DEF Spec

-----------------------------------------------------------------------------
(* No answer is lost. *)

\* From the moment a gate is announced until its answer is taken, an answer
\* that was acknowledged is still to be seen in the event.
AnswerHeld == pc \in {"emitted", "wait"} /\ gate \in answered => approvalEvent

\* An answer to the gate the thread is at goes on holding the event set.
LEMMA AnswerHeldStep == PresentedInv /\ AnswerHeld /\ [Next]_vars => AnswerHeld'
<1> SUFFICES ASSUME PresentedInv, AnswerHeld, [Next]_vars PROVE AnswerHeld'
  OBVIOUS
<1> USE DEF AnswerHeld, run, approval, pause, ctx, ui, requests, history
<1>1. CASE Present
  <2>1. gate \notin answered
    BY <1>1 DEF Present, PresentedInv, Presented
  <2> QED  BY <1>1, <2>1 DEF Present
<1>2. CASE Clear
  BY <1>2 DEF Clear
<1>3. CASE \E c \in Clients : SetEvent(c)
  BY <1>3 DEF SetEvent
<1>4. CASE \E c \in Clients : CancelSet(c)
  BY <1>4 DEF CancelSet, Goes
<1>5. CASE NextInterrupt \/ Complete \/ Rejected \/ StageFails \/ Hold \/ CheckCancelled \/
          Emitted \/ Wait
  BY <1>5 DEF NextInterrupt, Complete, Rejected, StageFails, Hold, CheckCancelled, Emitted, Wait
<1>6. CASE Read \/ HoldAgain \/ TakeEdited \/ ResetEdited \/ Choose
  BY <1>6 DEF Read, HoldAgain, TakeEdited, ResetEdited, Choose, Resumption
<1>7. CASE \E d \in Dashboards : Receive(d) \/ Click(d)
  BY <1>7 DEF Receive, Click
<1>8. CASE \E c \in Operators : AskCancel(c) \/ AskPause(c) \/ AskResume(c)
  BY <1>8 DEF AskCancel, AskPause, AskResume, Ask
<1>9. CASE \E c \in Clients : EmitDecided(c) \/ SetDecision(c) \/ SetEdited(c) \/ CancelEvent(c)
          \/ CancelDecision(c) \/ CancelEdited(c) \/ PauseFlag(c) \/ PauseClose(c)
  BY <1>9 DEF EmitDecided, SetDecision, SetEdited, CancelEvent, CancelDecision, CancelEdited,
            PauseFlag, PauseClose, Goes
<1>10. CASE \E c \in Clients : ResumeFlag(c) \/ ResumeOpen(c)
  BY <1>10 DEF ResumeFlag, ResumeOpen, Goes
<1>11. CASE UNCHANGED vars
  BY <1>11 DEF vars
<1> QED  BY <1>1, <1>2, <1>3, <1>4, <1>5, <1>6, <1>7, <1>8, <1>9, <1>10, <1>11 DEF Next, Pipeline,
          Handler

\* wait_approval and set_decision: an answer that /approve has acknowledged
\* wakes the thread, whether it came before the wait or during it, for any
\* number of windows answering any number of gates in any order.
THEOREM AnswersWake == Spec => []NoAnswerLost
<1>1. Init => AnswerHeld
  BY DEF Init, AnswerHeld
<1>2. AnswerHeld => NoAnswerLost
  BY DEF AnswerHeld, NoAnswerLost
<1> QED  BY <1>1, <1>2, OnlyPresentedGates, AnswerHeldStep, PTL DEF Spec

-----------------------------------------------------------------------------
(* A cancel wins. *)

StagesInv == stages \in Nat /\ limit \in Nat /\ CancelWins

\* No step starts a stage behind the back of a cancel.
LEMMA StagesStep == StagesInv /\ [Next]_vars => StagesInv'
<1> SUFFICES ASSUME StagesInv, [Next]_vars PROVE StagesInv'
  OBVIOUS
<1> USE DEF StagesInv, CancelWins, run, approval, pause, ctx, ui, requests, history
<1>1. CASE Choose
  BY <1>1 DEF Choose, Resumption
<1>2. CASE \E c \in Clients : CancelEvent(c)
  BY <1>2 DEF CancelEvent, Goes
<1>3. CASE NextInterrupt \/ Complete \/ Rejected \/ StageFails \/ Hold \/ CheckCancelled \/
          Present \/ Emitted
  BY <1>3 DEF NextInterrupt, Complete, Rejected, StageFails, Hold, CheckCancelled, Present, Emitted
<1>4. CASE Wait \/ Clear \/ Read \/ HoldAgain \/ TakeEdited \/ ResetEdited
  BY <1>4 DEF Wait, Clear, Read, HoldAgain, TakeEdited, ResetEdited
<1>5. CASE \E d \in Dashboards : Receive(d) \/ Click(d)
  BY <1>5 DEF Receive, Click
<1>6. CASE \E c \in Operators : AskCancel(c) \/ AskPause(c) \/ AskResume(c)
  BY <1>6 DEF AskCancel, AskPause, AskResume, Ask
<1>7. CASE \E c \in Clients : EmitDecided(c) \/ SetDecision(c) \/ SetEdited(c) \/ SetEvent(c) \/
          CancelDecision(c) \/ CancelEdited(c) \/ CancelSet(c) \/ PauseFlag(c)
  BY <1>7 DEF EmitDecided, SetDecision, SetEdited, SetEvent, CancelDecision, CancelEdited,
            CancelSet, PauseFlag, Goes
<1>8. CASE \E c \in Clients : PauseClose(c) \/ ResumeFlag(c) \/ ResumeOpen(c)
  BY <1>8 DEF PauseClose, ResumeFlag, ResumeOpen, Goes
<1>9. CASE UNCHANGED vars
  BY <1>9 DEF vars
<1> QED  BY <1>1, <1>2, <1>3, <1>4, <1>5, <1>6, <1>7, <1>8, <1>9 DEF Next, Pipeline, Handler

\* request_cancel and _handle_interrupt: once the cancel event is set, no stage
\* starts, for any number of gates, windows and requests.
THEOREM CancelStopsTheRun == Spec => []CancelWins
<1>1. Init => StagesInv
  BY GateAssumption DEF Init, StagesInv, CancelWins, NoLimit
<1>2. StagesInv => CancelWins
  BY DEF StagesInv
<1> QED  BY <1>1, <1>2, StagesStep, PTL DEF Spec

-----------------------------------------------------------------------------
(* A pause holds. *)

HeldInv == (heldAt # "nowhere" => ~pauseGate) /\ PauseHolds

\* The pause gate stays closed as long as the thread is held by it.
LEMMA HeldStep == HeldInv /\ [Next]_vars => HeldInv'
<1> SUFFICES ASSUME HeldInv, [Next]_vars PROVE HeldInv'
  OBVIOUS
<1> USE DEF HeldInv, PauseHolds, BeforeGate, AtGate, run, approval, pause, ctx, ui, requests, history
<1>1. CASE Rejected
  BY <1>1 DEF Rejected
<1>2. CASE Hold
  BY <1>2 DEF Hold
<1>3. CASE HoldAgain
  BY <1>3 DEF HoldAgain
<1>4. CASE \E c \in Clients : PauseClose(c)
  BY <1>4 DEF PauseClose, Goes
<1>5. CASE \E c \in Clients : ResumeOpen(c)
  BY <1>5 DEF ResumeOpen, Goes
<1>6. CASE NextInterrupt \/ Complete \/ StageFails \/ CheckCancelled \/ Present \/ Emitted \/ Wait
          \/ Clear
  BY <1>6 DEF NextInterrupt, Complete, StageFails, CheckCancelled, Present, Emitted, Wait, Clear
<1>7. CASE Read \/ TakeEdited \/ ResetEdited \/ Choose
  BY <1>7 DEF Read, TakeEdited, ResetEdited, Choose, Resumption
<1>8. CASE \E d \in Dashboards : Receive(d) \/ Click(d)
  BY <1>8 DEF Receive, Click
<1>9. CASE \E c \in Operators : AskCancel(c) \/ AskPause(c) \/ AskResume(c)
  BY <1>9 DEF AskCancel, AskPause, AskResume, Ask
<1>10. CASE \E c \in Clients : EmitDecided(c) \/ SetDecision(c) \/ SetEdited(c) \/ SetEvent(c) \/
          CancelEvent(c) \/ CancelDecision(c) \/ CancelEdited(c) \/ CancelSet(c)
  BY <1>10 DEF EmitDecided, SetDecision, SetEdited, SetEvent, CancelEvent, CancelDecision,
            CancelEdited, CancelSet, Goes
<1>11. CASE \E c \in Clients : PauseFlag(c) \/ ResumeFlag(c)
  BY <1>11 DEF PauseFlag, ResumeFlag, Goes
<1>12. CASE UNCHANGED vars
  BY <1>12 DEF vars
<1> QED  BY <1>1, <1>2, <1>3, <1>4, <1>5, <1>6, <1>7, <1>8, <1>9, <1>10, <1>11, <1>12 DEF Next,
          Pipeline, Handler

\* wait_if_paused: a pause that is in force when the thread comes to a boundary
\* holds it there, for any number of windows that pause, resume and cancel.
THEOREM PausesHold == Spec => []PauseHolds
<1>1. Init => HeldInv
  BY DEF Init, HeldInv, PauseHolds
<1>2. HeldInv => PauseHolds
  BY DEF HeldInv
<1> QED  BY <1>1, <1>2, HeldStep, PTL DEF Spec

-----------------------------------------------------------------------------
(* Type correctness: the flags apart from the data, which TypeOK mixes. *)

FlagsTyped ==
  approvalEvent \in BOOLEAN /\ cancelEvent \in BOOLEAN /\ paused \in BOOLEAN /\ pauseGate \in BOOLEAN

\* A stage starts at most once per gate, which bounds their number.
ThreadTyped ==
  /\ pc \in BeforeGate \cup AtGate \cup AfterGate \cup {"ended"}
  /\ gate \in 0 .. N
  /\ command \in {"start", "approve", "edit", "reject"}
  /\ status \in {"running", "completed", "failed", "cancelled"}
  /\ stages \in Nat /\ stages <= IF pc \in {"invoke", "ended"} THEN gate + 1 ELSE gate
  /\ limit \in Nat
  /\ heldAt \in {"nowhere", "stage", "gate", "past"}

RequestsTyped ==
  /\ at \in [Clients -> {"idle"} \cup ApproveSteps \cup CancelSteps \cup PauseSteps]
  /\ asked \in 0 .. MaxRequests
  /\ event \in Nat /\ seen \in [Dashboards -> Nat]

AnswersTyped ==
  /\ gate \in 0 .. N /\ open \in 0 .. N
  /\ shown \in [Dashboards -> 0 .. N]
  /\ post \in [Clients -> Post]
  /\ decision \in Verdict /\ edited \in 0 .. N
  /\ approvalDecision \in Verdict /\ approvalEdited \in 0 .. N
  /\ answered \in SUBSET (0 .. N) /\ rejected \in SUBSET (0 .. N)

OutcomesTyped == answer \in [Gates -> Post] /\ outcome \in [Gates -> Post]

\* The flags and events keep their types.
LEMMA FlagsStep == FlagsTyped /\ [Next]_vars => FlagsTyped'
<1> SUFFICES ASSUME FlagsTyped, [Next]_vars PROVE FlagsTyped'
  OBVIOUS
<1> USE DEF FlagsTyped, run, approval, pause, ctx, ui, requests, history
<1>1. CASE Clear
  BY <1>1 DEF Clear
<1>2. CASE \E c \in Clients : SetEvent(c)
  BY <1>2 DEF SetEvent
<1>3. CASE \E c \in Clients : CancelEvent(c)
  BY <1>3 DEF CancelEvent, Goes
<1>4. CASE \E c \in Clients : CancelSet(c)
  BY <1>4 DEF CancelSet, Goes
<1>5. CASE \E c \in Clients : PauseFlag(c)
  BY <1>5 DEF PauseFlag, Goes
<1>6. CASE \E c \in Clients : PauseClose(c)
  BY <1>6 DEF PauseClose, Goes
<1>7. CASE \E c \in Clients : ResumeFlag(c)
  BY <1>7 DEF ResumeFlag, Goes
<1>8. CASE \E c \in Clients : ResumeOpen(c)
  BY <1>8 DEF ResumeOpen, Goes
<1>9. CASE NextInterrupt \/ Complete \/ Rejected \/ StageFails \/ Hold \/ CheckCancelled \/
          Present \/ Emitted
  BY <1>9 DEF NextInterrupt, Complete, Rejected, StageFails, Hold, CheckCancelled, Present, Emitted
<1>10. CASE Wait \/ Read \/ HoldAgain \/ TakeEdited \/ ResetEdited \/ Choose
  BY <1>10 DEF Wait, Read, HoldAgain, TakeEdited, ResetEdited, Choose, Resumption
<1>11. CASE \E d \in Dashboards : Receive(d) \/ Click(d)
  BY <1>11 DEF Receive, Click
<1>12. CASE \E c \in Operators : AskCancel(c) \/ AskPause(c) \/ AskResume(c)
  BY <1>12 DEF AskCancel, AskPause, AskResume, Ask
<1>13. CASE \E c \in Clients : EmitDecided(c) \/ SetDecision(c) \/ SetEdited(c) \/
          CancelDecision(c) \/ CancelEdited(c)
  BY <1>13 DEF EmitDecided, SetDecision, SetEdited, CancelDecision, CancelEdited, Goes
<1>14. CASE UNCHANGED vars
  BY <1>14 DEF vars
<1> QED  BY <1>1, <1>2, <1>3, <1>4, <1>5, <1>6, <1>7, <1>8, <1>9, <1>10, <1>11, <1>12, <1>13,
          <1>14 DEF Next, Pipeline, Handler

\* The pipeline thread keeps its types.
LEMMA ThreadStep == ThreadTyped /\ [Next]_vars => ThreadTyped'
<1> SUFFICES ASSUME ThreadTyped, [Next]_vars PROVE ThreadTyped'
  OBVIOUS
<1> USE GateAssumption DEF ThreadTyped, BeforeGate, AtGate, AfterGate, run, approval, pause, ctx, ui, requests, history
<1>1. CASE NextInterrupt
  BY <1>1 DEF NextInterrupt
<1>2. CASE Choose
  BY <1>2 DEF Choose, Resumption
<1>3. CASE \E c \in Clients : CancelEvent(c)
  BY <1>3 DEF CancelEvent, Goes
<1>4. CASE \E c \in Clients : PauseClose(c)
  BY <1>4 DEF PauseClose, Goes
<1>5. CASE Complete \/ Rejected \/ StageFails \/ Hold \/ CheckCancelled \/ Present \/ Emitted \/
          Wait
  BY <1>5 DEF Complete, Rejected, StageFails, Hold, CheckCancelled, Present, Emitted, Wait
<1>6. CASE Clear \/ Read \/ HoldAgain \/ TakeEdited \/ ResetEdited
  BY <1>6 DEF Clear, Read, HoldAgain, TakeEdited, ResetEdited
<1>7. CASE \E d \in Dashboards : Receive(d) \/ Click(d)
  BY <1>7 DEF Receive, Click
<1>8. CASE \E c \in Operators : AskCancel(c) \/ AskPause(c) \/ AskResume(c)
  BY <1>8 DEF AskCancel, AskPause, AskResume, Ask
<1>9. CASE \E c \in Clients : EmitDecided(c) \/ SetDecision(c) \/ SetEdited(c) \/ SetEvent(c) \/
          CancelDecision(c) \/ CancelEdited(c) \/ CancelSet(c) \/ PauseFlag(c)
  BY <1>9 DEF EmitDecided, SetDecision, SetEdited, SetEvent, CancelDecision, CancelEdited,
            CancelSet, PauseFlag, Goes
<1>10. CASE \E c \in Clients : ResumeFlag(c) \/ ResumeOpen(c)
  BY <1>10 DEF ResumeFlag, ResumeOpen, Goes
<1>11. CASE UNCHANGED vars
  BY <1>11 DEF vars
<1> QED  BY <1>1, <1>2, <1>3, <1>4, <1>5, <1>6, <1>7, <1>8, <1>9, <1>10, <1>11 DEF Next, Pipeline,
          Handler

\* Windows and requests keep their types.
LEMMA RequestsStep == RequestsTyped /\ [Next]_vars => RequestsTyped'
<1> SUFFICES ASSUME RequestsTyped, [Next]_vars PROVE RequestsTyped'
  OBVIOUS
<1> USE GateAssumption DEF RequestsTyped, ApproveSteps, CancelSteps, PauseSteps, Clients, run, approval, pause, ctx, ui, requests, history
<1>1. CASE \E d \in Dashboards : Receive(d)
  BY <1>1 DEF Receive
<1>2. CASE \E c \in Operators : AskCancel(c)
  BY <1>2 DEF AskCancel, Ask
<1>3. CASE \E c \in Operators : AskPause(c)
  BY <1>3 DEF AskPause, Ask
<1>4. CASE \E c \in Operators : AskResume(c)
  BY <1>4 DEF AskResume, Ask
<1>5. CASE \E c \in Clients : EmitDecided(c)
  BY <1>5 DEF EmitDecided, Goes
<1>6. CASE NextInterrupt \/ Complete \/ Rejected \/ StageFails \/ Hold \/ CheckCancelled \/
          Present \/ Emitted
  BY <1>6 DEF NextInterrupt, Complete, Rejected, StageFails, Hold, CheckCancelled, Present, Emitted
<1>7. CASE Wait \/ Clear \/ Read \/ HoldAgain \/ TakeEdited \/ ResetEdited \/ Choose
  BY <1>7 DEF Wait, Clear, Read, HoldAgain, TakeEdited, ResetEdited, Choose, Resumption
<1>8. CASE \E d \in Dashboards : Click(d)
  BY <1>8 DEF Click
<1>9. CASE \E c \in Clients : SetDecision(c) \/ SetEdited(c) \/ SetEvent(c) \/ CancelEvent(c) \/
          CancelDecision(c) \/ CancelEdited(c) \/ CancelSet(c) \/ PauseFlag(c)
  BY <1>9 DEF SetDecision, SetEdited, SetEvent, CancelEvent, CancelDecision, CancelEdited,
            CancelSet, PauseFlag, Goes
<1>10. CASE \E c \in Clients : PauseClose(c) \/ ResumeFlag(c) \/ ResumeOpen(c)
  BY <1>10 DEF PauseClose, ResumeFlag, ResumeOpen, Goes
<1>11. CASE UNCHANGED vars
  BY <1>11 DEF vars
<1> QED  BY <1>1, <1>2, <1>3, <1>4, <1>5, <1>6, <1>7, <1>8, <1>9, <1>10, <1>11 DEF Next, Pipeline,
          Handler

\* Decisions keep their types.
LEMMA AnswersStep == AnswersTyped /\ [Next]_vars => AnswersTyped'
<1> SUFFICES ASSUME AnswersTyped, [Next]_vars PROVE AnswersTyped'
  OBVIOUS
<1> USE GateAssumption DEF AnswersTyped, Post, Verdict, NoPost, Clients, run, approval, pause, ctx, ui, requests, history
<1>1. CASE NextInterrupt
  BY <1>1 DEF NextInterrupt
<1>2. CASE Present
  BY <1>2 DEF Present
<1>3. CASE Read
  BY <1>3 DEF Read
<1>4. CASE TakeEdited
  BY <1>4 DEF TakeEdited
<1>5. CASE ResetEdited
  BY <1>5 DEF ResetEdited
<1>6. CASE \E d \in Dashboards : Receive(d)
  BY <1>6 DEF Receive
<1>7. CASE \E d \in Dashboards : Click(d)
  <2>1. PICK d \in Dashboards : Click(d)
    BY <1>7
  <2>2. PICK verdict \in {"approve", "reject"}, edit \in {0, shown[d]} :
          post' = [post EXCEPT ![d] = [gate |-> shown[d], decision |-> verdict, edited |-> edit]]
    BY <2>1 DEF Click
  <2>3. shown[d] \in 0 .. N
    OBVIOUS
  <2>4. [gate |-> shown[d], decision |-> verdict, edited |-> edit] \in Post
    BY <2>2, <2>3
  <2>5. /\ shown' = [shown EXCEPT ![d] = 0]
        /\ UNCHANGED <<gate, open, decision, edited, approvalDecision, approvalEdited, answered, rejected>>
    BY <2>1 DEF Click
  <2>6. post' \in [Clients -> Post]
    BY <2>2, <2>4
  <2>7. shown' \in [Dashboards -> 0 .. N]
    BY <2>5
  <2> QED  BY <2>5, <2>6, <2>7, Zenon
<1>8. CASE \E c \in Clients : EmitDecided(c)
  BY <1>8 DEF EmitDecided, Goes
<1>9. CASE \E c \in Clients : SetDecision(c)
  BY <1>9 DEF SetDecision, Goes
<1>10. CASE \E c \in Clients : SetEdited(c)
  BY <1>10 DEF SetEdited, Goes
<1>11. CASE \E c \in Clients : SetEvent(c)
  <2>1. PICK c \in Clients : SetEvent(c)
    BY <1>11
  <2>2. post[c].gate \in 0 .. N
    OBVIOUS
  <2>3. /\ post' = [post EXCEPT ![c] = NoPost] /\ answered' = answered \cup {post[c].gate}
        /\ rejected' = IF post[c].decision = "reject" THEN rejected \cup {post[c].gate} ELSE rejected
        /\ UNCHANGED <<gate, open, shown, decision, edited, approvalDecision, approvalEdited>>
    BY <2>1 DEF SetEvent
  <2>4. NoPost \in Post
    OBVIOUS
  <2>5. post' \in [Clients -> Post]
    BY <2>3, <2>4
  <2>6. answered' \in SUBSET (0 .. N) /\ rejected' \in SUBSET (0 .. N)
    BY <2>2, <2>3
  <2> QED  BY <2>3, <2>5, <2>6
<1>12. CASE \E c \in Clients : CancelDecision(c)
  BY <1>12 DEF CancelDecision, Goes
<1>13. CASE \E c \in Clients : CancelEdited(c)
  BY <1>13 DEF CancelEdited, Goes
<1>14. CASE Complete \/ Rejected \/ StageFails \/ Hold \/ CheckCancelled \/ Emitted \/ Wait \/
          Clear
  BY <1>14 DEF Complete, Rejected, StageFails, Hold, CheckCancelled, Emitted, Wait, Clear
<1>15. CASE HoldAgain \/ Choose
  BY <1>15 DEF HoldAgain, Choose, Resumption
<1>16. CASE \E c \in Operators : AskCancel(c) \/ AskPause(c) \/ AskResume(c)
  BY <1>16 DEF AskCancel, AskPause, AskResume, Ask
<1>17. CASE \E c \in Clients : CancelEvent(c) \/ CancelSet(c) \/ PauseFlag(c) \/ PauseClose(c) \/
          ResumeFlag(c) \/ ResumeOpen(c)
  BY <1>17 DEF CancelEvent, CancelSet, PauseFlag, PauseClose, ResumeFlag, ResumeOpen, Goes
<1>18. CASE UNCHANGED vars
  BY <1>18 DEF vars
<1> QED  BY <1>1, <1>2, <1>3, <1>4, <1>5, <1>6, <1>7, <1>8, <1>9, <1>10, <1>11, <1>12, <1>13,
          <1>14, <1>15, <1>16, <1>17, <1>18 DEF Next, Pipeline, Handler

\* What the gates ended with keeps its type.
LEMMA OutcomesStep == AnswersTyped /\ OutcomesTyped /\ [Next]_vars => OutcomesTyped'
<1> SUFFICES ASSUME AnswersTyped, OutcomesTyped, [Next]_vars PROVE OutcomesTyped'
  OBVIOUS
<1> USE GateAssumption DEF AnswersTyped, OutcomesTyped, Post, Verdict, NoPost, Cancelled, Clients, Gates, run, approval, pause, ctx, ui, requests, history
<1>1. CASE CheckCancelled
  <2>1. Cancelled \in Post
    OBVIOUS
  <2>2. answer' = answer /\ (outcome' = outcome \/ outcome' = [outcome EXCEPT ![gate] = Cancelled])
    BY <1>1 DEF CheckCancelled
  <2>3. outcome' \in [Gates -> Post]
    BY <2>1, <2>2
  <2> QED  BY <2>2, <2>3
<1>2. CASE Choose
  <2>1. Effective(Resumption) \in Post
    BY DEF Effective
  <2>2. answer' = answer /\ outcome' = [outcome EXCEPT ![gate] = Effective(Resumption)]
    BY <1>2 DEF Choose
  <2> QED  BY <2>1, <2>2
<1>3. CASE \E d \in Dashboards : Click(d)
  <2>1. PICK d \in Dashboards : Click(d)
    BY <1>3
  <2>2. PICK verdict \in {"approve", "reject"}, edit \in {0, shown[d]} :
          post' = [post EXCEPT ![d] = [gate |-> shown[d], decision |-> verdict, edited |-> edit]]
    BY <2>1 DEF Click
  <2>3. shown[d] \in 0 .. N
    OBVIOUS
  <2>4. [gate |-> shown[d], decision |-> verdict, edited |-> edit] \in Post
    BY <2>2, <2>3
  <2>5. answer' = [answer EXCEPT ![shown[d]] = post'[d]] /\ outcome' = outcome
    BY <2>1 DEF Click
  <2>6. post'[d] \in Post
    BY <2>2, <2>4
  <2>7. answer' \in [Gates -> Post]
    BY <2>5, <2>6
  <2> QED  BY <2>5, <2>7
<1>4. CASE NextInterrupt \/ Complete \/ Rejected \/ StageFails \/ Hold \/ Present \/ Emitted \/
          Wait
  BY <1>4 DEF NextInterrupt, Complete, Rejected, StageFails, Hold, Present, Emitted, Wait
<1>5. CASE Clear \/ Read \/ HoldAgain \/ TakeEdited \/ ResetEdited
  BY <1>5 DEF Clear, Read, HoldAgain, TakeEdited, ResetEdited
<1>6. CASE \E d \in Dashboards : Receive(d)
  BY <1>6 DEF Receive
<1>7. CASE \E c \in Operators : AskCancel(c) \/ AskPause(c) \/ AskResume(c)
  BY <1>7 DEF AskCancel, AskPause, AskResume, Ask
<1>8. CASE \E c \in Clients : EmitDecided(c) \/ SetDecision(c) \/ SetEdited(c) \/ SetEvent(c) \/
          CancelEvent(c) \/ CancelDecision(c) \/ CancelEdited(c) \/ CancelSet(c)
  BY <1>8 DEF EmitDecided, SetDecision, SetEdited, SetEvent, CancelEvent, CancelDecision,
            CancelEdited, CancelSet, Goes
<1>9. CASE \E c \in Clients : PauseFlag(c) \/ PauseClose(c) \/ ResumeFlag(c) \/ ResumeOpen(c)
  BY <1>9 DEF PauseFlag, PauseClose, ResumeFlag, ResumeOpen, Goes
<1>10. CASE UNCHANGED vars
  BY <1>10 DEF vars
<1> QED  BY <1>1, <1>2, <1>3, <1>4, <1>5, <1>6, <1>7, <1>8, <1>9, <1>10 DEF Next, Pipeline,
          Handler


\* The parts of the type invariant hold throughout.
LEMMA TypedAlways ==
  Spec => [](FlagsTyped /\ ThreadTyped /\ RequestsTyped /\ AnswersTyped /\ OutcomesTyped)
<1>1. Init => FlagsTyped
  BY DEF Init, FlagsTyped
<1>2. Init => ThreadTyped
  BY GateAssumption DEF Init, ThreadTyped, BeforeGate, NoLimit
<1>3. Init => RequestsTyped
  BY GateAssumption DEF Init, RequestsTyped
<1>4. Init => AnswersTyped
  <2> SUFFICES ASSUME Init PROVE AnswersTyped
    OBVIOUS
  <2>1. NoPost \in Post
    BY GateAssumption DEF NoPost, Post
  <2>2. post \in [Clients -> Post]
    BY <2>1 DEF Init
  <2> QED  BY <2>2, GateAssumption DEF Init, AnswersTyped, Verdict
<1>5. Init => OutcomesTyped
  BY GateAssumption DEF Init, OutcomesTyped, NoPost, Post
<1> QED  BY <1>1, <1>2, <1>3, <1>4, <1>5, FlagsStep, ThreadStep, RequestsStep, AnswersStep, OutcomesStep, PTL DEF Spec

\* RunContext and _handle_interrupt keep to their types.
THEOREM TypeCorrect == Spec => []TypeOK
<1>1. FlagsTyped /\ ThreadTyped /\ RequestsTyped /\ AnswersTyped /\ OutcomesTyped => TypeOK
  <2> SUFFICES ASSUME FlagsTyped, ThreadTyped, RequestsTyped, AnswersTyped, OutcomesTyped PROVE TypeOK
    OBVIOUS
  <2>1. stages \in 0 .. N + 1
    BY GateAssumption DEF ThreadTyped
  <2> QED  BY <2>1, Zenon DEF FlagsTyped, ThreadTyped, RequestsTyped, AnswersTyped, OutcomesTyped, TypeOK
<1> QED  BY <1>1, TypedAlways, PTL

-----------------------------------------------------------------------------
(* One window answers: each gate ends with the answer given to it. *)

\* What the decision and the edited text have to be once the gate was answered.
OwnVerdict == [gate |-> gate, decision |-> answer[gate].decision]
OwnEdit == answer[gate].edited
Rightful(g) == /\ answer[g].gate = g
               /\ answer[g].edited # 0 => answer[g].decision = "approve" /\ g \in OutputGates

\* Only the window D answers, only operators cancel and pause, and what a cancel does
\* comes after its event.
Roles(D) ==
  /\ at[D] \in {"idle"} \cup ApproveSteps
  /\ \A c \in Clients : c # D => at[c] \notin ApproveSteps
  /\ ~cancelEvent => \A c \in Clients : at[c] \notin CancelSteps \ {"c_event"}

\* The turns of a gate: nobody asked, D asked, D's request under way, the answer given.
Unasked(D) ==
  /\ pc \in {"invoke", "hold", "check", "present", "ended"}
  /\ at[D] = "idle" /\ shown[D] = 0 /\ open = 0 /\ ~approvalEvent /\ approvalEdited = 0

Asked(D) ==
  /\ pc \in {"emitted", "wait"} /\ gate # 0
  /\ at[D] = "idle" /\ open = gate /\ ~approvalEvent
  /\ shown[D] = 0 \/ (shown[D] = gate /\ seen[D] = event)

Answering(D) ==
  /\ pc \in {"emitted", "wait"} /\ gate # 0
  /\ at[D] \in ApproveSteps /\ shown[D] = 0 /\ ~approvalEvent
  /\ post[D] = answer[gate] /\ Rightful(gate)
  /\ IF at[D] = "emit" THEN seen[D] = event ELSE open = 0
  /\ at[D] \in {"edited", "set"} => approvalDecision = OwnVerdict
  /\ at[D] = "set" => approvalEdited = OwnEdit

Answered(D) ==
  /\ gate # 0 /\ at[D] = "idle" /\ shown[D] = 0 /\ open = 0 /\ Rightful(gate)
  /\ approvalEvent <=> pc \in {"emitted", "wait", "clear"}
  /\ \/ pc \in {"emitted", "wait", "clear", "read"} /\ approvalDecision = OwnVerdict /\ approvalEdited = OwnEdit
     \/ pc \in {"hold2", "take"} /\ decision = OwnVerdict /\ approvalEdited = OwnEdit
     \/ pc \in {"reset", "choose"} /\ decision = OwnVerdict /\ edited = OwnEdit
        /\ (pc = "choose" => approvalEdited = 0)

Turns(D) == ~cancelEvent => Unasked(D) \/ Asked(D) \/ Answering(D) \/ Answered(D)

\* Nobody can answer a gate that ended with an answer, nor has a gate ahead ended.
Unset(g) == outcome[g] \in {NoPost, Cancelled}
Settled(D) ==
  /\ open # 0 => Unset(open)
  /\ shown[D] # 0 => Unset(shown[D])
  /\ \A g \in Gates : g > gate \/ (g = gate /\ pc \notin {"invoke", "ended"}) => outcome[g] = NoPost
  /\ pc \notin {"invoke", "ended"} => gate # 0

OneWindowInv(D) == Roles(D) /\ Turns(D) /\ Settled(D) /\ HonoursTheAnswer

\* What a step that touches none of its variables keeps.
LEMMA OneWindowAside ==
  ASSUME NEW D, OneWindowInv(D), Roles(D)', at'[D] = at[D],
         UNCHANGED <<run, approval, cancelEvent, ui, post, answer, outcome>>
  PROVE  OneWindowInv(D)'
BY DEF OneWindowInv, Turns, Unasked, Asked, Answering, Answered, Settled, HonoursTheAnswer, Unset,
       Rightful, OwnVerdict, OwnEdit, run, approval, ui

\* At the start nobody was asked.
LEMMA OneWindowInit == ASSUME NEW D, Dashboards = {D}, Init PROVE OneWindowInv(D)
<1>1. D \in Clients
  BY DEF Clients
<1>2. Roles(D) /\ Unasked(D)
  BY <1>1 DEF Init, Roles, Unasked, ApproveSteps, CancelSteps
<1>3. Settled(D) /\ HonoursTheAnswer
  BY DEF Init, Settled, HonoursTheAnswer, Unset
<1> QED
  BY <1>2, <1>3 DEF OneWindowInv, Turns

\* Every step of the thread, of the window and of the requests keeps a gate's turns.
LEMMA OneWindowStep ==
  ASSUME NEW D, Dashboards = {D}, OneWindowInv(D), PresentedInv, RequestsTyped, AnswersTyped, OutcomesTyped,
         [Next]_vars
  PROVE  OneWindowInv(D)'
<1> USE DEF OneWindowInv
<1>1. D \in Clients /\ D \in Dashboards /\ D \notin Operators /\ \A d \in Dashboards : d = D
  BY GateAssumption DEF Clients
<1>2. /\ at \in [Clients -> {"idle"} \cup ApproveSteps \cup CancelSteps \cup PauseSteps]
      /\ seen \in [Dashboards -> Nat] /\ shown \in [Dashboards -> 0 .. N] /\ event \in Nat
      /\ post \in [Clients -> Post] /\ answer \in [Gates -> Post] /\ outcome \in [Gates -> Post]
      /\ gate \in 0 .. N /\ open \in 0 .. N /\ N \in Nat
  BY GateAssumption DEF RequestsTyped, AnswersTyped, OutcomesTyped
<1>3. gate # 0 => gate \in Gates
  BY <1>2 DEF Gates
\* The thread
<1>4. CASE NextInterrupt
  <2>1. gate' = gate + 1 /\ pc = "invoke" /\ pc' = "hold" /\ gate < N
        /\ UNCHANGED <<decision, edited, ctx, ui, requests, history>>
    BY <1>4 DEF NextInterrupt
  <2>2. Roles(D)'
    BY <2>1 DEF Roles, ctx, requests
  <2>3. Turns(D)'
    BY <2>1 DEF Turns, Unasked, Asked, Answering, Answered, ctx, approval, ui, requests
  <2>4. Settled(D)' /\ HonoursTheAnswer'
    BY <1>2, <2>1 DEF Settled, Unset, HonoursTheAnswer, ui, history, Gates
  <2> QED
    BY <2>2, <2>3, <2>4
<1>5. CASE Complete \/ Rejected \/ StageFails
  <2>1. pc = "invoke" /\ pc' = "ended" /\ UNCHANGED <<gate, decision, edited, approval, cancelEvent, ui, requests, history>>
    BY <1>5 DEF Complete, Rejected, StageFails
  <2>2. Roles(D)' /\ Turns(D)'
    BY <2>1 DEF Roles, Turns, Unasked, Asked, Answering, Answered, approval, ui, requests
  <2>3. Settled(D)' /\ HonoursTheAnswer'
    BY <2>1 DEF Settled, Unset, HonoursTheAnswer, ui, history
  <2> QED
    BY <2>2, <2>3
<1>6. CASE Hold \/ Emitted \/ Wait \/ HoldAgain
  <2>1. /\ \/ pc = "hold" /\ pc' = "check"
           \/ pc = "emitted" /\ pc' = "wait"
           \/ pc = "wait" /\ pc' = "clear" /\ approvalEvent
           \/ pc = "hold2" /\ pc' = "take"
        /\ UNCHANGED <<gate, decision, edited, ctx, ui, requests, history>>
    BY <1>6 DEF Hold, Emitted, Wait, HoldAgain
  <2>2. Roles(D)'
    BY <2>1 DEF Roles, ctx, requests
  <2>3. Turns(D)'
    BY <2>1 DEF Turns, Unasked, Asked, Answering, Answered, Rightful, OwnVerdict, OwnEdit,
                ctx, approval, ui, requests, history
  <2>4. Settled(D)' /\ HonoursTheAnswer'
    BY <2>1 DEF Settled, Unset, HonoursTheAnswer, ui, history
  <2> QED
    BY <2>2, <2>3, <2>4
<1>7. CASE CheckCancelled
  <2>1. /\ pc = "check" /\ gate' = gate /\ UNCHANGED <<decision, edited, ctx, ui, requests, answer>>
        /\ \/ cancelEvent /\ pc' = "invoke" /\ outcome' = [outcome EXCEPT ![gate] = Cancelled]
           \/ pc' = "present" /\ outcome' = outcome
    BY <1>7 DEF CheckCancelled
  <2>2. Roles(D)'
    BY <2>1 DEF Roles, ctx, requests
  <2>3. Turns(D)'
    BY <2>1 DEF Turns, Unasked, Asked, Answering, Answered, ctx, approval, ui, requests
  <2>4. Settled(D)' /\ HonoursTheAnswer'
    BY <1>2, <2>1 DEF Settled, Unset, HonoursTheAnswer, ui, Gates
  <2> QED
    BY <2>2, <2>3, <2>4
<1>8. CASE Present
  <2>1. /\ pc = "present" /\ pc' = "emitted" /\ event' = event + 1 /\ open' = gate
        /\ UNCHANGED <<gate, decision, edited, ctx, seen, shown, requests, history>>
    BY <1>8 DEF Present
  <2>2. gate \in Gates
    BY <1>3, <2>1 DEF Settled
  <2>3. Roles(D)'
    BY <2>1 DEF Roles, ctx, requests
  <2>4. Turns(D)'
    BY <2>1, <2>2 DEF Turns, Unasked, Asked, Answering, Answered, Settled, ctx, approval, requests
  <2>5. Settled(D)' /\ HonoursTheAnswer'
    BY <2>1, <2>2 DEF Settled, Unset, HonoursTheAnswer, history
  <2> QED
    BY <2>3, <2>4, <2>5
<1>9. CASE Clear \/ Read \/ TakeEdited \/ ResetEdited
  <2>1. /\ \/ /\ pc = "clear" /\ pc' = "read" /\ approvalEvent' = FALSE
              /\ UNCHANGED <<decision, edited, approvalDecision, approvalEdited>>
           \/ /\ pc = "read" /\ pc' = "hold2" /\ decision' = approvalDecision
              /\ UNCHANGED <<edited, approvalEvent, approvalDecision, approvalEdited>>
           \/ /\ pc = "take" /\ pc' = "reset" /\ edited' = approvalEdited
              /\ UNCHANGED <<decision, approvalEvent, approvalDecision, approvalEdited>>
           \/ /\ pc = "reset" /\ pc' = "choose" /\ approvalEdited' = 0
              /\ UNCHANGED <<decision, edited, approvalEvent, approvalDecision>>
        /\ UNCHANGED <<gate, cancelEvent, ui, requests, history>>
    BY <1>9 DEF Clear, Read, TakeEdited, ResetEdited, ctx, approval
  <2>2. Roles(D)'
    BY <2>1 DEF Roles, requests
  <2>3. ASSUME ~cancelEvent PROVE Answered(D) /\ Answered(D)'
    <3>1. Answered(D)
      BY <2>1, <2>3 DEF Turns, Unasked, Asked, Answering
    <3>2. gate' = gate /\ answer' = answer /\ at' = at /\ shown' = shown /\ open' = open
      BY <2>1 DEF ui, requests, history
    <3>3. OwnVerdict' = OwnVerdict /\ OwnEdit' = OwnEdit /\ Rightful(gate)'
      <4>1. OwnVerdict' = OwnVerdict /\ OwnEdit' = OwnEdit
        BY <3>2 DEF OwnVerdict, OwnEdit
      <4>2. Rightful(gate)
        BY <3>1 DEF Answered
      <4>3. Rightful(gate)'
        BY <3>2, <4>2 DEF Rightful
      <4> QED
        BY <4>1, <4>3
    <3>4. /\ gate' # 0 /\ at'[D] = "idle" /\ shown'[D] = 0 /\ open' = 0 /\ Rightful(gate)'
      BY <3>1, <3>3, <3>2 DEF Answered
    <3>5. CASE pc = "clear" \/ pc = "read"
      BY <2>1, <3>1, <3>3, <3>5, <3>4 DEF Answered
    <3>6. CASE pc = "take" \/ pc = "reset"
      BY <2>1, <3>1, <3>3, <3>6, <3>2 DEF Answered
    <3> QED
      BY <2>1, <3>1, <3>5, <3>6
  <2>4. Turns(D)'
    BY <2>1, <2>3 DEF Turns
  <2>5. Settled(D)' /\ HonoursTheAnswer'
    BY <2>1 DEF Settled, Unset, HonoursTheAnswer, ui, history
  <2> QED
    BY <2>2, <2>5, <2>4
<1>10. CASE Choose
  <2>1. /\ pc = "choose" /\ pc' = "invoke" /\ outcome' = [outcome EXCEPT ![gate] = Effective(Resumption)]
        /\ UNCHANGED <<gate, decision, edited, ctx, ui, requests, answer>>
    BY <1>10 DEF Choose
  <2>2. gate \in Gates
    BY <1>3, <2>1 DEF Settled
  <2>3. ASSUME ~cancelEvent PROVE Answered(D) /\ Effective(Resumption) = answer[gate]
    <3>1. Answered(D)
      BY <2>1, <2>3 DEF Turns, Unasked, Asked, Answering
    <3>2. decision = OwnVerdict /\ edited = answer[gate].edited /\ Rightful(gate)
      BY <2>1, <3>1 DEF Answered, OwnEdit
    <3>3. answer[gate] \in Post
      BY <1>2, <2>2
    <3>4. answer[gate] = [gate |-> gate, decision |-> answer[gate].decision, edited |-> answer[gate].edited]
      BY <3>2, <3>3 DEF Post, Rightful
    <3>5. IF Resumption = "edit" THEN edited = answer[gate].edited ELSE answer[gate].edited = 0
      BY <3>2, <3>3 DEF Resumption, OwnVerdict, Rightful, Post
    <3>6. Effective(Resumption) = [gate |-> gate, decision |-> answer[gate].decision, edited |-> answer[gate].edited]
      BY <2>3, <3>2, <3>5 DEF Effective, OwnVerdict
    <3> QED
      BY <3>1, <3>4, <3>6
  <2>4. cancelEvent => Effective(Resumption) = Cancelled
    BY DEF Effective
  <2>5. Roles(D)'
    BY <2>1 DEF Roles, ctx, requests
  <2>6. Turns(D)'
    BY <2>1, <2>3 DEF Turns, Unasked, Answered, ctx, approval, ui, requests
  <2>7. Settled(D)'
    BY <1>2, <2>1, <2>2, <2>3, <2>4 DEF Settled, Unset, Answered, ui, Gates
  <2>8. HonoursTheAnswer'
    BY <1>2, <2>1, <2>2, <2>3, <2>4 DEF HonoursTheAnswer
  <2> QED
    BY <2>5, <2>6, <2>7, <2>8
\* The window
<1>11. CASE Receive(D)
  <2>1. /\ seen[D] < event /\ seen' = [seen EXCEPT ![D] = event] /\ shown' = [shown EXCEPT ![D] = open]
        /\ UNCHANGED <<run, ctx, event, open, requests, history>>
    BY <1>11 DEF Receive
  <2>2. shown'[D] = open /\ seen'[D] = event
    BY <1>1, <1>2, <2>1
  <2>3. Roles(D)'
    BY <2>1 DEF Roles, ctx, requests
  <2>4. Turns(D)'
    BY <1>2, <2>1, <2>2 DEF Turns, Unasked, Asked, Answering, Answered, Rightful, OwnVerdict, OwnEdit,
                run, ctx, approval, requests, history
  <2>5. Settled(D)' /\ HonoursTheAnswer'
    BY <2>1, <2>2 DEF Settled, Unset, HonoursTheAnswer, run, history
  <2> QED
    BY <2>3, <2>4, <2>5
<1>12. CASE Click(D)
  <2>1. PICK verdict \in {"approve", "reject"}, edit \in {0, shown[D]} :
          /\ edit # 0 => verdict = "approve" /\ shown[D] \in OutputGates
          /\ post' = [post EXCEPT ![D] = [gate |-> shown[D], decision |-> verdict, edited |-> edit]]
    BY <1>12 DEF Click
  <2>2. /\ at[D] = "idle" /\ shown[D] # 0 /\ at' = [at EXCEPT ![D] = "emit"] /\ shown' = [shown EXCEPT ![D] = 0]
        /\ answer' = [answer EXCEPT ![shown[D]] = post'[D]]
        /\ UNCHANGED <<run, ctx, event, open, seen, outcome>>
    BY <1>12 DEF Click
  <2>3. shown[D] \in Gates
    BY <1>1, <1>2, <2>2 DEF Gates
  <2>4. post'[D] = [gate |-> shown[D], decision |-> verdict, edited |-> edit]
    BY <1>1, <1>2, <2>1
  <2>5. /\ at'[D] = "emit" /\ shown'[D] = 0 /\ answer'[shown[D]] = post'[D]
        /\ \A c \in Clients : c # D => at'[c] = at[c]
        /\ \A g \in Gates : g # shown[D] => answer'[g] = answer[g]
    BY <1>1, <1>2, <2>2, <2>3
  <2>6. Roles(D)'
    BY <2>2, <2>5 DEF Roles, ctx, ApproveSteps, CancelSteps
  <2>7. ASSUME ~cancelEvent PROVE Answering(D)'
    <3>1. shown[D] = gate /\ seen[D] = event /\ pc \in {"emitted", "wait"} /\ ~approvalEvent /\ gate # 0
      BY <2>2, <2>7 DEF Turns, Unasked, Asked, Answering, Answered
    <3>2. UNCHANGED <<pc, gate, approvalEvent, seen, event>>
      BY <2>2 DEF run, ctx, approval
    <3>3. /\ answer'[gate] = post'[D] /\ answer'[gate].gate = gate
          /\ answer'[gate].edited = edit /\ answer'[gate].decision = verdict
      BY <2>4, <2>5, <3>1
    <3>4. post'[D] = answer'[gate] /\ Rightful(gate)'
      BY <2>1, <3>1, <3>2, <3>3 DEF Rightful
    <3> QED
      BY <2>5, <3>1, <3>4, <3>2 DEF Answering, ApproveSteps
  <2>8. Turns(D)'
    BY <2>2, <2>7 DEF Turns, ctx
  <2>9. Settled(D)' /\ HonoursTheAnswer'
    BY <2>2, <2>3, <2>5 DEF Settled, Unset, HonoursTheAnswer, run
  <2> QED
    BY <2>6, <2>8, <2>9
\* The requests
<1>13. ASSUME NEW c \in Clients, EmitDecided(c) \/ SetDecision(c) \/ SetEdited(c) \/ SetEvent(c)
       PROVE  OneWindowInv(D)'
  <2>1. c = D
    BY <1>13 DEF EmitDecided, SetDecision, SetEdited, SetEvent, Goes, Roles, ApproveSteps
  <2>2. /\ UNCHANGED <<run, cancelEvent, seen, shown, answer, outcome>>
        /\ \/ /\ at[D] = "emit" /\ at' = [at EXCEPT ![D] = "decision"] /\ event' = event + 1 /\ open' = 0
              /\ UNCHANGED <<approval, post>>
           \/ /\ at[D] = "decision" /\ at' = [at EXCEPT ![D] = "edited"]
              /\ approvalDecision' = [gate |-> post[D].gate, decision |-> post[D].decision]
              /\ UNCHANGED <<approvalEvent, approvalEdited, event, open, post>>
           \/ /\ at[D] = "edited" /\ at' = [at EXCEPT ![D] = "set"] /\ approvalEdited' = post[D].edited
              /\ UNCHANGED <<approvalEvent, approvalDecision, event, open, post>>
           \/ /\ at[D] = "set" /\ at' = [at EXCEPT ![D] = "idle"] /\ approvalEvent' = TRUE
              /\ UNCHANGED <<approvalDecision, approvalEdited, event, open>>
    BY <1>13, <2>1 DEF EmitDecided, SetDecision, SetEdited, SetEvent, Goes, ctx, ui, history
  <2>3. /\ at'[D] \in {"decision", "edited", "set", "idle"}
        /\ \A e \in Clients : e # D => at'[e] = at[e]
        /\ at[D] = "emit" <=> at'[D] = "decision"
        /\ at[D] = "decision" <=> at'[D] = "edited"
        /\ at[D] = "edited" <=> at'[D] = "set"
        /\ at[D] = "set" <=> at'[D] = "idle"
    BY <1>1, <1>2, <2>2
  <2>4. Roles(D)'
    BY <2>2, <2>3 DEF Roles, ApproveSteps, CancelSteps
  <2>5. ASSUME ~cancelEvent PROVE Answering(D)' \/ Answered(D)'
    <3>1. Answering(D)
      BY <2>2, <2>5 DEF Turns, Unasked, Asked, Answered
    <3>2. UNCHANGED <<pc, gate>> /\ Rightful(gate)' /\ UNCHANGED <<OwnVerdict, OwnEdit>>
      BY <2>2, <3>1 DEF run, Answering, Rightful, OwnVerdict, OwnEdit
    <3>3. CASE at[D] # "set"
      <4>1. Answering(D)'
        BY <2>2, <2>3, <3>1, <3>2, <3>3 DEF Answering, ApproveSteps, approval, OwnVerdict, OwnEdit, Rightful
      <4> QED
        BY <4>1
    <3>4. CASE at[D] = "set"
      <4>1. Answered(D)'
        BY <2>2, <2>3, <3>1, <3>2, <3>4 DEF Answering, Answered
      <4> QED
        BY <4>1
    <3> QED
      BY <3>3, <3>4
  <2>6. Turns(D)'
    BY <2>2, <2>5 DEF Turns
  <2>7. Settled(D)' /\ HonoursTheAnswer'
    BY <2>2 DEF Settled, Unset, HonoursTheAnswer, run
  <2> QED
    BY <2>4, <2>6, <2>7
<1>14. ASSUME NEW c \in Clients, CancelEvent(c) PROVE OneWindowInv(D)'
  <2>1. at[c] = "c_event" /\ at' = [at EXCEPT ![c] = "c_decision"] /\ cancelEvent' = TRUE
        /\ UNCHANGED <<run, ui, answer, outcome>>
    BY <1>14 DEF CancelEvent, Goes
  <2>2. c # D
    BY <2>1 DEF Roles, ApproveSteps
  <2>3. Roles(D)' /\ Turns(D)'
    BY <1>2, <2>1, <2>2 DEF Roles, Turns, ApproveSteps
  <2>4. Settled(D)' /\ HonoursTheAnswer'
    BY <2>1 DEF Settled, Unset, HonoursTheAnswer, run, ui
  <2> QED
    BY <2>3, <2>4
<1>15. ASSUME NEW c \in Clients, CancelDecision(c) \/ CancelEdited(c) \/ CancelSet(c) PROVE OneWindowInv(D)'
  <2>1. /\ at[c] \in {"c_decision", "c_edited", "c_set"}
        /\ \E step \in {"c_edited", "c_set", "r_flag"} : at' = [at EXCEPT ![c] = step]
        /\ UNCHANGED <<run, ui, cancelEvent, answer, outcome>>
    BY <1>15 DEF CancelDecision, CancelEdited, CancelSet, Goes, history
  <2>2. c # D /\ cancelEvent
    BY <2>1 DEF Roles, ApproveSteps, CancelSteps
  <2>3. Roles(D)' /\ Turns(D)'
    BY <1>2, <2>1, <2>2 DEF Roles, Turns, ApproveSteps
  <2>4. Settled(D)' /\ HonoursTheAnswer'
    BY <2>1 DEF Settled, Unset, HonoursTheAnswer, run, ui
  <2> QED
    BY <2>3, <2>4
<1>16. ASSUME NEW c \in Clients, PauseFlag(c) \/ PauseClose(c) \/ ResumeFlag(c) \/ ResumeOpen(c)
       PROVE  OneWindowInv(D)'
  <2>1. /\ at[c] \in PauseSteps
        /\ \E step \in {"p_close", "idle", "r_open"} : at' = [at EXCEPT ![c] = step]
        /\ UNCHANGED <<run, approval, cancelEvent, ui, post, answer, outcome>>
    BY <1>16 DEF PauseFlag, PauseClose, ResumeFlag, ResumeOpen, Goes, history, PauseSteps
  <2>2. c # D
    BY <2>1 DEF Roles, ApproveSteps, PauseSteps
  <2>3. at'[D] = at[D] /\ Roles(D)'
    BY <1>1, <1>2, <2>1, <2>2 DEF Roles, ApproveSteps, CancelSteps
  <2> QED
    BY <2>1, <2>3, OneWindowAside
<1>17. ASSUME NEW c \in Operators, AskCancel(c) \/ AskPause(c) \/ AskResume(c) PROVE OneWindowInv(D)'
  <2>1. /\ \E step \in {"c_event", "p_flag", "r_flag"} : at' = [at EXCEPT ![c] = step]
        /\ UNCHANGED <<run, approval, cancelEvent, ui, post, answer, outcome>>
    BY <1>17 DEF AskCancel, AskPause, AskResume, Ask, ctx, history
  <2>2. c # D /\ c \in Clients
    BY <1>1 DEF Clients
  <2>3. at'[D] = at[D] /\ Roles(D)'
    BY <1>1, <1>2, <2>1, <2>2 DEF Roles, ApproveSteps, CancelSteps
  <2> QED
    BY <2>1, <2>3, OneWindowAside
<1>18. CASE UNCHANGED vars
  <2>1. UNCHANGED <<run, approval, cancelEvent, ui, at, post, answer, outcome>>
    BY <1>18 DEF vars, ctx, requests, history
  <2>2. Roles(D)'
    BY <2>1 DEF Roles
  <2> QED
    BY <2>1, <2>2, OneWindowAside
<1> HIDE DEF OneWindowInv
<1> QED
  BY <1>1, <1>4, <1>5, <1>6, <1>7, <1>8, <1>9, <1>10, <1>11, <1>12, <1>13, <1>14, <1>15, <1>16, <1>17, <1>18
     DEF Next, Pipeline, Handler

\* wait_approval, set_decision and _handle_interrupt: with one window that answers, any
\* number of windows that cancel, pause and resume, and any number of gates, each gate is
\* decided by the answer given to it and with the text edited at it, or by the cancel.
THEOREM OwnAnswer == ASSUME NEW D, Dashboards = {D} PROVE Spec => []HonoursTheAnswer
<1>1. Init => OneWindowInv(D)
  BY OneWindowInit
<1>2. /\ OneWindowInv(D) /\ PresentedInv /\ RequestsTyped /\ AnswersTyped /\ OutcomesTyped /\ [Next]_vars
        => OneWindowInv(D)'
  BY OneWindowStep
<1>3. OneWindowInv(D) => HonoursTheAnswer
  BY DEF OneWindowInv
<1> QED
  BY <1>1, <1>2, <1>3, OnlyPresentedGates, TypedAlways, PTL DEF Spec
=============================================================================
