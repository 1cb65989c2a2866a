----------------------------- MODULE Dashboard -----------------------------
(***************************************************************************)
(* A web run from its nodes to the screens: the events that SSERegistry,   *)
(* _handle_interrupt and _run_pipeline emit while AgentPipeline runs, the  *)
(* requests that start, answer, cancel, pause and resume it, and the       *)
(* windows that build their picture of the run from those events and from  *)
(* what their own user just clicked (usePipelineRun.js).                   *)
(*                                                                         *)
(* The order of single statements inside a request is ApprovalGate's, that *)
(* of an emit RunEvents', and the loss of the server RunStream's subject.  *)
(* Here a request has two steps where an event can come between them.      *)
(***************************************************************************)
EXTENDS AgentPipeline, FiniteSets

CONSTANTS Windows,
          MaxLag,    \* bound: events the run is ahead of a window
          MaxActs    \* bound: what users do beside answering each gate once, and requests that
                     \* do not arrive

VARIABLES
  at,         \* the pipeline thread: "none", "free", "waiting" in wait_approval, "decided",
              \* "launch", "over"
  seen,       \* RunContext.seen_stages
  signal,     \* approval_event and approval_decision
  cancelled,
  paused,
  queue,      \* each window's events on the way
  replay,     \* what all the events of the run amount to
  tuned,      \* the windows that have a stream of the run
  view,       \* each window's state of the run, or of the one it asked to start
  post,       \* the request it has sent
  acts,
  stray,      \* history: a gate was answered twice, or an answer came to no gate
  crossed,    \* history: a pause and a resume overlapped
  blind       \* history: windows with an answer the run did not get, or got when it was over

server == <<at, seen, signal, cancelled, paused>>
events == <<queue, replay>>
screen == <<tuned, view>>
screens == <<screen, post, acts>>
history == <<stray, crossed, blind>>
dashVars == <<server, events, screens, history>>

-----------------------------------------------------------------------------
(* runReducer *)

Stages == {"plan", "spec", "env", "execute", "test", "launch"}
\* _STAGE_MAP; the comprehension is not in it and counts as planning.
Shown == <<"plan", "plan", "spec", "env", "execute", "test">>

NoDialog == [stage |-> 0, gate |-> 0]
NoRun == [status |-> "running", cancelling |-> FALSE, paused |-> FALSE, stages |-> [s \in Stages |-> ""],
          agents |-> [a \in Agents |-> "none"], budget |-> 0, preview |-> 0, approval |-> NoDialog]

\* markActiveAsFailed
MarkActiveAsFailed(stages) == [s \in Stages |-> IF stages[s] = "active" THEN "failed" ELSE stages[s]]

\* Mutant: the dialog stays.
GateStays(v) == [v EXCEPT !.status = "running", !.preview = 0]

\* APPROVAL_SENT, and APPROVAL_DECIDED where a dialog is open
GateClosed(v) == [v EXCEPT !.status = "running", !.approval = NoDialog, !.preview = 0]

\* An agent that was registered.
AgentIs(v, a, as) == [v EXCEPT !.agents[a] = IF @ = "none" THEN "none" ELSE as]

Ended(v, as) == [v EXCEPT !.status = as, !.paused = FALSE]

Applied(v, e) ==
  CASE e.type = "stage_started" -> [v EXCEPT !.stages[e.stage] = "active"]
    [] e.type = "stage_completed" -> [v EXCEPT !.stages[e.stage] = "done"]
    [] e.type = "agent_file_preview" -> [v EXCEPT !.preview = e.agent, !.budget = e.budget]
    [] e.type = "agent_registered" ->
         [v EXCEPT !.agents[e.agent] = "PENDING", !.budget = IF e.slot > @ THEN e.slot ELSE @]
    [] e.type = "agent_alive" -> AgentIs(v, e.agent, "ALIVE")
    [] e.type = "agent_torn_down" -> AgentIs(v, e.agent, "TORN_DOWN")
    [] e.type = "agent_failed" -> AgentIs(v, e.agent, "FAILED")
    [] e.type = "approval_required" ->
         [v EXCEPT !.status = "awaiting_approval", !.approval = [stage |-> e.stage, gate |-> e.gate]]
    [] e.type = "approval_decided" -> IF v.approval = NoDialog THEN v ELSE GateClosed(v)
    [] e.type = "pipeline_paused" -> [v EXCEPT !.paused = TRUE]
    [] e.type = "pipeline_resumed" -> [v EXCEPT !.paused = FALSE]
    [] e.type = "pipeline_completed" ->
         [Ended(v, "completed") EXCEPT
            !.stages = [s \in Stages |-> IF s = "launch" /\ @[s] = "" THEN "" ELSE "done"]]
    [] e.type = "pipeline_rejected" -> Ended(v, "rejected")
    [] e.type = "pipeline_cancelled" ->
         [Ended(v, "cancelled") EXCEPT !.cancelling = FALSE, !.stages = MarkActiveAsFailed(@)]
    [] e.type = "pipeline_failed" -> [Ended(v, "failed") EXCEPT !.stages = MarkActiveAsFailed(@)]
    [] OTHER -> v

-----------------------------------------------------------------------------
(* The pipeline thread *)

Event(type) == [type |-> type]
StageEvent(type, s) == [type |-> type, stage |-> s]
AgentEvent(type, a) == [type |-> type, agent |-> a]

\* No event comes after stream_end; a window is never further behind than the bound.
Emits(es) ==
  IF es = <<>> \/ at = "over" THEN UNCHANGED events
  ELSE /\ \A w \in tuned : Len(queue[w]) < MaxLag
       /\ queue' = [w \in Windows |-> IF w \in tuned THEN queue[w] \o es ELSE <<>>]
       /\ replay' = FoldLeft(Applied, replay, es)

\* SSERegistry: register, mark_alive, then mark_torn_down or mark_failed
Lifecycle(a, ends) ==
  << [type |-> "agent_registered", agent |-> a, slot |-> spawned + 1], AgentEvent("agent_alive", a),
     AgentEvent(IF ends = "FAILED" THEN "agent_failed" ELSE "agent_torn_down", a) >>

\* The except and finally clauses of _run_pipeline
Farewell(as) ==
  << Event(IF as # "rejected" THEN "pipeline_failed"
           ELSE IF cancelled THEN "pipeline_cancelled" ELSE "pipeline_rejected"), Event("stream_end") >>

\* The graph runs until it suspends, ends or fails.
RunGraph ==
  /\ at = "free"
  /\ \/ (CheckBudget \/ AgentFileGate \/ OutputGate \/ FinishFails)
        /\ Emits(IF status' = "running" THEN <<>> ELSE Farewell(status'))
     \/ Produce /\ Emits(Lifecycle(stage, "TORN_DOWN"))
     \/ ProduceFails /\ Emits(Lifecycle(stage, "FAILED") \o Farewell("failed"))
     \/ Finish /\ Emits(IF status' = "running" THEN <<>>
                        ELSE <<Event("pipeline_completed"), StageEvent("stage_started", "launch")>>)
     \/ WriteSkill
        /\ Emits((IF skill' = "skipped" THEN <<>>
                  ELSE Lifecycle(SkillWriter, IF skill' = "failed" THEN "FAILED" ELSE "TORN_DOWN"))
                 \o <<Event("pipeline_completed"), StageEvent("stage_started", "launch")>>)
  /\ at' = IF status' = "running" THEN "free" ELSE IF status' = "completed" THEN "launch" ELSE "over"
  /\ UNCHANGED <<seen, signal, cancelled, paused, screens, history>>

\* _handle_interrupt up to the wait
Present ==
  /\ at = "free" /\ status = "running" /\ pc = "suspended" /\ ~paused /\ ~cancelled
  /\ LET s == Shown[stage] gate == Len(answers) + 1 IN
     /\ seen' = seen \cup {s}
     /\ Emits((IF s \in seen THEN <<>> ELSE <<StageEvent("stage_started", s)>>)
              \o (IF gate = 2 THEN <<StageEvent("stage_completed", s)>>
                  ELSE IF stage = Comprehender THEN <<>>
                  ELSE <<[type |-> "agent_file_preview", agent |-> stage, budget |-> Cardinality(seen')]>>)
              \o <<[type |-> "approval_required", stage |-> stage, gate |-> gate]>>)
  /\ at' = "waiting"
  /\ UNCHANGED <<signal, cancelled, paused, screens, history, vars>>

\* The wait is over; the event is cleared and the decision read.
Wake ==
  /\ at = "waiting" /\ signal.set
  /\ signal' = [set |-> FALSE, decision |-> signal.decision]
  /\ at' = "decided"
  /\ UNCHANGED <<seen, cancelled, paused, events, screens, history, vars>>

\* _handle_interrupt from the decision on; a cancelled run is rejected without asking.  An
\* edited text that comes to a gate without a document is an approval.
Resumption ==
  /\ ~paused
  /\ \/ at = "decided"
     \/ at = "free" /\ status = "running" /\ pc = "suspended" /\ cancelled
  /\ Answer(IF cancelled THEN "reject"
            ELSE IF signal.decision = "edit" /\ (Len(answers) # 1 \/ stage \notin Editable) THEN "approve"
            ELSE signal.decision)
  /\ at' = "free"
  /\ UNCHANGED <<seen, signal, cancelled, paused, events, screens, history>>

\* The tail of _run_pipeline, with whatever became of the application
Launched ==
  /\ at = "launch" /\ at' = "over"
  /\ Emits(<<StageEvent("stage_completed", "launch"), Event("stream_end")>>)
  /\ UNCHANGED <<seen, signal, cancelled, paused, screens, history, vars>>

-----------------------------------------------------------------------------
(* The windows *)

Idle == [req |-> "none", decision |-> "none", step |-> 0]
Sends(w, req, decision) == post' = [post EXCEPT ![w] = [req |-> req, decision |-> decision, step |-> 1]]
Acts == acts < MaxActs /\ acts' = acts + 1
Done(w) == post' = [post EXCEPT ![w] = Idle]
CaughtUp(w) == queue[w] = <<>>

\* The next event; after stream_end the stream is closed.
Receive(w) ==
  /\ ~CaughtUp(w)
  /\ view' = [view EXCEPT ![w] = Applied(@, Head(queue[w]))]
  /\ queue' = [queue EXCEPT ![w] = Tail(@)]
  /\ UNCHANGED <<server, replay, tuned, post, acts, history, vars>>

Fails(w) == view' = [view EXCEPT ![w].status = "failed"]

\* startRun: the run has a temporary id until the answer comes.
StartRun(w) ==
  /\ at = "none" /\ \A o \in Windows : post[o] = Idle
  /\ view' = [view EXCEPT ![w] = NoRun] /\ Sends(w, "start", "none")
  /\ UNCHANGED <<server, events, tuned, acts, history, vars>>

\* Its stream replays what the run has emitted meanwhile.
RunStarted(w) ==
  /\ post[w].req = "start" /\ post[w].step = 2 /\ Done(w)
  /\ tuned' = tuned \cup {w} /\ view' = [view EXCEPT ![w] = replay]
  /\ UNCHANGED <<server, events, acts, history, vars>>

\* The window is opened, or opened anew, finds the run in /live-runs and replays it.
Adopt(w) ==
  /\ at # "none" /\ post[w] = Idle
  /\ IF w \in tuned THEN Acts ELSE UNCHANGED acts
  /\ tuned' = tuned \cup {w}
  /\ view' = [view EXCEPT ![w] = replay] /\ queue' = [queue EXCEPT ![w] = <<>>]
  /\ blind' = blind \ {w}
  /\ UNCHANGED <<server, replay, post, stray, crossed, vars>>

\* It is the gate that waits, and no other window has answered it.
Once(w) ==
  /\ at = "waiting" /\ ~signal.set /\ view[w].approval = [stage |-> stage, gate |-> Len(answers) + 1]
  /\ \A o \in Windows : post[o].req # "approve"

\* sendApproval: the dialog closes before the request is sent.
SendApproval(w, decision) ==
  /\ post[w] = Idle /\ view[w].approval # NoDialog
  /\ decision = "edit" => view[w].approval.gate = 2 /\ view[w].approval.stage \in Editable
  /\ view' = [view EXCEPT ![w] = GateClosed(@)]
  /\ Sends(w, "approve", decision)
  /\ IF Once(w) THEN UNCHANGED acts ELSE Acts
  /\ UNCHANGED <<server, events, tuned, history, vars>>

Active(w) == view[w].status \in {"running", "awaiting_approval"}

\* cancelPipeline, pausePipeline and resumePipeline; with a temporary id they reach no run.
Ask(w, req) ==
  /\ w \in tuned /\ post[w] = Idle /\ Active(w) /\ ~view[w].cancelling
  /\ Acts
  /\ req = "pause" => ~view[w].paused
  /\ req = "resume" => view[w].paused
  /\ view' = IF req = "cancel" THEN [view EXCEPT ![w].cancelling = TRUE] ELSE view
  /\ Sends(w, req, "none")
  /\ UNCHANGED <<server, events, tuned, history, vars>>

\* fetch raises: the request did not arrive, or the answer to the start did not.
Lose(w) ==
  /\ post[w].step = 1 \/ post[w].req = "start"
  /\ Acts
  /\ IF post[w].req = "start" THEN Fails(w)
     ELSE view' = IF post[w].req = "cancel" THEN [view EXCEPT ![w].cancelling = FALSE] ELSE view
  /\ blind' = IF post[w].req = "approve" THEN blind \cup {w} ELSE blind
  /\ Done(w)
  /\ UNCHANGED <<server, events, tuned, stray, crossed, vars>>

-----------------------------------------------------------------------------
(* The requests *)

Step(w, req, k) == post[w].req = req /\ post[w].step = k
Next2(w) == post' = [post EXCEPT ![w] = [req |-> @.req, decision |-> @.decision, step |-> 2]]
Answering == {w \in Windows : post[w].req = "approve" /\ post[w].step = 2}

\* start_run refuses the form, the checkout or the folder, or registers the run and starts
\* its thread.
StartRoute(w) ==
  /\ Step(w, "start", 1)
  /\ \/ Acts /\ Fails(w) /\ Done(w) /\ UNCHANGED at
     \/ at' = "free" /\ Next2(w) /\ UNCHANGED <<acts, view>>
  /\ UNCHANGED <<seen, signal, cancelled, paused, events, tuned, history, vars>>

\* approve broadcasts the decision, ...
Broadcast(w) ==
  /\ Step(w, "approve", 1)
  /\ Emits(<<Event("approval_decided")>>) /\ Next2(w)
  /\ stray' = (stray \/ at # "waiting" \/ signal.set \/ Answering # {})
  /\ blind' = IF at = "over" THEN blind \cup {w} ELSE blind
  /\ UNCHANGED <<server, screen, acts, crossed, vars>>

\* ... and then wakes the pipeline.
SetDecision(w) ==
  /\ Step(w, "approve", 2) /\ Done(w)
  /\ signal' = [set |-> TRUE, decision |-> post[w].decision]
  /\ UNCHANGED <<at, seen, cancelled, paused, events, screen, acts, history, vars>>

\* A run that is over is not cancelled, and the window told so.
Cancel(w) ==
  /\ Step(w, "cancel", 1) /\ Done(w)
  /\ IF status = "running"
     THEN /\ cancelled' = TRUE /\ paused' = FALSE
          /\ signal' = [set |-> TRUE, decision |-> "reject"]
          /\ UNCHANGED view
     ELSE view' = [view EXCEPT ![w].cancelling = FALSE] /\ UNCHANGED <<cancelled, paused, signal>>
  /\ UNCHANGED <<at, seen, events, tuned, acts, history, vars>>

\* pause and resume act first ...
Switch(w) ==
  /\ \/ Step(w, "pause", 1) /\ IF status = "running" /\ ~paused THEN paused' = TRUE /\ Next2(w)
                                ELSE UNCHANGED paused /\ Done(w)
     \/ Step(w, "resume", 1) /\ IF paused THEN paused' = FALSE /\ Next2(w)
                                 ELSE UNCHANGED paused /\ Done(w)
  /\ crossed' = (crossed \/ \E o \in Windows \ {w} : post[o].req \in {"pause", "resume"} /\ post[o].step = 2)
  /\ UNCHANGED <<at, seen, signal, cancelled, events, screen, acts, stray, blind, vars>>

\* ... and tell afterwards.
Tell(w) ==
  /\ post[w].req \in {"pause", "resume"} /\ post[w].step = 2 /\ Done(w)
  /\ Emits(<<Event(IF post[w].req = "pause" THEN "pipeline_paused" ELSE "pipeline_resumed")>>)
  /\ crossed' = (crossed \/ status # "running")
  /\ UNCHANGED <<server, screen, acts, stray, blind, vars>>

DashInit ==
  /\ Init
  /\ at = "none" /\ seen = {} /\ signal = [set |-> FALSE, decision |-> "approve"]
  /\ cancelled = FALSE /\ paused = FALSE
  /\ queue = [w \in Windows |-> <<>>] /\ replay = NoRun /\ view = [w \in Windows |-> NoRun] /\ tuned = {}
  /\ post = [w \in Windows |-> Idle] /\ acts = 0
  /\ stray = FALSE /\ crossed = FALSE /\ blind = {}

Window(w) ==
  \/ StartRun(w) \/ StartRoute(w) \/ RunStarted(w)
  \/ Receive(w) \/ Adopt(w) \/ Lose(w) \/ Broadcast(w) \/ SetDecision(w) \/ Cancel(w) \/ Switch(w) \/ Tell(w)
  \/ \E d \in {"approve", "edit", "reject"} : SendApproval(w, d)
  \/ \E req \in {"cancel", "pause", "resume"} : Ask(w, req)

DashNext ==
  \/ RunGraph \/ Present \/ Wake \/ Resumption \/ Launched
  \/ EditOnDisk /\ UNCHANGED dashVars
  \/ \E w \in Windows : Window(w)

DashSpec == DashInit /\ [][DashNext]_<<vars, dashVars>>

-----------------------------------------------------------------------------
(* Properties *)

\* A window that has every event shows the gate that waits for an answer, and no other, as
\* long as no gate was answered twice, its own answer arrived, and the run is not cancelled.
DialogIsTheGate ==
  \A w \in tuned :
    CaughtUp(w) /\ ~stray /\ ~cancelled /\ Answering = {} /\ w \notin blind /\ post[w].req # "approve" =>
      view[w].approval = IF at = "waiting" /\ ~signal.set
                         THEN [stage |-> stage, gate |-> Len(answers) + 1] ELSE NoDialog

\* What a window shows of the run can be believed.  One that followed the run shows what one shows
\* that is opened now; it shows as done only stages whose output was presented, and none as
\* active or alive that the end of the run cut off; it shows the end the run came to, unless a
\* gate was answered twice; and it shows the run as paused when it is.
ViewTellsTheRun ==
  \A w \in tuned : CaughtUp(w) /\ w \notin blind /\ post[w].req # "approve" =>
    LET v == view[w] IN
    /\ v.stages = replay.stages /\ v.agents = replay.agents /\ v.budget = replay.budget
    /\ v.paused = replay.paused
    /\ ~stray => v.status = replay.status /\ v.approval = replay.approval /\ v.preview = replay.preview
    /\ \A s \in Stages \ {"launch"} : v.stages[s] = "done" =>
         status = "completed" \/ \E k \in Comprehender .. Tester : Shown[k] = s /\ <<k, 1>> \in granted
    /\ at = "over" =>
         /\ ~stray => v.status = CASE status \in {"budget", "failed"} -> "failed"
                         [] status = "rejected" /\ cancelled -> "cancelled"
                         [] OTHER -> status
         /\ (status = "rejected" => cancelled) => \A s \in Stages : v.stages[s] # "active"
         /\ \A a \in Agents : v.agents[a] \notin {"PENDING", "ALIVE"}
    /\ ~crossed /\ ~cancelled /\ status = "running" /\ (\A o \in Windows : post[o].step # 2) => v.paused = paused

\* A window that has every event shows the run as it is: the gate that waits, and what the run has
\* come to.
WindowShowsTheRun == DialogIsTheGate /\ ViewTellsTheRun
=============================================================================
