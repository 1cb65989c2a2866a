--------------------------- MODULE AgentPipeline ---------------------------
(***************************************************************************)
(* The stage nodes of core/nodes.py, the agent budget of AgentFactory and  *)
(* the AgentRegistry, run by LangGraph (external).                         *)
(*                                                                         *)
(* LangGraph suspends a node by raising out of interrupt(), and resumes it *)
(* by running the node again from its first line; the interrupts that were *)
(* answered before return their answers at once.  A stage with two gates   *)
(* is therefore run three times, and everything above a gate is done again *)
(* below it: the budget check, the ledger entries, the agent and its model *)
(* call.  A node's locals do not survive: only the answers do.             *)
(*                                                                         *)
(* Between two suspensions nothing else touches a run's state, so what a   *)
(* node does there is split into steps only where it can end.              *)
(***************************************************************************)
EXTENDS Integers, SequencesExt

CONSTANTS MaxAgents,    \* MAX_AGENTS
          HasCodebase,  \* the run was given an existing codebase
          Outputs,      \* what a model call can return
          Mine,         \* a text the user wrote
          None

ASSUME PipelineAssumption ==
  /\ MaxAgents \in Nat /\ HasCodebase \in BOOLEAN
  /\ Mine \notin Outputs /\ None \notin Outputs \cup {Mine}

Comprehender == 1
Planner == 2
SpecWriter == 3
EnvBuilder == 4
Executor == 5
Tester == 6
SkillWriter == 7
Agents == Comprehender .. SkillWriter

\* comprehender_node returns at once when there is no codebase.
FirstStage == IF HasCodebase THEN Comprehender ELSE Planner

\* Stages whose document /approve may replace.
Editable == {Comprehender, Planner, SpecWriter}

Texts == Outputs \cup {Mine}
Status == {"running", "completed", "rejected", "budget", "failed"}

VARIABLES
  stage,     \* the node that runs
  pc,        \* where in the node: "top", "gate1", "produce", "gate2", "finish"; "suspended"
  answers,   \* the answers the node's interrupts have had
  artifact,  \* local: what this run of the node got from its model call
  document,  \* plan.md / spec.md / ... of the stage
  spawned,   \* _total_spawned
  registry,  \* the records of AgentRegistry
  sources,   \* generated files are in src/
  approvals, \* GraphState.approvals
  outcome,   \* the last stage that finished, and what became of its artifact
  skill,     \* what became of skill_writer
  status,
  granted    \* history: the gates the user approved, as <<stage, which>>

node == <<answers, artifact, document>>
agents == <<spawned, registry>>
results == <<sources, approvals, outcome, skill>>
vars == <<stage, pc, node, agents, results, status, granted>>

NoOutcome == [stage |-> 0, answer |-> "none", sealed |-> None, used |-> None]

TypeOK ==
  /\ stage \in Agents /\ pc \in {"top", "gate1", "produce", "gate2", "finish", "suspended"}
  /\ answers \in Seq({"approve", "edit", "reject"}) /\ Len(answers) <= 2
  /\ artifact \in Outputs \cup {None}
  /\ document \in Texts \cup {None}
  /\ spawned \in 0 .. MaxAgents
  /\ registry \in Seq([agent : Agents, status : {"PENDING", "ALIVE", "TORN_DOWN", "FAILED"}])
  /\ sources \in BOOLEAN
  /\ approvals \in Seq(Agents)
  /\ outcome \in [stage : 0 .. Tester, answer : {"none", "approve", "edit"},
                  sealed : Texts \cup {None}, used : Texts \cup {None}]
  /\ skill \in {"none", "unneeded", "skipped", "failed", "written"}
  /\ status \in Status
  /\ granted \subseteq Agents \X {1, 2}

Init ==
  /\ stage = FirstStage
  /\ pc = "top" /\ answers = <<>> /\ artifact = None /\ document = None
  /\ spawned = 0 /\ registry = <<>> /\ sources = FALSE /\ approvals = <<>>
  /\ outcome = NoOutcome /\ skill = "none" /\ status = "running" /\ granted = {}

-----------------------------------------------------------------------------
(* AgentFactory and AgentRegistry *)

\* budget_remaining >= 1
HasBudget == spawned < MaxAgents

\* _get returns the first record with the agent's id.
Mark(records, agent, to) ==
  LET k == SelectInSeq(records, LAMBDA record : record.agent = agent)
  IN [records EXCEPT ![k] = [agent |-> agent, status |-> to]]

\* spawn, invoke and teardown: PENDING, then ALIVE, then TORN_DOWN or FAILED.
RunAgent(agent, ends) ==
  /\ spawned' = spawned + 1
  /\ registry' = Mark(Mark(Append(registry, [agent |-> agent, status |-> "PENDING"]),
                           agent, "ALIVE"), agent, ends)

-----------------------------------------------------------------------------
(* A stage node, from its top *)

\* _check_budget
CheckBudget ==
  /\ status = "running" /\ stage <= Tester /\ pc = "top"
  /\ IF HasBudget
     THEN pc' = "gate1" /\ UNCHANGED status
     ELSE status' = "budget" /\ UNCHANGED pc
  /\ UNCHANGED <<stage, node, agents, results, granted>>

\* Mutant: any answer the node has had counts.
GateTakesAny(k, next) ==
  /\ status = "running"
  /\ IF answers = <<>> THEN pc' = "suspended" /\ UNCHANGED status
     ELSE IF Last(answers) = "reject" THEN status' = "rejected" /\ UNCHANGED pc
     ELSE pc' = next /\ UNCHANGED status

\* _approval_gate, the k-th of the node: returns the answer it was given in an
\* earlier run of the node, raises on a rejection, or suspends the graph.
Gate(k, next) ==
  /\ status = "running"
  /\ IF Len(answers) < k THEN pc' = "suspended" /\ UNCHANGED status
     ELSE IF answers[k] = "reject" THEN status' = "rejected" /\ UNCHANGED pc
     ELSE pc' = next /\ UNCHANGED status

AgentFileGate ==
  /\ pc = "gate1" /\ Gate(1, "produce")
  /\ UNCHANGED <<stage, node, agents, results, granted>>

\* The agent is spawned and invoked; a document, a script or a report is
\* written before its gate, source files are not.
Produce ==
  /\ status = "running" /\ pc = "produce" /\ HasBudget
  /\ \E text \in Outputs :
       /\ artifact' = text
       /\ document' = IF stage = Executor THEN document ELSE text
  /\ RunAgent(stage, "TORN_DOWN")
  /\ pc' = "gate2"
  /\ UNCHANGED <<stage, answers, results, status, granted>>

\* The model call raises: mark_failed, and the run ends.
ProduceFails ==
  /\ status = "running" /\ pc = "produce" /\ HasBudget
  /\ RunAgent(stage, "FAILED")
  /\ status' = "failed"
  /\ UNCHANGED <<stage, pc, node, results, granted>>

\* The output gate shows what this run of the node produced; the executor's
\* shows agent_registry.json.
OutputGate ==
  /\ pc = "gate2" /\ Gate(2, "finish")
  /\ UNCHANGED <<stage, answers, artifact, document, agents, results, granted>>

\* Mutant: what the agent wrote is passed on.
ResultForgetsEdit == artifact

\* What the stage returns to GraphState.  A plan or a spec is replaced by the
\* text sent with the approval or, failing that, by what is in its file now.
\* The comprehension's gate offers its document for editing, too, but its node
\* drops what the gate returns.
Result ==
  IF stage \in {Planner, SpecWriter}
  THEN IF Last(answers) = "edit" THEN Mine ELSE document
  ELSE artifact

\* approved_artifact_sha256 of gate_decision, for a gate that has a document.
Sealed ==
  IF stage \notin Editable THEN None ELSE IF Last(answers) = "edit" THEN Mine ELSE artifact

\* The rest of the node: source and test files are written, results returned.
\* route_after_tester ends the run if a skill card matches the activity.
Finish ==
  /\ status = "running" /\ pc = "finish"
  /\ outcome' = [stage |-> stage, answer |-> Last(answers), sealed |-> Sealed,
                 used |-> Result]
  /\ sources' = (sources \/ stage = Executor)
  /\ approvals' = Append(approvals, stage)
  /\ \/ UNCHANGED <<skill, status>>
     \/ stage = Tester /\ skill' = "unneeded" /\ status' = "completed"
  /\ stage' = stage + 1
  /\ pc' = "top" /\ answers' = <<>> /\ artifact' = None /\ document' = None
  /\ UNCHANGED <<agents, granted>>

\* create_venv or the writing of a file raises after the gate; some of the
\* source files may have been written.
FinishFails ==
  /\ status = "running" /\ pc = "finish" /\ stage \in {EnvBuilder, Executor, Tester}
  /\ sources' \in {sources, sources \/ stage = Executor}
  /\ status' = "failed"
  /\ UNCHANGED <<stage, pc, node, agents, approvals, outcome, skill, granted>>

\* skill_writer_node: no gate, and a failure of its agent is swallowed.
WriteSkill ==
  /\ status = "running" /\ stage = SkillWriter
  /\ IF HasBudget
     THEN \E ends \in {"TORN_DOWN", "FAILED"} :
            /\ RunAgent(SkillWriter, ends)
            /\ skill' = IF ends = "FAILED" THEN "failed" ELSE "written"
     ELSE skill' = "skipped" /\ UNCHANGED agents
  /\ status' = "completed"
  /\ UNCHANGED <<stage, pc, node, sources, approvals, outcome, granted>>

-----------------------------------------------------------------------------
(* The user *)

\* Command(resume=...): the node starts again from its top, with one answer more.
Answer(decision) ==
  /\ status = "running" /\ pc = "suspended"
  /\ decision = "edit" => Len(answers) = 1 /\ stage \in Editable
  /\ answers' = Append(answers, decision)
  /\ granted' = IF decision = "reject" THEN granted
                ELSE granted \cup {<<stage, Len(answers) + 1>>}
  /\ artifact' = None
  /\ pc' = "top"
  /\ UNCHANGED <<stage, document, agents, results, status>>

\* The user edits plan.md or spec.md while the run waits at its output gate.
EditOnDisk ==
  /\ status = "running" /\ pc = "suspended" /\ Len(answers) = 1 /\ stage \in {Planner, SpecWriter}
  /\ document' = Mine
  /\ UNCHANGED <<stage, pc, answers, artifact, agents, results, status, granted>>

Next ==
  \/ CheckBudget \/ AgentFileGate \/ Produce \/ ProduceFails \/ OutputGate
  \/ Finish \/ FinishFails \/ WriteSkill
  \/ \E decision \in {"approve", "edit", "reject"} : Answer(decision)
  \/ EditOnDisk

Spec == Init /\ [][Next]_vars

-----------------------------------------------------------------------------
(* Properties *)

\* However often nodes are run again, no more agents are spawned than MAX_AGENTS.
BudgetRespected == spawned <= MaxAgents /\ Len(registry) = spawned

\* A plan or spec that was edited at its gate is what the later stages get,
\* and what the ledger says was approved, although the node that asked for the
\* approval is run again, with a new model call, before it sees the answer.
EditReachesTheState ==
  outcome.stage \in {Planner, SpecWriter} =>
    /\ outcome.answer = "edit" => outcome.used = Mine
    /\ outcome.sealed = outcome.used

\* Every gate of every stage that is behind was approved by the user, at that
\* gate, however often the node was run again; each stage is approved once, in
\* the order of the graph, and the run completes with all of them.  executor_node: "write to
\* projects/<id>/src/ only after approval".
EveryGateWasGranted ==
  /\ \A s \in FirstStage .. stage - 1 : <<s, 1>> \in granted /\ <<s, 2>> \in granted
  /\ approvals = [k \in 1 .. stage - FirstStage |-> FirstStage + k - 1]
  /\ sources => <<Executor, 2>> \in granted
  /\ status = "completed" => stage = SkillWriter

=============================================================================
