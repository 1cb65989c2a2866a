-------------------------- MODULE DashboardProofs --------------------------
(***************************************************************************)
(* Proofs about the stage nodes of core/nodes.py, for every agent budget   *)
(* and every set of outputs a model call can have; and about the web run   *)
(* that drives them: whatever is clicked, lost, cancelled or paused, the   *)
(* server passes the graph only answers it can take, and what is proved of *)
(* AgentPipeline holds of it; and a window that has every event shows the  *)
(* run as it is, where what a window shows is the fold of the events it    *)
(* was told, of any number.  And about the applications the runs           *)
(* generate (AppLaunch), for any number of runs and any ports; and the     *)
(* files of the web backend (BackendFiles), for any number of requests,    *)
(* whatever keys are issued and variables set.                             *)
(*                                                                         *)
(* A node is run again from its top after each answer, so what it knows is *)
(* only in the answers, the files and the place where it stands.  The      *)
(* invariants say what each place implies.                                 *)
(***************************************************************************)
EXTENDS Dashboard, AppLaunch, BackendFiles, FiniteSetTheorems, WellFoundedInduction, TLAPS

Answers == {"approve", "edit", "reject"}

\* Where a node can stand, and which node that can be.
Places ==
  /\ stage \in FirstStage .. SkillWriter
  /\ pc # "top" => stage <= Tester
  /\ answers \in Seq(Answers)

\* A node past a gate has that gate's answer, and it was no rejection.
PastGates ==
  /\ pc \in {"produce", "gate2", "finish"} => Len(answers) >= 1 /\ answers[1] # "reject"
  /\ pc = "finish" => Len(answers) >= 2 /\ answers[2] # "reject"

\* The answers of the stage, and of those before it, were given by the user.
Grants ==
  /\ \A k \in 1 .. Len(answers) : answers[k] # "reject" => <<stage, k>> \in granted
  /\ \A s \in FirstStage .. stage - 1 : <<s, 1>> \in granted /\ <<s, 2>> \in granted
  /\ sources => <<Executor, 2>> \in granted

\* Each stage approved once, in order.
InOrder ==
  /\ approvals \in Seq(Nat) /\ Len(approvals) = stage - FirstStage
  /\ \A k \in 1 .. Len(approvals) : approvals[k] = FirstStage + k - 1
  /\ status = "completed" => stage = SkillWriter

\* What a node hands over below its second gate is what that run of the node wrote.
SameText == pc \in {"gate2", "finish"} /\ stage # Executor => document = artifact

\* The stages by their numbers.
LEMMA StageNumbers == FirstStage \in {1, 2} /\ Comprehender = 1 /\ Planner = 2 /\ SpecWriter = 3
                /\ EnvBuilder = 4 /\ Executor = 5 /\ Tester = 6 /\ SkillWriter = 7
  BY DEF FirstStage, Comprehender, Planner, SpecWriter, EnvBuilder, Executor, Tester, SkillWriter

-----------------------------------------------------------------------------
(* Where a node stands *)

\* A run starts at the top of its first stage, without answers.
LEMMA PlacesInit == Init => Places
BY StageNumbers DEF Init, Places, Answers

\* A node only moves between the places of its stage, with answers of the user.
LEMMA PlacesStep == Places /\ [Next]_vars => Places'
<1> SUFFICES ASSUME Places, [Next]_vars PROVE Places'
  OBVIOUS
<1> USE StageNumbers DEF Places, Answers
<1>1. CASE CheckBudget
  BY <1>1 DEF CheckBudget, node, agents, results
<1>2. CASE AgentFileGate
  BY <1>2 DEF AgentFileGate, Gate, node, agents, results
<1>3. CASE Produce
  BY <1>3 DEF Produce, results
<1>4. CASE ProduceFails
  BY <1>4 DEF ProduceFails, node, results
<1>5. CASE OutputGate
  BY <1>5 DEF OutputGate, Gate, agents, results
<1>6. CASE Finish
  BY <1>6 DEF Finish, agents
<1>7. CASE FinishFails
  BY <1>7 DEF FinishFails, node, agents
<1>8. CASE WriteSkill
  BY <1>8 DEF WriteSkill, node
<1>9. ASSUME NEW decision \in Answers, Answer(decision) PROVE Places'
  BY <1>9 DEF Answer, agents, results
<1>10. CASE EditOnDisk
  BY <1>10 DEF EditOnDisk, agents, results
<1>11. CASE UNCHANGED vars
  BY <1>11 DEF vars, node, agents, results
<1> QED
  BY <1>1, <1>2, <1>3, <1>4, <1>5, <1>6, <1>7, <1>8, <1>9, <1>10, <1>11 DEF Next

\* A node runs below the top only up to the tests, and its answers are answers.
THEOREM PlacesHold == Spec => []Places
BY PlacesInit, PlacesStep, PTL DEF Spec

-----------------------------------------------------------------------------
(* Every gate was granted *)

\* At the start nothing was asked and nothing is past a gate.
LEMMA GrantsInit == Init => PastGates /\ Grants /\ InOrder
<1>1. Init => PastGates /\ Grants
  BY StageNumbers DEF Init, PastGates, Grants
<1>2. Init => InOrder
  BY StageNumbers DEF Init, InOrder
<1> QED
  BY <1>1, <1>2

\* No node gets past a gate without an answer to it that was no rejection.
LEMMA PastGatesStep == Places /\ PastGates /\ [Next]_vars => PastGates'
<1> SUFFICES ASSUME Places, PastGates, [Next]_vars PROVE PastGates'
  OBVIOUS
<1> USE StageNumbers DEF PastGates, Places, Answers
<1>1. CASE CheckBudget
  BY <1>1 DEF CheckBudget, node, agents, results
<1>2. CASE AgentFileGate
  BY <1>2 DEF AgentFileGate, Gate, node, agents, results
<1>3. CASE Produce
  BY <1>3 DEF Produce, results
<1>4. CASE ProduceFails
  BY <1>4 DEF ProduceFails, node, results
<1>5. CASE OutputGate
  BY <1>5 DEF OutputGate, Gate, agents, results
<1>6. CASE Finish
  BY <1>6 DEF Finish, agents
<1>7. CASE FinishFails
  BY <1>7 DEF FinishFails, node, agents
<1>8. CASE WriteSkill
  BY <1>8 DEF WriteSkill, node
<1>9. ASSUME NEW decision \in Answers, Answer(decision) PROVE PastGates'
  BY <1>9 DEF Answer, agents, results
<1>10. CASE EditOnDisk
  BY <1>10 DEF EditOnDisk, agents, results
<1>11. CASE UNCHANGED vars
  BY <1>11 DEF vars, node, agents, results
<1> QED
  BY <1>1, <1>2, <1>3, <1>4, <1>5, <1>6, <1>7, <1>8, <1>9, <1>10, <1>11 DEF Next

\* An answer counts for its own stage and gate, and a stage is left with both.
LEMMA GrantsStep == Places /\ PastGates /\ Grants /\ [Next]_vars => Grants'
<1> SUFFICES ASSUME Places, PastGates, Grants, [Next]_vars PROVE Grants'
  OBVIOUS
<1> USE StageNumbers DEF Grants, PastGates, Places, Answers
<1>1. CASE CheckBudget
  BY <1>1 DEF CheckBudget, node, agents, results
<1>2. CASE AgentFileGate
  BY <1>2 DEF AgentFileGate, Gate, node, agents, results
<1>3. CASE Produce
  BY <1>3 DEF Produce, results
<1>4. CASE ProduceFails
  BY <1>4 DEF ProduceFails, node, results
<1>5. CASE OutputGate
  BY <1>5 DEF OutputGate, Gate, agents, results
<1>6. CASE Finish
  <2>1. <<stage, 1>> \in granted /\ <<stage, 2>> \in granted
    BY <1>6 DEF Finish
  <2>2. sources' = (sources \/ stage = Executor) /\ stage' = stage + 1 /\ answers' = <<>> /\ granted' = granted
    BY <1>6 DEF Finish, agents
  <2>3. sources' => <<Executor, 2>> \in granted'
    BY <2>1, <2>2, Zenon DEF Grants
  <2>4. \A k \in 1 .. Len(answers') : answers'[k] # "reject" => <<stage', k>> \in granted'
    BY <2>2
  <2>5. ASSUME NEW s \in FirstStage .. stage' - 1 PROVE <<s, 1>> \in granted' /\ <<s, 2>> \in granted'
    <3>1. s = stage \/ s \in FirstStage .. stage - 1
      BY <2>2
    <3> QED
      BY <3>1, <2>1, <2>2
  <2> QED
    BY <2>3, <2>4, <2>5, Zenon DEF Grants
<1>7. CASE FinishFails
  <2>1. <<stage, 2>> \in granted
    BY <1>7 DEF FinishFails
  <2>2. sources' \in {sources, sources \/ stage = Executor} /\ UNCHANGED <<stage, answers, granted>>
    BY <1>7 DEF FinishFails, node
  <2>3. sources' => <<Executor, 2>> \in granted'
    BY <2>1, <2>2, Zenon DEF Grants
  <2>4. /\ \A k \in 1 .. Len(answers') : answers'[k] # "reject" => <<stage', k>> \in granted'
        /\ \A s \in FirstStage .. stage' - 1 : <<s, 1>> \in granted' /\ <<s, 2>> \in granted'
    BY <2>2
  <2> QED
    BY <2>3, <2>4, Zenon DEF Grants
<1>8. CASE WriteSkill
  BY <1>8 DEF WriteSkill, node
<1>9. ASSUME NEW decision \in Answers, Answer(decision) PROVE Grants'
  BY <1>9 DEF Answer, agents, results
<1>10. CASE EditOnDisk
  BY <1>10 DEF EditOnDisk, agents, results
<1>11. CASE UNCHANGED vars
  BY <1>11 DEF vars, node, agents, results
<1> QED
  BY <1>1, <1>2, <1>3, <1>4, <1>5, <1>6, <1>7, <1>8, <1>9, <1>10, <1>11 DEF Next

\* A stage is entered in the list of approvals as it is left, once.
LEMMA InOrderStep == Places /\ InOrder /\ [Next]_vars => InOrder'
<1> SUFFICES ASSUME Places, InOrder, [Next]_vars PROVE InOrder'
  OBVIOUS
<1> USE StageNumbers DEF InOrder, Places, Answers
<1>1. CASE CheckBudget
  BY <1>1 DEF CheckBudget, node, agents, results
<1>2. CASE AgentFileGate
  BY <1>2 DEF AgentFileGate, Gate, node, agents, results
<1>3. CASE Produce
  BY <1>3 DEF Produce, results
<1>4. CASE ProduceFails
  BY <1>4 DEF ProduceFails, node, results
<1>5. CASE OutputGate
  BY <1>5 DEF OutputGate, Gate, agents, results
<1>6. CASE Finish
  BY <1>6 DEF Finish, agents
<1>7. CASE FinishFails
  BY <1>7 DEF FinishFails, node, agents
<1>8. CASE WriteSkill
  BY <1>8 DEF WriteSkill, node
<1>9. ASSUME NEW decision \in Answers, Answer(decision) PROVE InOrder'
  BY <1>9 DEF Answer, agents, results
<1>10. CASE EditOnDisk
  BY <1>10 DEF EditOnDisk, agents, results
<1>11. CASE UNCHANGED vars
  BY <1>11 DEF vars, node, agents, results
<1> QED
  BY <1>1, <1>2, <1>3, <1>4, <1>5, <1>6, <1>7, <1>8, <1>9, <1>10, <1>11 DEF Next

\* What the four say together: every gate passed was granted.
LEMMA GatesInv == Places /\ PastGates /\ Grants /\ InOrder => EveryGateWasGranted
<1> SUFFICES ASSUME Places, Grants, InOrder PROVE EveryGateWasGranted
  OBVIOUS
<1>1. approvals = [k \in 1 .. stage - FirstStage |-> FirstStage + k - 1]
  BY StageNumbers DEF InOrder, Places
<1>2. status = "completed" => stage = SkillWriter
  BY DEF InOrder
<1>3. /\ \A s \in FirstStage .. stage - 1 : <<s, 1>> \in granted /\ <<s, 2>> \in granted
      /\ sources => <<Executor, 2>> \in granted
  BY Zenon DEF Grants
<1> QED
  BY <1>1, <1>2, <1>3, Zenon DEF EveryGateWasGranted

\* For every budget and every output of the model: what is behind was approved
\* at both gates, each stage once and in order, and nothing is written to src/
\* before the executor's output gate was approved.
THEOREM GatesGranted == Spec => []EveryGateWasGranted
<1>1. Init => Places /\ PastGates /\ Grants /\ InOrder
  BY PlacesInit, GrantsInit
<1>2. Places /\ PastGates /\ Grants /\ InOrder /\ [Next]_vars => (Places /\ PastGates /\ Grants /\ InOrder)'
  BY PlacesStep, PastGatesStep, GrantsStep, InOrderStep
<1> QED
  BY <1>1, <1>2, GatesInv, PTL DEF Spec

-----------------------------------------------------------------------------
(* What was edited at a gate *)

\* The last stage that finished handed on what its gate approved.
HandedOn ==
  outcome.stage \in {Planner, SpecWriter} =>
    /\ outcome.answer = "edit" => outcome.used = Mine
    /\ outcome.sealed = outcome.used

\* At the start nothing was written or handed on.
LEMMA EditInit == Init => SameText /\ HandedOn
BY StageNumbers DEF Init, SameText, HandedOn, NoOutcome

\* Between writing and handing over, a node keeps document and artifact together.
LEMMA SameTextStep == Places /\ SameText /\ [Next]_vars => SameText'
<1> SUFFICES ASSUME Places, SameText, [Next]_vars PROVE SameText'
  OBVIOUS
<1> USE StageNumbers DEF SameText, Places, Answers
<1>1. CASE CheckBudget
  BY <1>1 DEF CheckBudget, node, agents, results
<1>2. CASE AgentFileGate
  BY <1>2 DEF AgentFileGate, Gate, node, agents, results
<1>3. CASE Produce
  BY <1>3 DEF Produce, results
<1>4. CASE ProduceFails
  BY <1>4 DEF ProduceFails, node, results
<1>5. CASE OutputGate
  BY <1>5 DEF OutputGate, Gate, agents, results
<1>6. CASE Finish
  BY <1>6 DEF Finish, agents
<1>7. CASE FinishFails
  BY <1>7 DEF FinishFails, node, agents
<1>8. CASE WriteSkill
  BY <1>8 DEF WriteSkill, node
<1>9. ASSUME NEW decision \in Answers, Answer(decision) PROVE SameText'
  BY <1>9 DEF Answer, agents, results
<1>10. CASE EditOnDisk
  BY <1>10 DEF EditOnDisk, agents, results
<1>11. CASE UNCHANGED vars
  BY <1>11 DEF vars, node, agents, results
<1> QED
  BY <1>1, <1>2, <1>3, <1>4, <1>5, <1>6, <1>7, <1>8, <1>9, <1>10, <1>11 DEF Next

\* What is handed on is what the file says, edits included.
LEMMA HandedOnStep == Places /\ SameText /\ HandedOn /\ [Next]_vars => HandedOn'
<1> SUFFICES ASSUME Places, SameText, HandedOn, [Next]_vars PROVE HandedOn'
  OBVIOUS
<1>1. CASE Finish
  <2> DEFINE last == Last(answers)
  <2>1. outcome' = [stage |-> stage, answer |-> last, sealed |-> Sealed, used |-> Result]
    BY <1>1 DEF Finish
  <2>2. stage \in {Planner, SpecWriter} => document = artifact
    BY <1>1, StageNumbers DEF Finish, SameText
  <2>3. stage \in {Planner, SpecWriter} => (last = "edit" => Result = Mine) /\ Sealed = Result
    BY <2>2, StageNumbers DEF Result, Sealed, Editable
  <2> HIDE DEF last
  <2> QED
    BY <2>1, <2>3 DEF HandedOn
<1>2. CASE UNCHANGED outcome
  BY <1>2 DEF HandedOn
<1>3. Finish \/ UNCHANGED outcome
  BY DEF Next, vars, results, CheckBudget, AgentFileGate, Produce, ProduceFails, OutputGate, FinishFails,
         WriteSkill, Answer, EditOnDisk
<1> QED
  BY <1>1, <1>2, <1>3

\* For every output of the model and every text of the user: a plan or a spec
\* that was edited at its gate is what the later stages get and what the ledger
\* says was approved, although the model is called again below the gate.
THEOREM EditKept == Spec => []EditReachesTheState
<1>1. Init => Places /\ SameText /\ HandedOn
  BY PlacesInit, EditInit
<1>2. Places /\ SameText /\ HandedOn /\ [Next]_vars => (Places /\ SameText /\ HandedOn)'
  BY PlacesStep, SameTextStep, HandedOnStep
<1>3. HandedOn <=> EditReachesTheState
  BY DEF HandedOn, EditReachesTheState
<1> QED
  BY <1>1, <1>2, <1>3, PTL DEF Spec

-----------------------------------------------------------------------------
(* The agent budget *)

Records == [agent : Agents, status : {"PENDING", "ALIVE", "TORN_DOWN", "FAILED"}]

\* The budget that a node found at its top is still there when it spawns its agent, so that
\* no stage is refused its agent between its first gate and its second.
CheckedInTime == status = "running" /\ pc \in {"gate1", "produce"} => HasBudget

BudgetInv ==
  /\ spawned \in Nat /\ registry \in Seq(Records)
  /\ BudgetRespected /\ CheckedInTime

\* A record is changed in its place.
LEMMA MarkKeeps ==
  ASSUME NEW records \in Seq(Records), NEW agent \in Agents,
         NEW to \in {"PENDING", "ALIVE", "TORN_DOWN", "FAILED"}
  PROVE  Mark(records, agent, to) \in Seq(Records) /\ Len(Mark(records, agent, to)) = Len(records)
<1> DEFINE k == SelectInSeq(records, LAMBDA record : record.agent = agent)
           r == [agent |-> agent, status |-> to]
<1>1. r \in Records
  BY DEF Records
<1> HIDE DEF r
<1>2. ASSUME NEW i PROVE [records EXCEPT ![i] = r] \in Seq(Records) /\ Len([records EXCEPT ![i] = r]) = Len(records)
  <2>1. records \in [1 .. Len(records) -> Records] /\ Len(records) \in Nat
    OBVIOUS
  <2>2. [records EXCEPT ![i] = r] \in [1 .. Len(records) -> Records]
    BY <1>1, <2>1
  <2> QED
    BY <2>1, <2>2
<1>3. Mark(records, agent, to) = [records EXCEPT ![k] = r]
  BY DEF Mark, r
<1> QED
  BY <1>2, <1>3

\* An agent that is run adds one record, in whatever state it ends.
LEMMA RunAgentAdds ==
  ASSUME BudgetInv, NEW agent \in Agents, NEW ends \in {"TORN_DOWN", "FAILED"}, RunAgent(agent, ends)
  PROVE  registry' \in Seq(Records) /\ Len(registry') = Len(registry) + 1 /\ spawned' = spawned + 1
<1> DEFINE added == Append(registry, [agent |-> agent, status |-> "PENDING"])
<1>1. added \in Seq(Records) /\ Len(added) = Len(registry) + 1
  BY DEF Records, BudgetInv
<1> HIDE DEF added
<1>2. Mark(added, agent, "ALIVE") \in Seq(Records) /\ Len(Mark(added, agent, "ALIVE")) = Len(added)
  BY <1>1, MarkKeeps
<1>3. registry' = Mark(Mark(added, agent, "ALIVE"), agent, ends) /\ spawned' = spawned + 1
  BY DEF RunAgent, added
<1> QED
  BY <1>1, <1>2, <1>3, MarkKeeps

\* No step spends more than there is, and only agents that are run spend.
LEMMA BudgetStep == Places /\ BudgetInv /\ [Next]_vars => BudgetInv'
<1> SUFFICES ASSUME Places, BudgetInv, [Next]_vars PROVE BudgetInv'
  OBVIOUS
<1> USE StageNumbers, PipelineAssumption DEF BudgetInv, BudgetRespected, CheckedInTime, HasBudget
<1>1. CASE CheckBudget
  BY <1>1 DEF CheckBudget, agents
<1>2. CASE AgentFileGate
  BY <1>2 DEF AgentFileGate, Gate, agents
<1>3. CASE Produce
  <2>1. stage \in Agents /\ RunAgent(stage, "TORN_DOWN") /\ pc' = "gate2" /\ HasBudget
    BY <1>3 DEF Produce, Places, Agents
  <2> QED
    BY <2>1, RunAgentAdds
<1>4. CASE ProduceFails
  <2>1. stage \in Agents /\ RunAgent(stage, "FAILED") /\ status' = "failed" /\ HasBudget
    BY <1>4 DEF ProduceFails, Places, Agents
  <2> QED
    BY <2>1, RunAgentAdds
<1>5. CASE OutputGate
  BY <1>5 DEF OutputGate, Gate, agents
<1>6. CASE Finish
  BY <1>6 DEF Finish, agents
<1>7. CASE FinishFails
  BY <1>7 DEF FinishFails, agents
<1>8. CASE WriteSkill
  <2>1. CASE HasBudget
    <3>1. PICK ends \in {"TORN_DOWN", "FAILED"} : RunAgent(SkillWriter, ends)
      BY <1>8, <2>1 DEF WriteSkill
    <3>2. SkillWriter \in Agents /\ status' = "completed"
      BY <1>8 DEF WriteSkill, Agents
    <3> QED
      BY <2>1, <3>1, <3>2, RunAgentAdds
  <2>2. CASE ~HasBudget
    BY <1>8, <2>2 DEF WriteSkill, agents
  <2> QED
    BY <2>1, <2>2
<1>9. ASSUME NEW decision \in Answers, Answer(decision) PROVE BudgetInv'
  BY <1>9 DEF Answer, agents
<1>10. CASE EditOnDisk
  BY <1>10 DEF EditOnDisk, agents
<1>11. CASE UNCHANGED vars
  BY <1>11 DEF vars, agents
<1> QED
  BY <1>1, <1>2, <1>3, <1>4, <1>5, <1>6, <1>7, <1>8, <1>9, <1>10, <1>11 DEF Next, Answers

\* For every budget, with and without a codebase: no more agents are spawned than MAX_AGENTS,
\* each has one record, and a stage that passed _check_budget at its top gets its agent,
\* whatever its gates made of it meanwhile.
THEOREM BudgetKept == Spec => [](BudgetRespected /\ CheckedInTime)
<1>1. Init => Places /\ BudgetInv
  <2>1. Init => BudgetInv
    BY PipelineAssumption DEF Init, BudgetInv, BudgetRespected, CheckedInTime
  <2> QED
    BY <2>1, PlacesInit
<1>2. Places /\ BudgetInv /\ [Next]_vars => (Places /\ BudgetInv)'
  BY PlacesStep, BudgetStep
<1>3. BudgetInv => BudgetRespected /\ CheckedInTime
  BY DEF BudgetInv
<1> QED
  BY <1>1, <1>2, <1>3, PTL DEF Spec

-----------------------------------------------------------------------------
(* Types *)

\* A node that waits has at most one answer, and none ever has more than two.
AnswersLeft == Len(answers) <= 2 /\ (pc = "suspended" => Len(answers) <= 1)

\* The second of two answers is one.
LEMMA SecondAnswer ==
  ASSUME NEW given \in Seq(Answers), Len(given) >= 2, Len(given) <= 2
  PROVE  Len(given) = 2 /\ given[2] \in Answers
<1>1. given \in [1 .. Len(given) -> Answers] /\ Len(given) \in Nat
  OBVIOUS
<1>2. Len(given) = 2
  BY <1>1
<1> QED
  BY <1>1, <1>2

\* A step of a node whose answers are in order leaves everything of its type.
LEMMA TypeStep ==
  Places /\ PastGates /\ BudgetInv /\ TypeOK /\ AnswersLeft /\ [Next]_vars => (TypeOK /\ AnswersLeft)'
<1> SUFFICES ASSUME Places, PastGates, BudgetInv, TypeOK, AnswersLeft, [Next]_vars PROVE (TypeOK /\ AnswersLeft)'
  OBVIOUS
<1>a. BudgetInv' /\ Places'
  BY BudgetStep, PlacesStep
<1>b. spawned' \in 0 .. MaxAgents /\ registry' \in Seq(Records) /\ answers' \in Seq(Answers) /\ stage' \in Agents
  BY <1>a, PipelineAssumption, StageNumbers DEF BudgetInv, BudgetRespected, Places, Agents
<1> USE <1>b, StageNumbers, PipelineAssumption DEF TypeOK, AnswersLeft, Answers, Records, Status, Texts
<1>1. CASE CheckBudget
  BY <1>1 DEF CheckBudget, node, agents, results
<1>2. CASE AgentFileGate
  BY <1>2 DEF AgentFileGate, Gate, node, agents, results
<1>3. CASE Produce
  BY <1>3 DEF Produce, results
<1>4. CASE ProduceFails
  BY <1>4 DEF ProduceFails, node, results
<1>5. CASE OutputGate
  BY <1>5 DEF OutputGate, Gate, agents, results
<1>6. CASE Finish
  <2>1. Len(answers) = 2 /\ Last(answers) = answers[2] /\ answers[2] \in {"approve", "edit"}
    <3>1. pc = "finish" /\ Len(answers) >= 2 /\ answers[2] # "reject"
      BY <1>6 DEF Finish, PastGates
    <3>2. answers \in Seq(Answers) /\ Len(answers) <= 2
      BY DEF Places
    <3>3. Len(answers) = 2 /\ answers[2] \in Answers
      BY <3>1, <3>2, SecondAnswer
    <3> QED
      BY <3>1, <3>3 DEF Last
  <2>2. Sealed \in Texts \cup {None} /\ Result \in Texts \cup {None}
    BY DEF Sealed, Result
  <2>3. stage \in 0 .. Tester /\ stage \in Agents
    BY <1>6 DEF Finish, Places, Agents
  <2>4. outcome' \in [stage : 0 .. Tester, answer : {"none", "approve", "edit"},
                      sealed : Texts \cup {None}, used : Texts \cup {None}]
    BY <1>6, <2>1, <2>2, <2>3 DEF Finish
  <2>5. approvals' \in Seq(Agents)
    BY <1>6, <2>3 DEF Finish
  <2> HIDE DEF Texts
  <2> QED
    BY <1>6, <2>4, <2>5 DEF Finish, agents
<1>7. CASE FinishFails
  BY <1>7 DEF FinishFails, node, agents
<1>8. CASE WriteSkill
  BY <1>8 DEF WriteSkill, node
<1>9. ASSUME NEW decision \in Answers, Answer(decision) PROVE (TypeOK /\ AnswersLeft)'
  <2>1. stage <= Tester /\ Len(answers) + 1 \in {1, 2}
    BY <1>9 DEF Answer, Places
  <2> QED
    BY <1>9, <2>1 DEF Answer, agents, results, Agents
<1>10. CASE EditOnDisk
  BY <1>10 DEF EditOnDisk, agents, results
<1>11. CASE UNCHANGED vars
  BY <1>11 DEF vars, node, agents, results
<1> QED
  BY <1>1, <1>2, <1>3, <1>4, <1>5, <1>6, <1>7, <1>8, <1>9, <1>10, <1>11 DEF Next

\* At the start every variable has its type.
LEMMA InitTypes == Init => TypeOK
<1> SUFFICES ASSUME Init PROVE TypeOK
  OBVIOUS
<1>1. stage \in Agents /\ approvals \in Seq(Agents) /\ granted \subseteq Agents \X {1, 2}
  BY StageNumbers DEF Init, Agents
<1>2. answers \in Seq({"approve", "edit", "reject"}) /\ Len(answers) <= 2 /\ spawned \in 0 .. MaxAgents
  BY PipelineAssumption DEF Init
<1>3. registry \in Seq([agent : Agents, status : {"PENDING", "ALIVE", "TORN_DOWN", "FAILED"}])
  BY DEF Init
<1>4. outcome \in [stage : 0 .. Tester, answer : {"none", "approve", "edit"},
                   sealed : Texts \cup {None}, used : Texts \cup {None}]
  BY StageNumbers DEF Init, NoOutcome
<1> QED
  BY <1>1, <1>2, <1>3, <1>4 DEF Init, TypeOK, Status

\* The type invariant, for every budget and every output of the model.
THEOREM TypeCorrect == Spec => []TypeOK
<1> DEFINE Inv == Places /\ PastGates /\ BudgetInv /\ TypeOK /\ AnswersLeft
<1>1. Init => Inv
  <2>1. Init => PastGates /\ BudgetInv /\ AnswersLeft
    BY PipelineAssumption DEF Init, PastGates, BudgetInv, BudgetRespected, CheckedInTime, AnswersLeft
  <2> QED
    BY <2>1, InitTypes, PlacesInit
<1>2. Inv /\ [Next]_vars => Inv'
  BY PlacesStep, PastGatesStep, BudgetStep, TypeStep
<1>3. Inv => TypeOK
  OBVIOUS
<1> HIDE DEF Inv
<1> QED
  BY <1>1, <1>2, <1>3, PTL DEF Spec

-----------------------------------------------------------------------------
(* The web run *)


\* What a request carries and what the pipeline thread reads is an answer.
Carried ==
  /\ signal.decision \in Answers
  /\ post = [w \in Windows |-> post[w]]
  /\ \A w \in Windows : post[w].req = "approve" => post[w].decision \in Answers

\* At the start no request is on its way.
LEMMA CarriedInit == DashInit => Carried
BY DEF DashInit, Carried, Idle, Answers

\* A window whose request is replaced by one that is no answer, or is one.
LEMMA Posted ==
  ASSUME Carried, NEW w \in Windows, NEW p, post' = [post EXCEPT ![w] = p],
         p.req = "approve" => p.decision \in Answers, signal'.decision \in Answers
  PROVE  Carried'
BY DEF Carried

\* What a request carries stays an answer.
LEMMA CarriedStep == Carried /\ [DashNext]_<<vars, dashVars>> => Carried'
<1> SUFFICES ASSUME Carried, [DashNext]_<<vars, dashVars>> PROVE Carried'
  OBVIOUS
<1>1. CASE UNCHANGED <<signal, post>>
  BY <1>1 DEF Carried
<1>2. CASE Wake
  BY <1>2 DEF Wake, Carried, screens
<1>3. RunGraph \/ Present \/ Resumption \/ Launched \/ (EditOnDisk /\ UNCHANGED dashVars) => UNCHANGED <<signal, post>>
  BY DEF RunGraph, Present, Resumption, Launched, dashVars, server, screens
<1>4. ASSUME NEW w \in Windows, Window(w) PROVE Carried'
  <2>1. CASE StartRun(w)
    BY <2>1, Posted DEF StartRun, Sends, server, Carried
  <2>2. CASE StartRoute(w)
    BY <2>2, Posted DEF StartRoute, Step, Done, Next2, Idle, Carried
  <2>3. CASE RunStarted(w) \/ Lose(w) \/ Tell(w)
    BY <2>3, Posted DEF RunStarted, Lose, Tell, Done, Idle, server, Carried
  <2>4. CASE Receive(w) \/ Adopt(w)
    BY <2>4, <1>1 DEF Receive, Adopt, server
  <2>5. CASE Broadcast(w)
    BY <2>5, Posted DEF Broadcast, Step, Next2, server, Carried
  <2>6. CASE SetDecision(w)
    BY <2>6, Posted DEF SetDecision, Step, Done, Idle, Carried
  <2>7. CASE Cancel(w)
    BY <2>7, Posted DEF Cancel, Done, Idle, Carried, Answers
  <2>8. CASE Switch(w)
    BY <2>8, Posted DEF Switch, Step, Next2, Done, Idle, Carried
  <2>9. ASSUME NEW d \in Answers, SendApproval(w, d) PROVE Carried'
    BY <2>9, Posted DEF SendApproval, Sends, server, Carried
  <2>10. ASSUME NEW req \in {"cancel", "pause", "resume"}, Ask(w, req) PROVE Carried'
    BY <2>10, Posted DEF Ask, Sends, server, Carried
  <2> QED
    BY <1>4, <2>1, <2>2, <2>3, <2>4, <2>5, <2>6, <2>7, <2>8, <2>9, <2>10 DEF Window, Answers
<1>5. CASE UNCHANGED <<vars, dashVars>>
  BY <1>5, <1>1 DEF dashVars, server, screens
<1> QED
  BY <1>1, <1>2, <1>3, <1>4, <1>5 DEF DashNext

-----------------------------------------------------------------------------

\* What happens in a browser alone leaves the run as it is.
LEMMA WindowsLeaveTheGraph == ASSUME NEW w \in Windows, Window(w) PROVE UNCHANGED vars
<1>1. CASE StartRun(w) \/ StartRoute(w) \/ RunStarted(w) \/ Receive(w) \/ Adopt(w) \/ Lose(w)
  BY <1>1, Zenon DEF StartRun, StartRoute, RunStarted, Receive, Adopt, Lose
<1>2. CASE Broadcast(w) \/ SetDecision(w) \/ Cancel(w) \/ Switch(w) \/ Tell(w)
  BY <1>2, Zenon DEF Broadcast, SetDecision, Cancel, Switch, Tell
<1>3. CASE \E d \in {"approve", "edit", "reject"} : SendApproval(w, d)
  BY <1>3, Zenon DEF SendApproval
<1>4. CASE \E req \in {"cancel", "pause", "resume"} : Ask(w, req)
  BY <1>4, Zenon DEF Ask
<1> QED
  BY <1>1, <1>2, <1>3, <1>4, Zenon DEF Window

\* A step of the run with its windows is a step of the run, or leaves it.
LEMMA StepIsStep == Carried /\ [DashNext]_<<vars, dashVars>> => [Next]_vars
<1> SUFFICES ASSUME Carried, [DashNext]_<<vars, dashVars>> PROVE [Next]_vars
  OBVIOUS
<1>1. CASE RunGraph
  BY <1>1, Zenon DEF RunGraph, Next
<1>2. CASE Present \/ Wake \/ Launched
  BY <1>2, Zenon DEF Present, Wake, Launched
<1>3. CASE Resumption
  <2>1. PICK decision \in Answers : Answer(decision)
    BY <1>3 DEF Resumption, Carried, Answers
  <2> QED
    BY <2>1, Zenon DEF Next, Answers
<1>4. CASE EditOnDisk /\ UNCHANGED dashVars
  BY <1>4, Zenon DEF Next
<1>5. CASE \E w \in Windows : Window(w)
  BY <1>5, WindowsLeaveTheGraph, Zenon
<1>6. CASE UNCHANGED <<vars, dashVars>>
  BY <1>6, Zenon
<1> QED
  BY <1>1, <1>2, <1>3, <1>4, <1>5, <1>6, Zenon DEF DashNext

\* For any number of windows: a web run implements a run of the stage nodes,
\* in which the user gives each gate at most one answer that it can take.
THEOREM WebRunIsARun == DashSpec => Spec
<1>1. DashInit => Init
  BY DEF DashInit
<1> QED
  BY <1>1, CarriedInit, CarriedStep, StepIsStep, PTL DEF DashSpec, Spec

\* However many windows click, lose requests, cancel or pause: no stage is
\* passed whose two gates nobody granted, and an edit made in a window is what
\* the later stages get and the ledger records.
THEOREM WebRunIsGoverned == DashSpec => [](EveryGateWasGranted /\ EditReachesTheState)
BY WebRunIsARun, GatesGranted, EditKept, PTL

-----------------------------------------------------------------------------
(* Induction, and folds of events *)

\* The order of the numbers is well-founded.
LEMMA LessWF == IsWellFoundedOn({ss \in Nat \X Nat : ss[1] < ss[2]}, Nat)
BY NatLessThanWellFounded, Zenon DEF OpToRel

\* A set of numbers has a least.
LEMMA Least == ASSUME NEW S \in SUBSET Nat, S # {} PROVE \E n \in S : \A m \in S : n <= m
<1>2. PICK n \in S : \A m \in S : ~(<<m, n>> \in {ss \in Nat \X Nat : ss[1] < ss[2]})
  BY LessWF, WFMin, Zenon
<1>3. ASSUME NEW m \in S PROVE n <= m
  <2>1. <<m, n>> \in Nat \X Nat /\ <<m, n>>[1] = m /\ <<m, n>>[2] = n
    OBVIOUS
  <2>2. ~(<<m, n>>[1] < <<m, n>>[2])
    BY <1>2, <2>1, Zenon
  <2> QED
    BY <2>1, <2>2
<1> QED
  BY <1>3

\* What holds of 0, and of the next number with each, holds of all.
LEMMA Induction == ASSUME NEW S, 0 \in S, \A n \in Nat : n \in S => n + 1 \in S PROVE Nat \subseteq S
<1> SUFFICES ASSUME Nat \ S # {} PROVE FALSE
  OBVIOUS
<1>1. PICK n \in Nat \ S : \A m \in Nat \ S : n <= m
  BY Least
<1>2. n # 0 /\ n - 1 \in Nat /\ n - 1 \in S
  BY <1>1
<1>3. (n - 1) + 1 \in S /\ (n - 1) + 1 = n
  BY <1>2
<1> QED
  BY <1>1, <1>3

\* A set of places that holds the last place has it as its maximum.
LEMMA MaxOf == ASSUME NEW k \in Nat, NEW s, s \subseteq 1 .. k, k \in s PROVE Max(s) = k
<1>1. \A y \in s : k >= y
  OBVIOUS
<1>2. \A x \in s : (\A y \in s : x >= y) => x = k
  OBVIOUS
<1> QED
  BY <1>1, <1>2 DEF Max

\* The fold of the events of q into v, over sets of their places.
Folds(v, q, n, f) ==
  f = [s \in SUBSET (1 .. n) |-> IF s = {} THEN v ELSE Applied(f[s \ {Max(s)}], q[Max(s)])]

\* A fold over n places gives one over n + 1.
LEMMA FoldStep == ASSUME NEW v, NEW q, NEW n \in Nat, NEW f, Folds(v, q, n, f) PROVE \E g : Folds(v, q, n + 1, g)
<1> DEFINE g == [s \in SUBSET (1 .. n + 1) |-> IF n + 1 \in s THEN Applied(f[s \ {n + 1}], q[n + 1]) ELSE f[s]]
<1>1. ASSUME NEW s \in SUBSET (1 .. n + 1)
      PROVE  g[s] = IF s = {} THEN v ELSE Applied(g[s \ {Max(s)}], q[Max(s)])
  <2>1. CASE n + 1 \in s
    <3>1. Max(s) = n + 1
      <4>1. n + 1 \in Nat /\ s \subseteq 1 .. (n + 1)
        OBVIOUS
      <4> QED
        BY <2>1, <4>1, MaxOf
    <3>2. s \ {n + 1} \in SUBSET (1 .. n + 1) /\ ~(n + 1 \in s \ {n + 1})
      OBVIOUS
    <3>3. g[s \ {n + 1}] = f[s \ {n + 1}]
      BY <3>2
    <3>4. g[s] = Applied(f[s \ {n + 1}], q[n + 1]) /\ s # {}
      BY <2>1
    <3> QED
      BY <3>1, <3>3, <3>4
  <2>2. CASE n + 1 \notin s
    <3>1. s \in SUBSET (1 .. n)
      BY <2>2
    <3>2. g[s] = f[s]
      BY <2>2
    <3>3. CASE s = {}
      BY <3>1, <3>2, <3>3 DEF Folds
    <3>4. CASE s # {}
      <4>1. s \ {Max(s)} \in SUBSET (1 .. n + 1) /\ n + 1 \notin s \ {Max(s)}
        BY <2>2
      <4>2. g[s \ {Max(s)}] = f[s \ {Max(s)}]
        BY <4>1
      <4>3. f[s] = Applied(f[s \ {Max(s)}], q[Max(s)])
        BY <3>1, <3>4 DEF Folds
      <4> QED
        BY <3>2, <3>4, <4>2, <4>3
    <3> QED
      BY <3>3, <3>4
  <2> QED
    BY <2>1, <2>2
<1>2. g = [s \in SUBSET (1 .. n + 1) |-> g[s]]
  OBVIOUS
<1> HIDE DEF g
<1>3. Folds(v, q, n + 1, g)
  BY <1>1, <1>2, Zenon DEF Folds
<1> QED
  BY <1>3

\* So there is one over any number of places.
LEMMA FoldExists == ASSUME NEW v, NEW q, NEW n \in Nat PROVE \E f : Folds(v, q, n, f)
<1> DEFINE S == {m \in Nat : \E f : Folds(v, q, m, f)}
<1>1. 0 \in S
  <2>1. 1 .. 0 = {}
    OBVIOUS
  <2>2. Folds(v, q, 0, [s \in SUBSET (1 .. 0) |-> v])
    BY <2>1 DEF Folds
  <2> QED
    BY <2>2
<1>2. ASSUME NEW m \in Nat, m \in S PROVE m + 1 \in S
  BY <1>2, FoldStep
<1> HIDE DEF S
<1>3. Nat \subseteq S
  BY <1>1, <1>2, Induction
<1> QED
  BY <1>3 DEF S

\* Applying the events of q to v, one after the other.
Applies(v, q, t) ==
  /\ t = [k \in 0 .. Len(q) |-> t[k]]
  /\ t[0] = v /\ \A k \in 1 .. Len(q) : t[k] = Applied(t[k - 1], q[k])

\* What a window that shows v shows after the events of q.
Fold(v, q) == FoldLeft(Applied, v, q)

\* The fold of the community modules applies the events one after the other.
LEMMA FoldApplies == ASSUME NEW v, NEW S, NEW q \in Seq(S) PROVE \E t : Applies(v, q, t) /\ Fold(v, q) = t[Len(q)]
<1> DEFINE n == Len(q)
           f == CHOOSE h : Folds(v, q, n, h)
           t == [k \in 0 .. n |-> f[1 .. k]]
<1>0. n \in Nat /\ DOMAIN q = 1 .. n
  OBVIOUS
<1>1. Folds(v, q, n, f)
  BY <1>0, FoldExists, Zenon
<1>2. Fold(v, q) = f[1 .. n]
  BY <1>0, Zenon DEF Fold, FoldLeft, MapThenFoldSet, Folds
<1>3. t[0] = v
  <2>1. 1 .. 0 = {} /\ {} \in SUBSET (1 .. n)
    OBVIOUS
  <2>2. f[{}] = v
    BY <1>1, <2>1 DEF Folds
  <2> HIDE DEF f
  <2> QED
    BY <1>0, <2>1, <2>2
<1>4. ASSUME NEW k \in 1 .. n PROVE t[k] = Applied(t[k - 1], q[k])
  <2>3. 1 .. k \in SUBSET (1 .. n) /\ k \in 1 .. k /\ k \in Nat
    BY <1>0
  <2>4. (1 .. k) \ {k} = 1 .. (k - 1)
    BY <1>0
  <2>1. 1 .. k \in SUBSET (1 .. n) /\ 1 .. k # {} /\ (1 .. k) \ {k} = 1 .. (k - 1) /\ k \in 1 .. k /\ k \in Nat
    BY <2>3, <2>4
  <2>0. Max(1 .. k) = k
    BY <2>1, MaxOf
  <2>2. f[1 .. k] = Applied(f[1 .. (k - 1)], q[k])
    BY <1>1, <2>0, <2>1 DEF Folds
  <2> HIDE DEF f
  <2> QED
    BY <1>0, <2>2
<1> HIDE DEF f
<1>5. Applies(v, q, t)
  <2>1. t = [k \in 0 .. n |-> t[k]]
    OBVIOUS
  <2> HIDE DEF t
  <2> QED
    BY <1>3, <1>4, <2>1 DEF Applies
<1>6. t[n] = f[1 .. n]
  BY <1>0
<1> HIDE DEF t
<1> QED
  BY <1>2, <1>5, <1>6

\* There is one way to do so.
LEMMA AppliesOnce == ASSUME NEW v, NEW q, Len(q) \in Nat, NEW t, NEW u, Applies(v, q, t), Applies(v, q, u) PROVE t[Len(q)] = u[Len(q)]
<1> DEFINE S == {k \in Nat : k <= Len(q) => t[k] = u[k]}
<1>1. 0 \in S
  BY DEF Applies
<1>2. ASSUME NEW k \in Nat, k \in S PROVE k + 1 \in S
  <2>1. CASE k + 1 <= Len(q)
    <3>1. t[k] = u[k] /\ k + 1 \in 1 .. Len(q) /\ (k + 1) - 1 = k
      BY <1>2, <2>1
    <3>2. t[k + 1] = Applied(t[k], q[k + 1]) /\ u[k + 1] = Applied(u[k], q[k + 1])
      BY <3>1 DEF Applies
    <3> QED
      BY <3>1, <3>2
  <2> QED
    BY <2>1
<1> HIDE DEF S
<1>3. Nat \subseteq S
  BY <1>1, <1>2, Induction
<1> QED
  BY <1>3 DEF S

\* A fold is the end of any such row of applications.
LEMMA FoldIs == ASSUME NEW v, NEW S, NEW q \in Seq(S), NEW t, Applies(v, q, t) PROVE Fold(v, q) = t[Len(q)]
BY FoldApplies, AppliesOnce

\* No event changes nothing.
LEMMA FoldNone == ASSUME NEW v PROVE Fold(v, <<>>) = v
<1>1. <<>> \in Seq({}) /\ Len(<<>>) = 0
  OBVIOUS
<1>2. PICK t : Applies(v, <<>>, t) /\ Fold(v, <<>>) = t[Len(<<>>)]
  BY <1>1, FoldApplies
<1> QED
  BY <1>1, <1>2 DEF Applies

\* The last event is applied last ...
LEMMA FoldMore == ASSUME NEW v, NEW S, NEW q \in Seq(S), NEW r \in Seq(S) PROVE Fold(v, q \o r) = Fold(Fold(v, q), r)
<1>1. PICK t : Applies(v, q, t) /\ Fold(v, q) = t[Len(q)]
  BY FoldApplies
<1>2. PICK u : Applies(t[Len(q)], r, u) /\ Fold(t[Len(q)], r) = u[Len(r)]
  BY FoldApplies
<1> DEFINE n == Len(q)
           m == Len(r)
           x == [k \in 0 .. n + m |-> IF k <= n THEN t[k] ELSE u[k - n]]
<1>0. /\ n \in Nat /\ m \in Nat /\ q \o r \in Seq(S) /\ Len(q \o r) = n + m
      /\ \A k \in 1 .. n + m : (q \o r)[k] = IF k <= n THEN q[k] ELSE r[k - n]
  OBVIOUS
<1>3. ASSUME NEW k \in 1 .. n + m PROVE x[k] = Applied(x[k - 1], (q \o r)[k])
  <2>1. CASE k <= n
    <3>1. k \in 1 .. n /\ x[k] = t[k] /\ (q \o r)[k] = q[k] /\ x[k - 1] = t[k - 1]
      BY <1>0, <2>1
    <3> HIDE DEF x
    <3> QED
      BY <1>1, <3>1 DEF Applies
  <2>2. CASE k > n
    <3>1. k - n \in 1 .. m /\ x[k] = u[k - n] /\ (q \o r)[k] = r[k - n] /\ k - 1 \in 0 .. n + m
      BY <1>0, <2>2
    <3>2. u[k - n] = Applied(u[(k - n) - 1], r[k - n])
      BY <1>2, <3>1 DEF Applies
    <3>3. x[k - 1] = u[(k - n) - 1]
      <4>1. CASE k - 1 = n
        <5>1. x[k - 1] = t[n] /\ (k - n) - 1 = 0
          BY <1>0, <3>1, <4>1
        <5> QED
          BY <5>1, <1>2 DEF Applies
      <4>2. CASE k - 1 > n
        BY <1>0, <3>1, <4>2
      <4> QED
        BY <1>0, <2>2, <4>1, <4>2
    <3> QED
      BY <3>1, <3>2, <3>3
  <2> QED
    BY <1>0, <2>1, <2>2
<1>4. Applies(v, q \o r, x)
  <2>1. x = [k \in 0 .. n + m |-> x[k]] /\ x[0] = v
    BY <1>0, <1>1 DEF Applies
  <2> HIDE DEF x
  <2> QED
    BY <1>0, <1>3, <2>1 DEF Applies
<1>5. x[n + m] = u[m]
  <2>1. CASE m = 0
    BY <1>0, <1>2, <2>1 DEF Applies
  <2>2. CASE m # 0
    BY <1>0, <2>2
  <2> QED
    BY <2>1, <2>2
<1> HIDE DEF x
<1>6. Fold(v, q \o r) = x[n + m]
  BY <1>0, <1>4, FoldIs
<1> QED
  BY <1>1, <1>2, <1>5, <1>6, Zenon

\* ... and the one in front first.
LEMMA FoldOne == ASSUME NEW v, NEW S, NEW e \in S PROVE Fold(v, <<e>>) = Applied(v, e)
<1>1. <<e>> \in Seq(S) /\ Len(<<e>>) = 1 /\ <<e>>[1] = e
  OBVIOUS
<1>2. PICK t : Applies(v, <<e>>, t) /\ Fold(v, <<e>>) = t[Len(<<e>>)]
  BY <1>1, FoldApplies
<1> QED
  BY <1>1, <1>2 DEF Applies

\* A window takes the first event, and then the others.
LEMMA FoldFirst == ASSUME NEW v, NEW S, NEW q \in Seq(S), q # <<>> PROVE Fold(v, q) = Fold(Applied(v, Head(q)), Tail(q))
<1>1. Head(q) \in S /\ Tail(q) \in Seq(S) /\ <<Head(q)>> \in Seq(S) /\ q = <<Head(q)>> \o Tail(q)
  OBVIOUS
<1>4. PICK h \in Seq(S), r \in Seq(S) : h = <<Head(q)>> /\ r = Tail(q)
  BY <1>1
<1>5. Fold(v, h \o r) = Fold(Fold(v, h), r)
  BY FoldMore
<1>2. Fold(v, <<Head(q)>> \o Tail(q)) = Fold(Fold(v, <<Head(q)>>), Tail(q))
  BY <1>4, <1>5, Zenon
<1>3. Fold(v, <<Head(q)>>) = Applied(v, Head(q))
  BY <1>1, FoldOne
<1> QED
  BY <1>1, <1>2, <1>3, Zenon

\* What each of the events keeps, all of them keep.
LEMMA FoldReach ==
  ASSUME NEW S, NEW q \in Seq(S), NEW G, NEW v \in G[0],
         \A k \in 1 .. Len(q) : \A x \in G[k - 1] : Applied(x, q[k]) \in G[k]
  PROVE  Fold(v, q) \in G[Len(q)]
<1>1. PICK t : Applies(v, q, t) /\ Fold(v, q) = t[Len(q)]
  BY FoldApplies
<1> DEFINE N == {k \in Nat : k <= Len(q) => t[k] \in G[k]}
<1>2. 0 \in N
  BY <1>1 DEF Applies
<1>3. ASSUME NEW k \in Nat, k \in N PROVE k + 1 \in N
  <2>1. CASE k + 1 <= Len(q)
    <3>1. t[k] \in G[k] /\ k + 1 \in 1 .. Len(q) /\ (k + 1) - 1 = k
      BY <1>3, <2>1
    <3>2. t[k + 1] = Applied(t[k], q[k + 1])
      BY <1>1, <3>1 DEF Applies
    <3> QED
      BY <3>1, <3>2
  <2> QED
    BY <2>1
<1> HIDE DEF N
<1>4. Nat \subseteq N
  BY <1>2, <1>3, Induction
<1>5. Len(q) \in N
  BY <1>4
<1> QED
  BY <1>1, <1>5 DEF N

\* Two folds side by side.
LEMMA FoldPairs ==
  ASSUME NEW S, NEW q \in Seq(S), NEW R, NEW v, NEW w, <<v, w>> \in R,
         \A e \in S : \A x, y : <<x, y>> \in R => <<Applied(x, e), Applied(y, e)>> \in R
  PROVE  <<Fold(v, q), Fold(w, q)>> \in R
<1>1. PICK t : Applies(v, q, t) /\ Fold(v, q) = t[Len(q)]
  BY FoldApplies
<1>2. PICK u : Applies(w, q, u) /\ Fold(w, q) = u[Len(q)]
  BY FoldApplies
<1> DEFINE N == {k \in Nat : k <= Len(q) => <<t[k], u[k]>> \in R}
<1>3. 0 \in N
  BY <1>1, <1>2 DEF Applies
<1>4. ASSUME NEW k \in Nat, k \in N PROVE k + 1 \in N
  <2>1. CASE k + 1 <= Len(q)
    <3>1. <<t[k], u[k]>> \in R /\ k + 1 \in 1 .. Len(q) /\ (k + 1) - 1 = k /\ q[k + 1] \in S
      BY <1>4, <2>1
    <3>2. t[k + 1] = Applied(t[k], q[k + 1]) /\ u[k + 1] = Applied(u[k], q[k + 1])
      BY <1>1, <1>2, <3>1 DEF Applies
    <3> QED
      BY <3>1, <3>2
  <2> QED
    BY <2>1
<1> HIDE DEF N
<1>5. Nat \subseteq N
  BY <1>3, <1>4, Induction
<1>6. Len(q) \in N
  BY <1>5
<1> QED
  BY <1>1, <1>2, <1>6 DEF N

-----------------------------------------------------------------------------
(* What the windows show *)

\* What a window shows, and the events it is told.
Marks == {"", "active", "done", "failed"}
AgentMarks == {"none", "PENDING", "ALIVE", "TORN_DOWN", "FAILED"}
Dialogs == [stage : Nat, gate : Nat]
Views == [status : {"running", "awaiting_approval", "completed", "rejected", "cancelled", "failed"},
          cancelling : BOOLEAN, paused : BOOLEAN, stages : [Stages -> Marks],
          agents : [Agents -> AgentMarks], budget : Nat, preview : Nat, approval : Dialogs]
EndTypes == {"pipeline_completed", "pipeline_rejected", "pipeline_cancelled", "pipeline_failed"}
Events == [type : EndTypes \cup {"stream_end", "approval_decided", "pipeline_paused", "pipeline_resumed"}]
          \cup [type : {"stage_started", "stage_completed"}, stage : Stages]
          \cup [type : {"agent_alive", "agent_torn_down", "agent_failed"}, agent : Agents]
          \cup [type : {"agent_file_preview"}, agent : Agents, budget : Nat]
          \cup [type : {"agent_registered"}, agent : Agents, slot : Nat]
          \cup [type : {"approval_required"}, stage : Agents, gate : 1 .. 2]

\* What a window will show when it has the events that are on their way to it.
Shows(w) == Fold(view[w], queue[w])

\* What no click changes in a window, and what an answer does.
SameProgress(u, v) == u.stages = v.stages /\ u.agents = v.agents /\ u.budget = v.budget /\ u.paused = v.paused
SameDialog(u, v) == u.status = v.status /\ u.approval = v.approval /\ u.preview = v.preview
IsClosed(v) == v.status = "running" /\ v.approval = NoDialog /\ v.preview = 0

RequestKinds == {"none", "start", "approve", "cancel", "pause", "resume"}
Switching(o) == post[o].req \in {"pause", "resume"} /\ post[o].step = 2

\* The types of what the run and its windows keep.
WinTypes ==
  /\ at \in {"none", "free", "waiting", "decided", "launch", "over"}
  /\ seen \subseteq Stages
  /\ signal \in [set : BOOLEAN, decision : Answers]
  /\ cancelled \in BOOLEAN /\ paused \in BOOLEAN
  /\ queue \in [Windows -> Seq(Events)] /\ replay \in Views
  /\ tuned \subseteq Windows /\ view \in [Windows -> Views]
  /\ post \in [Windows -> [req : RequestKinds, decision : Answers \cup {"none"}, step : 0 .. 2]]
  /\ stray \in BOOLEAN /\ crossed \in BOOLEAN /\ blind \subseteq Windows

\* Where the thread is in the run.
Thread ==
  /\ at \in {"none", "free", "waiting", "decided"} => status = "running"
  /\ at \in {"waiting", "decided"} => pc = "suspended"
  /\ at = "launch" => status = "completed"
  /\ at = "over" => status # "running"

\* Before the run there is nothing but the request that starts it.
BeforeTheRun ==
  /\ \A w \in Windows : post[w].req = "start" => w \notin tuned /\ (post[w].step = 1 <=> at = "none")
  /\ \A w \in Windows : post[w].step = 0 <=> post[w].req = "none"
  /\ \A w \in Windows \ tuned : queue[w] = <<>> /\ view[w].approval = NoDialog
  /\ at = "none" =>
       /\ tuned = {}
       /\ \A w \in Windows : post[w].req \in {"none", "start"}
       /\ \A w, o \in Windows : post[w].req = "start" /\ post[o].req = "start" => w = o
       /\ ~signal.set /\ ~cancelled

\* A window follows the run, whatever its user clicked.
FollowsProgress == \A w \in tuned : SameProgress(Shows(w), replay)

\* The gate that waits, in the events.
Asking == at = "waiting" /\ ~signal.set /\ Answering = {}
GateInReplay ==
  /\ ~stray => \A o, p \in Answering : o = p
  /\ cancelled /\ at = "waiting" => signal.set
  /\ ~stray /\ ~cancelled =>
       /\ at # "waiting" => ~signal.set
       /\ at # "waiting" \/ signal.set => Answering = {}
       /\ replay.approval = IF Asking THEN [stage |-> stage, gate |-> Len(answers) + 1] ELSE NoDialog

\* A preview comes with the gate it belongs to, and the end at the end.
QueueInOrder ==
  \A w \in Windows : \A i \in 1 .. Len(queue[w]) :
    /\ queue[w][i].type = "agent_file_preview" => i + 1 <= Len(queue[w]) /\ queue[w][i + 1].type = "approval_required"
    /\ queue[w][i].type \in EndTypes => at \in {"launch", "over"}

\* The dialog of a window that is not waiting for its answer to arrive.
FollowsDialog ==
  ~stray => \A w \in tuned \ blind :
    /\ post[w].req # "approve" \/ post[w].step = 2 => SameDialog(Shows(w), replay)
    /\ post[w].req = "approve" /\ post[w].step = 1 /\ Asking => IsClosed(Shows(w)) \/ Shows(w).approval # NoDialog

\* The answers of a node that waits at its second gate.
FirstGranted == pc = "suspended" /\ Len(answers) = 1 => answers[1] # "reject"
\* A stage that is shown as done was granted at its output gate, or the run is complete.
DoneIsGranted ==
  \A s \in Stages \ {"launch"} : replay.stages[s] = "done" =>
    status = "completed" \/ \E k \in Comprehender .. Tester : Shown[k] = s /\ <<k, 1>> \in granted
\* No agent is left alive between two steps of the run.
NobodyLeft == \A a \in Agents : replay.agents[a] \notin {"PENDING", "ALIVE"}
\* The end is told as it came.
EndInReplay ==
  /\ at = "launch" => /\ ~stray => replay.status = "completed"
                      /\ \A s \in Stages \ {"launch"} : replay.stages[s] # "active"
  /\ at = "over" =>
       /\ ~stray => replay.status = CASE status \in {"budget", "failed"} -> "failed"
                         [] status = "rejected" /\ cancelled -> "cancelled"
                         [] OTHER -> status
       /\ (status = "rejected" => cancelled) => \A s \in Stages : replay.stages[s] # "active"
\* A run that is paused is told as paused, unless two windows switch it at once.
PauseInReplay ==
  ~crossed /\ ~cancelled /\ status = "running" =>
    /\ \A o, p \in Windows : Switching(o) /\ Switching(p) => o = p
    /\ \A o \in Windows : Switching(o) => paused = (post[o].req = "pause")
    /\ (\A o \in Windows : ~Switching(o)) => replay.paused = paused

-----------------------------------------------------------------------------
\* An event leaves a window's state one.
LEMMA AppliedType == ASSUME NEW v \in Views, NEW e \in Events PROVE Applied(v, e) \in Views
<1> DEFINE t == e.type
<1>1. CASE e \in [type : EndTypes \cup {"stream_end", "approval_decided", "pipeline_paused", "pipeline_resumed"}]
  <2>1. CASE t = "pipeline_completed"
    <3>1. [s \in Stages |-> IF s = "launch" /\ v.stages[s] = "" THEN "" ELSE "done"] \in [Stages -> Marks]
      BY DEF Marks
    <3>2. Applied(v, e) = [[v EXCEPT !.status = "completed", !.paused = FALSE] EXCEPT !.cancelling = v.cancelling,
                             !.stages = [s \in Stages |-> IF s = "launch" /\ v.stages[s] = "" THEN "" ELSE "done"]]
      BY <2>1 DEF Applied, Views, Ended
    <3> DEFINE st == [s \in Stages |-> IF s = "launch" /\ v.stages[s] = "" THEN "" ELSE "done"]
    <3>3. st \in [Stages -> Marks]
      BY <3>1
    <3> HIDE DEF st
    <3>4. [[v EXCEPT !.status = "completed", !.paused = FALSE] EXCEPT !.cancelling = v.cancelling, !.stages = st] \in Views
      BY <3>3 DEF Views
    <3> QED
      BY <3>2, <3>4 DEF st
  <2>2. CASE t \in {"pipeline_cancelled", "pipeline_failed"}
    <3>1. MarkActiveAsFailed(v.stages) \in [Stages -> Marks]
      BY DEF MarkActiveAsFailed, Marks, Views
    <3> QED
      BY <2>2, <3>1 DEF Applied, Views, Ended
  <2>3. CASE t \notin {"pipeline_completed", "pipeline_cancelled", "pipeline_failed"}
    BY <1>1, <2>3 DEF Applied, Views, Ended, EndTypes, GateClosed, NoDialog, Dialogs
  <2> QED
    BY <2>1, <2>2, <2>3
<1>2. CASE e \in [type : {"stage_started", "stage_completed"}, stage : Stages]
  BY <1>2 DEF Applied, Views, Marks
<1>3. CASE e \in [type : {"agent_alive", "agent_torn_down", "agent_failed"}, agent : Agents]
  BY <1>3 DEF Applied, Views, AgentIs, AgentMarks
<1>4. CASE e \in [type : {"agent_file_preview"}, agent : Agents, budget : Nat]
  <2>1. e.agent \in Nat /\ e.budget \in Nat /\ t = "agent_file_preview"
    BY <1>4 DEF Agents, Comprehender, SkillWriter
  <2>2. Applied(v, e) = [v EXCEPT !.preview = e.agent, !.budget = e.budget]
    BY <2>1 DEF Applied
  <2> QED
    BY <2>1, <2>2 DEF Views
<1>5. CASE e \in [type : {"agent_registered"}, agent : Agents, slot : Nat]
  BY <1>5 DEF Applied, Views, AgentMarks
<1>6. CASE e \in [type : {"approval_required"}, stage : Agents, gate : 1 .. 2]
  <2>1. e.stage \in Nat /\ e.gate \in Nat /\ t = "approval_required"
    BY <1>6 DEF Agents, Comprehender, SkillWriter
  <2>2. Applied(v, e) = [v EXCEPT !.status = "awaiting_approval", !.approval = [stage |-> e.stage, gate |-> e.gate]]
    BY <2>1 DEF Applied
  <2> DEFINE d == [stage |-> e.stage, gate |-> e.gate]
  <2>3. d \in Dialogs
    BY <2>1 DEF Dialogs
  <2> HIDE DEF d
  <2>4. [v EXCEPT !.status = "awaiting_approval", !.approval = d] \in Views
    BY <2>3 DEF Views
  <2> QED
    BY <2>2, <2>4 DEF d
<1> QED
  BY <1>1, <1>2, <1>3, <1>4, <1>5, <1>6 DEF Events

\* Each event by its type.
LEMMA EventTypes ==
  ASSUME NEW e \in Events
  PROVE  /\ e.type \in {"stage_started", "stage_completed", "agent_file_preview", "agent_registered", "agent_alive",
                       "agent_torn_down", "agent_failed", "approval_required", "approval_decided", "pipeline_paused",
                       "pipeline_resumed", "pipeline_completed", "pipeline_rejected", "pipeline_cancelled",
                       "pipeline_failed", "stream_end"}
         /\ e.type = "approval_required" => e.stage \in Agents /\ e.gate \in 1 .. 2
         /\ e.type = "agent_registered" => e.slot \in Nat
BY DEF Events, EndTypes

\* The stages of a run that is completed.
Finished(stages) == [s \in Stages |-> IF s = "launch" /\ stages[s] = "" THEN "" ELSE "done"]

\* What the end of a run does to a window.
LEMMA EndFields ==
  ASSUME NEW v \in Views, NEW e, e.type \in EndTypes
  PROVE  /\ Applied(v, e).paused = FALSE /\ Applied(v, e).agents = v.agents /\ Applied(v, e).budget = v.budget
         /\ Applied(v, e).approval = v.approval /\ Applied(v, e).preview = v.preview
         /\ Applied(v, e).status = CASE e.type = "pipeline_completed" -> "completed"
                                     [] e.type = "pipeline_rejected" -> "rejected"
                                     [] e.type = "pipeline_cancelled" -> "cancelled"
                                     [] OTHER -> "failed"
         /\ Applied(v, e).stages =
              CASE e.type = "pipeline_completed" -> Finished(v.stages)
                [] e.type = "pipeline_rejected" -> v.stages
                [] OTHER -> MarkActiveAsFailed(v.stages)
<1>1. CASE e.type = "pipeline_completed"
  <2> DEFINE st == [s \in Stages |-> IF s = "launch" /\ v.stages[s] = "" THEN "" ELSE "done"]
  <2>1. Applied(v, e) = [[v EXCEPT !.status = "completed", !.paused = FALSE] EXCEPT !.stages = st]
    BY <1>1 DEF Applied, Views, Ended
  <2> HIDE DEF st
  <2>2. /\ Applied(v, e).paused = FALSE /\ Applied(v, e).agents = v.agents /\ Applied(v, e).budget = v.budget
        /\ Applied(v, e).approval = v.approval /\ Applied(v, e).preview = v.preview
        /\ Applied(v, e).status = "completed" /\ Applied(v, e).stages = st
    BY <2>1 DEF Views
  <2> QED
    BY <1>1, <2>2 DEF st, Finished
<1>2. CASE e.type = "pipeline_rejected"
  BY <1>2 DEF Applied, Views, Ended
<1>3. CASE e.type \in {"pipeline_cancelled", "pipeline_failed"}
  <2> DEFINE st == MarkActiveAsFailed(v.stages)
  <2>1. \E x \in BOOLEAN : Applied(v, e) = [v EXCEPT !.status = IF e.type = "pipeline_cancelled" THEN "cancelled" ELSE "failed",
                                !.paused = FALSE, !.cancelling = x, !.stages = st]
    <3>1. CASE e.type = "pipeline_cancelled"
      BY <3>1 DEF Applied, Views, Ended
    <3>2. CASE e.type = "pipeline_failed"
      <4>1. Applied(v, e) = [v EXCEPT !.status = "failed", !.paused = FALSE, !.cancelling = v.cancelling, !.stages = st]
        BY <3>2 DEF Applied, Views, Ended
      <4>2. v.cancelling \in BOOLEAN
        BY DEF Views
      <4> QED
        BY <3>2, <4>1, <4>2
    <3> QED
      BY <1>3, <3>1, <3>2
  <2> HIDE DEF st
  <2>2. /\ Applied(v, e).paused = FALSE /\ Applied(v, e).agents = v.agents /\ Applied(v, e).budget = v.budget
        /\ Applied(v, e).approval = v.approval /\ Applied(v, e).preview = v.preview
        /\ Applied(v, e).status = (IF e.type = "pipeline_cancelled" THEN "cancelled" ELSE "failed") /\ Applied(v, e).stages = st
    BY <2>1 DEF Views
  <2> QED
    BY <1>3, <2>2 DEF st
<1> QED
  BY <1>1, <1>2, <1>3 DEF EndTypes

\* Events that leave the dialog of a window as it is.
LEMMA DialogStays ==
  ASSUME NEW v \in Views, NEW e,
         e.type \in {"stage_started", "stage_completed", "agent_registered", "agent_alive", "agent_torn_down",
                     "agent_failed", "pipeline_paused", "pipeline_resumed", "stream_end"}
  PROVE  SameDialog(Applied(v, e), v)
<1> USE DEF SameDialog, Views
<1>1. CASE e.type \in {"stage_started", "stage_completed"}
  BY <1>1 DEF Applied
<1>2. CASE e.type = "agent_registered"
  BY <1>2 DEF Applied
<1>3. CASE e.type \in {"agent_alive", "agent_torn_down", "agent_failed"}
  BY <1>3 DEF Applied, AgentIs
<1>4. CASE e.type \in {"pipeline_paused", "pipeline_resumed", "stream_end"}
  BY <1>4 DEF Applied
<1> QED
  BY <1>1, <1>2, <1>3, <1>4

\* Two windows with the same progress have the same after an event ...
LEMMA AppliedProgress ==
  ASSUME NEW u \in Views, NEW v \in Views, NEW e \in Events, SameProgress(u, v)
  PROVE  SameProgress(Applied(u, e), Applied(v, e))
<1> USE DEF SameProgress, Views
<1> DEFINE t == e.type
<1>1. CASE t = "stage_started"
  BY <1>1 DEF Applied
<1>2. CASE t = "stage_completed"
  BY <1>2 DEF Applied
<1>3. CASE t = "agent_file_preview"
  BY <1>3 DEF Applied
<1>4. CASE t = "agent_registered"
  BY <1>4 DEF Applied
<1>5. CASE t = "agent_alive"
  BY <1>5 DEF Applied, AgentIs
<1>6. CASE t = "agent_torn_down"
  BY <1>6 DEF Applied, AgentIs
<1>7. CASE t = "agent_failed"
  BY <1>7 DEF Applied, AgentIs
<1>8. CASE t = "approval_required"
  BY <1>8 DEF Applied
<1>9. CASE t = "approval_decided"
  BY <1>9 DEF Applied, GateClosed
<1>10. CASE t \in {"pipeline_paused", "pipeline_resumed"}
  BY <1>10 DEF Applied
<1>11. CASE t \in EndTypes
  <2>1. u.stages = v.stages /\ u.agents = v.agents /\ u.budget = v.budget
    OBVIOUS
  <2> HIDE DEF Views
  <2>2. Applied(u, e).stages = CASE t = "pipeline_completed" -> Finished(u.stages)
                                 [] t = "pipeline_rejected" -> u.stages [] OTHER -> MarkActiveAsFailed(u.stages)
    BY <1>11, EndFields
  <2>3. Applied(v, e).stages = CASE t = "pipeline_completed" -> Finished(v.stages)
                                 [] t = "pipeline_rejected" -> v.stages [] OTHER -> MarkActiveAsFailed(v.stages)
    BY <1>11, EndFields
  <2>4. Applied(u, e).stages = Applied(v, e).stages
    BY <2>1, <2>2, <2>3
  <2>5. \A x \in Views : Applied(x, e).agents = x.agents /\ Applied(x, e).budget = x.budget /\ Applied(x, e).paused = FALSE
    BY <1>11, EndFields
  <2> QED
    BY <2>1, <2>4, <2>5
<1>13. CASE t = "stream_end"
  BY <1>13 DEF Applied
<1> QED
  BY <1>1, <1>2, <1>3, <1>4, <1>5, <1>6, <1>7, <1>8, <1>9, <1>10, <1>11, <1>13, EventTypes DEF EndTypes

\* ... and two with the same dialog the same dialog.
LEMMA AppliedDialog ==
  ASSUME NEW u \in Views, NEW v \in Views, NEW e \in Events, SameDialog(u, v)
  PROVE  SameDialog(Applied(u, e), Applied(v, e))
<1> USE DEF SameDialog, Views
<1> DEFINE t == e.type
<1>1. CASE t \in {"stage_started", "stage_completed", "agent_registered", "agent_alive", "agent_torn_down",
                     "agent_failed", "pipeline_paused", "pipeline_resumed", "stream_end"}
  <2> HIDE DEF Views
  <2> QED
    BY <1>1, DialogStays
<1>3. CASE t = "agent_file_preview"
  BY <1>3 DEF Applied
<1>8. CASE t = "approval_required"
  BY <1>8 DEF Applied
<1>9. CASE t = "approval_decided"
  BY <1>9 DEF Applied, GateClosed
<1>11. CASE t \in EndTypes
  <2> HIDE DEF Views
  <2> QED
    BY <1>11, EndFields
<1> QED
  BY <1>1, <1>3, <1>8, <1>9, <1>11, EventTypes DEF EndTypes

\* The same for the events that are on their way.
LEMMA FoldType == ASSUME NEW v \in Views, NEW q \in Seq(Events) PROVE Fold(v, q) \in Views
<1> DEFINE G == [k \in 0 .. Len(q) |-> Views]
<1>1. v \in G[0] /\ G[Len(q)] = Views
  OBVIOUS
<1>2. ASSUME NEW k \in 1 .. Len(q), NEW x \in G[k - 1] PROVE Applied(x, q[k]) \in G[k]
  <2>1. x \in Views /\ q[k] \in Events /\ G[k] = Views
    OBVIOUS
  <2> QED
    BY <2>1, AppliedType, Zenon
<1> HIDE DEF G
<1> QED
  BY <1>1, <1>2, FoldReach

\* Windows with the same progress have the same after the same events,
LEMMA FoldProgress ==
  ASSUME NEW u \in Views, NEW v \in Views, NEW q \in Seq(Events), SameProgress(u, v)
  PROVE  SameProgress(Fold(u, q), Fold(v, q))
<1> DEFINE R == {p \in Views \X Views : SameProgress(p[1], p[2])}
<1>0. \A x, y : <<x, y>> \in R <=> x \in Views /\ y \in Views /\ SameProgress(x, y)
  OBVIOUS
<1> HIDE DEF R
<1>1. ASSUME NEW e \in Events, NEW x, NEW y, <<x, y>> \in R PROVE <<Applied(x, e), Applied(y, e)>> \in R
  BY <1>0, <1>1, AppliedType, AppliedProgress
<1>2. <<Fold(u, q), Fold(v, q)>> \in R
  BY <1>0, <1>1, FoldPairs
<1> QED
  BY <1>0, <1>2

\* and windows with the same dialog, the same dialog.
LEMMA FoldDialog ==
  ASSUME NEW u \in Views, NEW v \in Views, NEW q \in Seq(Events), SameDialog(u, v)
  PROVE  SameDialog(Fold(u, q), Fold(v, q))
<1> DEFINE R == {p \in Views \X Views : SameDialog(p[1], p[2])}
<1>0. \A x, y : <<x, y>> \in R <=> x \in Views /\ y \in Views /\ SameDialog(x, y)
  OBVIOUS
<1> HIDE DEF R
<1>1. ASSUME NEW e \in Events, NEW x, NEW y, <<x, y>> \in R PROVE <<Applied(x, e), Applied(y, e)>> \in R
  BY <1>0, <1>1, AppliedType, AppliedDialog
<1>2. <<Fold(u, q), Fold(v, q)>> \in R
  BY <1>0, <1>1, FoldPairs
<1> QED
  BY <1>0, <1>2

\* Events in which a preview comes with its gate, and no end, leave a closed dialog closed or
\* open another.
LEMMA FoldClosed ==
  ASSUME NEW v \in Views, NEW q \in Seq(Events), IsClosed(v) \/ v.approval # NoDialog,
         \A i \in 1 .. Len(q) :
           /\ q[i].type = "agent_file_preview" => i + 1 <= Len(q) /\ q[i + 1].type = "approval_required"
           /\ q[i].type \notin EndTypes
  PROVE  IsClosed(Fold(v, q)) \/ Fold(v, q).approval # NoDialog
<1> DEFINE Fine(x) == IsClosed(x) \/ x.approval # NoDialog
           Half(k) == k > 0 /\ q[k].type = "agent_file_preview"
           G == [k \in 0 .. Len(q) |-> {x \in Views : Fine(x) \/ Half(k)}]
<1>0. Len(q) \in Nat
  OBVIOUS
<1>1. v \in G[0]
  BY <1>0
<1>2. ASSUME NEW k \in 1 .. Len(q), NEW x \in G[k - 1] PROVE Applied(x, q[k]) \in G[k]
  <2>0. k - 1 \in 0 .. Len(q) /\ k \in 0 .. Len(q) /\ x \in Views /\ q[k] \in Events
    BY <1>0
  <2>1. Applied(x, q[k]) \in Views
    BY <2>0, AppliedType
  <2>2. CASE q[k].type = "agent_file_preview"
    <3>1. Half(k)
      BY <1>0, <2>2
    <3> HIDE DEF Half, Fine
    <3> QED
      BY <2>0, <2>1, <3>1
  <2>3. CASE q[k].type # "agent_file_preview" /\ Half(k - 1)
    <3>1. k - 1 \in 1 .. Len(q)
      BY <1>0, <2>3
    <3>5. q[(k - 1) + 1].type = "approval_required"
      BY <2>3, <3>1
    <3>2. q[k].type = "approval_required"
      BY <1>0, <3>5
    <3>6. q[k].stage \in Nat /\ q[k].stage >= 1
      BY <2>0, <3>2, EventTypes DEF Agents, Comprehender, SkillWriter
    <3>7. Applied(x, q[k]) = [x EXCEPT !.status = "awaiting_approval", !.approval = [stage |-> q[k].stage, gate |-> q[k].gate]]
      BY <3>2 DEF Applied
    <3>8. Applied(x, q[k]).approval = [stage |-> q[k].stage, gate |-> q[k].gate]
      BY <2>0, <3>7 DEF Views
    <3>3. Applied(x, q[k]).approval # NoDialog
      BY <3>6, <3>8 DEF NoDialog
    <3> QED
      BY <2>0, <2>1, <3>3
  <2>4. CASE q[k].type # "agent_file_preview" /\ ~Half(k - 1)
    <3>1. Fine(x)
      BY <2>0, <2>4
    <3>2. q[k].type \notin EndTypes
      OBVIOUS
    <3> DEFINE e == q[k]
               t == e.type
    <3>3. ASSUME t \in {"stage_started", "stage_completed", "agent_registered", "agent_alive", "agent_torn_down",
                         "agent_failed", "pipeline_paused", "pipeline_resumed", "stream_end"}
          PROVE  Fine(Applied(x, e))
      <4>1. SameDialog(Applied(x, e), x)
        BY <2>0, <3>3, DialogStays
      <4> QED
        BY <3>1, <4>1 DEF SameDialog, IsClosed
    <3>5. ASSUME t = "approval_required" PROVE Fine(Applied(x, e))
      <4>6. e.stage \in Nat /\ e.stage >= 1
        <5>1. e \in Events /\ e.type = "approval_required"
          BY <2>0, <3>5
        <5>2. e.stage \in Agents
          BY <5>1, EventTypes
        <5> QED BY <5>2 DEF Agents, Comprehender, SkillWriter
      <4>7. Applied(x, e) = [x EXCEPT !.status = "awaiting_approval", !.approval = [stage |-> e.stage, gate |-> e.gate]]
        BY <3>5 DEF Applied
      <4>8. Applied(x, e).approval = [stage |-> e.stage, gate |-> e.gate]
        BY <2>0, <4>7 DEF Views
      <4> QED
        BY <4>6, <4>8 DEF NoDialog
    <3>6. ASSUME t = "approval_decided" PROVE Fine(Applied(x, e))
      <4>1. CASE x.approval = NoDialog
        <5>1. Applied(x, e) = x
          BY <3>6, <4>1 DEF Applied
        <5> QED
          BY <3>1, <5>1
      <4>2. CASE x.approval # NoDialog
        <5>1. Applied(x, e) = GateClosed(x)
          BY <3>6, <4>2 DEF Applied
        <5>2. IsClosed(GateClosed(x))
          BY <2>0 DEF GateClosed, Views, IsClosed
        <5> QED
          BY <5>1, <5>2
      <4> QED
        BY <4>1, <4>2
    <3>7. Fine(Applied(x, q[k]))
      BY <2>0, <2>4, <3>2, <3>3, <3>5, <3>6, EventTypes DEF EndTypes
    <3> HIDE DEF Fine
    <3> QED
      BY <2>0, <2>1, <3>7
  <2> QED
    BY <2>2, <2>3, <2>4
<1>3. G[Len(q)] = {x \in Views : Fine(x) \/ Half(Len(q))}
  BY <1>0
<1>4. ~Half(Len(q))
  <2>1. CASE Len(q) > 0
    <3>1. Len(q) \in 1 .. Len(q) /\ ~(Len(q) + 1 <= Len(q))
      BY <1>0, <2>1
    <3> QED
      BY <3>1
  <2> QED
    BY <1>0, <2>1
<1> HIDE DEF G, Half
<1>5. Fold(v, q) \in G[Len(q)]
  BY <1>1, <1>2, FoldReach
<1> QED
  BY <1>3, <1>4, <1>5

-----------------------------------------------------------------------------
(* What the run tells *)

\* What a run that is complete tells before it launches the application.
Completion == <<Event("pipeline_completed"), StageEvent("stage_started", "launch")>>

\* What is known of the run.
Base == Places /\ PastGates /\ BudgetInv /\ TypeOK /\ AnswersLeft /\ Grants

\* The stages that end are counted.
LEMMA StagesFinite == ASSUME NEW S \in SUBSET Stages PROVE Cardinality(S) \in Nat
<1>1. IsFiniteSet({"plan"} \cup {"spec"} \cup {"env"} \cup {"execute"} \cup {"test"} \cup {"launch"})
  <2>1. \A x : IsFiniteSet({x})
    BY FS_Singleton
  <2>2. IsFiniteSet({"plan"} \cup {"spec"})
    BY <2>1, FS_Union
  <2>3. IsFiniteSet({"plan"} \cup {"spec"} \cup {"env"})
    BY <2>1, <2>2, FS_Union
  <2>4. IsFiniteSet({"plan"} \cup {"spec"} \cup {"env"} \cup {"execute"})
    BY <2>1, <2>3, FS_Union
  <2>5. IsFiniteSet({"plan"} \cup {"spec"} \cup {"env"} \cup {"execute"} \cup {"test"})
    BY <2>1, <2>4, FS_Union
  <2> QED
    BY <2>1, <2>5, FS_Union
<1>2. Stages = {"plan"} \cup {"spec"} \cup {"env"} \cup {"execute"} \cup {"test"} \cup {"launch"}
  BY DEF Stages
<1>3. IsFiniteSet(S)
  BY <1>1, <1>2, FS_Subset
<1> QED
  BY <1>3, FS_CardinalityType

\* Events are events.
LEMMA LifecycleType ==
  ASSUME Base, NEW a \in Agents, NEW ends \in {"TORN_DOWN", "FAILED"}
  PROVE  Lifecycle(a, ends) \in Seq(Events)
<1>1. spawned + 1 \in Nat
  BY DEF Base, TypeOK
<1>2. [type |-> "agent_registered", agent |-> a, slot |-> spawned + 1] \in Events
  BY <1>1 DEF Events
<1>3. AgentEvent("agent_alive", a) \in Events /\ AgentEvent("agent_torn_down", a) \in Events /\ AgentEvent("agent_failed", a) \in Events
  BY DEF Events, AgentEvent
<1>4. AgentEvent(IF ends = "FAILED" THEN "agent_failed" ELSE "agent_torn_down", a) \in Events
  BY <1>3
<1> QED
  BY <1>2, <1>3, <1>4 DEF Lifecycle

\* What the end of a run tells are events.
LEMMA FarewellType == ASSUME NEW to PROVE Farewell(to) \in Seq(Events)
<1>1. Event("pipeline_failed") \in Events /\ Event("pipeline_cancelled") \in Events /\ Event("pipeline_rejected") \in Events
      /\ Event("stream_end") \in Events
  BY DEF Events, EndTypes, Event
<1> HIDE DEF Event
<1>2. Event(IF to # "rejected" THEN "pipeline_failed" ELSE IF cancelled THEN "pipeline_cancelled" ELSE "pipeline_rejected") \in Events
  BY <1>1
<1> QED
  BY <1>1, <1>2 DEF Farewell

\* So is what its completion tells.
LEMMA CompletionType == Completion \in Seq(Events)
<1>1. Event("pipeline_completed") \in Events /\ StageEvent("stage_started", "launch") \in Events
  BY DEF Events, EndTypes, Event, StageEvent, Stages
<1> QED
  BY <1>1 DEF Completion

\* What each step of the graph tells, and where it leaves the run.
LEMMA GraphTells ==
  ASSUME Base, RunGraph
  PROVE  /\ at = "free" /\ status = "running" /\ UNCHANGED <<seen, signal, cancelled, paused, screens, history>>
         /\ \/ Emits(<<>>) /\ status' = "running"
            \/ Emits(Lifecycle(stage, "TORN_DOWN")) /\ status' = "running"
            \/ Emits(Farewell(status')) /\ status' \in {"budget", "rejected", "failed"}
            \/ Emits(Lifecycle(stage, "FAILED") \o Farewell("failed")) /\ status' = "failed"
            \/ Emits(Completion) /\ status' = "completed"
            \/ /\ \E ends \in {"TORN_DOWN", "FAILED"} : Emits(Lifecycle(SkillWriter, ends) \o Completion)
               /\ status' = "completed"
         /\ at' = IF status' = "running" THEN "free" ELSE IF status' = "completed" THEN "launch" ELSE "over"
<1>0. at = "free" /\ UNCHANGED <<seen, signal, cancelled, paused, screens, history>>
      /\ at' = IF status' = "running" THEN "free" ELSE IF status' = "completed" THEN "launch" ELSE "over"
  BY Zenon DEF RunGraph
<1> HIDE DEF Emits
<1>1. CASE (CheckBudget \/ AgentFileGate \/ OutputGate \/ FinishFails)
           /\ Emits(IF status' = "running" THEN <<>> ELSE Farewell(status'))
  <2>1. status = "running" /\ status' \in {"running", "budget", "rejected", "failed"}
    BY <1>1 DEF CheckBudget, AgentFileGate, OutputGate, Gate, FinishFails
  <2> QED
    BY <1>0, <1>1, <2>1
<1>2. CASE Produce /\ Emits(Lifecycle(stage, "TORN_DOWN"))
  BY <1>0, <1>2 DEF Produce
<1>3. CASE ProduceFails /\ Emits(Lifecycle(stage, "FAILED") \o Farewell("failed"))
  BY <1>0, <1>3 DEF ProduceFails
<1>4. CASE Finish /\ Emits(IF status' = "running" THEN <<>> ELSE <<Event("pipeline_completed"), StageEvent("stage_started", "launch")>>)
  <2>1. status = "running" /\ status' \in {"running", "completed"}
    BY <1>4 DEF Finish
  <2> QED
    BY <1>0, <1>4, <2>1 DEF Completion
<1>5. CASE /\ WriteSkill
           /\ Emits((IF skill' = "skipped" THEN <<>>
                     ELSE Lifecycle(SkillWriter, IF skill' = "failed" THEN "FAILED" ELSE "TORN_DOWN")) \o Completion)
  <2>1. status = "running" /\ status' = "completed"
    BY <1>5 DEF WriteSkill
  <2>2. CASE skill' = "skipped"
    <3>1. <<>> \o Completion = Completion
      BY CompletionType
    <3> QED
      BY <1>0, <1>5, <2>1, <2>2, <3>1
  <2>3. CASE skill' # "skipped"
    BY <1>0, <1>5, <2>1, <2>3
  <2> QED
    BY <2>2, <2>3
<1> QED
  BY <1>1, <1>2, <1>3, <1>4, <1>5, Zenon DEF RunGraph, Completion

-----------------------------------------------------------------------------
(* What an event does to what the events amount to *)

\* Sequences are their elements.
LEMMA SameSeq == ASSUME NEW S, NEW s \in Seq(S), NEW t \in Seq(S), Len(s) = Len(t), \A i \in 1 .. Len(s) : s[i] = t[i] PROVE s = t
<1>1. DOMAIN s = 1 .. Len(s) /\ DOMAIN t = 1 .. Len(s)
  OBVIOUS
<1>2. s = [i \in 1 .. Len(s) |-> s[i]] /\ t = [i \in 1 .. Len(s) |-> t[i]]
  BY <1>1
<1> QED
  BY <1>2

\* A sequence of two elements.
LEMMA PairIs == ASSUME NEW S, NEW x \in Seq(S), NEW a \in S, NEW b \in S, Len(x) = 2, x[1] = a, x[2] = b PROVE x = <<a, b>>
<1>1. PICK y \in Seq(S) : y = <<a, b>> /\ Len(y) = 2 /\ y[1] = a /\ y[2] = b
  OBVIOUS
<1>2. \A i \in 1 .. Len(x) : x[i] = y[i]
  <2>1. ASSUME NEW i \in 1 .. 2 PROVE x[i] = y[i]
    <3>1. i = 1 \/ i = 2
      OBVIOUS
    <3> QED
      BY <1>1, <3>1
  <2> QED
    BY <2>1
<1>3. x = y
  BY <1>1, <1>2, SameSeq
<1> QED
  BY <1>1, <1>3

\* A sequence of three.
LEMMA TripleIs ==
  ASSUME NEW S, NEW x \in Seq(S), NEW a \in S, NEW b \in S, NEW c \in S, Len(x) = 3, x[1] = a, x[2] = b, x[3] = c
  PROVE  x = <<a, b, c>>
<1>1. PICK y \in Seq(S) : y = <<a, b, c>> /\ Len(y) = 3 /\ y[1] = a /\ y[2] = b /\ y[3] = c
  OBVIOUS
<1>2. \A i \in 1 .. Len(x) : x[i] = y[i]
  <2>1. ASSUME NEW i \in 1 .. 3 PROVE x[i] = y[i]
    <3>1. i = 1 \/ i = 2 \/ i = 3
      OBVIOUS
    <3> QED
      BY <1>1, <3>1
  <2> QED
    BY <2>1
<1>3. x = y
  BY <1>1, <1>2, SameSeq
<1> QED
  BY <1>1, <1>3

\* Two events, one after the other.
LEMMA FoldTwo == ASSUME NEW v, NEW S, NEW a \in S, NEW b \in S PROVE Fold(v, <<a, b>>) = Applied(Applied(v, a), b)
<1>1. PICK q \in Seq(S), r \in Seq(S) : q = <<a>> /\ r = <<b>> /\ q \o r = <<a, b>>
  <2>2. <<a>> \in Seq(S) /\ <<b>> \in Seq(S) /\ <<a, b>> \in Seq(S)
    OBVIOUS
  <2>3. <<a>> \o <<b>> = <<a, b>>
    <3>1. Len(<<a>>) = 1 /\ <<a>>[1] = a /\ Len(<<b>>) = 1 /\ <<b>>[1] = b
      OBVIOUS
    <3>2. /\ Len(<<a>> \o <<b>>) = 2 /\ <<a>> \o <<b>> \in Seq(S)
          /\ (<<a>> \o <<b>>)[1] = a /\ (<<a>> \o <<b>>)[2] = b
      BY <2>2, <3>1
    <3> QED
      BY <3>2, PairIs
  <2>1. <<a>> \in Seq(S) /\ <<b>> \in Seq(S) /\ <<a>> \o <<b>> = <<a, b>>
    BY <2>2, <2>3
  <2> QED
    BY <2>1
<1>2. Fold(v, q \o r) = Fold(Fold(v, q), r)
  BY FoldMore
<1>3. Fold(v, q) = Applied(v, a)
  BY <1>1, FoldOne
<1>4. Fold(Applied(v, a), r) = Applied(Applied(v, a), b)
  BY <1>1, FoldOne
<1> QED
  BY <1>1, <1>2, <1>3, <1>4, Zenon

\* Three events, one after the other.
LEMMA FoldThree ==
  ASSUME NEW v, NEW S, NEW a \in S, NEW b \in S, NEW c \in S
  PROVE  Fold(v, <<a, b, c>>) = Applied(Applied(Applied(v, a), b), c)
<1>1. PICK q \in Seq(S), r \in Seq(S) : q = <<a, b>> /\ r = <<c>> /\ q \o r = <<a, b, c>>
  <2>2. <<a, b>> \in Seq(S) /\ <<c>> \in Seq(S) /\ <<a, b, c>> \in Seq(S)
    OBVIOUS
  <2>3. <<a, b>> \o <<c>> = <<a, b, c>>
    <3>1. Len(<<a, b>>) = 2 /\ <<a, b>>[1] = a /\ <<a, b>>[2] = b /\ Len(<<c>>) = 1 /\ <<c>>[1] = c
      OBVIOUS
    <3>2. /\ Len(<<a, b>> \o <<c>>) = 3 /\ <<a, b>> \o <<c>> \in Seq(S)
          /\ (<<a, b>> \o <<c>>)[1] = a /\ (<<a, b>> \o <<c>>)[2] = b /\ (<<a, b>> \o <<c>>)[3] = c
      BY <2>2, <3>1
    <3> QED
      BY <3>2, TripleIs
  <2>1. <<a, b>> \in Seq(S) /\ <<c>> \in Seq(S) /\ <<a, b>> \o <<c>> = <<a, b, c>>
    BY <2>2, <2>3
  <2> QED
    BY <2>1
<1>2. Fold(v, q \o r) = Fold(Fold(v, q), r)
  BY FoldMore
<1>3. Fold(v, q) = Applied(Applied(v, a), b)
  BY <1>1, FoldTwo
<1>4. Fold(Fold(v, q), r) = Applied(Fold(v, q), c)
  BY <1>1, FoldOne
<1> QED
  BY <1>1, <1>2, <1>3, <1>4, Zenon

\* An agent that was registered, called and ended.
LEMMA FoldLifecycle ==
  ASSUME Base, NEW v \in Views, NEW a \in Agents, NEW ends \in {"TORN_DOWN", "FAILED"}
  PROVE  LET x == Fold(v, Lifecycle(a, ends)) IN
         /\ x \in Views /\ SameDialog(x, v) /\ x.stages = v.stages /\ x.paused = v.paused
         /\ x.agents = [v.agents EXCEPT ![a] = ends]
<1> DEFINE e1 == [type |-> "agent_registered", agent |-> a, slot |-> spawned + 1]
           e2 == AgentEvent("agent_alive", a)
           e3 == AgentEvent(IF ends = "FAILED" THEN "agent_failed" ELSE "agent_torn_down", a)
           v1 == Applied(v, e1)
           v2 == Applied(v1, e2)
           v3 == Applied(v2, e3)
<1>1. e1 \in Events /\ e2 \in Events /\ e3 \in Events
  <2>1. spawned + 1 \in Nat
    BY DEF Base, TypeOK
  <2>2. e1 \in Events
    BY <2>1 DEF Events
  <2>3. AgentEvent("agent_alive", a) \in Events /\ AgentEvent("agent_torn_down", a) \in Events /\ AgentEvent("agent_failed", a) \in Events
    BY DEF Events, AgentEvent
  <2> QED
    BY <2>2, <2>3
<1>2. Fold(v, Lifecycle(a, ends)) = v3
  <2>1. Fold(v, <<e1, e2, e3>>) = v3
    <3> HIDE DEF e1, e2, e3
    <3> QED
      BY <1>1, FoldThree
  <2> QED
    BY <2>1 DEF Lifecycle
<1>3. v1 \in Views /\ v1.agents = [v.agents EXCEPT ![a] = "PENDING"] /\ SameDialog(v1, v) /\ v1.stages = v.stages /\ v1.paused = v.paused
  <2>1. v1 \in Views
    BY <1>1, AppliedType
  <2>2. SameDialog(v1, v)
    BY DialogStays
  <2>3. v1 = [v EXCEPT !.agents[a] = "PENDING", !.budget = IF spawned + 1 > v.budget THEN spawned + 1 ELSE v.budget]
    BY DEF Applied, Views
  <2>4. v1.agents = [v.agents EXCEPT ![a] = "PENDING"] /\ v1.stages = v.stages /\ v1.paused = v.paused
    BY <2>3 DEF Views
  <2> QED
    BY <2>1, <2>2, <2>4
<1>4. e2.type = "agent_alive" /\ e2.agent = a /\ e3.type = (IF ends = "FAILED" THEN "agent_failed" ELSE "agent_torn_down") /\ e3.agent = a
  BY DEF AgentEvent
<1> HIDE DEF v1, e1, e2, e3
<1>5. v2 \in Views /\ v2.agents = [v.agents EXCEPT ![a] = "ALIVE"] /\ SameDialog(v2, v) /\ v2.stages = v.stages /\ v2.paused = v.paused
  <2>1. v2 \in Views
    BY <1>1, <1>3, AppliedType
  <2>2. SameDialog(v2, v1)
    BY <1>3, <1>4, DialogStays
  <2>3. v1.agents[a] = "PENDING"
    BY <1>3 DEF Views
  <2>4. v2 = [v1 EXCEPT !.agents[a] = "ALIVE"]
    BY <1>3, <1>4, <2>3 DEF Applied, AgentIs, Views
  <2>5. v2.agents = [v1.agents EXCEPT ![a] = "ALIVE"] /\ v2.stages = v1.stages /\ v2.paused = v1.paused
    BY <1>3, <2>4 DEF Views
  <2>6. v2.agents = [v.agents EXCEPT ![a] = "ALIVE"]
    BY <1>3, <2>5 DEF Views
  <2> QED
    BY <1>3, <2>1, <2>2, <2>5, <2>6 DEF SameDialog
<1> HIDE DEF v2
<1>6. v3 \in Views /\ v3.agents = [v.agents EXCEPT ![a] = ends] /\ SameDialog(v3, v) /\ v3.stages = v.stages /\ v3.paused = v.paused
  <2>1. v3 \in Views
    BY <1>1, <1>5, AppliedType
  <2>2. SameDialog(v3, v2)
    BY <1>4, <1>5, DialogStays
  <2>3. v2.agents[a] = "ALIVE"
    BY <1>5 DEF Views
  <2>4. v3 = [v2 EXCEPT !.agents[a] = ends]
    BY <1>4, <1>5, <2>3 DEF Applied, AgentIs, Views
  <2>5. v3.agents = [v2.agents EXCEPT ![a] = ends] /\ v3.stages = v2.stages /\ v3.paused = v2.paused
    BY <1>5, <2>4 DEF Views
  <2>6. v3.agents = [v.agents EXCEPT ![a] = ends]
    BY <1>5, <2>5 DEF Views
  <2> QED
    BY <1>5, <2>1, <2>2, <2>5, <2>6 DEF SameDialog
<1> HIDE DEF v3
<1> QED
  BY <1>2, <1>6

\* A run that ends without its application.
LEMMA FoldFarewell ==
  ASSUME NEW v \in Views, NEW to
  PROVE  LET x == Fold(v, Farewell(to)) IN
         /\ x \in Views /\ x.approval = v.approval /\ x.agents = v.agents /\ x.paused = FALSE
         /\ x.status = IF to # "rejected" THEN "failed" ELSE IF cancelled THEN "cancelled" ELSE "rejected"
         /\ x.stages = IF to = "rejected" /\ ~cancelled THEN v.stages ELSE MarkActiveAsFailed(v.stages)
<1> DEFINE ty == IF to # "rejected" THEN "pipeline_failed" ELSE IF cancelled THEN "pipeline_cancelled" ELSE "pipeline_rejected"
<1> DEFINE e1 == Event(ty)
           e2 == Event("stream_end")
           v1 == Applied(v, e1)
           v2 == Applied(v1, e2)
<1>1. e1.type = ty /\ e2.type = "stream_end" /\ e1 \in Events /\ e2 \in Events
  BY DEF Event, Events, EndTypes
<1>2. Fold(v, Farewell(to)) = v2
  <2>1. Fold(v, <<e1, e2>>) = v2
    <3> HIDE DEF e1, e2
    <3> QED
      BY <1>1, FoldTwo
  <2> QED
    BY <2>1 DEF Farewell
<1> HIDE DEF ty, e1, e2
<1>3. e1.type \in EndTypes
  BY <1>1 DEF EndTypes, ty
<1>4. v1 \in Views
  BY <1>1, AppliedType
<1>5. /\ v1.paused = FALSE /\ v1.agents = v.agents /\ v1.approval = v.approval
      /\ v1.status = CASE ty = "pipeline_completed" -> "completed" [] ty = "pipeline_rejected" -> "rejected"
                       [] ty = "pipeline_cancelled" -> "cancelled" [] OTHER -> "failed"
      /\ v1.stages = CASE ty = "pipeline_completed" -> Finished(v.stages) [] ty = "pipeline_rejected" -> v.stages
                       [] OTHER -> MarkActiveAsFailed(v.stages)
  BY <1>1, <1>3, EndFields
<1> HIDE DEF v1
<1>6. v2 = v1
  BY <1>1 DEF Applied
<1>7. /\ v1.status = IF to # "rejected" THEN "failed" ELSE IF cancelled THEN "cancelled" ELSE "rejected"
      /\ v1.stages = IF to = "rejected" /\ ~cancelled THEN v.stages ELSE MarkActiveAsFailed(v.stages)
  BY <1>5 DEF ty
<1> QED
  BY <1>2, <1>4, <1>5, <1>6, <1>7

\* A run that has its application.
LEMMA FoldCompletion ==
  ASSUME NEW v \in Views
  PROVE  LET x == Fold(v, Completion) IN
         /\ x \in Views /\ x.approval = v.approval /\ x.agents = v.agents /\ x.paused = FALSE /\ x.status = "completed"
         /\ \A s \in Stages \ {"launch"} : x.stages[s] = "done"
<1> DEFINE e1 == Event("pipeline_completed")
           e2 == StageEvent("stage_started", "launch")
           v1 == Applied(v, e1)
           v2 == Applied(v1, e2)
<1>1. e1.type = "pipeline_completed" /\ e2.type = "stage_started" /\ e2.stage = "launch" /\ e1 \in Events /\ e2 \in Events
  BY DEF Event, StageEvent, Events, EndTypes, Stages
<1>2. Fold(v, Completion) = v2
  <2>1. Fold(v, <<e1, e2>>) = v2
    <3> HIDE DEF e1, e2
    <3> QED
      BY <1>1, FoldTwo
  <2> QED
    BY <2>1 DEF Completion
<1> HIDE DEF e1, e2
<1>3. v1 \in Views
  BY <1>1, AppliedType
<1>4. v1.paused = FALSE /\ v1.agents = v.agents /\ v1.approval = v.approval /\ v1.status = "completed" /\ v1.stages = Finished(v.stages)
  <2>1. e1.type \in EndTypes
    BY <1>1 DEF EndTypes
  <2>2. v1.paused = FALSE /\ v1.agents = v.agents /\ v1.approval = v.approval
    BY <2>1, EndFields
  <2>3. v1.status = CASE e1.type = "pipeline_completed" -> "completed" [] e1.type = "pipeline_rejected" -> "rejected"
                      [] e1.type = "pipeline_cancelled" -> "cancelled" [] OTHER -> "failed"
    BY <2>1, EndFields
  <2>4. v1.stages = CASE e1.type = "pipeline_completed" -> Finished(v.stages) [] e1.type = "pipeline_rejected" -> v.stages
                      [] OTHER -> MarkActiveAsFailed(v.stages)
    BY <2>1, EndFields
  <2> HIDE DEF v1
  <2> QED
    BY <1>1, <2>2, <2>3, <2>4
<1> HIDE DEF v1
<1>5. v2 \in Views
  BY <1>1, <1>3, AppliedType
<1>6. v2 = [v1 EXCEPT !.stages["launch"] = "active"]
  BY <1>1 DEF Applied
<1>7. /\ v2.approval = v1.approval /\ v2.agents = v1.agents /\ v2.paused = v1.paused /\ v2.status = v1.status
      /\ \A s \in Stages \ {"launch"} : v2.stages[s] = v1.stages[s]
  BY <1>3, <1>6 DEF Views
<1>8. \A s \in Stages \ {"launch"} : v1.stages[s] = "done"
  BY <1>4 DEF Finished
<1> HIDE DEF v2
<1> QED
  BY <1>2, <1>4, <1>5, <1>7, <1>8

\* The end of a run whose agent failed, and of one with a skill card.
LEMMA FoldLast ==
  ASSUME Base, NEW v \in Views, NEW a \in Agents, NEW ends \in {"TORN_DOWN", "FAILED"}
  PROVE  /\ Fold(v, Lifecycle(a, ends) \o Farewell("failed")) = Fold(Fold(v, Lifecycle(a, ends)), Farewell("failed"))
         /\ Fold(v, Lifecycle(a, ends) \o Completion) = Fold(Fold(v, Lifecycle(a, ends)), Completion)
<1>1. PICK q \in Seq(Events), r \in Seq(Events), s \in Seq(Events) :
        q = Lifecycle(a, ends) /\ r = Farewell("failed") /\ s = Completion
  BY LifecycleType, FarewellType, CompletionType
<1>2. Fold(v, q \o r) = Fold(Fold(v, q), r) /\ Fold(v, q \o s) = Fold(Fold(v, q), s)
  BY FoldMore
<1> QED
  BY <1>1, <1>2

-----------------------------------------------------------------------------
(* What comes to the windows *)

\* The event that asks for the answer of a gate.
Required == [type |-> "approval_required", stage |-> stage, gate |-> Len(answers) + 1]

\* The events that a step adds for everyone who listens.
Told(es) ==
  /\ es \in Seq(Events)
  /\ replay' = Fold(replay, es)
  /\ queue' = [w \in Windows |-> IF w \in tuned THEN queue[w] \o es ELSE <<>>]

\* A step that tells nothing.
LEMMA NothingTold == ASSUME WinTypes, BeforeTheRun, UNCHANGED events PROVE Told(<<>>)
<1>1. replay' = Fold(replay, <<>>)
  BY FoldNone DEF events
<1>2. queue' = [w \in Windows |-> queue[w]]
  BY DEF events, WinTypes
<1>3. \A w \in Windows : queue[w] = IF w \in tuned THEN queue[w] \o <<>> ELSE <<>>
  <2>1. \A w \in Windows : queue[w] \in Seq(Events) /\ queue[w] \o <<>> = queue[w]
    BY DEF WinTypes
  <2> QED
    BY <2>1 DEF BeforeTheRun
<1>4. <<>> \in Seq(Events)
  OBVIOUS
<1> QED
  BY <1>1, <1>2, <1>3, <1>4 DEF Told

\* When the stream has ended, nothing is told any more.
LEMMA EmitsTells ==
  ASSUME WinTypes, BeforeTheRun, NEW es \in Seq(Events), Emits(es)
  PROVE  IF at = "over" THEN UNCHANGED events /\ Told(<<>>) ELSE Told(es)
<1>1. CASE at = "over"
  BY <1>1, NothingTold DEF Emits
<1>2. CASE at # "over" /\ es = <<>>
  BY <1>2, NothingTold DEF Emits
<1>3. CASE at # "over" /\ es # <<>>
  BY <1>3 DEF Emits, Told, Fold
<1> QED
  BY <1>1, <1>2, <1>3

\* What a gate tells: the stage begins or is done, the preview, and the question.
LEMMA PresentTells ==
  ASSUME Base, WinTypes, Present
  PROVE  LET s == Shown[stage] IN
         /\ s \in Stages /\ stage \in Comprehender .. Tester /\ Len(answers) + 1 \in 1 .. 2 /\ Required \in Events
         /\ \E A, B \in Seq(Events) :
              /\ Emits(A \o B \o <<Required>>)
              /\ A = <<>> \/ A = <<StageEvent("stage_started", s)>>
              /\ \/ B = <<>>
                 \/ B = <<StageEvent("stage_completed", s)>> /\ Len(answers) = 1
                 \/ \E n \in Nat : B = <<[type |-> "agent_file_preview", agent |-> stage, budget |-> n]>>
<1> DEFINE s == Shown[stage]
           n == Cardinality(seen')
           A == IF s \in seen THEN <<>> ELSE <<StageEvent("stage_started", s)>>
           pv == [type |-> "agent_file_preview", agent |-> stage, budget |-> n]
           B == IF Len(answers) + 1 = 2 THEN <<StageEvent("stage_completed", s)>>
                ELSE IF stage = Comprehender THEN <<>> ELSE <<pv>>
<1>0. stage \in 1 .. 6 /\ stage \in Comprehender .. Tester /\ stage \in Agents
  <2>1. pc = "suspended"
    BY DEF Present
  <2> QED
    BY <2>1, StageNumbers DEF Base, Places, Agents
<1>1. s \in Stages
  <2>1. stage = 1 \/ stage = 2 \/ stage = 3 \/ stage = 4 \/ stage = 5 \/ stage = 6
    BY <1>0
  <2> QED
    BY <2>1 DEF Shown, Stages
<1>2. Len(answers) + 1 \in 1 .. 2
  <2>1. Len(answers) \in Nat /\ Len(answers) <= 1
    BY DEF Present, Base, Places, AnswersLeft
  <2> QED
    BY <2>1
<1>3. Required \in Events
  BY <1>0, <1>2 DEF Required, Events
<1>9. seen' = seen \cup {s} /\ Emits(A \o B \o <<Required>>)
  BY Zenon DEF Present, Required
<1> HIDE DEF s
<1>4. StageEvent("stage_started", s) \in Events /\ StageEvent("stage_completed", s) \in Events
  BY <1>1 DEF StageEvent, Events
<1>5. n \in Nat
  <2>1. seen' \in SUBSET Stages
    BY <1>1, <1>9 DEF WinTypes
  <2> QED
    BY <2>1, StagesFinite
<1>6. pv \in Events
  BY <1>0, <1>5 DEF Events
<1> HIDE DEF pv, n
<1>7. A \in Seq(Events) /\ B \in Seq(Events)
  BY <1>4, <1>6
<1>8. /\ A = <<>> \/ A = <<StageEvent("stage_started", s)>>
      /\ \/ B = <<>>
         \/ B = <<StageEvent("stage_completed", s)>> /\ Len(answers) = 1
         \/ B = <<pv>>
  BY <1>2
<1> HIDE DEF A, B
<1>10. \E k \in Nat : pv = [type |-> "agent_file_preview", agent |-> stage, budget |-> k]
  BY <1>5 DEF pv
<1>11. /\ A = <<>> \/ A = <<StageEvent("stage_started", s)>>
       /\ \/ B = <<>>
          \/ B = <<StageEvent("stage_completed", s)>> /\ Len(answers) = 1
          \/ \E k \in Nat : B = <<[type |-> "agent_file_preview", agent |-> stage, budget |-> k]>>
  BY <1>8, <1>10
<1> HIDE DEF Required
<1> QED
  BY <1>0, <1>1, <1>2, <1>3, <1>7, <1>9, <1>11 DEF s

\* What was told leaves events in the queues and a view in the replay.
LEMMA ToldTypes == ASSUME WinTypes, NEW fs, Told(fs) PROVE queue' \in [Windows -> Seq(Events)] /\ replay' \in Views
<1>1. replay' \in Views
  BY FoldType DEF Told, WinTypes
<1>2. ASSUME NEW w \in Windows PROVE (IF w \in tuned THEN queue[w] \o fs ELSE <<>>) \in Seq(Events)
  <2>1. queue[w] \in Seq(Events) /\ fs \in Seq(Events)
    BY DEF Told, WinTypes
  <2> QED
    BY <2>1
<1> QED
  BY <1>1, <1>2 DEF Told

\* What the graph tells is told.
LEMMA GraphTold ==
  ASSUME Base, WinTypes, BeforeTheRun, RunGraph
  PROVE  \E es \in Seq(Events) : Emits(es) /\ Told(es)
<1>0. at = "free"
  BY GraphTells
<1>1. ASSUME NEW es \in Seq(Events), Emits(es) PROVE Told(es)
  BY <1>0, <1>1, EmitsTells
<1>2. stage \in Agents /\ SkillWriter \in Agents
  BY DEF Base, TypeOK, Agents, Comprehender, SkillWriter
<1>3. <<>> \in Seq(Events)
  OBVIOUS
<1>4. \A ends \in {"TORN_DOWN", "FAILED"} : Lifecycle(stage, ends) \in Seq(Events) /\ Lifecycle(SkillWriter, ends) \in Seq(Events)
  BY <1>2, LifecycleType
<1>5. ASSUME NEW ends \in {"TORN_DOWN", "FAILED"}
      PROVE  Lifecycle(stage, ends) \o Farewell("failed") \in Seq(Events) /\ Lifecycle(SkillWriter, ends) \o Completion \in Seq(Events)
  <2>1. PICK q \in Seq(Events), r \in Seq(Events), u \in Seq(Events), x \in Seq(Events) :
          q = Lifecycle(stage, ends) /\ r = Farewell("failed") /\ u = Lifecycle(SkillWriter, ends) /\ x = Completion
    BY <1>4, FarewellType, CompletionType
  <2>2. q \o r \in Seq(Events) /\ u \o x \in Seq(Events)
    OBVIOUS
  <2> QED
    BY <2>1, <2>2
<1>6. \E es \in Seq(Events) : Emits(es)
  <2>1. \A to : Farewell(to) \in Seq(Events)
    BY FarewellType
  <2> QED
    BY <1>3, <1>4, <1>5, <2>1, CompletionType, GraphTells, Zenon
<1> QED
  BY <1>1, <1>6

\* Every step that tells something tells it to the windows and the replay alike.
LEMMA TellingTold ==
  ASSUME Base, WinTypes, BeforeTheRun, RunGraph \/ Present \/ Launched \/ \E w \in Windows : Broadcast(w) \/ Tell(w)
  PROVE  UNCHANGED <<tuned, view>> /\ \E fs : Told(fs)
<1>0. ASSUME NEW es \in Seq(Events), Emits(es) PROVE \E fs : Told(fs)
  BY <1>0, EmitsTells, Zenon
<1>1. CASE RunGraph
  <2>1. UNCHANGED screens
    BY <1>1, GraphTells
  <2> QED
    BY <1>1, <2>1, GraphTold, Zenon DEF screens, screen
<1>2. CASE Present
  <2>1. PICK A \in Seq(Events), B \in Seq(Events) : Emits(A \o B \o <<Required>>)
    BY <1>2, PresentTells
  <2>2. <<Required>> \in Seq(Events)
    BY <1>2, PresentTells
  <2>3. A \o B \o <<Required>> \in Seq(Events)
    BY <2>2
  <2>4. UNCHANGED <<tuned, view>>
    BY <1>2, Zenon DEF Present, screens, screen
  <2> QED
    BY <1>0, <2>1, <2>3, <2>4
<1>3. CASE Launched
  <2>1. <<StageEvent("stage_completed", "launch"), Event("stream_end")>> \in Seq(Events)
    BY DEF StageEvent, Event, Events, Stages
  <2>2. UNCHANGED <<tuned, view>> /\ Emits(<<StageEvent("stage_completed", "launch"), Event("stream_end")>>)
    BY <1>3, Zenon DEF Launched, screens, screen
  <2> QED
    BY <1>0, <2>1, <2>2
<1>4. ASSUME NEW w \in Windows, Broadcast(w) PROVE UNCHANGED <<tuned, view>> /\ \E fs : Told(fs)
  <2>1. <<Event("approval_decided")>> \in Seq(Events)
    BY DEF Event, Events
  <2>2. UNCHANGED <<tuned, view>> /\ Emits(<<Event("approval_decided")>>)
    BY <1>4, Zenon DEF Broadcast, screen
  <2> QED
    BY <1>0, <2>1, <2>2
<1>5. ASSUME NEW w \in Windows, Tell(w) PROVE UNCHANGED <<tuned, view>> /\ \E fs : Told(fs)
  <2>1. <<Event("pipeline_paused")>> \in Seq(Events) /\ <<Event("pipeline_resumed")>> \in Seq(Events)
    BY DEF Event, Events
  <2>2. UNCHANGED <<tuned, view>> /\ Emits(<<Event(IF post[w].req = "pause" THEN "pipeline_paused" ELSE "pipeline_resumed")>>)
    BY <1>5, Zenon DEF Tell, screen
  <2>3. <<Event(IF post[w].req = "pause" THEN "pipeline_paused" ELSE "pipeline_resumed")>> \in Seq(Events)
    BY <2>1
  <2> QED
    BY <1>0, <2>2, <2>3
<1> QED
  BY <1>1, <1>2, <1>3, <1>4, <1>5

-----------------------------------------------------------------------------
(* Types *)

\* What a click does to a window is a window's state.
LEMMA ClickTypes ==
  ASSUME NEW v \in Views
  PROVE  /\ NoRun \in Views /\ GateClosed(v) \in Views
         /\ [v EXCEPT !.status = "failed"] \in Views
         /\ \A x \in BOOLEAN : [v EXCEPT !.cancelling = x] \in Views
<1>1. NoDialog \in Dialogs
  BY DEF NoDialog, Dialogs
<1>2. NoRun \in Views
  <2>1. [s \in Stages |-> ""] \in [Stages -> Marks] /\ [a \in Agents |-> "none"] \in [Agents -> AgentMarks]
    BY DEF Marks, AgentMarks
  <2> QED
    BY <1>1, <2>1 DEF NoRun, Views
<1>3. GateClosed(v) \in Views
  BY <1>1 DEF GateClosed, Views
<1> QED
  BY <1>2, <1>3 DEF Views

\* The requests of the windows.
PostTypes == [Windows -> [req : RequestKinds, decision : Answers \cup {"none"}, step : 0 .. 2]]

\* One window's request, and one window's state.
LEMMA OnePost ==
  ASSUME WinTypes, NEW w \in Windows
  PROVE  /\ \A req \in RequestKinds : \A d \in Answers \cup {"none"} : Sends(w, req, d) => post' \in PostTypes
         /\ Done(w) => post' \in PostTypes
         /\ Next2(w) => post' \in PostTypes
         /\ post[w] \in [req : RequestKinds, decision : Answers \cup {"none"}, step : 0 .. 2]
<1>1. \A req \in RequestKinds : \A d \in Answers \cup {"none"} : \A k \in 0 .. 2 :
        post' = [post EXCEPT ![w] = [req |-> req, decision |-> d, step |-> k]] => post' \in PostTypes
  BY DEF WinTypes, PostTypes
<1>2. "none" \in RequestKinds /\ Idle = [req |-> "none", decision |-> "none", step |-> 0]
  BY DEF RequestKinds, Idle
<1>3. post[w] \in [req : RequestKinds, decision : Answers \cup {"none"}, step : 0 .. 2]
  BY DEF WinTypes
<1>4. Next2(w) => post' = [post EXCEPT ![w] = [req |-> post[w].req, decision |-> post[w].decision, step |-> 2]]
  BY DEF Next2, WinTypes
<1>5. Next2(w) => post' \in PostTypes
  BY <1>1, <1>3, <1>4
<1> QED
  BY <1>1, <1>2, <1>3, <1>5 DEF Sends, Done

\* What a window changes of what it shows is something it can show.
LEMMA OneView ==
  ASSUME WinTypes, NEW w \in Windows
  PROVE  /\ view[w] \in Views
         /\ \A v \in Views : view' = [view EXCEPT ![w] = v] => view' \in [Windows -> Views]
         /\ Fails(w) => view' \in [Windows -> Views]
         /\ \A x \in BOOLEAN : view' = [view EXCEPT ![w].cancelling = x] => view' \in [Windows -> Views]
<1>1. view[w] \in Views /\ view \in [Windows -> Views]
  BY DEF WinTypes
<1>2. \A v \in Views : [view EXCEPT ![w] = v] \in [Windows -> Views]
  BY <1>1
<1>3. [view EXCEPT ![w].status = "failed"] = [view EXCEPT ![w] = [view[w] EXCEPT !.status = "failed"]]
  OBVIOUS
<1>4. \A x \in BOOLEAN : [view EXCEPT ![w].cancelling = x] = [view EXCEPT ![w] = [view[w] EXCEPT !.cancelling = x]]
  OBVIOUS
<1> QED
  BY <1>1, <1>2, <1>3, <1>4, ClickTypes DEF Fails

\* Every step leaves the types as they are.
LEMMA WinTypesStep == ASSUME Base, Carried, WinTypes, BeforeTheRun, [DashNext]_<<vars, dashVars>> PROVE WinTypes'
<1>1. CASE RunGraph \/ Present \/ Launched \/ \E w \in Windows : Broadcast(w) \/ Tell(w)
  <2>1. queue' \in [Windows -> Seq(Events)] /\ replay' \in Views /\ UNCHANGED <<tuned, view>>
    BY <1>1, TellingTold, ToldTypes
  <2>2. CASE RunGraph
    <3>1. at' \in {"free", "launch", "over"} /\ UNCHANGED <<seen, signal, cancelled, paused, screens, history>>
      BY <2>2, GraphTells
    <3> QED
      BY <2>1, <3>1 DEF WinTypes, screens, screen, history
  <2>3. CASE Present
    <3>1. at' = "waiting" /\ seen' = seen \cup {Shown[stage]} /\ UNCHANGED <<signal, cancelled, paused, screens, history>>
      BY <2>3, Zenon DEF Present
    <3>2. Shown[stage] \in Stages
      BY <2>3, PresentTells
    <3> QED
      BY <2>1, <3>1, <3>2 DEF WinTypes, screens, screen, history
  <2>4. CASE Launched
    <3>1. at' = "over" /\ UNCHANGED <<seen, signal, cancelled, paused, screens, history>>
      BY <2>4, Zenon DEF Launched
    <3> QED
      BY <2>1, <3>1 DEF WinTypes, screens, screen, history
  <2>5. ASSUME NEW w \in Windows, Broadcast(w) PROVE WinTypes'
    <3>1. /\ UNCHANGED <<at, seen, signal, cancelled, paused, crossed>> /\ Next2(w)
          /\ stray' = (stray \/ at # "waiting" \/ signal.set \/ Answering # {})
          /\ blind' = IF at = "over" THEN blind \cup {w} ELSE blind
      BY <2>5, Zenon DEF Broadcast, server
    <3>2. post' \in [Windows -> [req : RequestKinds, decision : Answers \cup {"none"}, step : 0 .. 2]]
      BY <3>1 DEF Next2, WinTypes
    <3>3. stray' \in BOOLEAN /\ blind' \subseteq Windows
      BY <3>1 DEF WinTypes
    <3> QED
      BY <2>1, <3>1, <3>2, <3>3 DEF WinTypes
  <2>6. ASSUME NEW w \in Windows, Tell(w) PROVE WinTypes'
    <3>1. UNCHANGED <<at, seen, signal, cancelled, paused, stray, blind>> /\ Done(w) /\ crossed' = (crossed \/ status # "running")
      BY <2>6, Zenon DEF Tell, server
    <3>2. post' \in [Windows -> [req : RequestKinds, decision : Answers \cup {"none"}, step : 0 .. 2]]
      BY <3>1 DEF Done, Idle, WinTypes, RequestKinds
    <3>3. crossed' \in BOOLEAN
      BY <3>1
    <3> QED
      BY <2>1, <3>1, <3>2, <3>3 DEF WinTypes
  <2> QED
    BY <1>1, <2>2, <2>3, <2>4, <2>5, <2>6
<1>2. CASE Wake
  BY <1>2 DEF Wake, WinTypes, events, screens, screen, history
<1>3. CASE Resumption
  BY <1>3 DEF Resumption, WinTypes, events, screens, screen, history
<1>4. CASE UNCHANGED dashVars
  BY <1>4 DEF WinTypes, dashVars, server, events, screens, screen, history
<1>5. ASSUME NEW w \in Windows, Window(w), ~(Broadcast(w) \/ Tell(w)) PROVE WinTypes'
  <2>1. CASE StartRun(w)
    <3>1. UNCHANGED <<server, events, tuned, history>> /\ Sends(w, "start", "none") /\ view' = [view EXCEPT ![w] = NoRun]
      BY <2>1 DEF StartRun
    <3>2. post' \in PostTypes /\ view' \in [Windows -> Views]
      BY <3>1, OnePost, OneView, ClickTypes DEF RequestKinds
    <3> QED
      BY <3>1, <3>2 DEF WinTypes, server, events, history, PostTypes
  <2>2. CASE StartRoute(w)
    <3>1. /\ UNCHANGED <<seen, signal, cancelled, paused, events, tuned, history>>
          /\ at' \in {at, "free"} /\ (Done(w) \/ Next2(w)) /\ (Fails(w) \/ UNCHANGED view)
      BY <2>2 DEF StartRoute
    <3>2. post' \in PostTypes /\ view' \in [Windows -> Views]
      <4>1. view \in [Windows -> Views]
        BY DEF WinTypes
      <4> QED
        BY <3>1, <4>1, OnePost, OneView
    <3> QED
      BY <3>1, <3>2 DEF WinTypes, events, history, PostTypes
  <2>3. CASE RunStarted(w)
    <3>1. /\ UNCHANGED <<server, events, history>> /\ Done(w) /\ tuned' = tuned \cup {w}
          /\ view' = [view EXCEPT ![w] = replay]
      BY <2>3 DEF RunStarted
    <3>2. post' \in PostTypes /\ view' \in [Windows -> Views]
      <4>1. replay \in Views
        BY DEF WinTypes
      <4> QED
        BY <3>1, <4>1, OnePost, OneView
    <3> QED
      BY <3>1, <3>2 DEF WinTypes, server, events, history, PostTypes
  <2>4. CASE Receive(w)
    <3>1. queue[w] \in Seq(Events) /\ queue[w] # <<>>
      BY <2>4 DEF Receive, CaughtUp, WinTypes
    <3>2. Head(queue[w]) \in Events /\ Tail(queue[w]) \in Seq(Events)
      BY <3>1
    <3>3. Applied(view[w], Head(queue[w])) \in Views
      BY <3>2, AppliedType DEF WinTypes
    <3> QED
      BY <2>4, <3>2, <3>3 DEF Receive, WinTypes, server, history
  <2>5. CASE Adopt(w)
    BY <2>5 DEF Adopt, WinTypes, server
  <2>6. CASE Lose(w)
    <3>1. /\ UNCHANGED <<server, events, tuned, stray, crossed>> /\ Done(w) /\ blind' \in {blind, blind \cup {w}}
          /\ Fails(w) \/ view' = [view EXCEPT ![w].cancelling = FALSE] \/ UNCHANGED view
      BY <2>6 DEF Lose
    <3>2. post' \in PostTypes /\ view' \in [Windows -> Views]
      <4>1. view \in [Windows -> Views]
        BY DEF WinTypes
      <4> QED
        BY <3>1, <4>1, OnePost, OneView
    <3> QED
      BY <3>1, <3>2 DEF WinTypes, server, events, PostTypes
  <2>7. CASE SetDecision(w)
    <3>1. /\ UNCHANGED <<at, seen, cancelled, paused, events, screen, history>> /\ Done(w)
          /\ signal' = [set |-> TRUE, decision |-> post[w].decision] /\ post[w].req = "approve"
      BY <2>7 DEF SetDecision, Step
    <3>2. post' \in PostTypes
      BY <3>1, OnePost
    <3>3. post[w].decision \in Answers
      BY <3>1 DEF Carried
    <3> QED
      BY <3>1, <3>2, <3>3 DEF WinTypes, events, screen, history, PostTypes
  <2>8. CASE Cancel(w)
    <3>1. /\ UNCHANGED <<at, seen, events, tuned, history>> /\ Done(w)
          /\ view' = [view EXCEPT ![w].cancelling = FALSE] \/ UNCHANGED view
          /\ cancelled' \in {cancelled, TRUE} /\ paused' \in {paused, FALSE}
          /\ signal' \in {signal, [set |-> TRUE, decision |-> "reject"]}
      BY <2>8 DEF Cancel
    <3>2. post' \in PostTypes /\ view' \in [Windows -> Views]
      <4>1. view \in [Windows -> Views]
        BY DEF WinTypes
      <4> QED
        BY <3>1, <4>1, OnePost, OneView
    <3>3. cancelled' \in BOOLEAN /\ paused' \in BOOLEAN
      BY <3>1 DEF WinTypes
    <3>4. signal' \in [set : BOOLEAN, decision : Answers]
      <4>1. signal \in [set : BOOLEAN, decision : Answers] /\ [set |-> TRUE, decision |-> "reject"] \in [set : BOOLEAN, decision : Answers]
        BY DEF WinTypes, Answers
      <4> QED
        BY <3>1, <4>1
    <3> QED
      BY <3>1, <3>2, <3>3, <3>4 DEF WinTypes, events, history, PostTypes
  <2>9. CASE Switch(w)
    <3>1. /\ UNCHANGED <<at, seen, signal, cancelled, events, screen, stray, blind>> /\ (Done(w) \/ Next2(w))
          /\ paused' \in {paused, TRUE, FALSE}
          /\ crossed' = (crossed \/ \E o \in Windows \ {w} : post[o].req \in {"pause", "resume"} /\ post[o].step = 2)
      BY <2>9 DEF Switch
    <3>2. post' \in PostTypes /\ crossed' \in BOOLEAN
      BY <3>1, OnePost
    <3> QED
      BY <3>1, <3>2 DEF WinTypes, events, screen, PostTypes
  <2>10. ASSUME NEW d \in Answers, SendApproval(w, d) PROVE WinTypes'
    <3>1. UNCHANGED <<server, events, tuned, history>> /\ Sends(w, "approve", d) /\ view' = [view EXCEPT ![w] = GateClosed(view[w])]
      BY <2>10 DEF SendApproval
    <3>2. post' \in PostTypes /\ view' \in [Windows -> Views]
      <4>1. GateClosed(view[w]) \in Views
        BY OneView, ClickTypes
      <4> QED
        BY <3>1, <4>1, OnePost, OneView DEF RequestKinds
    <3> QED
      BY <3>1, <3>2 DEF WinTypes, server, events, history, PostTypes
  <2>11. ASSUME NEW req \in {"cancel", "pause", "resume"}, Ask(w, req) PROVE WinTypes'
    <3>1. /\ UNCHANGED <<server, events, tuned, history>> /\ Sends(w, req, "none")
          /\ view' = [view EXCEPT ![w].cancelling = TRUE] \/ UNCHANGED view
      BY <2>11 DEF Ask
    <3>2. post' \in PostTypes /\ view' \in [Windows -> Views]
      <4>1. view \in [Windows -> Views] /\ req \in RequestKinds
        BY DEF WinTypes, RequestKinds
      <4> QED
        BY <3>1, <4>1, OnePost, OneView
    <3> QED
      BY <3>1, <3>2 DEF WinTypes, server, events, history, PostTypes
  <2> QED
    BY <1>5, <2>1, <2>2, <2>3, <2>4, <2>5, <2>6, <2>7, <2>8, <2>9, <2>10, <2>11 DEF Window, Answers
<1> QED
  BY <1>1, <1>2, <1>3, <1>4, <1>5, Zenon DEF DashNext, dashVars

-----------------------------------------------------------------------------
(* Where the thread is *)

\* A gate is asked, answered, and the node resumed, only while the run runs.
LEMMA ThreadStep == ASSUME Base, WinTypes, Thread, BeforeTheRun, [DashNext]_<<vars, dashVars>> PROVE Thread'
<1> USE DEF Thread
<1>1. CASE RunGraph
  <2>1. /\ status' \in {"running", "budget", "rejected", "failed", "completed"}
        /\ at' = IF status' = "running" THEN "free" ELSE IF status' = "completed" THEN "launch" ELSE "over"
    BY <1>1, GraphTells
  <2> QED
    BY <2>1
<1>2. CASE Present
  <2>1. at' = "waiting" /\ status = "running" /\ pc = "suspended" /\ UNCHANGED vars
    BY <1>2, Zenon DEF Present
  <2> QED
    BY <2>1 DEF vars
<1>3. CASE Wake
  BY <1>3 DEF Wake, vars
<1>4. CASE Resumption
  <2>1. at' = "free" /\ status = "running" /\ UNCHANGED status
    BY <1>4 DEF Resumption, Answer
  <2> QED
    BY <2>1
<1>5. CASE Launched
  BY <1>5 DEF Launched, vars
<1>6. CASE EditOnDisk /\ UNCHANGED dashVars
  BY <1>6 DEF EditOnDisk, dashVars, server
<1>7. ASSUME NEW w \in Windows, Window(w) PROVE Thread'
  <2>1. UNCHANGED vars
    BY <1>7, WindowsLeaveTheGraph
  <2>2. CASE StartRoute(w)
    <3>1. post[w].req = "start" /\ post[w].step = 1 /\ at' \in {at, "free"}
      BY <2>2 DEF StartRoute, Step
    <3>2. at = "none"
      BY <3>1 DEF BeforeTheRun
    <3> QED
      BY <2>1, <3>1, <3>2 DEF vars
  <2>3. ~StartRoute(w) => UNCHANGED at
    <3>1. CASE StartRun(w) \/ RunStarted(w) \/ Receive(w) \/ Adopt(w) \/ Lose(w)
      BY <3>1, Zenon DEF StartRun, RunStarted, Receive, Adopt, Lose, server
    <3>2. CASE Broadcast(w) \/ SetDecision(w) \/ Cancel(w) \/ Switch(w) \/ Tell(w)
      BY <3>2, Zenon DEF Broadcast, SetDecision, Cancel, Switch, Tell, server
    <3>3. ASSUME NEW d \in {"approve", "edit", "reject"}, SendApproval(w, d) PROVE UNCHANGED at
      BY <3>3, Zenon DEF SendApproval, server
    <3>4. ASSUME NEW req \in {"cancel", "pause", "resume"}, Ask(w, req) PROVE UNCHANGED at
      BY <3>4, Zenon DEF Ask, server
    <3> QED
      BY <1>7, <3>1, <3>2, <3>3, <3>4, Zenon DEF Window
  <2> QED
    BY <2>1, <2>2, <2>3 DEF vars
<1>8. CASE UNCHANGED <<vars, dashVars>>
  BY <1>8 DEF vars, dashVars, server
<1> QED
  BY <1>1, <1>2, <1>3, <1>4, <1>5, <1>6, <1>7, <1>8, Zenon DEF DashNext

\* A step of the thread, which leaves the requests alone.
ThreadSteps == RunGraph \/ Present \/ Wake \/ Resumption \/ Launched \/ UNCHANGED dashVars

\* The thread changes nothing of a window, and does not act before the run.
LEMMA ThreadFrame ==
  ASSUME Base, ThreadSteps
  PROVE  UNCHANGED <<tuned, view, post, acts, stray, crossed, blind>> /\ (at = "none" \/ at' = "none" => UNCHANGED dashVars)
<1>1. CASE RunGraph
  <2>1. at = "free" /\ UNCHANGED <<screens, history>> /\ at' \in {"free", "launch", "over"}
    BY <1>1, GraphTells
  <2> QED
    BY <2>1 DEF screens, screen, history
<1>2. CASE Present \/ Wake \/ Launched
  <2>1. UNCHANGED <<screens, history>> /\ at # "none" /\ at' # "none"
    BY <1>2 DEF Present, Wake, Launched
  <2> QED
    BY <2>1 DEF screens, screen, history
<1>3. CASE Resumption
  <2>1. UNCHANGED <<screens, history>> /\ at # "none" /\ at' # "none"
    BY <1>3 DEF Resumption
  <2> QED
    BY <2>1 DEF screens, screen, history
<1>4. CASE UNCHANGED dashVars
  BY <1>4 DEF dashVars, screens, screen, history
<1> QED
  BY <1>1, <1>2, <1>3, <1>4 DEF ThreadSteps

\* The untuned windows have no events, whatever is told.
LEMMA UntunedIdle == ASSUME WinTypes, BeforeTheRun, NEW fs, Told(fs) PROVE \A w \in Windows \ tuned : queue'[w] = <<>>
BY DEF Told

\* Every step leaves things as they were before the run.
LEMMA BeforeStep ==
  ASSUME Base, Carried, WinTypes, BeforeTheRun, WinTypes', [DashNext]_<<vars, dashVars>>
  PROVE  BeforeTheRun'
<1>1. CASE ThreadSteps
  <2>1. UNCHANGED <<tuned, view, post>> /\ (at = "none" \/ at' = "none" => UNCHANGED dashVars)
    BY <1>1, ThreadFrame
  <2>2. \A w \in Windows \ tuned : queue'[w] = <<>>
    <3>1. CASE RunGraph \/ Present \/ Launched
      BY <3>1, TellingTold, UntunedIdle
    <3>2. CASE Wake \/ Resumption \/ UNCHANGED dashVars
      <4>1. UNCHANGED queue
        BY <3>2 DEF Wake, Resumption, dashVars, events
      <4> QED
        BY <4>1 DEF BeforeTheRun
    <3> QED
      BY <1>1, <3>1, <3>2 DEF ThreadSteps
  <2>3. CASE at' = "none"
    BY <2>1, <2>2, <2>3 DEF BeforeTheRun, dashVars, server
  <2>4. CASE at' # "none"
    <3>1. at # "none"
      BY <2>1, <2>4 DEF dashVars, server
    <3> QED
      BY <2>1, <2>2, <2>4, <3>1 DEF BeforeTheRun
  <2> QED
    BY <2>3, <2>4
<1>2. ASSUME NEW w \in Windows, Window(w) PROVE BeforeTheRun'
  <2> USE DEF BeforeTheRun
  <2>0. /\ \A o \in Windows : post[o] \in [req : RequestKinds, decision : Answers \cup {"none"}, step : 0 .. 2] /\ view[o] \in Views
        /\ post \in PostTypes /\ view \in [Windows -> Views] /\ queue \in [Windows -> Seq(Events)]
    BY DEF WinTypes, PostTypes
  <2>a. Idle.req = "none" /\ Idle.step = 0 /\ NoRun.approval = NoDialog
    BY DEF Idle, NoRun
  <2>b. ASSUME Fails(w) \/ view' = [view EXCEPT ![w].cancelling = FALSE] \/ UNCHANGED view
        PROVE  \A o \in Windows : view'[o].approval = view[o].approval
    <3>1. \A o \in Windows \ {w} : view'[o] = view[o]
      BY <2>0, <2>b DEF Fails
    <3>2. view'[w] \in {view[w], [view[w] EXCEPT !.status = "failed"], [view[w] EXCEPT !.cancelling = FALSE]}
      BY <2>0, <2>b DEF Fails
    <3>3. view'[w].approval = view[w].approval
      BY <2>0, <3>2 DEF Views
    <3> QED
      BY <3>1, <3>3
  <2>1. CASE StartRun(w)
    <3>1. /\ at = "none" /\ (\A o \in Windows : post[o] = Idle) /\ UNCHANGED <<at, signal, cancelled, queue, tuned>>
          /\ view' = [view EXCEPT ![w] = NoRun] /\ post' = [post EXCEPT ![w] = [req |-> "start", decision |-> "none", step |-> 1]]
      BY <2>1 DEF StartRun, Sends, server, events
    <3>2. \A o \in Windows : post'[o] = IF o = w THEN [req |-> "start", decision |-> "none", step |-> 1] ELSE Idle
      BY <2>0, <3>1 DEF PostTypes
    <3>3. \A o \in Windows : view'[o] = IF o = w THEN NoRun ELSE view[o]
      BY <2>0, <3>1
    <3> QED
      BY <2>a, <3>1, <3>2, <3>3
  <2>2. CASE StartRoute(w)
    <3>1. /\ post[w].req = "start" /\ post[w].step = 1 /\ UNCHANGED <<signal, cancelled, queue, tuned>>
          /\ \/ UNCHANGED at /\ Fails(w) /\ Done(w)
             \/ at' = "free" /\ Next2(w) /\ UNCHANGED view
      BY <2>2 DEF StartRoute, Step, events
    <3>2. at = "none" /\ w \notin tuned
      BY <3>1
    <3>3. CASE UNCHANGED at /\ Fails(w) /\ Done(w)
      <4>1. \A o \in Windows : post'[o] = IF o = w THEN Idle ELSE post[o]
        BY <2>0, <3>3 DEF Done, PostTypes
      <4>2. \A o \in Windows : view'[o].approval = view[o].approval
        BY <2>0, <3>3 DEF Fails, Views
      <4> QED
        BY <3>1, <3>2, <3>3, <4>1, <4>2 DEF Idle
    <3>4. CASE at' = "free" /\ Next2(w) /\ UNCHANGED view
      <4>1. \A o \in Windows : post'[o] = IF o = w THEN [req |-> "start", decision |-> post[w].decision, step |-> 2] ELSE post[o]
        BY <2>0, <3>1, <3>4 DEF Next2, PostTypes
      <4>2. \A o \in Windows : post[o].req = "start" => o = w
        BY <3>1, <3>2
      <4> QED
        BY <3>1, <3>2, <3>4, <4>1, <4>2
    <3> QED
      BY <3>1, <3>3, <3>4
  <2>3. CASE RunStarted(w)
    <3>1. /\ post[w].req = "start" /\ post[w].step = 2 /\ Done(w) /\ tuned' = tuned \cup {w} /\ UNCHANGED <<at, signal, cancelled, queue>>
          /\ view' = [view EXCEPT ![w] = replay]
      BY <2>3 DEF RunStarted, server, events
    <3>2. \A o \in Windows : post'[o] = IF o = w THEN Idle ELSE post[o]
      BY <2>0, <3>1 DEF Done, PostTypes
    <3>3. \A o \in Windows \ {w} : view'[o] = view[o]
      BY <2>0, <3>1
    <3> QED
      BY <3>1, <3>2, <3>3 DEF Idle
  <2>4. CASE Receive(w)
    <3>1. /\ queue[w] # <<>> /\ UNCHANGED <<at, signal, cancelled, tuned, post>>
          /\ view' = [view EXCEPT ![w] = Applied(view[w], Head(queue[w]))] /\ queue' = [queue EXCEPT ![w] = Tail(queue[w])]
      BY <2>4 DEF Receive, CaughtUp, server
    <3>2. w \in tuned
      BY <3>1
    <3>3. \A o \in Windows \ {w} : view'[o] = view[o] /\ queue'[o] = queue[o]
      BY <2>0, <3>1
    <3> QED
      BY <3>1, <3>2, <3>3
  <2>5. CASE Adopt(w)
    <3>1. /\ at # "none" /\ post[w] = Idle /\ UNCHANGED <<at, signal, cancelled, post>> /\ tuned' = tuned \cup {w}
          /\ view' = [view EXCEPT ![w] = replay] /\ queue' = [queue EXCEPT ![w] = <<>>]
      BY <2>5 DEF Adopt, server
    <3>3. \A o \in Windows \ {w} : view'[o] = view[o] /\ queue'[o] = queue[o]
      BY <2>0, <3>1
    <3> QED
      BY <3>1, <3>3 DEF Idle
  <2>6. CASE Lose(w)
    <3>1. /\ Done(w) /\ UNCHANGED <<at, signal, cancelled, queue, tuned>>
          /\ Fails(w) \/ view' = [view EXCEPT ![w].cancelling = FALSE] \/ UNCHANGED view
      BY <2>6 DEF Lose, server, events
    <3>2. \A o \in Windows : post'[o] = IF o = w THEN Idle ELSE post[o]
      BY <2>0, <3>1 DEF Done, PostTypes
    <3>3. \A o \in Windows : view'[o].approval = view[o].approval
      BY <2>b, <3>1
    <3> QED
      BY <3>1, <3>2, <3>3 DEF Idle
  <2>7. CASE Broadcast(w)
    <3>1. post[w].req = "approve" /\ post[w].step = 1 /\ Next2(w) /\ UNCHANGED <<at, signal, cancelled>>
      BY <2>7 DEF Broadcast, Step, server
    <3>2. UNCHANGED <<tuned, view>> /\ \E fs : Told(fs)
      BY <2>7, TellingTold
    <3>3. \A o \in Windows \ tuned : queue'[o] = <<>>
      BY <3>2, UntunedIdle
    <3>4. \A o \in Windows : post'[o] = IF o = w THEN [req |-> "approve", decision |-> post[w].decision, step |-> 2] ELSE post[o]
      BY <2>0, <3>1 DEF Next2, PostTypes
    <3> QED
      BY <3>1, <3>2, <3>3, <3>4
  <2>8. CASE Tell(w)
    <3>1. post[w].req \in {"pause", "resume"} /\ Done(w) /\ UNCHANGED <<at, signal, cancelled>>
      BY <2>8 DEF Tell, server
    <3>2. UNCHANGED <<tuned, view>> /\ \E fs : Told(fs)
      BY <2>8, TellingTold
    <3>3. \A o \in Windows \ tuned : queue'[o] = <<>>
      BY <3>2, UntunedIdle
    <3>4. \A o \in Windows : post'[o] = IF o = w THEN Idle ELSE post[o]
      BY <2>0, <3>1 DEF Done, PostTypes
    <3> QED
      BY <3>1, <3>2, <3>3, <3>4 DEF Idle
  <2>9. CASE SetDecision(w) \/ Cancel(w)
    <3>1. /\ post[w].req \in {"approve", "cancel"} /\ Done(w) /\ UNCHANGED <<at, queue, tuned>>
          /\ view' = [view EXCEPT ![w].cancelling = FALSE] \/ UNCHANGED view
      BY <2>9 DEF SetDecision, Cancel, Step, events, screen
    <3>2. \A o \in Windows : post'[o] = IF o = w THEN Idle ELSE post[o]
      BY <2>0, <3>1 DEF Done, PostTypes
    <3>3. \A o \in Windows : view'[o].approval = view[o].approval
      BY <2>b, <3>1
    <3>4. at # "none"
      BY <3>1
    <3> QED
      BY <3>1, <3>2, <3>3, <3>4 DEF Idle
  <2>10. CASE Switch(w)
    <3>1. /\ post[w].req \in {"pause", "resume"} /\ post[w].step = 1 /\ (Done(w) \/ Next2(w))
          /\ UNCHANGED <<at, signal, cancelled, queue, tuned, view>>
      BY <2>10 DEF Switch, Step, events, screen
    <3>2. \A o \in Windows : post'[o] = post[o] \/ (o = w /\ (post'[o] = Idle \/ (post'[o].req = post[o].req /\ post'[o].step = 2)))
      BY <2>0, <3>1 DEF Done, Next2, PostTypes
    <3>3. at # "none"
      BY <3>1
    <3> QED
      BY <3>1, <3>2, <3>3 DEF Idle
  <2>11. ASSUME NEW d \in {"approve", "edit", "reject"}, SendApproval(w, d) PROVE BeforeTheRun'
    <3>1. /\ view[w].approval # NoDialog /\ UNCHANGED <<at, signal, cancelled, queue, tuned>>
          /\ view' = [view EXCEPT ![w] = GateClosed(view[w])] /\ post' = [post EXCEPT ![w] = [req |-> "approve", decision |-> d, step |-> 1]]
      BY <2>11 DEF SendApproval, Sends, server, events
    <3>2. w \in tuned /\ at # "none"
      BY <3>1
    <3>3. \A o \in Windows : post'[o] = IF o = w THEN [req |-> "approve", decision |-> d, step |-> 1] ELSE post[o]
      BY <2>0, <3>1 DEF PostTypes
    <3>4. \A o \in Windows \ {w} : view'[o] = view[o]
      BY <2>0, <3>1
    <3> QED
      BY <3>1, <3>2, <3>3, <3>4
  <2>12. ASSUME NEW req \in {"cancel", "pause", "resume"}, Ask(w, req) PROVE BeforeTheRun'
    <3>1. /\ w \in tuned /\ UNCHANGED <<at, signal, cancelled, queue, tuned>> /\ post' = [post EXCEPT ![w] = [req |-> req, decision |-> "none", step |-> 1]]
          /\ view' = [view EXCEPT ![w].cancelling = TRUE] \/ UNCHANGED view
      BY <2>12 DEF Ask, Sends, server, events
    <3>3. \A o \in Windows : post'[o] = IF o = w THEN [req |-> req, decision |-> "none", step |-> 1] ELSE post[o]
      BY <2>0, <3>1 DEF PostTypes
    <3>4. \A o \in Windows \ {w} : view'[o] = view[o]
      BY <2>0, <3>1
    <3> QED
      BY <3>1, <3>3, <3>4
  <2> HIDE DEF BeforeTheRun
  <2> QED
    BY <1>2, <2>1, <2>2, <2>3, <2>4, <2>5, <2>6, <2>7, <2>8, <2>9, <2>10, <2>11, <2>12, Zenon DEF Window
<1>3. UNCHANGED <<vars, dashVars>> => UNCHANGED dashVars
  OBVIOUS
<1> QED
  BY <1>1, <1>2, <1>3, Zenon DEF DashNext, ThreadSteps

-----------------------------------------------------------------------------
(* Windows follow the run *)

\* What a window will show when more was told, and when it received an event.
LEMMA ShowsMore ==
  ASSUME WinTypes, NEW fs, Told(fs), UNCHANGED view, NEW w \in tuned
  PROVE  Shows(w)' = Fold(Shows(w), fs) /\ Shows(w) \in Views /\ fs \in Seq(Events) /\ replay' = Fold(replay, fs)
<1>1. queue[w] \in Seq(Events) /\ fs \in Seq(Events) /\ queue'[w] = queue[w] \o fs /\ view[w] \in Views /\ replay' = Fold(replay, fs)
  BY DEF WinTypes, Told
<1>2. PICK q \in Seq(Events) : q = queue[w]
  BY <1>1
<1>3. Fold(view[w], q \o fs) = Fold(Fold(view[w], q), fs)
  BY <1>1, FoldMore
<1>4. Fold(view[w], q) \in Views
  BY <1>1, FoldType
<1> QED
  BY <1>1, <1>2, <1>3, <1>4 DEF Shows

\* An event that arrives changes nothing of what a window will show.
LEMMA ShowsReceived ==
  ASSUME WinTypes, NEW w \in Windows, Receive(w)
  PROVE  /\ \A o \in Windows : Shows(o)' = Shows(o)
         /\ UNCHANGED <<server, replay, tuned, post, acts, history, vars>>
<1>1. /\ queue[w] # <<>> /\ UNCHANGED <<server, replay, tuned, post, acts, history, vars>>
      /\ view' = [view EXCEPT ![w] = Applied(view[w], Head(queue[w]))] /\ queue' = [queue EXCEPT ![w] = Tail(queue[w])]
  BY DEF Receive, CaughtUp
<1>2. queue[w] \in Seq(Events) /\ view \in [Windows -> Views] /\ queue \in [Windows -> Seq(Events)]
  BY DEF WinTypes
<1>3. Fold(view[w], queue[w]) = Fold(Applied(view[w], Head(queue[w])), Tail(queue[w]))
  BY <1>1, <1>2, FoldFirst
<1>4. \A o \in Windows \ {w} : view'[o] = view[o] /\ queue'[o] = queue[o]
  BY <1>1, <1>2
<1>5. view'[w] = Applied(view[w], Head(queue[w])) /\ queue'[w] = Tail(queue[w])
  BY <1>1, <1>2
<1> QED
  BY <1>1, <1>3, <1>4, <1>5 DEF Shows

\* A window that begins to follow the run shows what the events amount to.
LEMMA ShowsTuned ==
  ASSUME WinTypes, BeforeTheRun, NEW w \in Windows, RunStarted(w) \/ Adopt(w)
  PROVE  /\ Shows(w)' = replay /\ UNCHANGED replay /\ tuned' = tuned \cup {w}
         /\ \A o \in Windows \ {w} : Shows(o)' = Shows(o)
<1>0. view \in [Windows -> Views] /\ queue \in [Windows -> Seq(Events)]
  BY DEF WinTypes
<1>1. /\ view' = [view EXCEPT ![w] = replay] /\ tuned' = tuned \cup {w} /\ UNCHANGED replay
      /\ (queue' = queue /\ queue[w] = <<>>) \/ queue' = [queue EXCEPT ![w] = <<>>]
  <2>1. CASE RunStarted(w)
    <3>1. w \notin tuned
      BY <2>1 DEF RunStarted, BeforeTheRun
    <3> QED
      BY <2>1, <3>1 DEF RunStarted, BeforeTheRun, events
  <2>2. CASE Adopt(w)
    BY <2>2 DEF Adopt
  <2> QED
    BY <2>1, <2>2
<1>2. view'[w] = replay /\ queue'[w] = <<>> /\ \A o \in Windows \ {w} : view'[o] = view[o] /\ queue'[o] = queue[o]
  BY <1>0, <1>1
<1>3. Fold(replay, <<>>) = replay
  BY FoldNone
<1> QED
  BY <1>1, <1>2, <1>3 DEF Shows

\* Everything else leaves the events alone.
Clicks(w) ==
  \/ StartRun(w) \/ StartRoute(w) \/ Lose(w) \/ SetDecision(w) \/ Cancel(w) \/ Switch(w)
  \/ \E d \in {"approve", "edit", "reject"} : SendApproval(w, d)
  \/ \E req \in {"cancel", "pause", "resume"} : Ask(w, req)

\* A click changes at most the dialog of its own window.
LEMMA ClicksLeave ==
  ASSUME WinTypes, BeforeTheRun, NEW w \in Windows, Clicks(w)
  PROVE  /\ UNCHANGED <<queue, replay, tuned>>
         /\ \A o \in Windows \ {w} : view'[o] = view[o]
         /\ w \in tuned => \/ SameProgress(view'[w], view[w]) /\ SameDialog(view'[w], view[w])
                           \/ view'[w] = GateClosed(view[w]) /\ \E d \in Answers : SendApproval(w, d)
<1>0. view \in [Windows -> Views] /\ view[w] \in Views
  BY DEF WinTypes
<1>1. ASSUME UNCHANGED view PROVE SameProgress(view'[w], view[w]) /\ SameDialog(view'[w], view[w])
  BY <1>1 DEF SameProgress, SameDialog
<1>2. ASSUME NEW x \in BOOLEAN, view' = [view EXCEPT ![w].cancelling = x]
      PROVE  SameProgress(view'[w], view[w]) /\ SameDialog(view'[w], view[w]) /\ \A o \in Windows \ {w} : view'[o] = view[o]
  <2>1. view'[w] = [view[w] EXCEPT !.cancelling = x] /\ \A o \in Windows \ {w} : view'[o] = view[o]
    BY <1>0, <1>2
  <2> QED
    BY <1>0, <2>1 DEF SameProgress, SameDialog, Views
<1>3. CASE StartRun(w)
  <2>1. w \notin tuned
    BY <1>3 DEF StartRun, BeforeTheRun
  <2> QED
    BY <1>0, <1>3, <2>1 DEF StartRun, events
<1>4. CASE StartRoute(w)
  <2>1. w \notin tuned
    BY <1>4 DEF StartRoute, Step, BeforeTheRun
  <2> QED
    BY <1>0, <1>4, <2>1 DEF StartRoute, Fails, events
<1>5. CASE Lose(w)
  <2>1. CASE post[w].req = "start"
    <3>1. w \notin tuned
      BY <2>1 DEF BeforeTheRun
    <3> QED
      BY <1>0, <1>5, <2>1, <3>1 DEF Lose, Fails, events
  <2>2. CASE post[w].req = "cancel"
    <3>1. view' = [view EXCEPT ![w].cancelling = FALSE] /\ UNCHANGED <<queue, replay, tuned>>
      BY <1>5, <2>2 DEF Lose, events
    <3> QED
      BY <1>2, <3>1
  <2>3. CASE post[w].req \notin {"start", "cancel"}
    <3>1. UNCHANGED <<queue, replay, tuned, view>>
      BY <1>5, <2>3 DEF Lose, events
    <3> QED
      BY <1>1, <3>1
  <2> QED
    BY <2>1, <2>2, <2>3
<1>6. CASE SetDecision(w) \/ Switch(w)
  <2>1. UNCHANGED <<queue, replay, tuned, view>>
    BY <1>6 DEF SetDecision, Switch, events, screen
  <2> QED
    BY <1>1, <2>1
<1>7. CASE Cancel(w)
  <2>1. /\ UNCHANGED <<queue, replay, tuned>>
        /\ UNCHANGED view \/ view' = [view EXCEPT ![w].cancelling = FALSE]
    BY <1>7 DEF Cancel, events
  <2> QED
    BY <1>1, <1>2, <2>1
<1>8. ASSUME NEW req \in {"cancel", "pause", "resume"}, Ask(w, req)
      PROVE  /\ UNCHANGED <<queue, replay, tuned>> /\ \A o \in Windows \ {w} : view'[o] = view[o]
             /\ SameProgress(view'[w], view[w]) /\ SameDialog(view'[w], view[w])
  <2>1. /\ UNCHANGED <<queue, replay, tuned>>
        /\ UNCHANGED view \/ view' = [view EXCEPT ![w].cancelling = TRUE]
    BY <1>8 DEF Ask, events
  <2> QED
    BY <1>1, <1>2, <2>1
<1>9. ASSUME NEW d \in {"approve", "edit", "reject"}, SendApproval(w, d)
      PROVE  /\ UNCHANGED <<queue, replay, tuned>> /\ \A o \in Windows \ {w} : view'[o] = view[o]
             /\ view'[w] = GateClosed(view[w])
  <2>1. UNCHANGED <<queue, replay, tuned>> /\ view' = [view EXCEPT ![w] = GateClosed(view[w])]
    BY <1>9 DEF SendApproval, events
  <2> QED
    BY <1>0, <2>1
<1> QED
  BY <1>3, <1>4, <1>5, <1>6, <1>7, <1>8, <1>9 DEF Clicks, Answers

\* The steps of a run with its windows.
LEMMA StepKinds ==
  ASSUME [DashNext]_<<vars, dashVars>>
  PROVE  \/ RunGraph \/ Present \/ Launched \/ \E w \in Windows : Broadcast(w) \/ Tell(w)
         \/ Wake \/ Resumption \/ UNCHANGED dashVars
         \/ \E w \in Windows : Receive(w)
         \/ \E w \in Windows : RunStarted(w) \/ Adopt(w)
         \/ \E w \in Windows : Clicks(w)
BY Zenon DEF DashNext, Window, Clicks

\* Every window keeps up with the run.
LEMMA ProgressStep ==
  ASSUME Base, WinTypes, BeforeTheRun, FollowsProgress, WinTypes', [DashNext]_<<vars, dashVars>>
  PROVE  FollowsProgress'
<1>0. tuned \subseteq Windows /\ replay \in Views /\ \A w \in Windows : queue[w] \in Seq(Events) /\ view[w] \in Views /\ view'[w] \in Views
  BY DEF WinTypes
<1>1. CASE RunGraph \/ Present \/ Launched \/ \E w \in Windows : Broadcast(w) \/ Tell(w)
  <2>1. PICK fs : Told(fs) /\ UNCHANGED <<tuned, view>>
    BY <1>1, TellingTold
  <2>2. ASSUME NEW w \in tuned PROVE SameProgress(Shows(w), replay)'
    <3>1. Shows(w)' = Fold(Shows(w), fs) /\ Shows(w) \in Views /\ fs \in Seq(Events) /\ replay' = Fold(replay, fs)
      BY <2>1, ShowsMore
    <3>2. SameProgress(Shows(w), replay)
      BY DEF FollowsProgress
    <3>3. SameProgress(Fold(Shows(w), fs), Fold(replay, fs))
      BY <1>0, <3>1, <3>2, FoldProgress
    <3> QED
      BY <3>1, <3>3 DEF SameProgress
  <2> QED
    BY <2>1, <2>2 DEF FollowsProgress
<1>2. CASE Wake \/ Resumption \/ UNCHANGED dashVars
  <2>1. UNCHANGED <<queue, replay, tuned, view>>
    BY <1>2 DEF Wake, Resumption, dashVars, events, screens, screen
  <2> QED
    BY <2>1 DEF FollowsProgress, Shows, SameProgress
<1>3. ASSUME NEW w \in Windows, Receive(w) PROVE FollowsProgress'
  <2>1. (\A o \in Windows : Shows(o)' = Shows(o)) /\ UNCHANGED <<replay, tuned>>
    BY <1>3, ShowsReceived
  <2> QED
    BY <1>0, <2>1 DEF FollowsProgress, SameProgress
<1>4. ASSUME NEW w \in Windows, RunStarted(w) \/ Adopt(w) PROVE FollowsProgress'
  <2>1. Shows(w)' = replay /\ UNCHANGED replay /\ tuned' = tuned \cup {w} /\ \A o \in Windows \ {w} : Shows(o)' = Shows(o)
    BY <1>4, ShowsTuned
  <2> QED
    BY <1>0, <2>1 DEF FollowsProgress, SameProgress
<1>5. ASSUME NEW w \in Windows, Clicks(w) PROVE FollowsProgress'
  <2>1. UNCHANGED <<queue, replay, tuned>> /\ \A o \in Windows \ {w} : view'[o] = view[o]
    BY <1>5, ClicksLeave
  <2>2. ASSUME NEW o \in tuned PROVE SameProgress(Shows(o), replay)'
    <3>1. SameProgress(view'[o], view[o])
      <4>1. CASE o = w
        <5>1. SameProgress(GateClosed(view[w]), view[w])
          BY <1>0 DEF GateClosed, SameProgress, Views
        <5> QED
          BY <1>5, <4>1, <5>1, ClicksLeave
      <4>2. CASE o # w
        BY <1>0, <2>1, <4>2 DEF SameProgress
      <4> QED
        BY <4>1, <4>2
    <3>2. SameProgress(Fold(view'[o], queue[o]), Fold(view[o], queue[o]))
      BY <1>0, <3>1, FoldProgress
    <3>3. SameProgress(Fold(view[o], queue[o]), replay)
      BY DEF FollowsProgress, Shows
    <3> QED
      BY <2>1, <3>2, <3>3 DEF Shows, SameProgress
  <2> QED
    BY <2>1, <2>2 DEF FollowsProgress
<1> QED
  BY <1>1, <1>2, <1>3, <1>4, <1>5, StepKinds

-----------------------------------------------------------------------------
(* What the events of the run amount to after a step *)

\* After a step of the graph: nothing new but an agent, or the end.
LEMMA ReplayGraph ==
  ASSUME Base, WinTypes, BeforeTheRun, RunGraph
  PROVE  /\ replay'.approval = replay.approval
         /\ \/ replay'.agents = replay.agents
            \/ \E a \in Agents, ends \in {"TORN_DOWN", "FAILED"} : replay'.agents = [replay.agents EXCEPT ![a] = ends]
         /\ status' = "running" => SameDialog(replay', replay) /\ replay'.stages = replay.stages /\ replay'.paused = replay.paused
         /\ status' = "completed" => replay'.status = "completed" /\ \A s \in Stages \ {"launch"} : replay'.stages[s] = "done"
         /\ status' \in {"budget", "rejected", "failed"} =>
              /\ replay'.status = IF status' # "rejected" THEN "failed" ELSE IF cancelled THEN "cancelled" ELSE "rejected"
              /\ replay'.stages = IF status' = "rejected" /\ ~cancelled THEN replay.stages ELSE MarkActiveAsFailed(replay.stages)
<1>0. replay \in Views /\ at = "free" /\ stage \in Agents /\ SkillWriter \in Agents
  BY GraphTells DEF WinTypes, Base, TypeOK, Agents, Comprehender, SkillWriter
<1>1. ASSUME NEW es, es \in Seq(Events), Emits(es) PROVE replay' = Fold(replay, es)
  BY <1>0, <1>1, EmitsTells DEF Told
<1>2. CASE Emits(<<>>) /\ status' = "running"
  <2>1. <<>> \in Seq(Events)
    OBVIOUS
  <2>2. replay' = replay
    BY <1>1, <1>2, <2>1, FoldNone
  <2> QED
    BY <1>2, <2>2 DEF SameDialog
<1>3. CASE Emits(Lifecycle(stage, "TORN_DOWN")) /\ status' = "running"
  <2>1. Lifecycle(stage, "TORN_DOWN") \in Seq(Events)
    BY <1>0, LifecycleType
  <2>2. replay' = Fold(replay, Lifecycle(stage, "TORN_DOWN"))
    BY <1>1, <1>3, <2>1
  <2> QED
    BY <1>0, <1>3, <2>2, FoldLifecycle DEF SameDialog
<1>4. CASE Emits(Farewell(status')) /\ status' \in {"budget", "rejected", "failed"}
  <2>1. Farewell(status') \in Seq(Events)
    BY FarewellType
  <2>2. replay' = Fold(replay, Farewell(status'))
    BY <1>1, <1>4, <2>1
  <2> QED
    BY <1>0, <1>4, <2>2, FoldFarewell
<1>5. CASE Emits(Lifecycle(stage, "FAILED") \o Farewell("failed")) /\ status' = "failed"
  <2>1. PICK q \in Seq(Events), r \in Seq(Events) : q = Lifecycle(stage, "FAILED") /\ r = Farewell("failed")
    BY <1>0, LifecycleType, FarewellType
  <2>2. q \o r \in Seq(Events)
    OBVIOUS
  <2>3. replay' = Fold(replay, Lifecycle(stage, "FAILED") \o Farewell("failed"))
    BY <1>1, <1>5, <2>1, <2>2
  <2>7. LET x == Fold(replay, Lifecycle(stage, "FAILED")) IN
        x \in Views /\ SameDialog(x, replay) /\ x.stages = replay.stages /\ x.agents = [replay.agents EXCEPT ![stage] = "FAILED"]
    BY <1>0, FoldLifecycle
  <2>4. PICK v \in Views : v = Fold(replay, Lifecycle(stage, "FAILED")) /\ SameDialog(v, replay) /\ v.stages = replay.stages
                           /\ v.agents = [replay.agents EXCEPT ![stage] = "FAILED"]
    BY <2>7, Zenon
  <2>5. replay' = Fold(v, Farewell("failed"))
    BY <1>0, <2>3, <2>4, FoldLast
  <2>8. LET x == Fold(v, Farewell("failed")) IN
        /\ x.approval = v.approval /\ x.agents = v.agents
        /\ x.status = IF "failed" # "rejected" THEN "failed" ELSE IF cancelled THEN "cancelled" ELSE "rejected"
        /\ x.stages = IF "failed" = "rejected" /\ ~cancelled THEN v.stages ELSE MarkActiveAsFailed(v.stages)
    BY FoldFarewell, Zenon
  <2>6. /\ replay'.approval = v.approval /\ replay'.agents = v.agents /\ replay'.status = "failed"
        /\ replay'.stages = MarkActiveAsFailed(v.stages)
    BY <2>5, <2>8
  <2> QED
    BY <1>0, <1>5, <2>4, <2>6 DEF SameDialog
<1>6. CASE Emits(Completion) /\ status' = "completed"
  <2>1. replay' = Fold(replay, Completion)
    BY <1>1, <1>6, CompletionType
  <2> QED
    BY <1>0, <1>6, <2>1, FoldCompletion
<1>7. ASSUME NEW ends \in {"TORN_DOWN", "FAILED"}, Emits(Lifecycle(SkillWriter, ends) \o Completion), status' = "completed"
      PROVE  /\ replay'.approval = replay.approval /\ replay'.agents = [replay.agents EXCEPT ![SkillWriter] = ends]
             /\ replay'.status = "completed" /\ \A s \in Stages \ {"launch"} : replay'.stages[s] = "done"
  <2>1. PICK q \in Seq(Events), r \in Seq(Events) : q = Lifecycle(SkillWriter, ends) /\ r = Completion
    BY <1>0, LifecycleType, CompletionType
  <2>2. q \o r \in Seq(Events)
    OBVIOUS
  <2>3. replay' = Fold(replay, Lifecycle(SkillWriter, ends) \o Completion)
    BY <1>1, <1>7, <2>1, <2>2
  <2>8. ASSUME NEW a \in Agents
        PROVE  LET x == Fold(replay, Lifecycle(a, ends)) IN
               /\ x \in Views /\ SameDialog(x, replay) /\ x.stages = replay.stages /\ x.paused = replay.paused
               /\ x.agents = [replay.agents EXCEPT ![a] = ends]
    <3>1. CASE ends = "TORN_DOWN"
      BY <1>0, <3>1, FoldLifecycle
    <3>2. CASE ends = "FAILED"
      BY <1>0, <3>2, FoldLifecycle
    <3> QED
      BY <3>1, <3>2
  <2>7. LET x == Fold(replay, Lifecycle(SkillWriter, ends)) IN
        x \in Views /\ SameDialog(x, replay) /\ x.agents = [replay.agents EXCEPT ![SkillWriter] = ends]
    BY <1>0, <2>8, Zenon
  <2>4. PICK v \in Views : v = Fold(replay, Lifecycle(SkillWriter, ends)) /\ SameDialog(v, replay)
                           /\ v.agents = [replay.agents EXCEPT ![SkillWriter] = ends]
    BY <2>7, Zenon
  <2>5. replay' = Fold(v, Completion)
    BY <1>0, <2>3, <2>4, FoldLast
  <2>6. /\ replay'.approval = v.approval /\ replay'.agents = v.agents /\ replay'.status = "completed"
        /\ \A s \in Stages \ {"launch"} : replay'.stages[s] = "done"
    BY <2>5, FoldCompletion
  <2> QED
    BY <2>4, <2>6 DEF SameDialog
<1> QED
  BY <1>0, <1>2, <1>3, <1>4, <1>5, <1>6, <1>7, GraphTells

\* A gate that is asked is the gate that every window shows when it is told.
LEMMA FoldPresent ==
  ASSUME Base, WinTypes, NEW v \in Views, NEW A \in Seq(Events), NEW B \in Seq(Events), Required \in Events,
         stage \in Comprehender .. Tester, NEW s \in Stages,
         A = <<>> \/ A = <<StageEvent("stage_started", s)>>,
         \/ B = <<>>
         \/ B = <<StageEvent("stage_completed", s)>> /\ Len(answers) = 1
         \/ \E n \in Nat : B = <<[type |-> "agent_file_preview", agent |-> stage, budget |-> n]>>
  PROVE  LET x == Fold(v, A \o B \o <<Required>>) IN
         /\ x \in Views /\ x.approval = [stage |-> stage, gate |-> Len(answers) + 1] /\ x.approval # NoDialog
         /\ x.agents = v.agents /\ x.paused = v.paused
         /\ \A t \in Stages : x.stages[t] = v.stages[t] \/ x.stages[t] = "active" \/ (t = s /\ Len(answers) = 1)
<1>0. stage \in Agents /\ StageEvent("stage_started", s) \in Events /\ StageEvent("stage_completed", s) \in Events
      /\ \A n \in Nat : [type |-> "agent_file_preview", agent |-> stage, budget |-> n] \in Events
  BY DEF StageEvent, Events, Agents, Comprehender, Tester, SkillWriter
<1>1. PICK C \in Seq(Events) : C = <<Required>>
  <2>1. <<Required>> \in Seq(Events)
    OBVIOUS
  <2> QED
    BY <2>1
<1>2. PICK x1 \in Views : x1 = Fold(v, A)
  BY FoldType
<1>3. PICK x2 \in Views : x2 = Fold(x1, B)
  BY FoldType
<1>4. PICK x3 \in Views : x3 = Fold(x2, C)
  BY FoldType
<1>5. Fold(v, A \o B \o <<Required>>) = x3
  <2>1. PICK D \in Seq(Events) : D = A \o B
    <3>1. A \o B \in Seq(Events)
      OBVIOUS
    <3> QED
      BY <3>1
  <2>2. Fold(v, D) = x2
    BY <1>2, <1>3, <2>1, FoldMore
  <2>3. Fold(v, D \o C) = x3
    BY <1>4, <2>2, FoldMore
  <2> QED
    BY <1>1, <2>1, <2>3
<1>6. /\ x1.agents = v.agents /\ x1.paused = v.paused
      /\ \A t \in Stages : x1.stages[t] = v.stages[t] \/ x1.stages[t] = "active"
  <2>1. CASE A = <<>>
    BY <1>2, <2>1, FoldNone
  <2>2. CASE A = <<StageEvent("stage_started", s)>>
    <3>1. x1 = Applied(v, StageEvent("stage_started", s))
      BY <1>0, <1>2, <2>2, FoldOne
    <3>2. x1 = [v EXCEPT !.stages[s] = "active"]
      BY <3>1 DEF Applied, StageEvent
    <3> QED
      BY <3>2 DEF Views
  <2> QED
    BY <2>1, <2>2
<1>7. /\ x2.agents = x1.agents /\ x2.paused = x1.paused
      /\ \A t \in Stages : x2.stages[t] = x1.stages[t] \/ (t = s /\ Len(answers) = 1)
  <2>1. CASE B = <<>>
    <3>1. x2 = x1
      BY <1>3, <2>1, FoldNone
    <3> QED
      BY <3>1
  <2>2. CASE B = <<StageEvent("stage_completed", s)>> /\ Len(answers) = 1
    <3>1. x2 = Applied(x1, StageEvent("stage_completed", s))
      BY <1>0, <1>3, <2>2, FoldOne
    <3>2. x2 = [x1 EXCEPT !.stages[s] = "done"]
      BY <3>1 DEF Applied, StageEvent
    <3> QED
      BY <2>2, <3>2 DEF Views
  <2>3. ASSUME NEW n \in Nat, B = <<[type |-> "agent_file_preview", agent |-> stage, budget |-> n]>>
        PROVE  x2.agents = x1.agents /\ x2.paused = x1.paused /\ x2.stages = x1.stages
    <3> DEFINE e == [type |-> "agent_file_preview", agent |-> stage, budget |-> n]
    <3>1. x2 = Applied(x1, e)
      <4>1. e \in Events /\ B = <<e>>
        BY <1>0, <2>3
      <4> HIDE DEF e
      <4> QED
        BY <1>3, <4>1, FoldOne
    <3>2. x2 = [x1 EXCEPT !.preview = stage, !.budget = n]
      BY <3>1 DEF Applied
    <3> QED
      BY <3>2 DEF Views
  <2>4. \/ B = <<>>
        \/ B = <<StageEvent("stage_completed", s)>> /\ Len(answers) = 1
        \/ \E n \in Nat : B = <<[type |-> "agent_file_preview", agent |-> stage, budget |-> n]>>
    OBVIOUS
  <2>5. (\E n \in Nat : B = <<[type |-> "agent_file_preview", agent |-> stage, budget |-> n]>>)
          => x2.agents = x1.agents /\ x2.paused = x1.paused /\ x2.stages = x1.stages
    BY <2>3
  <2> QED
    BY <2>1, <2>2, <2>4, <2>5, Zenon
<1>8. x3.agents = x2.agents /\ x3.paused = x2.paused /\ x3.stages = x2.stages
      /\ x3.approval = [stage |-> stage, gate |-> Len(answers) + 1]
  <2>1. x3 = Applied(x2, Required)
    BY <1>1, <1>4, FoldOne
  <2> DEFINE d == [stage |-> stage, gate |-> Len(answers) + 1]
  <2>2. x3 = [x2 EXCEPT !.status = "awaiting_approval", !.approval = d]
    BY <2>1 DEF Applied, Required
  <2> HIDE DEF d
  <2>3. x3.agents = x2.agents /\ x3.paused = x2.paused /\ x3.stages = x2.stages /\ x3.approval = d
    BY <2>2 DEF Views
  <2> QED
    BY <2>3 DEF d
<1>9. x3.approval # NoDialog
  <2>1. x3.approval.stage = stage /\ NoDialog.stage = 0 /\ stage # 0
    BY <1>8, StageNumbers DEF NoDialog
  <2> QED
    BY <2>1
<1> QED
  BY <1>5, <1>6, <1>7, <1>8, <1>9

\* After a gate was asked, for the windows and for the run.
LEMMA ReplayPresent ==
  ASSUME Base, WinTypes, BeforeTheRun, Present
  PROVE  /\ \A w \in tuned : Shows(w)'.approval # NoDialog
         /\ replay'.approval = [stage |-> stage, gate |-> Len(answers) + 1]
         /\ replay'.agents = replay.agents /\ replay'.paused = replay.paused /\ stage \in Comprehender .. Tester
         /\ \A t \in Stages : replay'.stages[t] = replay.stages[t] \/ replay'.stages[t] = "active" \/ (t = Shown[stage] /\ Len(answers) = 1)
<1> DEFINE s == Shown[stage]
<1>0. replay \in Views /\ at = "free" /\ UNCHANGED view /\ tuned \subseteq Windows
  BY Zenon DEF WinTypes, Present, screens, screen
<1>1. /\ s \in Stages /\ stage \in Comprehender .. Tester /\ Required \in Events
      /\ \E A, B \in Seq(Events) :
              /\ Emits(A \o B \o <<Required>>)
              /\ A = <<>> \/ A = <<StageEvent("stage_started", s)>>
              /\ \/ B = <<>>
                 \/ B = <<StageEvent("stage_completed", s)>> /\ Len(answers) = 1
                 \/ \E n \in Nat : B = <<[type |-> "agent_file_preview", agent |-> stage, budget |-> n]>>
  BY PresentTells
<1> HIDE DEF s
<1>2. PICK A \in Seq(Events), B \in Seq(Events) :
              /\ Emits(A \o B \o <<Required>>)
              /\ A = <<>> \/ A = <<StageEvent("stage_started", s)>>
              /\ \/ B = <<>>
                 \/ B = <<StageEvent("stage_completed", s)>> /\ Len(answers) = 1
                 \/ \E n \in Nat : B = <<[type |-> "agent_file_preview", agent |-> stage, budget |-> n]>>
  BY <1>1
<1>3. PICK es \in Seq(Events) : es = A \o B \o <<Required>>
  <2>1. <<Required>> \in Seq(Events)
    BY <1>1
  <2>2. A \o B \o <<Required>> \in Seq(Events)
    BY <2>1
  <2> QED
    BY <2>2
<1>4. Told(es)
  BY <1>0, <1>2, <1>3, EmitsTells
<1>5. ASSUME NEW v \in Views
      PROVE  /\ Fold(v, es).approval = [stage |-> stage, gate |-> Len(answers) + 1] /\ Fold(v, es).approval # NoDialog
             /\ Fold(v, es).agents = v.agents /\ Fold(v, es).paused = v.paused
             /\ \A t \in Stages : Fold(v, es).stages[t] = v.stages[t] \/ Fold(v, es).stages[t] = "active" \/ (t = s /\ Len(answers) = 1)
  <2>1. LET x == Fold(v, A \o B \o <<Required>>) IN
        /\ x \in Views /\ x.approval = [stage |-> stage, gate |-> Len(answers) + 1] /\ x.approval # NoDialog
        /\ x.agents = v.agents /\ x.paused = v.paused
        /\ \A t \in Stages : x.stages[t] = v.stages[t] \/ x.stages[t] = "active" \/ (t = s /\ Len(answers) = 1)
    <3>1. s \in Stages /\ stage \in Comprehender .. Tester /\ Required \in Events
      BY <1>1
    <3>2. /\ A = <<>> \/ A = <<StageEvent("stage_started", s)>>
          /\ \/ B = <<>>
             \/ B = <<StageEvent("stage_completed", s)>> /\ Len(answers) = 1
             \/ \E n \in Nat : B = <<[type |-> "agent_file_preview", agent |-> stage, budget |-> n]>>
      BY <1>2
    <3> QED
      BY <3>1, <3>2, FoldPresent, Zenon
  <2> QED
    BY <1>3, <2>1, Zenon
<1>6. replay' = Fold(replay, es)
  BY <1>4 DEF Told
<1>7. ASSUME NEW w \in tuned PROVE Shows(w)'.approval # NoDialog
  <2>1. Shows(w)' = Fold(Shows(w), es) /\ Shows(w) \in Views
    BY <1>0, <1>4, ShowsMore
  <2> QED
    BY <1>5, <2>1
<1> QED
  BY <1>0, <1>1, <1>5, <1>6, <1>7 DEF s

\* After the launch, a broadcast and a telling.
LEMMA ReplayLaunched ==
  ASSUME WinTypes, BeforeTheRun, Launched
  PROVE  /\ SameDialog(replay', replay) /\ replay'.agents = replay.agents
         /\ replay'.stages["launch"] = "done" /\ \A s \in Stages \ {"launch"} : replay'.stages[s] = replay.stages[s]
<1> DEFINE e1 == StageEvent("stage_completed", "launch")
           e2 == Event("stream_end")
<1>1. e1 \in Events /\ e2 \in Events /\ e1.type = "stage_completed" /\ e1.stage = "launch" /\ e2.type = "stream_end"
  BY DEF StageEvent, Event, Events, Stages
<1>2. Emits(<<e1, e2>>) /\ at = "launch" /\ replay \in Views
  BY Zenon DEF Launched, WinTypes
<1> HIDE DEF e1, e2
<1>3. PICK es \in Seq(Events) : es = <<e1, e2>>
  <2>1. <<e1, e2>> \in Seq(Events)
    BY <1>1
  <2> QED
    BY <2>1
<1>4. replay' = Fold(replay, es)
  BY <1>2, <1>3, EmitsTells DEF Told
<1>5. PICK v \in Views : v = Applied(replay, e1)
  BY <1>1, <1>2, AppliedType
<1>6. replay' = Applied(v, e2)
  BY <1>1, <1>3, <1>4, <1>5, FoldTwo
<1>7. replay' = v
  BY <1>1, <1>6 DEF Applied
<1>8. v = [replay EXCEPT !.stages["launch"] = "done"]
  BY <1>1, <1>5 DEF Applied
<1> QED
  BY <1>2, <1>7, <1>8 DEF Views, SameDialog, Stages

\* What the broadcast of an answer makes of what was told.
LEMMA ReplayBroadcast ==
  ASSUME WinTypes, BeforeTheRun, NEW w \in Windows, Broadcast(w)
  PROVE  /\ at = "over" => UNCHANGED replay
         /\ SameProgress(replay', replay) /\ replay'.stages = replay.stages /\ replay'.agents = replay.agents
         /\ at # "over" => Told(<<Event("approval_decided")>>) /\ replay'.approval = NoDialog
<1>1. Event("approval_decided") \in Events /\ Event("approval_decided").type = "approval_decided"
  BY DEF Event, Events
<1>2. Emits(<<Event("approval_decided")>>) /\ replay \in Views
  BY Zenon DEF Broadcast, WinTypes
<1>3. <<Event("approval_decided")>> \in Seq(Events)
  BY <1>1
<1>4. CASE at = "over"
  BY <1>2, <1>3, <1>4, EmitsTells DEF events, SameProgress
<1>5. CASE at # "over"
  <2>1. Told(<<Event("approval_decided")>>)
    BY <1>2, <1>3, <1>5, EmitsTells
  <2>2. replay' = Applied(replay, Event("approval_decided"))
    BY <1>1, <2>1, FoldOne DEF Told
  <2>3. replay' = IF replay.approval = NoDialog THEN replay ELSE GateClosed(replay)
    BY <1>1, <2>2 DEF Applied
  <2>4. SameProgress(replay', replay) /\ replay'.approval = NoDialog
    BY <1>2, <2>3 DEF GateClosed, SameProgress, Views
  <2> QED
    BY <1>5, <2>1, <2>4 DEF SameProgress
<1> QED
  BY <1>4, <1>5

\* What the news of a pause makes of it.
LEMMA ReplayTell ==
  ASSUME WinTypes, BeforeTheRun, NEW w \in Windows, Tell(w)
  PROVE  /\ SameDialog(replay', replay) /\ replay'.stages = replay.stages /\ replay'.agents = replay.agents
         /\ at # "over" => replay'.paused = (post[w].req = "pause")
         /\ \A o \in tuned : SameDialog(Shows(o)', Shows(o))
<1>0. PICK e \in Events : e = Event(IF post[w].req = "pause" THEN "pipeline_paused" ELSE "pipeline_resumed")
        /\ e.type = IF post[w].req = "pause" THEN "pipeline_paused" ELSE "pipeline_resumed"
  <2>1. Event("pipeline_paused") \in Events /\ Event("pipeline_resumed") \in Events
    BY DEF Event, Events
  <2>2. Event("pipeline_paused").type = "pipeline_paused" /\ Event("pipeline_resumed").type = "pipeline_resumed"
    BY DEF Event
  <2> HIDE DEF Event
  <2> QED
    BY <2>1, <2>2
<1>1. Emits(<<e>>) /\ replay \in Views /\ UNCHANGED view
  BY <1>0, Zenon DEF Tell, WinTypes, screen
<1>2. PICK es \in Seq(Events) : es = <<e>>
  <2>1. <<e>> \in Seq(Events)
    OBVIOUS
  <2> QED
    BY <2>1
<1>3. CASE at = "over"
  <2>1. UNCHANGED events
    BY <1>1, <1>2, <1>3, EmitsTells
  <2> QED
    BY <1>1, <1>3, <2>1 DEF events, SameDialog, Shows
<1>4. CASE at # "over"
  <2>1. Told(es)
    BY <1>1, <1>2, <1>4, EmitsTells
  <2>2. ASSUME NEW v \in Views PROVE Fold(v, es) = Applied(v, e) /\ SameDialog(Fold(v, es), v)
    <3>1. Fold(v, es) = Applied(v, e)
      BY <1>2, FoldOne
    <3> QED
      BY <1>0, <3>1, DialogStays
  <2>3. replay' = Applied(replay, e) /\ SameDialog(replay', replay)
    BY <1>1, <2>1, <2>2 DEF Told
  <2>4. replay' = [replay EXCEPT !.paused = (post[w].req = "pause")]
    BY <1>0, <2>3 DEF Applied
  <2>5. ASSUME NEW o \in tuned PROVE SameDialog(Shows(o)', Shows(o))
    <3>1. Shows(o)' = Fold(Shows(o), es) /\ Shows(o) \in Views
      BY <1>1, <2>1, ShowsMore
    <3>2. SameDialog(Fold(Shows(o), es), Shows(o))
      BY <2>2, <3>1
    <3> QED
      BY <3>1, <3>2 DEF SameDialog
  <2>6. replay'.stages = replay.stages /\ replay'.agents = replay.agents /\ replay'.paused = (post[w].req = "pause")
    BY <1>1, <2>4 DEF Views
  <2> QED
    BY <2>3, <2>5, <2>6
<1> QED
  BY <1>3, <1>4

-----------------------------------------------------------------------------
(* What a request changes *)

\* What a user granted stays granted, and a run that ended has ended.
LEMMA RunMoves == ASSUME [Next]_vars PROVE granted \subseteq granted' /\ (status # "running" => UNCHANGED status)
<1>1. CASE CheckBudget \/ AgentFileGate \/ OutputGate
  BY <1>1 DEF CheckBudget, AgentFileGate, OutputGate, Gate
<1>2. CASE Produce \/ ProduceFails
  BY <1>2 DEF Produce, ProduceFails
<1>3. CASE Finish \/ FinishFails
  BY <1>3 DEF Finish, FinishFails
<1>4. CASE WriteSkill
  BY <1>4 DEF WriteSkill
<1>5. ASSUME NEW decision \in Answers, Answer(decision) PROVE granted \subseteq granted' /\ status = "running"
  BY <1>5 DEF Answer
<1>6. CASE EditOnDisk \/ UNCHANGED vars
  BY <1>6 DEF EditOnDisk, vars
<1> QED
  BY <1>1, <1>2, <1>3, <1>4, <1>5, <1>6 DEF Next, Answers

\* A window's step changes its own request, and the run only by one of six.
LEMMA WindowFrame ==
  ASSUME WinTypes, BeforeTheRun, NEW w \in Windows, Window(w)
  PROVE  /\ UNCHANGED vars /\ \A o \in Windows \ {w} : post'[o] = post[o]
         /\ \/ StartRoute(w) \/ Broadcast(w) \/ SetDecision(w) \/ Cancel(w) \/ Switch(w) \/ Tell(w)
            \/ /\ UNCHANGED <<at, signal, cancelled, paused, replay, stray, crossed>>
               /\ Answering' = Answering /\ \A o \in Windows : (Switching(o)' <=> Switching(o)) /\ (Switching(o) => post'[o] = post[o])
<1>0. UNCHANGED vars
  BY WindowsLeaveTheGraph
<1>1. post \in PostTypes /\ Idle.step = 0 /\ Idle.req = "none"
  BY DEF WinTypes, PostTypes, Idle
<1>2. ASSUME NEW p, post' = [post EXCEPT ![w] = p]
      PROVE  post'[w] = p /\ \A o \in Windows \ {w} : post'[o] = post[o]
  BY <1>1, <1>2 DEF PostTypes
<1>3. ASSUME Done(w) \/ Next2(w) \/ UNCHANGED post \/ \E req, d : Sends(w, req, d) PROVE \A o \in Windows \ {w} : post'[o] = post[o]
  BY <1>2, <1>3 DEF Done, Next2, Sends
<1>4. CASE StartRoute(w) \/ Broadcast(w) \/ SetDecision(w) \/ Cancel(w) \/ Switch(w) \/ Tell(w)
  <2>1. Done(w) \/ Next2(w)
    BY <1>4, Zenon DEF StartRoute, Broadcast, SetDecision, Cancel, Switch, Tell
  <2> QED
    BY <1>0, <1>3, <1>4, <2>1
<1>5. ASSUME UNCHANGED <<at, signal, cancelled, paused, replay, stray, crossed>>,
             UNCHANGED post \/ (Done(w) /\ (post[w].step = 1 \/ post[w].req = "start"))
               \/ \E req, d : Sends(w, req, d) /\ post[w] = Idle
      PROVE  /\ UNCHANGED <<at, signal, cancelled, paused, replay, stray, crossed>>
             /\ Answering' = Answering /\ (\A o \in Windows : (Switching(o)' <=> Switching(o)) /\ (Switching(o) => post'[o] = post[o]))
             /\ \A o \in Windows \ {w} : post'[o] = post[o]
  <2>1. \A o \in Windows \ {w} : post'[o] = post[o]
    BY <1>3, <1>5
  <2>2. post'[w] = post[w] \/ (post'[w].step # 2 /\ (post[w].step # 2 \/ post[w].req = "start"))
    <3>1. CASE Done(w) /\ (post[w].step = 1 \/ post[w].req = "start")
      <4>1. post'[w] = Idle
        BY <1>2, <3>1 DEF Done
      <4> QED
        BY <1>1, <3>1, <4>1
    <3>2. ASSUME NEW req, NEW d, Sends(w, req, d), post[w] = Idle PROVE post'[w].step # 2 /\ post[w].step # 2
      <4>1. post'[w] = [req |-> req, decision |-> d, step |-> 1]
        BY <1>2, <3>2 DEF Sends
      <4> QED
        BY <1>1, <3>2, <4>1
    <3> QED
      BY <1>5, <3>1, <3>2
  <2>3. \A o \in Windows : (Switching(o)' <=> Switching(o)) /\ (Switching(o) => post'[o] = post[o])
    BY <2>1, <2>2 DEF Switching
  <2>4. Answering' = Answering
    BY <2>1, <2>2 DEF Answering
  <2> QED
    BY <1>5, <2>1, <2>3, <2>4
<1> DEFINE Quiet == /\ UNCHANGED <<at, signal, cancelled, paused, replay, stray, crossed>>
                    /\ UNCHANGED post \/ (Done(w) /\ (post[w].step = 1 \/ post[w].req = "start"))
                         \/ \E req, d : Sends(w, req, d) /\ post[w] = Idle
<1>6. CASE StartRun(w)
  <2>1. UNCHANGED <<server, events, history>> /\ post[w] = Idle /\ Sends(w, "start", "none")
    BY <1>6, Zenon DEF StartRun
  <2>2. Quiet
    BY <2>1 DEF server, events, history
  <2> QED
    BY <1>0, <1>5, <2>2
<1>7. CASE RunStarted(w)
  <2>1. UNCHANGED <<server, events, history>> /\ post[w].req = "start" /\ Done(w)
    BY <1>7, Zenon DEF RunStarted
  <2>2. Quiet
    BY <2>1 DEF server, events, history
  <2> QED
    BY <1>0, <1>5, <2>2
<1>8. CASE Receive(w)
  <2>1. UNCHANGED <<server, replay, history, post>>
    BY <1>8, Zenon DEF Receive
  <2>2. Quiet
    BY <2>1 DEF server, history
  <2> QED
    BY <1>0, <1>5, <2>2
<1>9. CASE Adopt(w)
  <2>1. UNCHANGED <<server, replay, stray, crossed, post>>
    BY <1>9, Zenon DEF Adopt
  <2>2. Quiet
    BY <2>1 DEF server
  <2> QED
    BY <1>0, <1>5, <2>2
<1>10. CASE Lose(w)
  <2>1. UNCHANGED <<server, events, stray, crossed>> /\ Done(w) /\ (post[w].step = 1 \/ post[w].req = "start")
    BY <1>10, Zenon DEF Lose
  <2>2. Quiet
    BY <2>1 DEF server, events
  <2> QED
    BY <1>0, <1>5, <2>2
<1>11. ASSUME NEW d \in {"approve", "edit", "reject"}, SendApproval(w, d) PROVE Quiet
  <2>1. UNCHANGED <<server, events, history>> /\ post[w] = Idle /\ Sends(w, "approve", d)
    BY <1>11, Zenon DEF SendApproval
  <2> QED
    BY <2>1 DEF server, events, history
<1>12. ASSUME NEW req \in {"cancel", "pause", "resume"}, Ask(w, req) PROVE Quiet
  <2>1. UNCHANGED <<server, events, history>> /\ post[w] = Idle /\ Sends(w, req, "none")
    BY <1>12, Zenon DEF Ask
  <2> QED
    BY <2>1 DEF server, events, history
<1>13. CASE Quiet
  BY <1>0, <1>5, <1>13
<1> HIDE DEF Quiet
<1> QED
  BY <1>4, <1>6, <1>7, <1>8, <1>9, <1>10, <1>11, <1>12, <1>13 DEF Window

\* A request that was taken is told, or answered, before it is done.
LEMMA TakenStep ==
  ASSUME WinTypes, NEW w \in Windows
  PROVE  /\ Done(w) => post' = [post EXCEPT ![w] = Idle] /\ post'[w] = Idle /\ \A o \in Windows \ {w} : post'[o] = post[o]
         /\ Next2(w) => post'[w].req = post[w].req /\ post'[w].step = 2 /\ \A o \in Windows \ {w} : post'[o] = post[o]
<1>1. post \in PostTypes
  BY DEF WinTypes, PostTypes
<1> QED
  BY <1>1 DEF Done, Next2, PostTypes

-----------------------------------------------------------------------------
(* The events on their way *)

\* A preview is followed by its gate; no end of the run; no preview.
Paired(q) ==
  \A i \in 1 .. Len(q) : q[i].type = "agent_file_preview" => i + 1 <= Len(q) /\ q[i + 1].type = "approval_required"
NoEnd(q) == \A i \in 1 .. Len(q) : q[i].type \notin EndTypes
NoPreview(q) == \A i \in 1 .. Len(q) : q[i].type # "agent_file_preview"

\* The places of two rows of events that are joined.
LEMMA Joined ==
  ASSUME NEW S, NEW q \in Seq(S), NEW r \in Seq(S)
  PROVE  /\ Len(q) \in Nat /\ Len(r) \in Nat /\ Len(q \o r) = Len(q) + Len(r)
         /\ \A k \in 1 .. Len(q) : (q \o r)[k] = q[k]
         /\ \A k \in 1 .. Len(r) : (q \o r)[Len(q) + k] = r[k]
OBVIOUS

\* Rows of events that are joined stay so.
LEMMA PairedJoin ==
  ASSUME NEW S, NEW q \in Seq(S), NEW r \in Seq(S)
  PROVE  /\ Paired(q) /\ Paired(r) => Paired(q \o r)
         /\ NoEnd(q) /\ NoEnd(r) => NoEnd(q \o r)
         /\ NoPreview(q) /\ NoPreview(r) => NoPreview(q \o r)
         /\ NoPreview(r) => Paired(r)
<1>0. /\ Len(q) \in Nat /\ Len(r) \in Nat /\ Len(q \o r) = Len(q) + Len(r)
      /\ \A k \in 1 .. Len(q) : (q \o r)[k] = q[k]
      /\ \A k \in 1 .. Len(r) : (q \o r)[Len(q) + k] = r[k]
  BY Joined
<1>1. ASSUME NEW k \in 1 .. Len(q \o r) PROVE k \in 1 .. Len(q) \/ \E j \in 1 .. Len(r) : k = Len(q) + j
  <2>1. CASE k > Len(q)
    <3>1. k - Len(q) \in 1 .. Len(r) /\ k = Len(q) + (k - Len(q))
      BY <1>0, <2>1
    <3> QED
      BY <3>1
  <2> QED
    BY <1>0, <2>1
<1> DEFINE x == q \o r
<1>2. /\ Len(x) = Len(q) + Len(r) /\ (\A k \in 1 .. Len(q) : x[k] = q[k]) /\ (\A k \in 1 .. Len(r) : x[Len(q) + k] = r[k])
      /\ \A k \in 1 .. Len(x) : k \in 1 .. Len(q) \/ \E j \in 1 .. Len(r) : k = Len(q) + j
  BY <1>0, <1>1
<1> HIDE DEF x
<1>3. ASSUME Paired(q), Paired(r) PROVE Paired(x)
  <2>1. ASSUME NEW k \in 1 .. Len(q), q[k].type = "agent_file_preview" PROVE k + 1 <= Len(x) /\ x[k + 1].type = "approval_required"
    <3>1. k + 1 <= Len(q) /\ q[k + 1].type = "approval_required" /\ k + 1 \in 1 .. Len(q)
      BY <1>0, <1>3, <2>1 DEF Paired
    <3> QED
      BY <1>0, <1>2, <3>1
  <2>2. ASSUME NEW j \in 1 .. Len(r), r[j].type = "agent_file_preview"
        PROVE  (Len(q) + j) + 1 <= Len(x) /\ x[(Len(q) + j) + 1].type = "approval_required"
    <3>1. j + 1 <= Len(r) /\ r[j + 1].type = "approval_required" /\ j + 1 \in 1 .. Len(r)
      BY <1>0, <1>3, <2>2 DEF Paired
    <3>2. (Len(q) + j) + 1 = Len(q) + (j + 1)
      BY <1>0
    <3> QED
      BY <1>0, <1>2, <3>1, <3>2
  <2> QED
    BY <1>2, <2>1, <2>2 DEF Paired
<1>4. NoEnd(q) /\ NoEnd(r) => NoEnd(x)
  BY <1>2 DEF NoEnd
<1>5. NoPreview(q) /\ NoPreview(r) => NoPreview(x)
  BY <1>2 DEF NoPreview
<1>6. NoPreview(r) => Paired(r)
  BY DEF NoPreview, Paired
<1> QED
  BY <1>3, <1>4, <1>5, <1>6 DEF x

\* What is left of a window's events is in order as well.
LEMMA PairedTail == ASSUME NEW S, NEW q \in Seq(S), q # <<>> PROVE (Paired(q) => Paired(Tail(q))) /\ (NoEnd(q) => NoEnd(Tail(q)))
<1> DEFINE x == Tail(q)
<1>1. Len(q) \in Nat /\ Len(q) >= 1 /\ Len(x) = Len(q) - 1 /\ \A k \in 1 .. Len(x) : x[k] = q[k + 1]
  OBVIOUS
<1> HIDE DEF x
<1>2. ASSUME Paired(q), NEW k \in 1 .. Len(x), x[k].type = "agent_file_preview" PROVE k + 1 <= Len(x) /\ x[k + 1].type = "approval_required"
  <2>1. k + 1 \in 1 .. Len(q) /\ q[k + 1].type = "agent_file_preview"
    BY <1>1, <1>2
  <2>2. (k + 1) + 1 <= Len(q) /\ q[(k + 1) + 1].type = "approval_required"
    BY <1>2, <2>1 DEF Paired
  <2>3. k + 1 \in 1 .. Len(x)
    BY <1>1, <2>2
  <2> QED
    BY <1>1, <2>2, <2>3
<1>3. NoEnd(q) => NoEnd(x)
  <2>1. \A k \in 1 .. Len(x) : k + 1 \in 1 .. Len(q)
    BY <1>1
  <2> QED
    BY <1>1, <2>1 DEF NoEnd
<1> QED
  BY <1>2, <1>3 DEF x, Paired

\* What the graph tells holds no preview, and an end only at the end.
LEMMA GraphPlain ==
  ASSUME Base, WinTypes, BeforeTheRun, RunGraph
  PROVE  \E es \in Seq(Events) : Told(es) /\ NoPreview(es) /\ (status' = "running" => NoEnd(es))
<1>0. at = "free" /\ stage \in Agents /\ SkillWriter \in Agents
  BY GraphTells DEF Base, TypeOK, Agents, Comprehender, SkillWriter
<1>1. ASSUME NEW es, es \in Seq(Events), Emits(es) PROVE Told(es)
  BY <1>0, <1>1, EmitsTells
<1>2. ASSUME NEW a \in Agents, NEW ends \in {"TORN_DOWN", "FAILED"}
      PROVE  Lifecycle(a, ends) \in Seq(Events) /\ NoPreview(Lifecycle(a, ends)) /\ NoEnd(Lifecycle(a, ends))
  <2>1. Lifecycle(a, ends) \in Seq(Events)
    BY LifecycleType
  <2> DEFINE e1 == [type |-> "agent_registered", agent |-> a, slot |-> spawned + 1]
             e2 == AgentEvent("agent_alive", a)
             e3 == AgentEvent(IF ends = "FAILED" THEN "agent_failed" ELSE "agent_torn_down", a)
  <2>2. e1.type = "agent_registered" /\ e2.type = "agent_alive" /\ e3.type \in {"agent_failed", "agent_torn_down"}
    BY DEF AgentEvent
  <2>3. Lifecycle(a, ends) = <<e1, e2, e3>>
    BY DEF Lifecycle
  <2> HIDE DEF e1, e2, e3
  <2>4. Len(<<e1, e2, e3>>) = 3 /\ <<e1, e2, e3>>[1] = e1 /\ <<e1, e2, e3>>[2] = e2 /\ <<e1, e2, e3>>[3] = e3
    OBVIOUS
  <2>5. ASSUME NEW i \in 1 .. 3 PROVE <<e1, e2, e3>>[i] \in {e1, e2, e3}
    <3>1. i = 1 \/ i = 2 \/ i = 3
      OBVIOUS
    <3> QED
      BY <2>4, <3>1
  <2>6. \A i \in 1 .. 3 : <<e1, e2, e3>>[i].type \notin EndTypes \cup {"agent_file_preview"}
    <3>1. \A e \in {e1, e2, e3} : e.type \notin EndTypes \cup {"agent_file_preview"}
      BY <2>2 DEF EndTypes
    <3> QED
      BY <2>5, <3>1, Zenon
  <2> QED
    BY <2>1, <2>3, <2>4, <2>6 DEF NoPreview, NoEnd
<1>3. ASSUME NEW x, NEW y, x.type # "agent_file_preview", y.type # "agent_file_preview" PROVE NoPreview(<<x, y>>)
  <2>1. Len(<<x, y>>) = 2 /\ <<x, y>>[1] = x /\ <<x, y>>[2] = y
    OBVIOUS
  <2>2. ASSUME NEW i \in 1 .. 2 PROVE <<x, y>>[i].type # "agent_file_preview"
    <3>1. i = 1 \/ i = 2
      OBVIOUS
    <3> QED
      BY <1>3, <2>1, <3>1
  <2> QED
    BY <2>1, <2>2 DEF NoPreview
<1>4. ASSUME NEW to PROVE Farewell(to) \in Seq(Events) /\ NoPreview(Farewell(to))
  <2> DEFINE ty == IF to # "rejected" THEN "pipeline_failed" ELSE IF cancelled THEN "pipeline_cancelled" ELSE "pipeline_rejected"
  <2>1. Event(ty).type = ty /\ ty # "agent_file_preview" /\ Event("stream_end").type = "stream_end"
    BY DEF Event
  <2> HIDE DEF ty
  <2>2. NoPreview(<<Event(ty), Event("stream_end")>>)
    BY <1>3, <2>1
  <2> QED
    BY <2>2, FarewellType DEF Farewell, ty
<1>5. NoPreview(Completion)
  <2>1. Event("pipeline_completed").type # "agent_file_preview" /\ StageEvent("stage_started", "launch").type # "agent_file_preview"
    BY DEF Event, StageEvent
  <2> QED
    BY <1>3, <2>1 DEF Completion
<1>6. ASSUME NEW a \in Agents, NEW ends \in {"TORN_DOWN", "FAILED"}
      PROVE  /\ Lifecycle(a, ends) \o Farewell("failed") \in Seq(Events) /\ NoPreview(Lifecycle(a, ends) \o Farewell("failed"))
             /\ Lifecycle(a, ends) \o Completion \in Seq(Events) /\ NoPreview(Lifecycle(a, ends) \o Completion)
  <2>1. PICK q \in Seq(Events), r \in Seq(Events), s \in Seq(Events) :
          q = Lifecycle(a, ends) /\ r = Farewell("failed") /\ s = Completion
    BY <1>2, <1>4, CompletionType
  <2>2. q \o r \in Seq(Events) /\ q \o s \in Seq(Events)
    OBVIOUS
  <2>3. NoPreview(q) /\ NoPreview(r) /\ NoPreview(s)
    BY <1>2, <1>4, <1>5, <2>1
  <2>4. NoPreview(q \o r) /\ NoPreview(q \o s)
    BY <2>3, PairedJoin
  <2> QED
    BY <2>1, <2>2, <2>4
<1>7. CASE Emits(<<>>) /\ status' = "running"
  <2>1. <<>> \in Seq(Events) /\ NoPreview(<<>>) /\ NoEnd(<<>>)
    BY DEF NoPreview, NoEnd
  <2> QED
    BY <1>1, <1>7, <2>1
<1>8. CASE Emits(Lifecycle(stage, "TORN_DOWN")) /\ status' = "running"
  <2>1. Lifecycle(stage, "TORN_DOWN") \in Seq(Events) /\ NoPreview(Lifecycle(stage, "TORN_DOWN")) /\ NoEnd(Lifecycle(stage, "TORN_DOWN"))
    BY <1>0, <1>2
  <2> QED
    BY <1>1, <1>8, <2>1
<1>9. CASE Emits(Farewell(status')) /\ status' \in {"budget", "rejected", "failed"}
  <2>1. Farewell(status') \in Seq(Events) /\ NoPreview(Farewell(status'))
    BY <1>4
  <2> QED
    BY <1>1, <1>9, <2>1
<1>10. CASE Emits(Lifecycle(stage, "FAILED") \o Farewell("failed")) /\ status' = "failed"
  <2>1. /\ Lifecycle(stage, "FAILED") \o Farewell("failed") \in Seq(Events)
        /\ NoPreview(Lifecycle(stage, "FAILED") \o Farewell("failed"))
    BY <1>0, <1>6
  <2> QED
    BY <1>1, <1>10, <2>1
<1>11. CASE Emits(Completion) /\ status' = "completed"
  BY <1>1, <1>5, <1>11, CompletionType
<1>12. ASSUME NEW ends \in {"TORN_DOWN", "FAILED"}, Emits(Lifecycle(SkillWriter, ends) \o Completion), status' = "completed"
       PROVE  \E es \in Seq(Events) : Told(es) /\ NoPreview(es) /\ (status' = "running" => NoEnd(es))
  <2>1. Lifecycle(SkillWriter, ends) \o Completion \in Seq(Events) /\ NoPreview(Lifecycle(SkillWriter, ends) \o Completion)
    BY <1>0, <1>6
  <2> QED
    BY <1>1, <1>12, <2>1
<1> QED
  BY <1>7, <1>8, <1>9, <1>10, <1>11, <1>12, GraphTells, Zenon

\* What a gate tells ends with its question, and holds a preview only before it.
LEMMA PresentPaired ==
  ASSUME Base, WinTypes, BeforeTheRun, Present
  PROVE  \E es \in Seq(Events) : Told(es) /\ Paired(es) /\ NoEnd(es)
<1> DEFINE s == Shown[stage]
<1>0. at = "free"
  BY DEF Present
<1>1. /\ Required \in Events
      /\ \E A, B \in Seq(Events) :
              /\ Emits(A \o B \o <<Required>>)
              /\ A = <<>> \/ A = <<StageEvent("stage_started", s)>>
              /\ \/ B = <<>>
                 \/ B = <<StageEvent("stage_completed", s)>> /\ Len(answers) = 1
                 \/ \E n \in Nat : B = <<[type |-> "agent_file_preview", agent |-> stage, budget |-> n]>>
  BY PresentTells
<1> HIDE DEF s
<1>2. PICK A \in Seq(Events), B \in Seq(Events) :
              /\ Emits(A \o B \o <<Required>>)
              /\ A = <<>> \/ A = <<StageEvent("stage_started", s)>>
              /\ \/ B = <<>>
                 \/ B = <<StageEvent("stage_completed", s)>> /\ Len(answers) = 1
                 \/ \E n \in Nat : B = <<[type |-> "agent_file_preview", agent |-> stage, budget |-> n]>>
  BY <1>1
<1>3. PICK C \in Seq(Events) : C = <<Required>> /\ Len(C) = 1 /\ C[1].type = "approval_required"
  <2>1. <<Required>> \in Seq(Events) /\ Len(<<Required>>) = 1 /\ <<Required>>[1] = Required
    BY <1>1
  <2>2. Required.type = "approval_required"
    BY DEF Required
  <2> HIDE DEF Required
  <2> QED
    BY <2>1, <2>2
<1>4. ASSUME NEW e, e.type \notin EndTypes \cup {"agent_file_preview"} PROVE NoPreview(<<e>>) /\ NoEnd(<<e>>)
  <2>1. Len(<<e>>) = 1 /\ <<e>>[1] = e
    OBVIOUS
  <2> QED
    BY <1>4, <2>1 DEF NoPreview, NoEnd
<1>5. \A t \in {"stage_started", "stage_completed"} : StageEvent(t, s).type \notin EndTypes \cup {"agent_file_preview"}
  BY DEF StageEvent, EndTypes
<1>6. NoPreview(<<>>) /\ NoEnd(<<>>)
  BY DEF NoPreview, NoEnd
<1>7. NoPreview(A) /\ NoEnd(A)
  BY <1>2, <1>4, <1>5, <1>6
<1>8. NoEnd(C) /\ NoPreview(C)
  BY <1>3 DEF NoEnd, NoPreview, EndTypes
<1>9. PICK D \in Seq(Events) : D = B \o C
  <2>1. B \o C \in Seq(Events)
    OBVIOUS
  <2> QED
    BY <2>1
<1>10. Paired(D) /\ NoEnd(D)
  <2>1. ASSUME NoPreview(B), NoEnd(B) PROVE Paired(D) /\ NoEnd(D)
    <3>1. Paired(B \o C) /\ NoEnd(B \o C)
      BY <1>8, <2>1, PairedJoin
    <3> QED
      BY <1>9, <3>1
  <2>2. ASSUME NEW n \in Nat, B = <<[type |-> "agent_file_preview", agent |-> stage, budget |-> n]>>
        PROVE  Paired(D) /\ NoEnd(D)
    <3>1. Len(B) = 1 /\ B[1].type = "agent_file_preview"
      BY <2>2
    <3>2. Len(D) = 2 /\ D[1] = B[1] /\ D[2] = C[1]
      <4>1. Len(B) = 1 /\ Len(C) = 1
        BY <1>3, <3>1
      <4>2. Len(B \o C) = Len(B) + Len(C) /\ (B \o C)[1] = B[1] /\ (B \o C)[Len(B) + 1] = C[1]
        <5>1. 1 \in 1 .. Len(B) /\ 1 \in 1 .. Len(C)
          BY <4>1
        <5> QED
          BY <5>1, Joined
      <4> QED
        BY <1>9, <4>1, <4>2
    <3>3. \A i \in 1 .. 2 : i = 1 \/ i = 2
      OBVIOUS
    <3>4. Paired(D)
      BY <1>3, <3>2, <3>3 DEF Paired
    <3>5. NoEnd(D)
      BY <1>3, <3>1, <3>2, <3>3 DEF NoEnd, EndTypes
    <3> QED
      BY <3>4, <3>5
  <2>3. CASE B = <<>>
    BY <1>6, <2>1, <2>3
  <2>4. CASE B = <<StageEvent("stage_completed", s)>>
    BY <1>4, <1>5, <2>1, <2>4
  <2> QED
    BY <1>2, <2>2, <2>3, <2>4
<1>11. PICK es \in Seq(Events) : es = A \o D
  <2>1. A \o D \in Seq(Events)
    OBVIOUS
  <2> QED
    BY <2>1
<1>12. Paired(es) /\ NoEnd(es)
  <2>1. Paired(A \o D) /\ NoEnd(A \o D)
    BY <1>7, <1>10, PairedJoin
  <2> QED
    BY <1>11, <2>1
<1>13. A \o D = A \o B \o <<Required>>
  <2>1. A \o (B \o C) = (A \o B) \o C
    OBVIOUS
  <2> QED
    BY <1>3, <1>9, <2>1
<1>14. Told(es)
  BY <1>0, <1>2, <1>11, <1>13, EmitsTells
<1> QED
  BY <1>12, <1>14

\* Where a step leaves the thread.
LEMMA AtSteps ==
  ASSUME Base, WinTypes, BeforeTheRun, [DashNext]_<<vars, dashVars>>
  PROVE  \/ UNCHANGED at
         \/ at = "free" /\ RunGraph
         \/ at = "free" /\ at' = "waiting" /\ Present
         \/ at = "waiting" /\ at' = "decided" /\ Wake
         \/ at \in {"free", "decided"} /\ at' = "free"
         \/ at = "launch" /\ at' = "over" /\ Launched
         \/ at = "none" /\ at' = "free"
<1>1. CASE RunGraph \/ Present \/ Wake \/ Resumption \/ Launched
  BY <1>1 DEF RunGraph, Present, Wake, Resumption, Launched
<1>2. ASSUME NEW w \in Windows, Window(w) PROVE UNCHANGED at \/ (at = "none" /\ at' = "free")
  <2>1. CASE StartRoute(w)
    BY <2>1 DEF StartRoute, Step, BeforeTheRun
  <2>2. CASE Broadcast(w) \/ SetDecision(w) \/ Cancel(w) \/ Switch(w) \/ Tell(w)
    BY <2>2 DEF Broadcast, SetDecision, Cancel, Switch, Tell, server
  <2> QED
    BY <1>2, <2>1, <2>2, WindowFrame
<1>3. CASE UNCHANGED dashVars
  BY <1>3 DEF dashVars, server
<1> QED
  BY <1>1, <1>2, <1>3, Zenon DEF DashNext, dashVars

\* Whatever is told leaves each window's events in order.
LEMMA QueueStep ==
  ASSUME Base, Carried, WinTypes, Thread, BeforeTheRun, QueueInOrder, [DashNext]_<<vars, dashVars>>, WinTypes', BeforeTheRun'
  PROVE  QueueInOrder'
<1> DEFINE Fine(q, t) == Paired(q) /\ (NoEnd(q) \/ t \in {"launch", "over"})
<1>0. /\ \A w \in Windows : queue[w] \in Seq(Events) /\ Fine(queue[w], at)
      /\ at \in {"launch", "over"} => at' \in {"launch", "over"}
  <2>1. \A w \in Windows : queue[w] \in Seq(Events) /\ Fine(queue[w], at)
    BY DEF WinTypes, QueueInOrder, Paired, NoEnd
  <2>2. at = "launch" => at' \in {"launch", "over"}
    BY AtSteps
  <2>3. at = "over" => at' = "over"
    BY AtSteps
  <2> QED
    BY <2>1, <2>2, <2>3
<1>1. SUFFICES \A w \in Windows : Fine(queue'[w], at')
  BY DEF QueueInOrder, Paired, NoEnd
<1>2. ASSUME NEW es \in Seq(Events), Told(es), Paired(es), NoEnd(es) \/ at' \in {"launch", "over"}, NEW w \in Windows
      PROVE  Fine(queue'[w], at')
  <2>1. CASE w \in tuned
    <3>1. PICK q \in Seq(Events) : q = queue[w] /\ Fine(q, at)
      BY <1>0
    <3>2. queue'[w] = q \o es
      BY <1>2, <2>1, <3>1 DEF Told
    <3>3. Paired(q \o es) /\ (NoEnd(q) /\ NoEnd(es) => NoEnd(q \o es))
      BY <1>2, <3>1, PairedJoin
    <3> QED
      BY <1>0, <1>2, <3>1, <3>2, <3>3
  <2>2. CASE w \notin tuned
    <3>1. queue'[w] = <<>>
      BY <1>2, <2>2 DEF Told
    <3> QED
      BY <3>1 DEF Paired, NoEnd
  <2> QED
    BY <2>1, <2>2
<1>3. ASSUME NEW e, e \in Events, e.type \notin EndTypes \cup {"agent_file_preview"}
      PROVE  <<e>> \in Seq(Events) /\ Paired(<<e>>) /\ NoEnd(<<e>>)
  <2>1. Len(<<e>>) = 1 /\ <<e>>[1] = e /\ <<e>> \in Seq(Events)
    BY <1>3
  <2> QED
    BY <1>3, <2>1 DEF Paired, NoEnd
<1>4. CASE RunGraph
  <2>1. PICK es \in Seq(Events) : Told(es) /\ NoPreview(es) /\ (status' = "running" => NoEnd(es))
    BY <1>4, GraphPlain
  <2>2. status' \in {"running", "budget", "rejected", "failed", "completed"}
        /\ at' = IF status' = "running" THEN "free" ELSE IF status' = "completed" THEN "launch" ELSE "over"
    BY <1>4, GraphTells
  <2>3. Paired(es) /\ (NoEnd(es) \/ at' \in {"launch", "over"})
    BY <2>1, <2>2, PairedJoin
  <2> HIDE DEF Fine
  <2> QED
    BY <1>2, <2>1, <2>3
<1>5. CASE Present
  <2>1. PICK es \in Seq(Events) : Told(es) /\ Paired(es) /\ NoEnd(es)
    BY <1>5, PresentPaired
  <2> HIDE DEF Fine
  <2> QED
    BY <1>2, <2>1
<1>6. CASE Launched
  <2> DEFINE e1 == StageEvent("stage_completed", "launch")
             e2 == Event("stream_end")
  <2>1. e1 \in Events /\ e2 \in Events /\ e1.type = "stage_completed" /\ e2.type = "stream_end"
    BY DEF StageEvent, Event, Events, Stages
  <2>2. Emits(<<e1, e2>>) /\ at = "launch" /\ at' = "over"
    BY <1>6, Zenon DEF Launched
  <2> HIDE DEF e1, e2
  <2>3. PICK es \in Seq(Events) : es = <<e1, e2>>
    <3>1. <<e1, e2>> \in Seq(Events)
      BY <2>1
    <3> QED
      BY <3>1
  <2>4. Len(es) = 2 /\ es[1] = e1 /\ es[2] = e2
    BY <2>3
  <2>5. NoPreview(es)
    <3>1. \A i \in 1 .. 2 : i = 1 \/ i = 2
      OBVIOUS
    <3> QED
      BY <2>1, <2>4, <3>1 DEF NoPreview
  <2>6. Told(es) /\ Paired(es)
    BY <2>2, <2>3, <2>5, EmitsTells, PairedJoin
  <2> HIDE DEF Fine
  <2> QED
    BY <1>2, <2>2, <2>6
<1>7. ASSUME NEW o \in Windows, Broadcast(o) \/ Tell(o) PROVE \A w \in Windows : Fine(queue'[w], at')
  <2>1. PICK e \in Events : Emits(<<e>>) /\ e.type \notin EndTypes \cup {"agent_file_preview"}
    <3>1. \A t \in {"approval_decided", "pipeline_paused", "pipeline_resumed"} :
            Event(t) \in Events /\ Event(t).type \notin EndTypes \cup {"agent_file_preview"}
      BY DEF Event, Events, EndTypes
    <3>2. CASE Broadcast(o)
      <4>1. Emits(<<Event("approval_decided")>>)
        BY <3>2 DEF Broadcast
      <4> QED
        BY <3>1, <4>1
    <3>3. CASE Tell(o)
      <4>1. Emits(<<Event(IF post[o].req = "pause" THEN "pipeline_paused" ELSE "pipeline_resumed")>>)
        BY <3>3, Zenon DEF Tell
      <4>2. \E t \in {"pipeline_paused", "pipeline_resumed"} : Emits(<<Event(t)>>)
        BY <4>1
      <4> QED
        BY <3>1, <4>2
    <3> QED
      BY <1>7, <3>2, <3>3
  <2>2. UNCHANGED at
    BY <1>7, Zenon DEF Broadcast, Tell, server
  <2>3. <<e>> \in Seq(Events) /\ Paired(<<e>>) /\ NoEnd(<<e>>)
    BY <1>3, <2>1
  <2>4. PICK es \in Seq(Events) : es = <<e>> /\ Paired(es) /\ NoEnd(es)
    BY <2>3
  <2>5. Told(es) \/ UNCHANGED events
    BY <2>1, <2>4, EmitsTells
  <2>6. CASE Told(es)
    <3> HIDE DEF Fine
    <3> QED
      BY <1>2, <2>4, <2>6
  <2>7. CASE UNCHANGED events
    BY <1>0, <2>2, <2>7 DEF events
  <2> QED
    BY <2>5, <2>6, <2>7
<1>8. CASE Wake \/ Resumption \/ UNCHANGED dashVars
  <2>1. UNCHANGED queue
    BY <1>8 DEF Wake, Resumption, dashVars, events
  <2> QED
    BY <1>0, <2>1
<1>9. ASSUME NEW o \in Windows, Receive(o) PROVE \A w \in Windows : Fine(queue'[w], at')
  <2>1. queue[o] # <<>> /\ queue' = [queue EXCEPT ![o] = Tail(queue[o])] /\ queue \in [Windows -> Seq(Events)]
    BY <1>9 DEF Receive, CaughtUp, WinTypes
  <2>2. Paired(Tail(queue[o])) /\ (NoEnd(queue[o]) => NoEnd(Tail(queue[o])))
    BY <1>0, <2>1, PairedTail
  <2> QED
    BY <1>0, <2>1, <2>2
<1>10. ASSUME NEW o \in Windows, RunStarted(o) \/ Adopt(o) PROVE \A w \in Windows : Fine(queue'[w], at')
  <2>1. queue' = queue \/ queue' = [queue EXCEPT ![o] = <<>>]
    BY <1>10 DEF RunStarted, Adopt, events
  <2>2. Paired(<<>>) /\ NoEnd(<<>>)
    BY DEF Paired, NoEnd
  <2>3. \A w \in Windows : queue'[w] = queue[w] \/ queue'[w] = <<>>
    BY <2>1 DEF WinTypes
  <2> QED
    BY <1>0, <2>2, <2>3
<1>11. ASSUME NEW o \in Windows, Clicks(o) PROVE \A w \in Windows : Fine(queue'[w], at')
  <2>1. UNCHANGED queue
    BY <1>11, ClicksLeave
  <2> QED
    BY <1>0, <2>1
<1> HIDE DEF Fine
<1> QED
  BY <1>4, <1>5, <1>6, <1>7, <1>8, <1>9, <1>10, <1>11, StepKinds, Zenon

-----------------------------------------------------------------------------
(* The gate, the stages and the end, in what the events amount to *)

\* A node that waits at its second gate was not rejected at its first.
LEMMA FirstGrantedStep == ASSUME Base, FirstGranted, [Next]_vars PROVE FirstGranted'
<1> USE DEF FirstGranted
<1>0. Places /\ PastGates /\ answers \in Seq(Answers) /\ Len(answers) \in Nat
  BY DEF Base, Places
<1>1. CASE CheckBudget
  BY <1>1 DEF CheckBudget, node
<1>2. CASE AgentFileGate
  <2>1. pc' = "suspended" => Len(answers) < 1
    BY <1>2 DEF AgentFileGate, Gate
  <2> QED
    BY <1>0, <1>2, <2>1 DEF AgentFileGate, node
<1>3. CASE Produce
  BY <1>3 DEF Produce
<1>4. CASE ProduceFails
  BY <1>0, <1>4 DEF ProduceFails, PastGates, node
<1>5. CASE OutputGate
  BY <1>0, <1>5 DEF OutputGate, Gate, PastGates
<1>6. CASE Finish
  BY <1>6 DEF Finish
<1>7. CASE FinishFails
  BY <1>7 DEF FinishFails, node
<1>8. CASE WriteSkill
  BY <1>8 DEF WriteSkill, node
<1>9. ASSUME NEW decision \in Answers, Answer(decision) PROVE FirstGranted'
  BY <1>9 DEF Answer
<1>10. CASE EditOnDisk \/ UNCHANGED vars
  BY <1>10 DEF EditOnDisk, vars, node
<1> QED
  BY <1>1, <1>2, <1>3, <1>4, <1>5, <1>6, <1>7, <1>8, <1>9, <1>10 DEF Next, Answers

\* The steps in which the events of the run amount to more.
LEMMA ReplayKinds ==
  ASSUME Base, WinTypes, BeforeTheRun, [DashNext]_<<vars, dashVars>>
  PROVE  \/ RunGraph \/ Present \/ Launched \/ \E w \in Windows : Broadcast(w) \/ Tell(w)
         \/ /\ UNCHANGED replay
            /\ \/ Wake \/ Resumption \/ (EditOnDisk /\ UNCHANGED dashVars) \/ UNCHANGED <<vars, dashVars>>
               \/ \E w \in Windows : Window(w)
<1>1. CASE Wake \/ Resumption
  BY <1>1 DEF Wake, Resumption, events
<1>2. UNCHANGED dashVars => UNCHANGED replay
  BY DEF dashVars, events
<1>3. ASSUME NEW w \in Windows, Window(w), ~(Broadcast(w) \/ Tell(w)) PROVE UNCHANGED replay
  <2>1. CASE StartRoute(w) \/ SetDecision(w) \/ Cancel(w) \/ Switch(w)
    BY <2>1 DEF StartRoute, SetDecision, Cancel, Switch, events
  <2> QED
    BY <1>3, <2>1, WindowFrame
<1> QED
  BY <1>1, <1>2, <1>3, Zenon DEF DashNext, dashVars

\* What is done was granted.
LEMMA DoneStep ==
  ASSUME Base, Carried, WinTypes, Thread, BeforeTheRun, FirstGranted, DoneIsGranted, [DashNext]_<<vars, dashVars>>
  PROVE  DoneIsGranted'
<1>0. granted \subseteq granted' /\ (status # "running" => UNCHANGED status)
  BY StepIsStep, RunMoves
<1> DEFINE Had(s) == \E k \in Comprehender .. Tester : Shown[k] = s /\ <<k, 1>> \in granted
           Has(s) == \E k \in Comprehender .. Tester : Shown[k] = s /\ <<k, 1>> \in granted'
<1>1. ASSUME NEW s PROVE Had(s) => Has(s)
  BY <1>0
<1>2. SUFFICES ASSUME NEW s \in Stages \ {"launch"}, replay'.stages[s] = "done" PROVE status' = "completed" \/ Has(s)
  BY DEF DoneIsGranted
<1>3. replay.stages[s] = "done" => status' = "completed" \/ Has(s)
  BY <1>0, <1>1 DEF DoneIsGranted
<1>4. replay \in Views
  BY DEF WinTypes
<1> HIDE DEF Had, Has
<1>5. CASE RunGraph
  <2>1. CASE status' = "running"
    BY <1>2, <1>3, <1>5, <2>1, ReplayGraph
  <2>2. CASE status' \in {"budget", "rejected", "failed"}
    <3>1. replay'.stages = replay.stages \/ replay'.stages = MarkActiveAsFailed(replay.stages)
      BY <1>5, <2>2, ReplayGraph
    <3>2. replay.stages[s] = "done"
      BY <1>2, <3>1 DEF MarkActiveAsFailed
    <3> QED
      BY <1>3, <3>2
  <2>3. status' \in {"running", "budget", "rejected", "failed", "completed"}
    BY <1>5, GraphTells
  <2> QED
    BY <2>1, <2>2, <2>3
<1>6. CASE Present
  <2>1. replay'.stages[s] = replay.stages[s] \/ replay'.stages[s] = "active" \/ (s = Shown[stage] /\ Len(answers) = 1)
    BY <1>2, <1>6, ReplayPresent
  <2>2. CASE s = Shown[stage] /\ Len(answers) = 1
    <3>1. stage \in Comprehender .. Tester /\ pc = "suspended"
      BY <1>6, ReplayPresent DEF Present
    <3>2. answers[1] # "reject"
      BY <2>2, <3>1 DEF FirstGranted
    <3>3. <<stage, 1>> \in granted'
      BY <1>0, <2>2, <3>2 DEF Base, Grants
    <3> QED
      BY <2>2, <3>1, <3>3 DEF Has
  <2> QED
    BY <1>2, <1>3, <2>1, <2>2
<1>7. CASE Launched
  BY <1>2, <1>3, <1>7, ReplayLaunched
<1>8. ASSUME NEW w \in Windows, Broadcast(w) \/ Tell(w) PROVE replay'.stages = replay.stages
  BY <1>8, ReplayBroadcast, ReplayTell
<1>9. CASE UNCHANGED replay
  BY <1>2, <1>3, <1>9
<1> QED
  BY <1>2, <1>3, <1>5, <1>6, <1>7, <1>8, <1>9, ReplayKinds

\* Every agent that is told of is told to have ended.
LEMMA NobodyStep ==
  ASSUME Base, WinTypes, BeforeTheRun, NobodyLeft, [DashNext]_<<vars, dashVars>>
  PROVE  NobodyLeft'
<1> USE DEF NobodyLeft
<1>1. CASE RunGraph
  <2>1. \/ replay'.agents = replay.agents
        \/ \E a \in Agents, ends \in {"TORN_DOWN", "FAILED"} : replay'.agents = [replay.agents EXCEPT ![a] = ends]
    BY <1>1, ReplayGraph
  <2>2. replay.agents \in [Agents -> AgentMarks]
    BY DEF WinTypes, Views
  <2> QED
    BY <2>1, <2>2
<1>2. CASE Present \/ Launched
  BY <1>2, ReplayPresent, ReplayLaunched
<1>3. ASSUME NEW w \in Windows, Broadcast(w) \/ Tell(w) PROVE replay'.agents = replay.agents
  BY <1>3, ReplayBroadcast, ReplayTell
<1>4. CASE UNCHANGED replay
  BY <1>4
<1> QED
  BY <1>1, <1>2, <1>3, <1>4, ReplayKinds

\* The end the run came to is the end that was told.
LEMMA EndStep ==
  ASSUME Base, Carried, WinTypes, Thread, BeforeTheRun, EndInReplay, WinTypes', [DashNext]_<<vars, dashVars>>
  PROVE  EndInReplay'
<1>0. [Next]_vars /\ (status # "running" => UNCHANGED status) /\ replay \in Views /\ replay' \in Views
  BY StepIsStep, RunMoves DEF WinTypes
<1> DEFINE Launching(v) == /\ ~stray => v.status = "completed"
                           /\ \A s \in Stages \ {"launch"} : v.stages[s] # "active"
           Over(v) ==
             /\ ~stray => v.status = CASE status \in {"budget", "failed"} -> "failed"
                                       [] status = "rejected" /\ cancelled -> "cancelled"
                                       [] OTHER -> status
             /\ (status = "rejected" => cancelled) => \A s \in Stages : v.stages[s] # "active"
<1>1. CASE RunGraph
  <2>1. at' = (IF status' = "running" THEN "free" ELSE IF status' = "completed" THEN "launch" ELSE "over")
        /\ UNCHANGED <<cancelled, stray>> /\ status' \in {"running", "budget", "rejected", "failed", "completed"}
    BY <1>1, GraphTells DEF screens, history
  <2>2. CASE status' = "running"
    BY <2>1, <2>2 DEF EndInReplay
  <2>3. CASE status' = "completed"
    <3>1. replay'.status = "completed" /\ \A s \in Stages \ {"launch"} : replay'.stages[s] = "done"
      BY <1>1, <2>3, ReplayGraph
    <3> QED
      BY <2>1, <2>3, <3>1 DEF EndInReplay
  <2>4. CASE status' \in {"budget", "rejected", "failed"}
    <3>1. /\ replay'.status = IF status' # "rejected" THEN "failed" ELSE IF cancelled THEN "cancelled" ELSE "rejected"
          /\ replay'.stages = IF status' = "rejected" /\ ~cancelled THEN replay.stages ELSE MarkActiveAsFailed(replay.stages)
      BY <1>1, <2>4, ReplayGraph
    <3>2. \A s \in Stages : MarkActiveAsFailed(replay.stages)[s] # "active"
      BY DEF MarkActiveAsFailed
    <3>3. at' = "over"
      BY <2>1, <2>4
    <3>4. replay'.status = CASE status' \in {"budget", "failed"} -> "failed"
                             [] status' = "rejected" /\ cancelled' -> "cancelled"
                             [] OTHER -> status'
      <4>1. CASE status' \in {"budget", "failed"}
        <5>1. status' # "rejected"
          BY <4>1
        <5> QED
          BY <3>1, <4>1, <5>1
      <4>2. CASE status' = "rejected"
        BY <2>1, <3>1, <4>2
      <4> QED
        BY <2>4, <4>1, <4>2
    <3>5. (status' = "rejected" => cancelled') => \A s \in Stages : replay'.stages[s] # "active"
      BY <2>1, <3>1, <3>2
    <3> QED
      BY <3>3, <3>4, <3>5 DEF EndInReplay
  <2> QED
    BY <2>1, <2>2, <2>3, <2>4
<1>2. CASE Launched
  <2>1. at = "launch" /\ at' = "over" /\ UNCHANGED <<cancelled, stray, status>>
    BY <1>2 DEF Launched, screens, history, vars
  <2>2. status = "completed"
    BY <2>1 DEF Thread
  <2>3. /\ SameDialog(replay', replay) /\ replay'.stages["launch"] = "done"
        /\ \A s \in Stages \ {"launch"} : replay'.stages[s] = replay.stages[s]
    BY <1>2, ReplayLaunched
  <2>4. \A s \in Stages : replay'.stages[s] # "active"
    <3>1. \A s \in Stages \ {"launch"} : replay'.stages[s] # "active"
      BY <2>1, <2>3 DEF EndInReplay
    <3> QED
      BY <2>3, <3>1
  <2>5. ~stray => replay'.status = "completed"
    BY <2>1, <2>3 DEF EndInReplay, SameDialog
  <2>6. "completed" = CASE status' \in {"budget", "failed"} -> "failed"
                             [] status' = "rejected" /\ cancelled' -> "cancelled"
                             [] OTHER -> status'
    BY <2>1, <2>2
  <2> QED
    BY <2>1, <2>4, <2>5, <2>6 DEF EndInReplay
<1>3. CASE at' \notin {"launch", "over"}
  BY <1>3 DEF EndInReplay
<1>4. ASSUME UNCHANGED <<at, status, cancelled>>, replay'.stages = replay.stages, ~stray' => ~stray /\ replay'.status = replay.status
      PROVE  EndInReplay'
  BY <1>4 DEF EndInReplay
<1>5. ASSUME NEW w \in Windows, Window(w) PROVE EndInReplay'
  <2>0. UNCHANGED vars
    BY <1>5, WindowFrame
  <2>1. CASE StartRoute(w)
    <3>1. at' \notin {"launch", "over"}
      BY <2>1 DEF StartRoute, Step, BeforeTheRun
    <3> QED
      BY <1>3, <3>1
  <2>2. CASE Broadcast(w)
    <3>1. UNCHANGED <<at, cancelled>> /\ stray' = (stray \/ at # "waiting" \/ signal.set \/ Answering # {})
      BY <2>2 DEF Broadcast, server
    <3>2. replay'.stages = replay.stages
      BY <2>2, ReplayBroadcast
    <3>3. at \in {"launch", "over"} => stray'
      BY <3>1
    <3> QED
      BY <2>0, <3>1, <3>2, <3>3 DEF EndInReplay, vars
  <2>3. CASE Tell(w)
    <3>1. UNCHANGED <<at, cancelled, stray>>
      BY <2>3 DEF Tell, server
    <3>2. replay'.stages = replay.stages /\ replay'.status = replay.status
      BY <2>3, ReplayTell DEF SameDialog
    <3> QED
      BY <1>4, <2>0, <3>1, <3>2 DEF vars
  <2>4. CASE SetDecision(w) \/ Switch(w)
    <3>1. UNCHANGED <<at, cancelled, stray, replay>>
      BY <2>4 DEF SetDecision, Switch, events, history
    <3> QED
      BY <1>4, <2>0, <3>1 DEF vars
  <2>5. CASE Cancel(w)
    <3>1. UNCHANGED <<at, stray, replay>> /\ (status # "running" => UNCHANGED cancelled)
      BY <2>5 DEF Cancel, events, history
    <3>2. CASE at \in {"launch", "over"}
      <4>1. status # "running"
        BY <3>2 DEF Thread
      <4> QED
        BY <1>4, <2>0, <3>1, <4>1 DEF vars
    <3> QED
      BY <1>3, <3>1, <3>2
  <2> QED
    BY <1>4, <1>5, <2>0, <2>1, <2>2, <2>3, <2>4, <2>5, WindowFrame DEF vars
<1>6. CASE Present \/ Wake \/ Resumption
  <2>1. at' \notin {"launch", "over"}
    BY <1>6 DEF Present, Wake, Resumption
  <2> QED
    BY <1>3, <2>1
<1>7. CASE EditOnDisk /\ UNCHANGED dashVars
  <2>1. UNCHANGED <<at, cancelled, replay, stray, status>>
    BY <1>7 DEF EditOnDisk, dashVars, server, events, history
  <2> QED
    BY <1>4, <2>1
<1>8. CASE UNCHANGED <<vars, dashVars>>
  <2>1. UNCHANGED <<at, cancelled, replay, stray, status>>
    BY <1>8 DEF vars, dashVars, server, events, history
  <2> QED
    BY <1>4, <2>1
<1> QED
  BY <1>1, <1>2, <1>5, <1>6, <1>7, <1>8, Zenon DEF DashNext

\* Whether the run is paused was told, but for a request that is about to tell it.
LEMMA PauseStep ==
  ASSUME Base, Carried, WinTypes, Thread, BeforeTheRun, PauseInReplay, WinTypes', [DashNext]_<<vars, dashVars>>
  PROVE  PauseInReplay'
<1>0. [Next]_vars /\ (status # "running" => UNCHANGED status) /\ replay \in Views /\ replay' \in Views
  BY StepIsStep, RunMoves DEF WinTypes
<1>1. SUFFICES ASSUME ~crossed', ~cancelled', status' = "running" PROVE PauseInReplay'
  BY DEF PauseInReplay
<1>2. status = "running"
  BY <1>0, <1>1
<1> DEFINE Ok == /\ \A o, p \in Windows : Switching(o) /\ Switching(p) => o = p
                 /\ \A o \in Windows : Switching(o) => paused = (post[o].req = "pause")
                 /\ (\A o \in Windows : ~Switching(o)) => replay.paused = paused
<1>9. ASSUME ~crossed, ~cancelled PROVE Ok
  BY <1>2, <1>9 DEF PauseInReplay
<1>3. ASSUME UNCHANGED <<crossed, cancelled>> PROVE Ok
  BY <1>1, <1>3, <1>9
<1>4. ASSUME UNCHANGED <<crossed, cancelled, paused, post>>, replay'.paused = replay.paused PROVE PauseInReplay'
  <2>1. Ok
    BY <1>3, <1>4
  <2> QED
    BY <1>4, <2>1 DEF PauseInReplay, Switching
<1>5. CASE RunGraph \/ Present \/ Launched
  <2>1. UNCHANGED <<crossed, cancelled, paused, post>>
    BY <1>5, GraphTells DEF Present, Launched, screens, history
  <2>2. CASE RunGraph \/ Present
    BY <1>1, <1>4, <2>1, <2>2, ReplayGraph, ReplayPresent
  <2>3. CASE Launched
    BY <1>2, <2>3 DEF Launched, Thread
  <2> QED
    BY <1>5, <2>2, <2>3
<1>6. CASE Wake \/ Resumption
  BY <1>4, <1>6 DEF Wake, Resumption, events, screens, history
<1>7. CASE UNCHANGED dashVars
  BY <1>4, <1>7 DEF dashVars, server, events, screens, history
<1>8. ASSUME NEW w \in Windows, Window(w) PROVE PauseInReplay'
  <2>1. CASE StartRoute(w) \/ SetDecision(w) \/ Broadcast(w)
    <3>1. UNCHANGED <<crossed, cancelled, paused>>
      BY <2>1 DEF StartRoute, SetDecision, Broadcast, server, history
    <3>2. replay'.paused = replay.paused
      <4>1. CASE Broadcast(w)
        BY <4>1, ReplayBroadcast DEF SameProgress
      <4>2. CASE StartRoute(w) \/ SetDecision(w)
        BY <4>2 DEF StartRoute, SetDecision, events
      <4> QED
        BY <2>1, <4>1, <4>2
    <3>3. \A o \in Windows : (~Switching(o)' /\ ~Switching(o)) \/ post'[o] = post[o]
      <4>1. post[w].req \in {"start", "approve"} /\ (Done(w) \/ Next2(w))
        BY <2>1, Zenon DEF StartRoute, SetDecision, Broadcast, Step
      <4>2. (\A o \in Windows \ {w} : post'[o] = post[o]) /\ post'[w].req \in {"none", post[w].req}
        BY <4>1, TakenStep DEF Idle
      <4> QED
        BY <4>1, <4>2 DEF Switching
    <3>4. Ok
      BY <1>3, <3>1
    <3> QED
      BY <3>1, <3>2, <3>3, <3>4 DEF PauseInReplay, Switching
  <2>2. CASE Cancel(w)
    <3>1. cancelled'
      BY <1>2, <2>2 DEF Cancel
    <3> QED
      BY <1>1, <3>1
  <2>3. CASE Switch(w)
    <3>1. /\ UNCHANGED <<cancelled, replay>> /\ post[w].step = 1 /\ post[w].req \in {"pause", "resume"}
          /\ crossed' = (crossed \/ \E o \in Windows \ {w} : Switching(o))
          /\ \/ UNCHANGED paused /\ Done(w)
             \/ Next2(w) /\ paused' = (post[w].req = "pause")
      BY <2>3, Zenon DEF Switch, Step, events, Switching
    <3>2. ~crossed /\ ~cancelled /\ \A o \in Windows : ~Switching(o)
      <4>1. \A o \in Windows \ {w} : ~Switching(o)
        BY <1>1, <3>1, Zenon
      <4>2. ~Switching(w)
        BY <3>1 DEF Switching
      <4> QED
        BY <1>1, <3>1, <4>1, <4>2
    <3>3. Ok
      BY <1>9, <3>2
    <3>4. \A o \in Windows \ {w} : ~Switching(o)'
      BY <3>1, <3>2, TakenStep DEF Switching
    <3>5. CASE UNCHANGED paused /\ Done(w)
      <4>1. ~Switching(w)'
        BY <3>5, TakenStep DEF Switching, Idle
      <4> QED
        BY <3>1, <3>2, <3>3, <3>4, <3>5, <4>1 DEF PauseInReplay
    <3>6. CASE Next2(w) /\ paused' = (post[w].req = "pause")
      <4>1. Switching(w)' /\ post'[w].req = post[w].req
        BY <3>1, <3>6, TakenStep DEF Switching
      <4> QED
        BY <3>4, <3>6, <4>1 DEF PauseInReplay
    <3> QED
      BY <3>1, <3>5, <3>6
  <2>4. CASE Tell(w)
    <3>1. /\ UNCHANGED <<cancelled, paused>> /\ Switching(w) /\ Done(w) /\ crossed' = (crossed \/ status # "running")
      BY <2>4, Zenon DEF Tell, server, Switching
    <3>2. Ok
      BY <1>1, <1>2, <3>1 DEF PauseInReplay
    <3>3. at # "over"
      BY <1>2 DEF Thread
    <3>4. replay'.paused = (post[w].req = "pause")
      BY <2>4, <3>3, ReplayTell
    <3>5. \A o \in Windows : ~Switching(o)'
      BY <3>1, <3>2, TakenStep DEF Switching, Idle
    <3> QED
      BY <3>1, <3>2, <3>4, <3>5 DEF PauseInReplay
  <2>5. ASSUME UNCHANGED <<cancelled, paused, replay, crossed>>, 
               \A o \in Windows : (Switching(o)' <=> Switching(o)) /\ (Switching(o) => post'[o] = post[o])
        PROVE  PauseInReplay'
    <3>1. Ok
      BY <1>3, <2>5
    <3> QED
      BY <2>5, <3>1 DEF PauseInReplay
  <2> QED
    BY <1>8, <2>1, <2>2, <2>3, <2>4, <2>5, WindowFrame
<1> QED
  BY <1>5, <1>6, <1>7, <1>8, Zenon DEF DashNext, dashVars

-----------------------------------------------------------------------------
(* The dialog *)

\* Which gate waits is told, and that none does.
LEMMA GateStep ==
  ASSUME Base, Carried, WinTypes, Thread, BeforeTheRun, GateInReplay, WinTypes', [DashNext]_<<vars, dashVars>>
  PROVE  GateInReplay'
<1> DEFINE Asked(w) == \A o, p \in w : o = p
<1>0. replay \in Views /\ replay' \in Views /\ signal.set \in BOOLEAN /\ signal'.set \in BOOLEAN /\ stray \in BOOLEAN /\ cancelled \in BOOLEAN
  BY DEF WinTypes
<1>1. ASSUME UNCHANGED <<signal, cancelled, stray>>, Answering' = Answering, replay'.approval = replay.approval,
             (at # "waiting" /\ at' # "waiting") \/ UNCHANGED <<at, stage, answers>>
      PROVE  GateInReplay'
  BY <1>1 DEF GateInReplay, Asking
<1>2. CASE RunGraph
  <2>1. at = "free" /\ at' \in {"free", "launch", "over"} /\ UNCHANGED <<signal, cancelled, screens, history>>
    BY <1>2, GraphTells
  <2>2. replay'.approval = replay.approval
    BY <1>2, ReplayGraph
  <2>3. Answering' = Answering /\ UNCHANGED stray
    BY <2>1 DEF Answering, screens, history
  <2> QED
    BY <1>1, <2>1, <2>2, <2>3
<1>3. CASE Present
  <2>1. at = "free" /\ at' = "waiting" /\ ~cancelled /\ UNCHANGED <<signal, cancelled, screens, history, vars>>
    BY <1>3, Zenon DEF Present
  <2>2. Answering' = Answering /\ UNCHANGED <<stray, stage, answers>>
    BY <2>1 DEF Answering, screens, history, vars, node
  <2>3. replay'.approval = [stage |-> stage, gate |-> Len(answers) + 1]
    BY <1>3, ReplayPresent
  <2> HIDE DEF Answering
  <2> QED
    BY <2>1, <2>2, <2>3 DEF GateInReplay, Asking
<1>4. CASE Wake
  <2>1. /\ at = "waiting" /\ at' = "decided" /\ signal.set /\ signal' = [set |-> FALSE, decision |-> signal.decision]
        /\ UNCHANGED <<cancelled, events, screens, history>>
    BY <1>4 DEF Wake
  <2>2. Answering' = Answering /\ UNCHANGED <<stray, replay>>
    BY <2>1 DEF Answering, screens, history, events
  <2>3. ~signal'.set
    BY <2>1
  <2> QED
    BY <2>1, <2>2, <2>3 DEF GateInReplay, Asking
<1>5. CASE Resumption
  <2>1. at \in {"free", "decided"} /\ at' = "free" /\ UNCHANGED <<signal, cancelled, events, screens, history>>
    BY <1>5 DEF Resumption
  <2>2. Answering' = Answering /\ UNCHANGED <<stray, replay>>
    BY <2>1 DEF Answering, screens, history, events
  <2> QED
    BY <1>1, <2>1, <2>2
<1>6. CASE Launched
  <2>1. at = "launch" /\ at' = "over" /\ UNCHANGED <<signal, cancelled, screens, history>>
    BY <1>6, Zenon DEF Launched
  <2>2. replay'.approval = replay.approval
    BY <1>6, ReplayLaunched DEF SameDialog
  <2>3. Answering' = Answering /\ UNCHANGED stray
    BY <2>1 DEF Answering, screens, history
  <2> QED
    BY <1>1, <2>1, <2>2, <2>3
<1>7. CASE UNCHANGED dashVars /\ (EditOnDisk \/ UNCHANGED vars)
  <2>1. UNCHANGED <<at, signal, cancelled, stray, replay, stage, answers>> /\ Answering' = Answering
    BY <1>7 DEF EditOnDisk, vars, node, dashVars, server, events, screens, history, Answering
  <2> QED
    BY <1>1, <2>1
<1>8. ASSUME NEW w \in Windows, Window(w) PROVE GateInReplay'
  <2>0. UNCHANGED <<stage, answers>> /\ \A o \in Windows \ {w} : post'[o] = post[o]
    BY <1>8, WindowFrame DEF vars, node
  <2>1. CASE StartRoute(w)
    <3>1. /\ post[w].req = "start" /\ UNCHANGED <<signal, cancelled, stray, replay>> /\ (Done(w) \/ Next2(w)) /\ at = "none" /\ at' \in {at, "free"}
      BY <2>1 DEF StartRoute, Step, events, history, BeforeTheRun
    <3>2. post'[w].req \in {"none", "start"}
      BY <3>1, TakenStep DEF Idle
    <3>3. Answering' = Answering
      BY <2>0, <3>1, <3>2 DEF Answering
    <3> QED
      BY <1>1, <3>1, <3>3
  <2>2. CASE Broadcast(w)
    <3>1. /\ UNCHANGED <<at, signal, cancelled>> /\ post[w].req = "approve" /\ post[w].step = 1 /\ Next2(w)
          /\ stray' = (stray \/ at # "waiting" \/ signal.set \/ Answering # {})
      BY <2>2 DEF Broadcast, Step, server
    <3>2. Answering' = Answering \cup {w}
      <4>1. post'[w].req = "approve" /\ post'[w].step = 2
        BY <3>1, TakenStep
      <4> QED
        BY <2>0, <4>1 DEF Answering
    <3>3. ~stray' => ~stray /\ at = "waiting" /\ ~signal.set /\ Answering = {}
      BY <3>1
    <3>4. at # "over" => replay'.approval = NoDialog
      BY <2>2, ReplayBroadcast
    <3> HIDE DEF Answering
    <3>5. ~Asking'
      BY <3>2 DEF Asking
    <3> QED
      BY <3>1, <3>2, <3>3, <3>4, <3>5 DEF GateInReplay
  <2>3. CASE SetDecision(w)
    <3>1. /\ UNCHANGED <<at, cancelled, stray, replay>> /\ w \in Answering /\ Done(w)
          /\ signal' = [set |-> TRUE, decision |-> post[w].decision]
      BY <2>3 DEF SetDecision, Step, events, history, Answering
    <3>2. Answering' = Answering \ {w}
      <4>1. post'[w] = Idle /\ Idle.req # "approve"
        BY <3>1, TakenStep DEF Idle
      <4> QED
        BY <2>0, <4>1 DEF Answering
    <3>3. signal'.set
      BY <3>1
    <3> HIDE DEF Answering
    <3>4. ~Asking /\ ~Asking'
      BY <3>1, <3>3 DEF Asking
    <3> QED
      BY <3>1, <3>2, <3>3, <3>4 DEF GateInReplay
  <2>4. CASE Cancel(w)
    <3>1. /\ UNCHANGED <<at, stray, replay>> /\ post[w].req = "cancel" /\ Done(w)
          /\ \/ cancelled' = TRUE /\ signal' = [set |-> TRUE, decision |-> "reject"]
             \/ UNCHANGED <<cancelled, signal>>
      BY <2>4 DEF Cancel, Step, events, history
    <3>2. Answering' = Answering
      <4>1. post'[w] = Idle /\ Idle.req # "approve"
        BY <3>1, TakenStep DEF Idle
      <4> QED
        BY <2>0, <3>1, <4>1 DEF Answering
    <3>3. CASE cancelled' = TRUE /\ signal' = [set |-> TRUE, decision |-> "reject"]
      <4>1. signal'.set /\ cancelled'
        BY <3>3
      <4> QED
        BY <3>1, <3>2, <4>1 DEF GateInReplay
    <3> QED
      BY <1>1, <2>0, <3>1, <3>2, <3>3
  <2>5. CASE Switch(w) \/ Tell(w)
    <3>1. UNCHANGED <<at, signal, cancelled, stray>> /\ post[w].req \in {"pause", "resume"} /\ (Done(w) \/ Next2(w))
      BY <2>5, Zenon DEF Switch, Tell, Step, server
    <3>2. Answering' = Answering
      <4>1. post'[w].req # "approve" /\ post[w].req # "approve"
        BY <3>1, TakenStep DEF Idle
      <4> QED
        BY <2>0, <4>1 DEF Answering
    <3>3. replay'.approval = replay.approval
      <4>1. CASE Switch(w)
        BY <4>1 DEF Switch, events
      <4>2. CASE Tell(w)
        BY <4>2, ReplayTell DEF SameDialog
      <4> QED
        BY <2>5, <4>1, <4>2
    <3> QED
      BY <1>1, <2>0, <3>1, <3>2, <3>3
  <2>6. CASE UNCHANGED <<at, signal, cancelled, paused, replay, stray, crossed>> /\ Answering' = Answering
    BY <1>1, <2>0, <2>6
  <2> QED
    BY <1>8, <2>1, <2>2, <2>3, <2>4, <2>5, <2>6, WindowFrame
<1> QED
  BY <1>2, <1>3, <1>4, <1>5, <1>6, <1>7, <1>8, Zenon DEF DashNext, dashVars

\* Two windows whose dialog is closed show the same of it.
LEMMA ClosedSame == ASSUME NEW u, NEW v, IsClosed(u), IsClosed(v) PROVE SameDialog(u, v)
BY DEF IsClosed, SameDialog

\* What a window does without an event asks for no answer anew, and tunes no one back in.
LEMMA ClicksAsk ==
  ASSUME WinTypes, BeforeTheRun, NEW o \in Windows, Clicks(o)
  PROVE  (Asking' => Asking) /\ blind \subseteq blind'
<1>0. \A p \in Windows \ {o} : post'[p] = post[p]
  BY WindowFrame, Zenon DEF Clicks, Window
<1>1. ASSUME UNCHANGED <<at, signal>>, o \notin Answering PROVE Asking' => Asking
  <2>1. Answering \subseteq Answering'
    BY <1>0, <1>1 DEF Answering
  <2> QED
    BY <1>1, <2>1 DEF Asking
<1>2. CASE StartRun(o)
  <2>1. UNCHANGED <<at, blind>> /\ at = "none"
    BY <1>2 DEF StartRun, server, history
  <2> QED
    BY <2>1 DEF Asking
<1>3. CASE StartRoute(o)
  <2>1. post[o].req = "start" /\ at' \in {at, "free"} /\ UNCHANGED blind /\ post[o].step = 1
    BY <1>3 DEF StartRoute, Step, history
  <2>2. at = "none"
    BY <2>1 DEF BeforeTheRun
  <2> QED
    BY <2>1, <2>2 DEF Asking
<1>4. CASE Lose(o)
  <2>1. UNCHANGED <<at, signal>> /\ blind \subseteq blind' /\ (post[o].step = 1 \/ post[o].req = "start")
    BY <1>4 DEF Lose, server
  <2> QED
    BY <1>1, <2>1 DEF Answering
<1>5. CASE SetDecision(o)
  <2>1. signal'.set /\ UNCHANGED blind
    BY <1>5 DEF SetDecision, history
  <2> QED
    BY <2>1 DEF Asking
<1>6. CASE Cancel(o)
  <2>1. UNCHANGED <<at, blind>> /\ (signal'.set \/ UNCHANGED signal) /\ post[o].req = "cancel"
    BY <1>6 DEF Cancel, Step, history
  <2>2. o \notin Answering
    BY <2>1 DEF Answering
  <2> QED
    BY <1>1, <2>1, <2>2 DEF Asking
<1>7. CASE Switch(o)
  <2>1. UNCHANGED <<at, signal, blind>> /\ post[o].req \in {"pause", "resume"}
    BY <1>7 DEF Switch, Step
  <2> QED
    BY <1>1, <2>1 DEF Answering
<1>8. ASSUME NEW d \in {"approve", "edit", "reject"}, SendApproval(o, d) PROVE (Asking' => Asking) /\ blind \subseteq blind'
  <2>1. UNCHANGED <<at, signal, blind>> /\ post[o].req = "none"
    BY <1>8 DEF SendApproval, server, history, Idle
  <2> QED
    BY <1>1, <2>1 DEF Answering
<1>9. ASSUME NEW req \in {"cancel", "pause", "resume"}, Ask(o, req) PROVE (Asking' => Asking) /\ blind \subseteq blind'
  <2>1. UNCHANGED <<at, signal, blind>> /\ post[o].req = "none"
    BY <1>9 DEF Ask, server, history, Idle
  <2> QED
    BY <1>1, <2>1 DEF Answering
<1> QED
  BY <1>2, <1>3, <1>4, <1>5, <1>6, <1>7, <1>8, <1>9, Zenon DEF Clicks

\* What every window shows of a gate is what was told of it.
LEMMA DialogStep ==
  ASSUME Base, Carried, WinTypes, Thread, BeforeTheRun, GateInReplay, QueueInOrder, FollowsDialog,
         WinTypes', [DashNext]_<<vars, dashVars>>
  PROVE  FollowsDialog'
<1> DEFINE Unsent(p) == p.req = "approve" /\ p.step = 1
           Fine(v) == IsClosed(v) \/ v.approval # NoDialog
<1>0. /\ tuned \subseteq Windows /\ replay \in Views /\ replay' \in Views /\ stray \in BOOLEAN /\ stray' \in BOOLEAN
      /\ post \in PostTypes /\ post' \in PostTypes /\ blind \subseteq Windows
      /\ \A w \in Windows : queue[w] \in Seq(Events) /\ queue'[w] \in Seq(Events) /\ view[w] \in Views /\ view'[w] \in Views
      /\ \A w \in Windows : Shows(w) \in Views
  <2>1. \A w \in Windows : queue[w] \in Seq(Events) /\ view[w] \in Views
    BY DEF WinTypes
  <2>2. \A w \in Windows : Shows(w) \in Views
    BY <2>1, FoldType DEF Shows
  <2>3. tuned \subseteq Windows /\ stray \in BOOLEAN /\ blind \subseteq Windows /\ post \in PostTypes /\ replay \in Views
    BY DEF WinTypes, PostTypes
  <2>4. stray' \in BOOLEAN /\ post' \in PostTypes /\ replay' \in Views
    BY DEF WinTypes, PostTypes
  <2>5. \A w \in Windows : queue'[w] \in Seq(Events) /\ view'[w] \in Views
    BY DEF WinTypes
  <2> QED
    BY <2>1, <2>2, <2>3, <2>4, <2>5
<1>1. \A w \in tuned \ blind : ~stray =>
        /\ ~Unsent(post[w]) => SameDialog(Shows(w), replay)
        /\ Unsent(post[w]) /\ Asking => Fine(Shows(w))
  <2>1. \A w \in tuned : Unsent(post[w]) <=> ~(post[w].req # "approve" \/ post[w].step = 2)
    BY <1>0 DEF PostTypes, BeforeTheRun
  <2> QED
    BY <2>1 DEF FollowsDialog
<1>2. SUFFICES ASSUME ~stray', NEW w \in tuned', w \notin blind'
               PROVE  /\ ~Unsent(post'[w]) => SameDialog(Shows(w), replay)'
                      /\ Unsent(post'[w]) /\ Asking' => Fine(Shows(w)')
  BY DEF FollowsDialog
<1>3. ~stray /\ (w \in blind => \E o \in Windows : Adopt(o))
  <2>1. CASE RunGraph \/ Present \/ Launched \/ Wake \/ Resumption \/ UNCHANGED dashVars
    <3>1. UNCHANGED <<blind, stray>>
      BY <2>1, ThreadFrame DEF ThreadSteps
    <3> QED
      BY <1>2, <3>1
  <2>2. ASSUME NEW o \in Windows, Window(o) PROVE ~stray /\ (w \in blind => \E p \in Windows : Adopt(p))
    <3>1. stray => stray'
      <4>1. CASE Broadcast(o)
        BY <4>1 DEF Broadcast
      <4>2. CASE StartRoute(o) \/ SetDecision(o) \/ Cancel(o) \/ Switch(o) \/ Tell(o)
        BY <4>2 DEF StartRoute, SetDecision, Cancel, Switch, Tell, history
      <4> QED
        BY <2>2, <4>1, <4>2, WindowFrame
    <3>2. blind' \in {blind, blind \cup {o}} \/ Adopt(o)
      <4>1. CASE Broadcast(o) \/ Lose(o)
        BY <4>1 DEF Broadcast, Lose
      <4>2. CASE StartRun(o) \/ StartRoute(o) \/ RunStarted(o) \/ Receive(o) \/ SetDecision(o) \/ Cancel(o) \/ Switch(o) \/ Tell(o)
        BY <4>2 DEF StartRun, StartRoute, RunStarted, Receive, SetDecision, Cancel, Switch, Tell, history
      <4>3. ASSUME NEW d \in {"approve", "edit", "reject"}, SendApproval(o, d) PROVE UNCHANGED blind
        BY <4>3 DEF SendApproval, history
      <4>4. ASSUME NEW req \in {"cancel", "pause", "resume"}, Ask(o, req) PROVE UNCHANGED blind
        BY <4>4 DEF Ask, history
      <4> QED
        BY <2>2, <4>1, <4>2, <4>3, <4>4 DEF Window
    <3> QED
      BY <1>2, <3>1, <3>2
  <2> QED
    BY <2>1, <2>2, Zenon DEF DashNext, dashVars
<1> HIDE DEF Fine, Unsent
\* Nothing new for this window.
<1>4. ASSUME w \in tuned, w \notin blind, SameDialog(Shows(w)', Shows(w)), SameDialog(replay', replay),
             post'[w] = post[w], Asking' => Asking
      PROVE  /\ ~Unsent(post'[w]) => SameDialog(Shows(w), replay)'
             /\ Unsent(post'[w]) /\ Asking' => Fine(Shows(w)')
  <2>1. Fine(Shows(w)') <=> Fine(Shows(w))
    BY <1>4 DEF Fine, SameDialog, IsClosed
  <2>2. SameDialog(Shows(w), replay) => SameDialog(Shows(w), replay)'
    BY <1>4 DEF SameDialog
  <2> QED
    BY <1>1, <1>3, <1>4, <2>1, <2>2
\* The same events for it and for the run.
<1>5. ASSUME w \in tuned, w \notin blind, NEW es, Told(es), UNCHANGED view, post'[w] = post[w], ~Asking' \/ ~Unsent(post[w])
      PROVE  /\ ~Unsent(post'[w]) => SameDialog(Shows(w), replay)'
             /\ Unsent(post'[w]) /\ Asking' => Fine(Shows(w)')
  <2>1. Shows(w)' = Fold(Shows(w), es) /\ es \in Seq(Events) /\ replay' = Fold(replay, es) /\ Shows(w) \in Views
    BY <1>5, ShowsMore
  <2>2. ASSUME ~Unsent(post[w]) PROVE SameDialog(Shows(w), replay)'
    <3>1. SameDialog(Shows(w), replay)
      BY <1>1, <1>3, <1>5, <2>2
    <3>2. SameDialog(Fold(Shows(w), es), Fold(replay, es))
      BY <1>0, <2>1, <3>1, FoldDialog
    <3> QED
      BY <2>1, <3>2 DEF SameDialog
  <2> QED
    BY <1>5, <2>2
<1>6. SameDialog(replay, replay)
  BY DEF SameDialog
<1>7. CASE RunGraph
  <2>1. PICK es : Told(es)
    BY <1>7, TellingTold
  <2>2. UNCHANGED <<tuned, view, post, blind>> /\ at' # "waiting"
    BY <1>7, ThreadFrame, GraphTells DEF ThreadSteps
  <2>3. w \in tuned /\ w \notin blind /\ ~Asking'
    BY <1>2, <2>2 DEF Asking
  <2> QED
    BY <1>5, <2>1, <2>2, <2>3
<1>8. CASE Launched
  <2>1. PICK es : Told(es)
    BY <1>8, TellingTold
  <2>2. UNCHANGED <<tuned, view, post, blind>> /\ at' # "waiting"
    BY <1>8, ThreadFrame DEF ThreadSteps, Launched
  <2>3. w \in tuned /\ w \notin blind /\ ~Asking'
    BY <1>2, <2>2 DEF Asking
  <2> QED
    BY <1>5, <2>1, <2>2, <2>3
<1>9. CASE Present
  <2>1. PICK es : Told(es)
    BY <1>9, TellingTold
  <2>2. UNCHANGED <<tuned, view, post, blind>>
    BY <1>9, ThreadFrame DEF ThreadSteps
  <2>3. w \in tuned /\ w \notin blind
    BY <1>2, <2>2
  <2>4. CASE Unsent(post[w])
    <3>1. Shows(w)'.approval # NoDialog
      BY <1>9, <2>3, ReplayPresent
    <3> QED
      BY <2>2, <2>4, <3>1 DEF Fine
  <2>5. CASE ~Unsent(post[w])
    BY <1>5, <2>1, <2>2, <2>3, <2>5
  <2> QED
    BY <2>4, <2>5
<1>10. CASE Wake \/ Resumption \/ UNCHANGED dashVars
  <2>1. UNCHANGED <<tuned, view, post, blind, queue, replay>>
    BY <1>10, ThreadFrame DEF ThreadSteps, Wake, Resumption, dashVars, events
  <2>2. Asking' => Asking
    <3>1. CASE Wake \/ Resumption
      BY <3>1 DEF Wake, Resumption, Asking
    <3>2. CASE UNCHANGED dashVars
      BY <3>2 DEF dashVars, server, screens, Asking, Answering
    <3> QED
      BY <1>10, <3>1, <3>2
  <2>3. Shows(w)' = Shows(w) /\ w \in tuned /\ w \notin blind
    BY <1>2, <2>1 DEF Shows
  <2> QED
    BY <1>4, <1>6, <2>1, <2>2, <2>3 DEF SameDialog
<1>11. ASSUME NEW o \in Windows, Window(o)
       PROVE  /\ ~Unsent(post'[w]) => SameDialog(Shows(w), replay)'
              /\ Unsent(post'[w]) /\ Asking' => Fine(Shows(w)')
  <2>0. \A p \in Windows \ {o} : post'[p] = post[p]
    BY <1>11, WindowFrame
  <2>1. CASE Broadcast(o)
    <3>1. /\ UNCHANGED <<tuned, view, at, signal, cancelled>> /\ post[o].req = "approve" /\ post[o].step = 1 /\ Next2(o)
          /\ stray' = (stray \/ at # "waiting" \/ signal.set \/ Answering # {}) /\ blind \subseteq blind'
      BY <2>1 DEF Broadcast, Step, server, screen
    <3>2. at = "waiting" /\ Asking /\ w \in tuned /\ w \notin blind /\ o \in Windows
      BY <1>2, <3>1 DEF Asking
    <3>3. Told(<<Event("approval_decided")>>)
      BY <2>1, <3>2, ReplayBroadcast
    <3>4. post'[o].req = "approve" /\ post'[o].step = 2
      BY <3>1, TakenStep
    <3>5. ~Asking' /\ ~Unsent(post'[o]) /\ Unsent(post[o])
      BY <3>1, <3>4 DEF Asking, Answering, Unsent
    <3>6. CASE w # o
      <4>1. PICK es : Told(es)
        BY <3>3
      <4>2. post'[w] = post[w] /\ UNCHANGED view /\ ~Asking'
        BY <1>0, <2>0, <3>1, <3>2, <3>5, <3>6
      <4> QED
        BY <1>5, <3>2, <4>1, <4>2
    <3>7. CASE w = o
      <4>1. Fine(Shows(w))
        BY <1>1, <1>3, <3>2, <3>5, <3>7
      <4>2. replay.approval # NoDialog
        <5>1. ~cancelled
          BY <3>2 DEF GateInReplay, Asking
        <5>2. replay.approval = [stage |-> stage, gate |-> Len(answers) + 1]
          BY <1>3, <3>2, <5>1 DEF GateInReplay
        <5>3. stage \in Nat /\ stage >= 1
          BY StageNumbers DEF Base, Places
        <5> QED
          BY <5>2, <5>3 DEF NoDialog
      <4>3. Event("approval_decided") \in Events /\ Event("approval_decided").type = "approval_decided"
        BY DEF Event, Events
      <4>4. Shows(w)' = Applied(Shows(w), Event("approval_decided")) /\ replay' = Applied(replay, Event("approval_decided"))
        <5>1. Shows(w)' = Fold(Shows(w), <<Event("approval_decided")>>) /\ replay' = Fold(replay, <<Event("approval_decided")>>)
          BY <3>1, <3>2, <3>3, ShowsMore
        <5> QED
          BY <4>3, <5>1, FoldOne
      <4>5. ASSUME NEW v \in Views, Fine(v) PROVE IsClosed(Applied(v, Event("approval_decided")))
        <5>1. Applied(v, Event("approval_decided")) = IF v.approval = NoDialog THEN v ELSE GateClosed(v)
          BY <4>3 DEF Applied
        <5>2. IsClosed(GateClosed(v))
          BY DEF GateClosed, Views, IsClosed
        <5> QED
          BY <4>5, <5>1, <5>2 DEF Fine
      <4>6. IsClosed(Shows(w)') /\ IsClosed(replay')
        BY <1>0, <3>2, <4>1, <4>2, <4>4, <4>5 DEF Fine
      <4> QED
        BY <3>5, <3>7, <4>6, ClosedSame DEF SameDialog
    <3> QED
      BY <3>6, <3>7
  <2>2. CASE Tell(o)
    <3>1. UNCHANGED <<tuned, view, at, signal, blind>> /\ post[o].req \in {"pause", "resume"} /\ Done(o)
      BY <2>2, Zenon DEF Tell, server, screen
    <3>2. w \in tuned /\ w \notin blind
      BY <1>2, <3>1
    <3>3. SameDialog(Shows(w)', Shows(w)) /\ SameDialog(replay', replay)
      BY <2>2, <3>2, ReplayTell
    <3>4. post'[o] = Idle /\ Idle.req = "none"
      BY <3>1, TakenStep DEF Idle
    <3>5. Answering' = Answering
      BY <2>0, <3>1, <3>4 DEF Answering
    <3>6. Asking' => Asking
      BY <3>1, <3>5 DEF Asking
    <3>7. CASE w # o
      BY <1>0, <1>4, <2>0, <3>2, <3>3, <3>6, <3>7
    <3>8. CASE w = o
      <4>1. ~Unsent(post'[w]) /\ ~Unsent(post[w])
        BY <3>1, <3>4, <3>8 DEF Unsent
      <4>2. SameDialog(Shows(w), replay)
        BY <1>1, <1>3, <3>2, <4>1
      <4> QED
        BY <3>3, <4>1, <4>2 DEF SameDialog
    <3> QED
      BY <3>7, <3>8
  <2>3. CASE Receive(o)
    <3>1. UNCHANGED <<server, replay, tuned, post, history>> /\ Shows(w)' = Shows(w)
      BY <1>0, <1>2, <2>3, ShowsReceived
    <3>2. (Asking' => Asking) /\ w \in tuned /\ w \notin blind
      BY <1>2, <3>1 DEF server, history, Asking, Answering
    <3> QED
      BY <1>4, <3>1, <3>2 DEF SameDialog
  <2>4. CASE RunStarted(o) \/ Adopt(o)
    <3>1. Shows(o)' = replay /\ UNCHANGED replay /\ tuned' = tuned \cup {o} /\ \A p \in Windows \ {o} : Shows(p)' = Shows(p)
      BY <2>4, ShowsTuned
    <3>2. UNCHANGED <<at, signal>> /\ post'[o] = Idle /\ blind' \cup {o} = blind \cup {o} /\ Idle.req = "none"
      <4>1. CASE RunStarted(o)
        BY <4>1, TakenStep DEF RunStarted, server, history, Idle
      <4>2. CASE Adopt(o)
        BY <4>2 DEF Adopt, server, Idle
      <4> QED
        BY <2>4, <4>1, <4>2
    <3>3. CASE w = o
      <4>1. ~Unsent(post'[w])
        BY <3>2, <3>3 DEF Unsent
      <4> QED
        BY <1>6, <3>1, <3>3, <4>1 DEF SameDialog
    <3>4. CASE w # o
      <4>1. w \in tuned /\ w \notin blind /\ post'[w] = post[w] /\ Shows(w)' = Shows(w)
        BY <1>0, <1>2, <2>0, <3>1, <3>2, <3>4
      <4>2. Answering' = Answering
        <5>1. post[o].req # "approve"
          BY <2>4 DEF RunStarted, Adopt, Idle
        <5> QED
          BY <2>0, <3>2, <5>1 DEF Answering
      <4>3. Asking' => Asking
        BY <3>2, <4>2 DEF Asking
      <4> QED
        BY <1>4, <3>1, <4>1, <4>3 DEF SameDialog
    <3> QED
      BY <3>3, <3>4
  <2>5. CASE Clicks(o)
    <3>1. /\ UNCHANGED <<queue, replay, tuned>> /\ \A p \in Windows \ {o} : view'[p] = view[p]
          /\ o \in tuned => \/ SameProgress(view'[o], view[o]) /\ SameDialog(view'[o], view[o])
                            \/ view'[o] = GateClosed(view[o]) /\ \E d \in Answers : SendApproval(o, d)
      BY <2>5, ClicksLeave
    <3>2. w \in tuned /\ w \notin blind
      BY <1>2, <2>5, <3>1, ClicksAsk
    <3>3. Asking' => Asking
      BY <2>5, ClicksAsk
    <3>4. CASE w # o
      <4>1. Shows(w)' = Shows(w) /\ post'[w] = post[w]
        BY <1>0, <2>0, <3>1, <3>2, <3>4 DEF Shows
      <4> QED
        BY <1>4, <3>1, <3>2, <3>3, <4>1 DEF SameDialog
    <3>5. CASE w = o
      <4>0. Shows(w) = Fold(view[w], queue[w]) /\ Shows(w)' = Fold(view'[w], queue[w])
        BY <3>1 DEF Shows
      <4>1. ASSUME NEW d \in Answers, SendApproval(o, d)
            PROVE  /\ ~Unsent(post'[w]) => SameDialog(Shows(w), replay)'
                   /\ Unsent(post'[w]) /\ Asking' => Fine(Shows(w)')
        <5>1. view' = [view EXCEPT ![o] = GateClosed(view[o])] /\ post' = [post EXCEPT ![o] = [req |-> "approve", decision |-> d, step |-> 1]]
          BY <4>1 DEF SendApproval, Sends
        <5>2. view'[w] = GateClosed(view[w]) /\ post'[w].req = "approve" /\ post'[w].step = 1
          BY <3>5, <5>1 DEF WinTypes
        <5>3. IsClosed(view'[w])
          BY <1>0, <5>2 DEF GateClosed, Views, IsClosed
        <5>4. ASSUME Asking' PROVE Fine(Shows(w)')
          <6>1. at = "waiting"
            BY <3>3, <5>4 DEF Asking
          <6>2. \A i \in 1 .. Len(queue[w]) :
                  /\ queue[w][i].type = "agent_file_preview" => i + 1 <= Len(queue[w]) /\ queue[w][i + 1].type = "approval_required"
                  /\ queue[w][i].type \notin EndTypes
            BY <3>5, <6>1 DEF QueueInOrder
          <6>3. view'[w] \in Views /\ queue[w] \in Seq(Events)
            BY <1>0, <3>5
          <6>4. IsClosed(Fold(view'[w], queue[w])) \/ Fold(view'[w], queue[w]).approval # NoDialog
            BY <5>3, <6>2, <6>3, FoldClosed
          <6> QED
            BY <4>0, <6>4 DEF Fine
        <5> QED
          BY <5>2, <5>4 DEF Unsent
      <4>2. CASE \A d \in Answers : ~SendApproval(o, d)
        <5>1. SameDialog(view'[w], view[w])
          BY <3>1, <3>2, <3>5, <4>2
        <5>2. SameDialog(Shows(w)', Shows(w))
          BY <1>0, <3>5, <4>0, <5>1, FoldDialog
        <5>3. ~Unsent(post[w]) /\ ~Unsent(post'[w])
          <6>1. CASE StartRun(o) \/ StartRoute(o)
            <7>1. w \notin tuned
              BY <3>5, <6>1 DEF StartRun, StartRoute, Step, BeforeTheRun
            <7> QED
              BY <3>2, <7>1
          <6>2. CASE Lose(o)
            <7>1. post[w].req # "approve" /\ Done(w)
              BY <1>2, <3>5, <6>2 DEF Lose
            <7>2. post'[w].req = "none"
              BY <7>1, <3>5, TakenStep DEF Idle
            <7> QED
              BY <7>1, <7>2 DEF Unsent
          <6>3. CASE SetDecision(o) \/ Cancel(o) \/ Switch(o)
            <7>1. ~(post[w].req = "approve" /\ post[w].step = 1) /\ (Done(w) \/ Next2(w))
              BY <3>5, <6>3 DEF SetDecision, Cancel, Switch, Step
            <7>2. post'[w].step # 1
              BY <7>1, <3>5, TakenStep DEF Idle
            <7> QED
              BY <7>1, <7>2 DEF Unsent
          <6>4. ASSUME NEW req \in {"cancel", "pause", "resume"}, Ask(o, req) PROVE ~Unsent(post[w]) /\ ~Unsent(post'[w])
            <7>1. post[w].req = "none" /\ post' = [post EXCEPT ![o] = [req |-> req, decision |-> "none", step |-> 1]]
              BY <3>5, <6>4 DEF Ask, Sends, Idle
            <7>2. post'[w].req = req
              BY <3>5, <7>1 DEF WinTypes
            <7> QED
              BY <7>1, <7>2 DEF Unsent
          <6> QED
            BY <2>5, <4>2, <6>1, <6>2, <6>3, <6>4 DEF Clicks, Answers
        <5>4. SameDialog(Shows(w), replay)
          BY <1>1, <1>3, <3>2, <5>3
        <5> QED
          BY <3>1, <5>2, <5>3, <5>4 DEF SameDialog
      <4> QED
        BY <4>1, <4>2
    <3> QED
      BY <3>4, <3>5
  <2> QED
    BY <1>11, <2>1, <2>2, <2>3, <2>4, <2>5, Zenon DEF Window, Clicks
<1> QED
  BY <1>7, <1>8, <1>9, <1>10, <1>11, Zenon DEF DashNext, dashVars

-----------------------------------------------------------------------------
(* What a window shows can be believed *)

\* All that the windows and the run keep between them.
RunInWindows == FollowsProgress /\ FollowsDialog /\ GateInReplay /\ QueueInOrder
           /\ DoneIsGranted /\ NobodyLeft /\ EndInReplay /\ PauseInReplay
WindowInv == Base /\ Carried /\ WinTypes /\ Thread /\ BeforeTheRun /\ FirstGranted /\ RunInWindows

\* At the start a run was told nothing, and no window listens.
LEMMA WindowInit == DashInit => WindowInv
<1> SUFFICES ASSUME DashInit PROVE WindowInv
  OBVIOUS
<1>0. Init
  BY DEF DashInit
<1>1. Base
  <2>1. Places /\ PastGates /\ Grants
    BY <1>0, PlacesInit, GrantsInit
  <2>2. BudgetInv /\ AnswersLeft
    BY <1>0, PipelineAssumption DEF Init, BudgetInv, BudgetRespected, CheckedInTime, AnswersLeft
  <2>3. TypeOK
    BY <1>0, InitTypes
  <2> QED
    BY <2>1, <2>2, <2>3 DEF Base
<1>2. /\ at = "none" /\ seen = {} /\ signal = [set |-> FALSE, decision |-> "approve"] /\ ~cancelled /\ ~paused /\ status = "running"
      /\ queue = [w \in Windows |-> <<>>] /\ replay = NoRun /\ view = [w \in Windows |-> NoRun] /\ tuned = {}
      /\ post = [w \in Windows |-> Idle] /\ ~stray /\ ~crossed /\ blind = {} /\ answers = <<>> /\ cancelled = FALSE /\ paused = FALSE
      /\ stray = FALSE /\ crossed = FALSE
  BY <1>0 DEF DashInit, Init
<1>3. NoRun \in Views
  BY DEF NoRun, Views, Marks, AgentMarks, Dialogs, NoDialog
<1>4. WinTypes
  <2>1. queue \in [Windows -> Seq(Events)] /\ view \in [Windows -> Views] /\ replay \in Views
    BY <1>2, <1>3
  <2>2. post \in [Windows -> [req : RequestKinds, decision : Answers \cup {"none"}, step : 0 .. 2]]
    BY <1>2 DEF Idle, RequestKinds
  <2> QED
    BY <1>2, <2>1, <2>2 DEF WinTypes, Answers
<1>5. Thread
  BY <1>2 DEF Thread
<1>6. BeforeTheRun
  <2>1. \A w \in Windows : post[w].req = "none" /\ post[w].step = 0 /\ queue[w] = <<>> /\ view[w].approval = NoDialog
    BY <1>2 DEF Idle, NoRun
  <2> QED
    BY <1>2, <2>1 DEF BeforeTheRun
<1>7. FirstGranted
  BY <1>2 DEF FirstGranted
<1>8. FollowsProgress /\ FollowsDialog
  BY <1>2 DEF FollowsProgress, FollowsDialog
<1>9. GateInReplay
  <2>1. Answering = {}
    BY <1>2 DEF Answering, Idle
  <2> QED
    BY <1>2, <2>1 DEF GateInReplay, Asking, NoRun
<1>10. QueueInOrder
  BY <1>2 DEF QueueInOrder
<1>11. DoneIsGranted /\ NobodyLeft
  BY <1>2 DEF DoneIsGranted, NobodyLeft, NoRun
<1>12. EndInReplay
  BY <1>2 DEF EndInReplay
<1>13. PauseInReplay
  <2>1. \A o \in Windows : ~Switching(o)
    BY <1>2 DEF Switching, Idle
  <2>2. replay.paused = paused
    BY <1>2 DEF NoRun
  <2> QED
    BY <2>1, <2>2 DEF PauseInReplay
<1> QED
  BY <1>1, CarriedInit, <1>4, <1>5, <1>6, <1>7, <1>8, <1>9, <1>10, <1>11, <1>12, <1>13 DEF WindowInv, RunInWindows

\* And every step keeps it.
LEMMA WindowStep == WindowInv /\ [DashNext]_<<vars, dashVars>> => WindowInv'
<1> SUFFICES ASSUME WindowInv, [DashNext]_<<vars, dashVars>> PROVE WindowInv'
  OBVIOUS
<1>0. Base /\ Carried /\ WinTypes /\ Thread /\ BeforeTheRun /\ FirstGranted /\ [Next]_vars
  BY StepIsStep DEF WindowInv
<1>1. FollowsProgress /\ FollowsDialog /\ GateInReplay /\ QueueInOrder /\ DoneIsGranted /\ NobodyLeft /\ EndInReplay /\ PauseInReplay
  BY DEF WindowInv, RunInWindows
<1>2. Base'
  BY <1>0, PlacesStep, PastGatesStep, BudgetStep, TypeStep, GrantsStep DEF Base
<1>3. Carried' /\ FirstGranted'
  BY <1>0, CarriedStep, FirstGrantedStep
<1>4. WinTypes' /\ Thread'
  BY <1>0, WinTypesStep, ThreadStep
<1>5. BeforeTheRun'
  BY <1>0, <1>4, BeforeStep
<1>6. FollowsProgress' /\ QueueInOrder' /\ GateInReplay'
  BY <1>0, <1>1, <1>4, <1>5, ProgressStep, QueueStep, GateStep
<1>7. FollowsDialog'
  BY <1>0, <1>1, <1>4, DialogStep
<1>8. DoneIsGranted' /\ NobodyLeft'
  BY <1>0, <1>1, DoneStep, NobodyStep
<1>9. EndInReplay' /\ PauseInReplay'
  BY <1>0, <1>1, <1>4, EndStep, PauseStep
<1> QED
  BY <1>2, <1>3, <1>4, <1>5, <1>6, <1>7, <1>8, <1>9 DEF WindowInv, RunInWindows

\* A window to which nothing is on its way shows what it will show.
LEMMA WindowInvShows == WindowInv => WindowShowsTheRun
<1> SUFFICES ASSUME WindowInv PROVE WindowShowsTheRun
  OBVIOUS
<1>0. WinTypes /\ BeforeTheRun /\ FollowsProgress /\ FollowsDialog /\ GateInReplay /\ DoneIsGranted /\ NobodyLeft /\ EndInReplay /\ PauseInReplay
  BY DEF WindowInv, RunInWindows
<1>1. ASSUME NEW w \in tuned, CaughtUp(w), w \notin blind, post[w].req # "approve"
      PROVE  SameProgress(view[w], replay) /\ (~stray => SameDialog(view[w], replay))
  <2>1. Shows(w) = view[w]
    BY <1>1, FoldNone DEF CaughtUp, Shows
  <2> QED
    BY <1>0, <1>1, <2>1 DEF FollowsProgress, FollowsDialog
<1>2. DialogIsTheGate
  <2> SUFFICES ASSUME NEW w \in tuned, CaughtUp(w), ~stray, ~cancelled, Answering = {}, w \notin blind, post[w].req # "approve"
               PROVE  view[w].approval = IF at = "waiting" /\ ~signal.set
                                         THEN [stage |-> stage, gate |-> Len(answers) + 1] ELSE NoDialog
    BY DEF DialogIsTheGate
  <2>1. view[w].approval = replay.approval
    BY <1>1 DEF SameDialog
  <2>2. Asking <=> at = "waiting" /\ ~signal.set
    BY DEF Asking
  <2>3. replay.approval = IF Asking THEN [stage |-> stage, gate |-> Len(answers) + 1] ELSE NoDialog
    BY <1>0 DEF GateInReplay
  <2> QED
    BY <2>1, <2>2, <2>3
<1>3. ViewTellsTheRun
  <2> SUFFICES ASSUME NEW w \in tuned, CaughtUp(w), w \notin blind, post[w].req # "approve"
               PROVE  LET v == view[w] IN
                      /\ v.stages = replay.stages /\ v.agents = replay.agents /\ v.budget = replay.budget
                      /\ v.paused = replay.paused
                      /\ ~stray => v.status = replay.status /\ v.approval = replay.approval /\ v.preview = replay.preview
                      /\ \A s \in Stages \ {"launch"} : v.stages[s] = "done" =>
                           status = "completed" \/ \E k \in Comprehender .. Tester : Shown[k] = s /\ <<k, 1>> \in granted
                      /\ at = "over" =>
                           /\ ~stray => v.status = CASE status \in {"budget", "failed"} -> "failed"
                                           [] status = "rejected" /\ cancelled -> "cancelled"
                                           [] OTHER -> status
                           /\ (status = "rejected" => cancelled) => \A s \in Stages : v.stages[s] # "active"
                           /\ \A a \in Agents : v.agents[a] \notin {"PENDING", "ALIVE"}
                      /\ ~crossed /\ ~cancelled /\ status = "running" /\ (\A o \in Windows : post[o].step # 2) => v.paused = paused
    BY DEF ViewTellsTheRun
  <2>1. /\ view[w].stages = replay.stages /\ view[w].agents = replay.agents /\ view[w].budget = replay.budget
        /\ view[w].paused = replay.paused
    BY <1>1 DEF SameProgress
  <2>2. ~stray => view[w].status = replay.status /\ view[w].approval = replay.approval /\ view[w].preview = replay.preview
    BY <1>1 DEF SameDialog
  <2>3. \A s \in Stages \ {"launch"} : view[w].stages[s] = "done" =>
          status = "completed" \/ \E k \in Comprehender .. Tester : Shown[k] = s /\ <<k, 1>> \in granted
    BY <1>0, <2>1 DEF DoneIsGranted
  <2>4. at = "over" =>
          /\ ~stray => view[w].status = CASE status \in {"budget", "failed"} -> "failed"
                          [] status = "rejected" /\ cancelled -> "cancelled"
                          [] OTHER -> status
          /\ (status = "rejected" => cancelled) => \A s \in Stages : view[w].stages[s] # "active"
    BY <1>0, <2>1, <2>2 DEF EndInReplay
  <2>5. \A a \in Agents : view[w].agents[a] \notin {"PENDING", "ALIVE"}
    BY <1>0, <2>1 DEF NobodyLeft
  <2>6. ~crossed /\ ~cancelled /\ status = "running" /\ (\A o \in Windows : post[o].step # 2) => view[w].paused = paused
    BY <1>0, <2>1 DEF PauseInReplay, Switching
  <2> QED
    BY <2>1, <2>2, <2>3, <2>4, <2>5, <2>6
<1> QED
  BY <1>2, <1>3 DEF WindowShowsTheRun

\* For any number of windows, and any number of clicks, lost requests and windows opened anew:
\* a window that has every event shows the gate that waits, the stages whose output was
\* presented, and the end the run came to.
THEOREM WindowsShowTheRun == DashSpec => []WindowShowsTheRun
BY WindowInit, WindowStep, WindowInvShows, PTL DEF DashSpec

-----------------------------------------------------------------------------
(* The generated applications *)

LaunchSteps == {"ready", "spawn", "wait", "install", "respawn", "rewait", "done"}
Processes == {"none", "starting", "serving", "unfit", "ended"}
AppTypes ==
  /\ launch \in [Runs -> LaunchSteps] /\ proc \in [Runs -> Processes] /\ fit \in [Runs -> BOOLEAN]
  /\ app \in [Runs -> {"none", "up", "no_port"}] /\ link \in [Runs -> {"none", "live", "down"}]

\* Two processes do not listen on one port.
OneListens == \A r, o \in Runs : proc[r] = "serving" /\ proc[o] = "serving" /\ PortOf[r] = PortOf[o] => r = o

\* While an application is launched, nobody but it listens on its port, unless another came up.
PortKept ==
  \A r, o \in Runs :
    Running(r) /\ r \notin crowded /\ proc[o] = "serving" /\ PortOf[o] = PortOf[r] => o = r

\* An application with an address has been launched, and what was up is up until it ends.
UpServes ==
  \A r \in Runs :
    /\ app[r] # "none" => launch[r] = "done"
    /\ app[r] = "up" /\ r \notin crowded \cup failed => proc[r] = "serving"

AppInv == AppTypes /\ OneListens /\ PortKept /\ UpServes

\* One run's step.
AppStep(r) ==
  \/ Find(r) \/ Spawn(r) \/ Up(r) \/ NoPort(r) \/ Dead(r) \/ Install(r)
  \/ Bind(r) \/ Crash(r) \/ StopApp(r) \/ Poll(r)

LEMMA AppTypesStep ==
  ASSUME AppTypes, NEW r \in Runs, AppStep(r) PROVE AppTypes'
<1>1. launch' \in [Runs -> LaunchSteps]
  BY DEF AppTypes, LaunchSteps, AppStep, Find, Spawn, Up, NoPort, Reported, Dead, Install, Bind, Crash,
     StopApp, Poll, Go
<1>2. proc' \in [Runs -> Processes]
  BY DEF AppTypes, Processes, AppStep, Find, Spawn, Up, NoPort, Reported, Dead, Install, Bind, Crash,
     StopApp, Poll
<1>3. fit' \in [Runs -> BOOLEAN]
  BY DEF AppTypes, AppStep, Find, Spawn, Up, NoPort, Reported, Dead, Install, Bind, Crash, StopApp, Poll
<1>4. app' \in [Runs -> {"none", "up", "no_port"}] /\ link' \in [Runs -> {"none", "live", "down"}]
  BY DEF AppTypes, AppStep, Find, Spawn, Up, NoPort, Reported, Dead, Install, Bind, Crash, StopApp, Poll
<1> QED BY <1>1, <1>2, <1>3, <1>4 DEF AppTypes

\* Nobody comes to listen but in Bind, which looks at the port.
LEMMA Listeners ==
  ASSUME AppInv, NEW r \in Runs, AppStep(r)
  PROVE  /\ ~Bind(r) => \A o \in Runs : proc'[o] = "serving" => proc[o] = "serving"
         /\ Bind(r) => \A o \in Runs : proc'[o] = "serving" =>
              \/ proc[o] = "serving"
              \/ o = r /\ \A p \in Runs : proc[p] = "serving" => PortOf[p] # PortOf[r]
<1> USE DEF AppInv, AppTypes
<1>1. CASE Bind(r)
  BY <1>1 DEF Bind, PortOpen, Serving
<1>2. CASE Find(r) \/ Up(r) \/ NoPort(r) \/ Dead(r) \/ Install(r) \/ Poll(r)
  BY <1>2 DEF Find, Up, NoPort, Dead, Install, Poll, Bind
<1>3. CASE Spawn(r) \/ Crash(r) \/ StopApp(r)
  BY <1>3 DEF Spawn, Crash, StopApp
<1> QED BY <1>1, <1>2, <1>3 DEF AppStep

LEMMA OneListensStep ==
  ASSUME AppInv, NEW r \in Runs, AppStep(r) PROVE OneListens'
  BY Listeners DEF AppInv, OneListens

LEMMA PortKeptStep ==
  ASSUME AppInv, NEW r \in Runs, AppStep(r) PROVE PortKept'
<1> SUFFICES ASSUME NEW p \in Runs, NEW o \in Runs, Running(p)', p \notin crowded', proc'[o] = "serving",
                    PortOf[o] = PortOf[p]
             PROVE  o = p
  BY DEF PortKept
<1>1. CASE Find(r)
  <2>1. UNCHANGED <<proc, crowded>>
    BY <1>1 DEF Find
  <2>2. CASE p = r
    <3>1. PortFree(r)
      BY <1>1, <2>2 DEF Find, Running, Go, AppInv, AppTypes
    <3> QED BY <3>1, <2>1, <2>2 DEF PortFree, PortOpen, Serving
  <2>3. CASE p # r
    <3>1. Running(p)
      BY <1>1, <2>3 DEF Find, Running, Go, AppInv, AppTypes
    <3> QED BY <3>1, <2>1 DEF AppInv, PortKept
  <2> QED BY <2>2, <2>3
<1>2. CASE Bind(r)
  <2>1. Running(p)
    BY <1>2 DEF Bind, Running
  <2>2. CASE proc[o] = "serving"
    <3>1. p \notin crowded
      BY <1>2 DEF Bind
    <3> QED BY <2>1, <2>2, <3>1 DEF AppInv, PortKept
  <2>3. CASE proc[o] # "serving"
    <3>1. o = r
      BY <1>2, <2>3, Listeners
    <3>2. crowded' = crowded \cup {q \in Runs \ {r} : Running(q) /\ PortOf[q] = PortOf[r]}
      BY <1>2, <3>1 DEF Bind
    <3> QED BY <2>1, <3>1, <3>2
  <2> QED BY <2>2, <2>3
<1>3. CASE ~Find(r) /\ ~Bind(r)
  <2>1. Running(p) /\ crowded' = crowded
    BY <1>3 DEF AppStep, Spawn, Up, NoPort, Reported, Dead, Install, Crash, StopApp, Poll, Go, Running, Waits,
       AppInv, AppTypes
  <2>2. proc[o] = "serving"
    BY <1>3, Listeners
  <2> QED BY <2>1, <2>2 DEF AppInv, PortKept
<1> QED BY <1>1, <1>2, <1>3

LEMMA UpServesStep ==
  ASSUME AppInv, NEW r \in Runs, AppStep(r) PROVE UpServes'
<1> SUFFICES ASSUME NEW p \in Runs
             PROVE  /\ app'[p] # "none" => launch'[p] = "done"
                    /\ app'[p] = "up" /\ p \notin crowded' \cup failed' => proc'[p] = "serving"
  BY DEF UpServes
<1> USE DEF AppInv, AppTypes
<1>1. CASE p # r
  <2>1. app'[p] = app[p] /\ launch'[p] = launch[p] /\ proc'[p] = proc[p]
    BY <1>1 DEF AppStep, Find, Spawn, Up, NoPort, Reported, Dead, Install, Bind, Crash, StopApp, Poll, Go
  <2>2. crowded \cup failed \subseteq crowded' \cup failed'
    BY DEF AppStep, Find, Spawn, Up, NoPort, Dead, Install, Bind, Crash, StopApp, Poll
  <2> QED BY <2>1, <2>2 DEF UpServes
<1>2. CASE p = r
  <2>1. CASE Find(r) \/ Spawn(r) \/ Dead(r) \/ Install(r)
    BY <1>2, <2>1 DEF Find, Spawn, Dead, Install, Waits, UpServes
  <2>2. CASE Up(r)
    <3>1. app'[r] = "up" /\ launch'[r] = "done" /\ UNCHANGED <<proc, crowded, failed>>
      BY <2>2 DEF Up, Reported, Go
    <3>2. r \notin crowded => proc[r] = "serving"
      <4>1. Running(r) /\ PortOpen(PortOf[r])
        BY <2>2 DEF Up, Waits, Running
      <4>2. PICK o \in Runs : proc[o] = "serving" /\ PortOf[o] = PortOf[r]
        BY <4>1 DEF PortOpen, Serving
      <4> QED BY <4>1, <4>2 DEF PortKept
    <3> QED BY <1>2, <3>1, <3>2
  <2>3. CASE NoPort(r)
    BY <1>2, <2>3 DEF NoPort, Reported, Go
  <2>4. CASE Bind(r)
    BY <1>2, <2>4 DEF Bind, UpServes
  <2>5. CASE Crash(r) \/ StopApp(r) \/ Poll(r)
    BY <1>2, <2>5 DEF Crash, StopApp, Poll, UpServes
  <2> QED BY <2>1, <2>2, <2>3, <2>4, <2>5 DEF AppStep
<1> QED BY <1>1, <1>2

\* For any runs and ports: a live link to an application that was found up leads to that
\* application, unless another came up on its port meanwhile or it came to an end by itself.
THEOREM EveryLinkLeadsHome == AppSpec => []LinksLeadHome
<1>1. AppInit => AppInv
  BY DEF AppInit, AppInv, AppTypes, LaunchSteps, Processes, OneListens, PortKept, UpServes
<1>2. AppInv /\ [AppNext]_appVars => AppInv'
  <2> SUFFICES ASSUME AppInv, [AppNext]_appVars PROVE AppInv'
    OBVIOUS
  <2>1. CASE AppNext
    <3> PICK r \in Runs : AppStep(r)
      BY <2>1 DEF AppNext, AppStep
    <3> QED BY AppTypesStep, OneListensStep, PortKeptStep, UpServesStep DEF AppInv
  <2>2. CASE UNCHANGED appVars
    BY <2>2 DEF appVars, AppInv, AppTypes, OneListens, PortKept, UpServes, Running
  <2> QED BY <2>1, <2>2
<1>3. AppInv => LinksLeadHome
  BY DEF AppInv, LinksLeadHome, UpServes, OneListens, Serving
<1> QED BY <1>1, <1>2, <1>3, PTL DEF AppSpec

-----------------------------------------------------------------------------
(* The files of the web backend *)

\* A request that handles a file, a text of one, and a request before and after its handler reads the file.
Writes == {"create", "contact", "put"}
IsText(c) == c \in [entries : {c.entries}, revoked : {c.revoked}]
Comes(r) ==
  /\ r \in [at : {"guard", "identify", "serve", "begin"}, op : Operations, key : {r.key}]
  /\ r.at = "begin" => r.op \in Writes
  /\ r.at = "identify" => r.op \in {"get", "put"}
Writing(r) ==
  /\ r \in [at : {"read", "open", "dump", "log"}, op : Writes, new : {r.new}, old : {r.old}]
  /\ IsText(r.old)
  /\ r.at = "log" => r.op = "contact"
  /\ r.at = "read" => r.op # "put"
RequestOk(r) == r = NoRequest \/ Comes(r) \/ Writing(r)

\* The shape of the state.
BackendTypes ==
  /\ DOMAIN disk = Files /\ DOMAIN kept = Files /\ DOMAIN request = Requests
  /\ \A f \in Files : IsText(disk[f])
  /\ \A h \in Requests : RequestOk(request[h])

\* A creation that has its entry and has not written it, and one that has read the list.
Creates(h) == At(h, "keys", {"read", "open", "dump"})
HasRead(h) == At(h, "keys", {"open", "dump"})

\* All that is in the file, or may get there, was issued; nobody else has a new key.
Authentic ==
  /\ Shipped \subseteq issued /\ \A d, e \in issued : d.key = e.key => d = e
  /\ disk["keys"].entries \subseteq issued
  /\ \A h \in Requests : Creates(h) => request[h].new \in issued /\ request[h].new \notin disk["keys"].entries
  /\ \A h \in Requests : HasRead(h) => request[h].old.entries \subseteq issued
  /\ \A g, h \in Requests : HasRead(g) /\ Creates(h) => request[h].new \notin request[g].old.entries
  /\ \A g, h \in Requests : Creates(g) /\ Creates(h) /\ request[g].new = request[h].new => g = h

\* A revocation that nobody wrote over is in the file, and in the lists that were read.
Stands(c) ==
  /\ c.revoked \subseteq revoked
  /\ \A e \in c.entries : e.key \in revoked \ undone => e.key \in c.revoked
Standing ==
  /\ Stands(disk["keys"]) /\ \A k \in revoked : \E d \in issued : d.key = k
  /\ \A h \in Requests : HasRead(h) => Stands(request[h].old)
  /\ \A h \in Requests : Creates(h) => request[h].new.key \notin revoked

\* Until the first creation the file is as it was.
Untouched ==
  issued = Shipped => "keys" \notin torn /\ disk["keys"].entries = Shipped /\ \A h \in Requests : ~Creates(h)

\* A list that was read has what must be kept, unless another is writing it; and so has the file.
Keeping ==
  \A f \in Files :
    /\ \A h \in Requests : At(h, f, {"open", "dump"}) /\ f # "settings" =>
         kept[f] \subseteq request[h].old.entries \/ \E g \in Requests \ {h} : At(g, f, {"dump"})
    /\ (\A h \in Requests : ~At(h, f, {"dump"})) => kept[f] \subseteq Stored(f).entries

BackendInv == BackendTypes /\ Authentic /\ Standing /\ Untouched /\ Keeping

\* It holds of the file that the repository has.
LEMMA BackendInitial == BackendInit => BackendInv
<1> SUFFICES ASSUME BackendInit PROVE BackendInv
  OBVIOUS
<1>1. \A h \in Requests : \A f, ats : "idle" \notin ats => ~At(h, f, ats)
  BY DEF BackendInit, NoRequest, At
<1>2. /\ "keys" \in Files /\ disk["keys"] = [entries |-> Shipped, revoked |-> {}]
      /\ \A f \in Files : disk[f] = [entries |-> Shipped, revoked |-> {}] \/ disk[f] = Nothing
      /\ \A f \in Files : kept[f] = disk[f].entries
  BY DEF BackendInit, Files
<1>3. BackendTypes
  BY <1>2 DEF BackendInit, BackendTypes, IsText, Nothing, RequestOk
<1>4. Authentic /\ Standing /\ Untouched
  BY <1>1, <1>2, BackendAssumption DEF BackendInit, Authentic, Standing, Untouched, Creates, HasRead, Stands
<1>5. Keeping
  BY <1>1, <1>2 DEF BackendInit, Keeping, Stored
<1> QED BY <1>3, <1>4, <1>5 DEF BackendInv

\* A request that has nothing to do with the files before and after its step.
Away(h) == request[h].at \notin {"read", "open", "dump"}

\* Its step leaves the invariant.
LEMMA Quiet ==
  ASSUME BackendInv, NEW h \in Requests, NEW s, request' = [request EXCEPT ![h] = s], RequestOk(s), Away(h),
         s.at \notin {"read", "open", "dump"}, UNCHANGED <<disk, torn, revoked, undone, issued, kept>>
  PROVE  BackendInv'
<1>1. request'[h] = s /\ DOMAIN request' = Requests /\ \A g \in Requests \ {h} : request'[g] = request[g]
  BY DEF BackendInv, BackendTypes
<1>2. \A g \in Requests : \A f, ats : ats \subseteq {"read", "open", "dump"} =>
        /\ At(g, f, ats)' <=> At(g, f, ats)
        /\ At(g, f, ats) => request'[g] = request[g]
  BY <1>1 DEF At, Away
<1>3. \A g \in Requests : /\ Creates(g)' <=> Creates(g)
                          /\ HasRead(g)' <=> HasRead(g)
                          /\ Creates(g) \/ HasRead(g) => request'[g] = request[g]
  BY <1>2 DEF Creates, HasRead
<1>4. BackendTypes'
  BY <1>1 DEF BackendInv, BackendTypes
<1>5. Authentic'
  BY <1>3 DEF BackendInv, Authentic
<1>6. Standing' /\ Untouched'
  BY <1>3 DEF BackendInv, Standing, Stands, Untouched
<1>7. Keeping'
  <2>1. \A f : Stored(f)' = Stored(f)
    BY DEF Stored
  <2>2. \A g \in Requests, f \in Files :
          /\ At(g, f, {"dump"})' <=> At(g, f, {"dump"})
          /\ At(g, f, {"open", "dump"})' <=> At(g, f, {"open", "dump"})
          /\ At(g, f, {"open", "dump"}) => request'[g] = request[g]
    BY <1>2
  <2> QED BY <2>1, <2>2 DEF BackendInv, Keeping
<1> QED BY <1>4, <1>5, <1>6, <1>7 DEF BackendInv

\* Such are all steps before and after a writer is at its file.
LEMMA QuietSteps ==
  ASSUME BackendInv, NEW h \in Requests,
         \/ \E op \in Operations : \E key : Arrive(h, op, key)
         \/ Guard(h) \/ Identify(h) \/ Serve(h) \/ LogMail(h)
  PROVE  BackendInv'
<1> DEFINE r == request[h]
<1>1. RequestOk(r) /\ RequestOk(NoRequest) /\ NoRequest.at = "idle"
  BY DEF BackendInv, BackendTypes, RequestOk, NoRequest
<1>2. ASSUME Ends(h), Away(h), UNCHANGED <<disk, torn, revoked, undone, issued, kept>> PROVE BackendInv'
  BY <1>1, <1>2, Quiet DEF Ends
<1>3. ASSUME NEW op \in Operations, NEW key, Arrive(h, op, key) PROVE BackendInv'
  <2> DEFINE s == [at |-> "guard", op |-> op, key |-> key]
  <2>1. RequestOk(s) /\ s.at = "guard" /\ Away(h)
    BY <1>1, <1>3 DEF RequestOk, Comes, Arrive, Away
  <2> QED BY <1>3, <2>1, Quiet DEF Arrive, Registers
<1>4. ASSUME NEW to \in {"identify", "serve", "begin"}, Moves(h, to), r.at \in {"guard", "identify"},
             to = "begin" => r.op \in Writes, to = "identify" => r.op \in {"get", "put"},
             UNCHANGED <<disk, torn, revoked, undone, issued, kept>>
      PROVE  BackendInv'
  <2> DEFINE s == [r EXCEPT !.at = to]
  <2>1. Comes(r)
    BY <1>1, <1>4 DEF RequestOk, NoRequest, Writing
  <2>2. RequestOk(s) /\ s.at = to
    BY <1>4, <2>1 DEF RequestOk, Comes
  <2> HIDE DEF s
  <2>3. request' = [request EXCEPT ![h] = s] /\ Away(h)
    BY <1>4 DEF Moves, Away, s
  <2> QED BY <1>4, <2>2, <2>3, Quiet
<1>5. CASE Guard(h)
  <2>1. Comes(r) /\ r.at = "guard"
    BY <1>1, <1>5 DEF Guard, RequestOk, NoRequest, Writing
  <2>2. /\ First(r.op) \in {"identify", "serve", "begin"}
        /\ First(r.op) = "begin" => r.op \in Writes
        /\ First(r.op) = "identify" => r.op \in {"get", "put"}
    BY DEF First, Writes
  <2> QED BY <1>2, <1>4, <1>5, <2>1, <2>2 DEF Guard, Registers, Away
<1>6. CASE Identify(h)
  <2>1. Comes(r) /\ r.at = "identify"
    BY <1>1, <1>6 DEF Identify, RequestOk, NoRequest, Writing
  <2>2. r.op \in {"get", "put"}
    BY <2>1 DEF Comes
  <2> QED BY <1>2, <1>4, <1>6, <2>1, <2>2 DEF Identify, Registers, Away, Writes
<1>7. CASE Serve(h) \/ LogMail(h)
  BY <1>2, <1>7 DEF Serve, LogMail, Registers, Away
<1> QED BY <1>3, <1>5, <1>6, <1>7

\* A writer's request is of its kind.
LEMMA Writer ==
  ASSUME BackendInv, NEW h \in Requests, request[h].at \in {"read", "open", "dump"}
  PROVE  Writing(request[h]) /\ File(request[h].op) \in Files /\ (Creates(h) <=> request[h].op = "create")
         /\ (File(request[h].op) = "keys" <=> request[h].op = "create")
         /\ (File(request[h].op) = "settings" <=> request[h].op = "put")
<1>1. Writing(request[h])
  BY DEF BackendInv, BackendTypes, RequestOk, Comes, NoRequest
<1> QED BY <1>1 DEF Writing, File, Files, Writes, Creates, At

\* The key that a creation makes is nobody's.
LEMMA BeginInv == ASSUME BackendInv, NEW h \in Requests, Begin(h) PROVE BackendInv'
<1> DEFINE r == request[h]
<1>1. r.at = "begin" /\ UNCHANGED <<disk, torn, revoked, undone, kept>>
  BY DEF Begin
<1>2. Comes(r) /\ r.op \in Writes
  BY <1>1 DEF BackendInv, BackendTypes, RequestOk, NoRequest, Writing, Comes
<1>3. PICK e, s :
        /\ e \in New(r.op)
        /\ s = [at |-> IF r.op = "put" THEN "open" ELSE "read", op |-> r.op, new |-> e, old |-> Nothing]
        /\ request' = [request EXCEPT ![h] = s]
        /\ issued' = IF r.op = "create" THEN issued \cup {e} ELSE issued
  BY DEF Begin
<1>4. /\ s.at \in {"open", "read"} /\ s.op = r.op /\ s.new = e /\ s.old = Nothing
      /\ s.at = "open" <=> r.op = "put"
  BY <1>3
<1>5. request'[h] = s /\ DOMAIN request' = Requests /\ \A g \in Requests \ {h} : request'[g] = request[g]
  BY <1>3 DEF BackendInv, BackendTypes
<1>6. BackendTypes'
  <2>1. RequestOk(s)
    BY <1>2, <1>3 DEF RequestOk, Writing, IsText, Nothing, Writes
  <2> QED BY <1>1, <1>5, <2>1 DEF BackendInv, BackendTypes
<1>7. \A g \in Requests : /\ HasRead(g)' <=> HasRead(g)
                          /\ HasRead(g) => g # h /\ request'[g] = request[g]
                          /\ Creates(g)' <=> Creates(g) \/ (g = h /\ r.op = "create")
                          /\ Creates(g) => g # h /\ request'[g] = request[g]
  <2>1. \A g \in Requests \ {h} : /\ HasRead(g)' <=> HasRead(g)
                                  /\ Creates(g)' <=> Creates(g)
    BY <1>5 DEF HasRead, Creates, At
  <2>2. ~HasRead(h) /\ ~Creates(h) /\ ~HasRead(h)' /\ (Creates(h)' <=> r.op = "create")
    BY <1>1, <1>2, <1>4, <1>5 DEF HasRead, Creates, At, File, Writes
  <2> QED BY <1>5, <2>1, <2>2
<1>8. r.op = "create" => \A d \in issued : d.key # e.key
  <2>1. r.op = "create" => e \in [key : Issuable \ {d.key : d \in issued}, role : {"System Admin", "User"}, expires : BOOLEAN]
    BY <1>3 DEF New
  <2>2. r.op = "create" => e.key \notin {d.key : d \in issued}
    BY <2>1
  <2> QED BY <2>2
<1>9. Authentic'
  <2>1. /\ Shipped \subseteq issued' /\ \A d, c \in issued' : d.key = c.key => d = c
        /\ disk'["keys"].entries \subseteq issued' /\ issued \subseteq issued'
    BY <1>1, <1>3, <1>8 DEF BackendInv, Authentic
  <2>2. r.op = "create" => e \notin issued /\ e \in issued'
    BY <1>3, <1>8
  <2> QED BY <1>1, <1>4, <1>5, <1>7, <2>1, <2>2 DEF BackendInv, Authentic
<1>10. Standing'
  <2>1. r.op = "create" => e.key \notin revoked
    <3>1. \A k \in revoked : \E d \in issued : d.key = k
      BY DEF BackendInv, Standing
    <3> QED BY <1>8, <3>1
  <2>2. \A c : Stands(c)' <=> Stands(c)
    BY <1>1 DEF Stands
  <2>3. Stands(disk["keys"])' /\ \A k \in revoked' : \E d \in issued' : d.key = k
    BY <1>1, <1>3, <2>2 DEF BackendInv, Standing
  <2>4. \A g \in Requests : HasRead(g)' => Stands(request[g].old)'
    BY <1>7, <2>2 DEF BackendInv, Standing
  <2>5. \A g \in Requests : Creates(g)' => request'[g].new.key \notin revoked'
    BY <1>1, <1>4, <1>5, <1>7, <2>1 DEF BackendInv, Standing
  <2> QED BY <2>3, <2>4, <2>5 DEF Standing
<1>11. Untouched'
  BY <1>1, <1>3, <1>7, <1>8, BackendAssumption DEF BackendInv, Untouched, Authentic
<1>12. Keeping'
  <2>1. \A f : Stored(f)' = Stored(f)
    BY <1>1 DEF Stored
  <2>2. \A g \in Requests, f \in Files :
          /\ At(g, f, {"dump"})' <=> At(g, f, {"dump"})
          /\ At(g, f, {"open", "dump"})' /\ f # "settings" => At(g, f, {"open", "dump"}) /\ request'[g] = request[g]
    BY <1>1, <1>2, <1>4, <1>5 DEF At, File, Writes
  <2> QED BY <1>1, <2>1, <2>2 DEF BackendInv, Keeping
<1> QED BY <1>6, <1>9, <1>10, <1>11, <1>12 DEF BackendInv

\* A writer that goes on, or is done.
LEMMA WriterTypes ==
  ASSUME BackendInv, NEW h \in Requests, NEW s, request' = [request EXCEPT ![h] = s], RequestOk(s),
         \/ disk' = disk
         \/ \E f \in Files : \E c : IsText(c) /\ disk' = [disk EXCEPT ![f] = c],
         DOMAIN kept' = Files
  PROVE  BackendTypes' /\ request'[h] = s /\ \A g \in Requests \ {h} : request'[g] = request[g]
BY DEF BackendInv, BackendTypes

\* A list that is read has what must be kept.
LEMMA ReadListInv == ASSUME BackendInv, NEW h \in Requests, ReadList(h) PROVE BackendInv'
<1> DEFINE r == request[h]
<1>1. PICK f, s : f = File(r.op) /\ s = [[r EXCEPT !.at = "open"] EXCEPT !.old = Stored(f)]
  OBVIOUS
<1>2. /\ r.at = "read" /\ request' = [request EXCEPT ![h] = s]
      /\ UNCHANGED <<disk, torn, revoked, undone, issued, kept>>
  BY <1>1 DEF ReadList, Registers, BackendInv, BackendTypes
<1>3. Writing(r) /\ f \in Files /\ (f = "keys" <=> r.op = "create") /\ f # "settings"
  BY <1>1, <1>2, Writer DEF Writing
<1>4. IsText(Stored(f)) /\ (Stored(f) = disk[f] \/ Stored(f) = Nothing) /\ (Creates(h) <=> f = "keys")
  BY <1>2, <1>3, Writer DEF Stored, IsText, Nothing, BackendInv, BackendTypes
<1>5. /\ s.at = "open" /\ s.op = r.op /\ s.new = r.new /\ s.old = Stored(f)
      /\ Writing(s)
  BY <1>1, <1>3, <1>4 DEF Writing
<1>6. BackendTypes' /\ request'[h] = s /\ \A g \in Requests \ {h} : request'[g] = request[g]
  BY <1>2, <1>5, WriterTypes DEF RequestOk, BackendInv, BackendTypes
<1>7. \A g \in Requests : /\ Creates(g)' <=> Creates(g)
                          /\ HasRead(g)' <=> HasRead(g) \/ (g = h /\ f = "keys")
                          /\ request'[g].new = request[g].new \/ ~Creates(g)
                          /\ HasRead(g) => g # h /\ request'[g] = request[g]
  BY <1>1, <1>2, <1>3, <1>5, <1>6 DEF Creates, HasRead, At
<1>8. /\ Nothing.entries = {} /\ Nothing.revoked = {}
      /\ f = "keys" => s.old = disk["keys"] \/ s.old = Nothing
  BY <1>4, <1>5 DEF Nothing
<1>9. Authentic'
  BY <1>2, <1>6, <1>7, <1>8 DEF BackendInv, Authentic
<1>10. Standing'
  BY <1>2, <1>6, <1>7, <1>8 DEF BackendInv, Standing, Stands
<1>11. Untouched'
  BY <1>2, <1>7 DEF BackendInv, Untouched
<1>12. Keeping'
  <2>1. \A i : Stored(i)' = Stored(i)
    BY <1>2 DEF Stored
  <2>2. \A g \in Requests, i \in Files :
          /\ At(g, i, {"dump"})' <=> At(g, i, {"dump"})
          /\ At(g, i, {"open", "dump"})' => (At(g, i, {"open", "dump"}) /\ request'[g] = request[g]) \/ (g = h /\ i = f)
    BY <1>1, <1>2, <1>5, <1>6 DEF At
  <2>3. ~At(h, f, {"dump"})
    BY <1>2 DEF At
  <2>4. kept[f] \subseteq s.old.entries \/ \E g \in Requests \ {h} : At(g, f, {"dump"})
    BY <1>3, <1>5, <2>3 DEF BackendInv, Keeping
  <2>5. ASSUME NEW i \in Files, NEW g \in Requests, At(g, i, {"open", "dump"})', i # "settings"
        PROVE  kept'[i] \subseteq request'[g].old.entries \/ \E k \in Requests \ {g} : At(k, i, {"dump"})'
    <3>1. CASE g = h /\ i = f
      BY <1>2, <1>6, <2>2, <2>4, <3>1
    <3>2. CASE At(g, i, {"open", "dump"}) /\ request'[g] = request[g]
      BY <1>2, <2>2, <2>5, <3>2 DEF BackendInv, Keeping
    <3> QED BY <2>2, <2>5, <3>1, <3>2
  <2> QED BY <1>2, <2>1, <2>2, <2>5 DEF BackendInv, Keeping
<1> QED BY <1>6, <1>9, <1>10, <1>11, <1>12 DEF BackendInv

\* While one writes the file nothing of it can be had.
LEMMA OpenInv == ASSUME BackendInv, NEW h \in Requests, Open(h) PROVE BackendInv'
<1> DEFINE r == request[h]
<1>1. PICK f, s : f = File(r.op) /\ s = [r EXCEPT !.at = "dump"]
  OBVIOUS
<1>2. /\ r.at = "open" /\ request' = [request EXCEPT ![h] = s] /\ torn' = torn \cup {f}
      /\ UNCHANGED <<disk, revoked, undone, issued, kept>>
  BY <1>1 DEF Open, Moves, Registers
<1>3. Writing(r) /\ f \in Files /\ (f = "keys" <=> r.op = "create") /\ (Creates(h) <=> f = "keys")
  BY <1>1, <1>2, Writer
<1>4. /\ s.at = "dump" /\ s.op = r.op /\ s.new = r.new /\ s.old = r.old /\ Writing(s)
  BY <1>1, <1>3 DEF Writing
<1>5. BackendTypes' /\ request'[h] = s /\ \A g \in Requests \ {h} : request'[g] = request[g]
  BY <1>2, <1>4, WriterTypes DEF RequestOk, BackendInv, BackendTypes
<1>6. \A g \in Requests : /\ Creates(g)' <=> Creates(g)
                          /\ HasRead(g)' <=> HasRead(g)
                          /\ Creates(g) => request'[g].new = request[g].new /\ request'[g].old = request[g].old
                          /\ HasRead(g) => Creates(g)
  BY <1>1, <1>2, <1>4, <1>5 DEF Creates, HasRead, At
<1>7. Authentic' /\ Standing'
  BY <1>2, <1>6 DEF BackendInv, Authentic, Standing, Stands
<1>8. Untouched'
  BY <1>2, <1>3, <1>6 DEF BackendInv, Untouched
<1>9. Keeping'
  <2>1. At(h, f, {"dump"})' /\ \A i \in Files \ {f} : Stored(i)' = Stored(i)
    BY <1>1, <1>2, <1>4, <1>5 DEF At, Stored
  <2>2. \A g \in Requests, i \in Files :
          /\ At(g, i, {"dump"})' <=> At(g, i, {"dump"}) \/ (g = h /\ i = f)
          /\ At(g, i, {"open", "dump"})' <=> At(g, i, {"open", "dump"})
          /\ At(g, i, {"open", "dump"}) => request'[g].old = request[g].old
    BY <1>1, <1>2, <1>4, <1>5 DEF At
  <2>3. \A i \in Files, g \in Requests : At(g, i, {"open", "dump"})' /\ i # "settings" =>
          kept'[i] \subseteq request'[g].old.entries \/ \E k \in Requests \ {g} : At(k, i, {"dump"})'
    BY <1>2, <2>2 DEF BackendInv, Keeping
  <2>4. \A i \in Files : (\A g \in Requests : ~At(g, i, {"dump"})') => kept'[i] \subseteq Stored(i)'.entries
    BY <1>2, <2>1, <2>2 DEF BackendInv, Keeping
  <2> QED BY <2>3, <2>4 DEF Keeping
<1> QED BY <1>5, <1>7, <1>8, <1>9 DEF BackendInv

\* A request that is done with its file, of which nothing has to be kept but what it wrote alone.
LEMMA Written ==
  ASSUME BackendInv, NEW h \in Requests, NEW s, request[h].at = "dump", NEW f, f = File(request[h].op),
         request' = [request EXCEPT ![h] = s], RequestOk(s), s.at \notin {"read", "open", "dump"},
         UNCHANGED <<revoked, undone, issued>>,
         \/ UNCHANGED disk /\ f \in torn' /\ Forget(f)
         \/ /\ disk' = [disk EXCEPT ![f] = [entries |-> request[h].old.entries \cup {request[h].new},
                                           revoked |-> request[h].old.revoked]]
            /\ (f \in torn' /\ Forget(f)) \/ (f \notin torn' /\ Keep(h, f)),
         \A i \in Files \ {f} : i \in torn' <=> i \in torn
  PROVE  BackendInv'
<1> DEFINE r == request[h]
           c == [entries |-> r.old.entries \cup {r.new}, revoked |-> r.old.revoked]
<1>1. /\ Writing(r) /\ f \in Files /\ (f = "keys" <=> r.op = "create") /\ (Creates(h) <=> f = "keys")
      /\ At(h, f, {"dump"}) /\ At(h, f, {"open", "dump"})
  BY Writer DEF At
<1>2. c.entries = r.old.entries \cup {r.new} /\ c.revoked = r.old.revoked /\ IsText(c)
  BY DEF IsText
<1> HIDE DEF c
<1>3. /\ DOMAIN kept' = Files /\ \A i \in Files \ {f} : kept'[i] = kept[i]
      /\ kept'[f] = {} \/ (disk' = [disk EXCEPT ![f] = c] /\ f \notin torn' /\ Keep(h, f))
  BY <1>1 DEF Forget, Keep, BackendInv, BackendTypes, c
<1>4. disk' = disk \/ disk' = [disk EXCEPT ![f] = c]
  BY DEF c
<1>5. BackendTypes' /\ request'[h] = s /\ \A g \in Requests \ {h} : request'[g] = request[g]
  <2>1. disk' = disk \/ \E i \in Files : \E t : IsText(t) /\ disk' = [disk EXCEPT ![i] = t]
    BY <1>1, <1>2, <1>4
  <2>2. DOMAIN kept' = Files /\ RequestOk(s) /\ request' = [request EXCEPT ![h] = s]
    BY <1>3
  <2> QED BY <2>1, <2>2, WriterTypes
<1>6. \A i \in Files \ {f} : disk'[i] = disk[i] /\ Stored(i)' = Stored(i)
  BY <1>4 DEF BackendInv, BackendTypes, Stored
<1>7. disk'[f] = disk[f] \/ disk'[f] = c
  BY <1>1, <1>4 DEF BackendInv, BackendTypes
<1>8. \A g \in Requests : /\ Creates(g)' <=> Creates(g) /\ g # h
                          /\ HasRead(g)' <=> HasRead(g) /\ g # h
                          /\ HasRead(g) => Creates(g)
  BY <1>5 DEF Creates, HasRead, At
<1>9. disk'["keys"] = disk["keys"] \/ (f = "keys" /\ disk'["keys"] = c /\ HasRead(h) /\ Creates(h))
  BY <1>1, <1>6, <1>7 DEF Files, HasRead, At
<1>10. Authentic'
  BY <1>2, <1>5, <1>8, <1>9 DEF BackendInv, Authentic
<1>11. Standing'
  <2>1. Stands(disk["keys"])'
    BY <1>2, <1>9 DEF BackendInv, Standing, Stands
  <2> QED BY <1>5, <1>8, <2>1 DEF BackendInv, Standing, Stands
<1>12. Untouched'
  <2>1. CASE f = "keys"
    BY <1>1, <2>1 DEF BackendInv, Untouched
  <2>2. CASE f # "keys"
    BY <1>8, <1>9, <2>2 DEF BackendInv, Untouched, Files
  <2> QED BY <2>1, <2>2
<1>13. Keeping'
  <2>1. \A g \in Requests, i \in Files :
          /\ At(g, i, {"dump"})' <=> At(g, i, {"dump"}) /\ g # h
          /\ At(g, i, {"open", "dump"})' <=> At(g, i, {"open", "dump"}) /\ g # h
    BY <1>5 DEF At
  <2>2. \A i \in Files \ {f} : ~At(h, i, {"dump"})
    BY DEF At
  <2>3. ASSUME kept'[f] # {} /\ f # "settings"
        PROVE  /\ kept'[f] \subseteq Stored(f)'.entries
               /\ \A g \in Requests \ {h} : ~At(g, f, {"open", "dump"})
    <3>1. disk' = [disk EXCEPT ![f] = c] /\ f \notin torn' /\ Keep(h, f) /\ ~Meets(h, f)
      BY <1>1, <1>3, <2>3 DEF Keep, BackendInv, BackendTypes
    <3>2. \A g \in Requests \ {h} : ~At(g, f, {"open", "dump"}) /\ ~At(g, f, {"dump"})
      BY <2>3, <3>1 DEF Meets, At
    <3>3. kept[f] \subseteq r.old.entries
      BY <1>1, <2>3, <3>2 DEF BackendInv, Keeping
    <3>4. kept'[f] = kept[f] \cup {r.new}
      BY <1>1, <2>3, <3>1 DEF Keep, BackendInv, BackendTypes
    <3>5. Stored(f)' = c
      BY <1>1, <3>1 DEF Stored, BackendInv, BackendTypes
    <3> QED BY <1>2, <3>2, <3>3, <3>4, <3>5
  <2>4. ASSUME kept'[f] # {} /\ f = "settings" PROVE kept'[f] \subseteq Stored(f)'.entries
    <3>1. disk' = [disk EXCEPT ![f] = c] /\ f \notin torn' /\ kept'[f] = {r.new}
      BY <1>1, <1>3, <2>4 DEF Keep, BackendInv, BackendTypes
    <3>2. Stored(f)' = c
      BY <1>1, <3>1 DEF Stored, BackendInv, BackendTypes
    <3> QED BY <1>2, <3>1, <3>2
  <2>5. ASSUME NEW i \in Files, NEW g \in Requests, At(g, i, {"open", "dump"})', i # "settings"
        PROVE  kept'[i] \subseteq request'[g].old.entries \/ \E k \in Requests \ {g} : At(k, i, {"dump"})'
    <3>1. CASE i = f
      BY <2>1, <2>3, <2>5, <3>1
    <3>2. CASE i # f
      <4>1. At(g, i, {"open", "dump"}) /\ g # h /\ request'[g] = request[g] /\ kept'[i] = kept[i]
        BY <1>3, <1>5, <2>1, <2>5, <3>2
      <4>2. kept[i] \subseteq request[g].old.entries \/ \E k \in Requests \ {g} : At(k, i, {"dump"})
        BY <2>5, <4>1 DEF BackendInv, Keeping
      <4> QED BY <2>1, <2>2, <3>2, <4>1, <4>2
    <3> QED BY <3>1, <3>2
  <2>6. ASSUME NEW i \in Files, \A g \in Requests : ~At(g, i, {"dump"})' PROVE kept'[i] \subseteq Stored(i)'.entries
    <3>1. CASE i = f
      BY <2>3, <2>4, <3>1
    <3>2. CASE i # f
      BY <1>3, <1>6, <2>1, <2>2, <2>6, <3>2 DEF BackendInv, Keeping
    <3> QED BY <3>1, <3>2
  <2> QED BY <2>5, <2>6 DEF Keeping
<1> QED BY <1>5, <1>10, <1>11, <1>12, <1>13 DEF BackendInv

\* The list is written, in one piece or not.
LEMMA DumpInv == ASSUME BackendInv, NEW h \in Requests, Dump(h) PROVE BackendInv'
<1> DEFINE r == request[h]
<1>1. PICK f : f = File(r.op)
  OBVIOUS
<1>2. r.at = "dump" /\ Writing(r) /\ f \in Files
  BY <1>1, Writer DEF Dump
<1>3. [r.old EXCEPT !.entries = @ \cup {r.new}] = [entries |-> r.old.entries \cup {r.new}, revoked |-> r.old.revoked]
  BY <1>2 DEF Writing, IsText
<1>4. PICK s : /\ request' = [request EXCEPT ![h] = s] /\ RequestOk(s) /\ s.at \notin {"read", "open", "dump"}
  <2>1. CASE r.op = "contact"
    <3> DEFINE t == [r EXCEPT !.at = "log"]
    <3>1. RequestOk(t) /\ t.at = "log"
      BY <1>2, <2>1 DEF RequestOk, Writing
    <3>2. request' = [request EXCEPT ![h] = t]
      BY <2>1 DEF Dump, Moves
    <3> HIDE DEF t
    <3> QED BY <3>1, <3>2
  <2>2. CASE r.op # "contact"
    <3>1. request' = [request EXCEPT ![h] = NoRequest]
      BY <2>2 DEF Dump, Ends
    <3>2. RequestOk(NoRequest) /\ NoRequest.at = "idle"
      BY DEF RequestOk, NoRequest
    <3> QED BY <3>1, <3>2
  <2> QED BY <2>1, <2>2
<1>5. /\ disk' = [disk EXCEPT ![f] = [entries |-> r.old.entries \cup {r.new}, revoked |-> r.old.revoked]]
      /\ (f \in torn' /\ Forget(f)) \/ (f \notin torn' /\ Keep(h, f))
      /\ \A i \in Files \ {f} : i \in torn' <=> i \in torn
      /\ UNCHANGED <<revoked, undone, issued>>
  BY <1>1, <1>3 DEF Dump
<1> QED BY <1>1, <1>2, <1>4, <1>5, Written

\* The list is not written.
LEMMA DumpFailsInv == ASSUME BackendInv, NEW h \in Requests, DumpFails(h) PROVE BackendInv'
<1>1. PICK f : f = File(request[h].op)
  OBVIOUS
<1>2. /\ request[h].at = "dump" /\ request' = [request EXCEPT ![h] = NoRequest] /\ f \in torn' /\ Forget(f)
      /\ \A i \in Files \ {f} : i \in torn' <=> i \in torn
      /\ UNCHANGED <<disk, revoked, undone, issued>>
  BY <1>1 DEF DumpFails, Ends, Registers
<1>3. RequestOk(NoRequest) /\ NoRequest.at \notin {"read", "open", "dump"}
  BY DEF RequestOk, NoRequest
<1> QED BY <1>1, <1>2, <1>3, Written

\* The operator's edit reaches the file, and who had read it is known.
LEMMA RevokeInv == ASSUME BackendInv, NEW e \in issued, Revoke(e.key) PROVE BackendInv'
<1>1. PICK key : key = e.key
  OBVIOUS
<1>2. /\ disk' = [disk EXCEPT !["keys"].revoked = @ \cup {key}] /\ revoked' = revoked \cup {key}
      /\ undone' = IF \E h \in Requests : HasRead(h) THEN undone \cup {key} ELSE undone \ {key}
      /\ "keys" \notin torn /\ Issued(key) # {} /\ UNCHANGED <<torn, request, issued, kept>>
  BY <1>1 DEF Revoke, HasRead
<1>3. /\ "keys" \in Files /\ disk'["keys"] = [disk["keys"] EXCEPT !.revoked = @ \cup {key}]
      /\ DOMAIN disk' = Files /\ \A f \in Files \ {"keys"} : disk'[f] = disk[f]
  BY <1>2 DEF BackendInv, BackendTypes, Files
<1>4. disk'["keys"].entries = disk["keys"].entries /\ disk'["keys"].revoked = disk["keys"].revoked \cup {key} /\ IsText(disk["keys"])'
  BY <1>3 DEF BackendInv, BackendTypes, IsText
<1>5. BackendTypes'
  BY <1>2, <1>3, <1>4 DEF BackendInv, BackendTypes, IsText
<1>6. \A h \in Requests : (Creates(h)' <=> Creates(h)) /\ (HasRead(h)' <=> HasRead(h))
  BY <1>2 DEF Creates, HasRead, At
<1>7. Authentic' /\ Untouched'
  BY <1>2, <1>4, <1>6 DEF BackendInv, Authentic, Untouched
<1>8. Standing'
  <2>1. Stands(disk["keys"])' /\ \A k \in revoked' : \E d \in issued' : d.key = k
    BY <1>1, <1>2, <1>4 DEF BackendInv, Standing, Stands
  <2>2. ASSUME NEW h \in Requests, HasRead(h)' PROVE Stands(request[h].old)'
    BY <1>2, <1>6, <2>2 DEF BackendInv, Standing, Stands
  <2>3. ASSUME NEW h \in Requests, Creates(h)' PROVE request'[h].new.key \notin revoked'
    <3>1. \E d \in disk["keys"].entries : d.key = key
      BY <1>2 DEF Issued, Stored
    <3>2. request[h].new.key # key
      BY <1>6, <2>3, <3>1 DEF BackendInv, Authentic
    <3> QED BY <1>2, <1>6, <2>3, <3>2 DEF BackendInv, Standing
  <2> QED BY <2>1, <2>2, <2>3 DEF Standing
<1>9. Keeping'
  <2>1. \A f \in Files : Stored(f)'.entries = Stored(f).entries
    BY <1>2, <1>3, <1>4 DEF Stored
  <2>2. \A h \in Requests, f \in Files : (At(h, f, {"dump"})' <=> At(h, f, {"dump"})) /\ (At(h, f, {"open", "dump"})' <=> At(h, f, {"open", "dump"}))
    BY <1>2 DEF At
  <2> QED BY <1>2, <2>1, <2>2 DEF BackendInv, Keeping
<1> QED BY <1>5, <1>7, <1>8, <1>9 DEF BackendInv

\* No step breaks the invariant.
LEMMA BackendStep == BackendInv /\ [BackendNext]_backendVars => BackendInv'
<1>1. BackendInv /\ UNCHANGED <<disk, torn, request, revoked, undone, issued, kept>> => BackendInv'
  BY DEF BackendInv, BackendTypes, Authentic, Standing, Stands, Untouched, Keeping, Creates, HasRead, At, Stored
<1>2. ASSUME BackendInv, BackendNext PROVE BackendInv'
  <2>1. CASE \E e \in issued : Expire(e) \/ Revoke(e.key)
    BY <1>1, <1>2, <2>1, RevokeInv DEF Expire, Registers
  <2>2. CASE \E h \in Requests :
               \/ \E op \in Operations, key \in told \cup {"admin", "env", "demo", "none"} : Arrive(h, op, key)
               \/ Guard(h) \/ Identify(h) \/ Serve(h) \/ LogMail(h)
    BY <1>2, <2>2, QuietSteps
  <2>3. CASE \E h \in Requests : Begin(h) \/ ReadList(h) \/ Open(h) \/ Dump(h) \/ DumpFails(h)
    BY <1>2, <2>3, BeginInv, ReadListInv, OpenInv, DumpInv, DumpFailsInv
  <2> QED BY <1>2, <2>1, <2>2, <2>3 DEF BackendNext
<1> QED BY <1>1, <1>2 DEF backendVars

\* A key that the file shows is judged as it was issued, if the operator's edits stand.
LEMMA FoundIsHolder ==
  ASSUME BackendInv, NEW p, NEW key, Issued(key) # {}
  PROVE  /\ Resolve(p, key) # "anonymous" => Resolve(p, key) = Holder(p, key)
         /\ key \notin undone => Resolve(p, key) = Holder(p, key)
<1>1. PICK e : e \in issued /\ e.key = key /\ Issued(key) = {e} /\ {d \in issued : d.key = key} = {e}
  BY DEF BackendInv, Authentic, Issued, Stored, Nothing
<1>2. "keys" \notin torn /\ Stored("keys") = disk["keys"] /\ e \in disk["keys"].entries
  BY <1>1 DEF Issued, Stored, Nothing
<1>3. Resolve(p, key) = IF Refused(e) THEN "anonymous" ELSE e.role
  BY <1>1 DEF Resolve
<1>4. Holder(p, key) = IF key \in revoked \ undone \/ (e.expires /\ key \in expired) THEN "anonymous" ELSE e.role
  BY <1>1 DEF Holder
<1>5. /\ Refused(e) <=> key \in disk["keys"].revoked \/ (e.expires /\ key \in expired)
      /\ key \in revoked \ undone => key \in disk["keys"].revoked
      /\ key \in disk["keys"].revoked => key \in revoked
  BY <1>1, <1>2 DEF Refused, BackendInv, Standing, Stands
<1> QED BY <1>3, <1>4, <1>5

\* A role that the guard finds enough is the holder's, or the environment's once a key was created.
LEMMA GuardIsRight ==
  ASSUME BackendInv, NEW p, NEW key, NEW op \in Operations, Suffices(Resolve(p, key), Level(op))
  PROVE  \/ Suffices(Holder(p, key), Level(op))
         \/ issued # Shipped /\ Suffices(Unissued(p, key), Level(op))
<1>1. Level(op) \in {"admin", "no_user", "open"}
  BY DEF Level, Operations
<1>2. CASE Resolve(p, key) = "anonymous"
  BY <1>1, <1>2 DEF Suffices
<1>3. CASE Resolve(p, key) # "anonymous" /\ Issued(key) # {}
  BY <1>3, FoundIsHolder
<1>4. CASE Issued(key) = {}
  <2>1. Resolve(p, key) = Unissued(p, key)
    BY <1>4 DEF Resolve
  <2>2. CASE {e \in issued : e.key = key} = {}
    BY <2>1, <2>2 DEF Holder
  <2>3. CASE {e \in issued : e.key = key} # {}
    <3>1. issued # Shipped
      BY <1>4, <2>3 DEF BackendInv, Untouched, Issued, Stored
    <3> QED BY <2>1, <3>1
  <2> QED BY <2>2, <2>3
<1> QED BY <1>2, <1>3, <1>4

\* Who begins to work has passed the guard.
LEMMA GuardPasses ==
  ASSUME BackendInv, BackendNext, NEW h \in Requests, Works(h)', ~Works(h)
  PROVE  /\ Comes(request[h]) /\ UNCHANGED env
         /\ \E to : request'[h] = [request[h] EXCEPT !.at = to]
         /\ Suffices(Resolve(Process(request[h].op), request[h].key), Level(request[h].op)) \/ ~env[Process(request[h].op)].enforcing
<1>1. DOMAIN request = Requests /\ RequestOk(request[h]) /\ request[h].at \in {"idle", "guard"} /\ NoRequest.at = "idle"
  BY DEF BackendInv, BackendTypes, Works, NoRequest
<1>2. request'[h] # request[h]
  BY DEF Works
<1>3. ASSUME NEW g \in Requests, NEW s, request' = [request EXCEPT ![g] = s] PROVE g = h /\ request'[h] = s /\ s.at \notin {"idle", "guard"}
  BY <1>1, <1>2, <1>3 DEF Works
<1>4. ASSUME NEW g \in Requests, \E op \in Operations, key \in told \cup {"admin", "env", "demo", "none"} : Arrive(g, op, key)
      PROVE  FALSE
  <2>1. PICK s : s.at = "guard" /\ request' = [request EXCEPT ![g] = s]
    BY <1>4 DEF Arrive
  <2> QED BY <1>3, <2>1
<1>5. ASSUME NEW g \in Requests, Identify(g) \/ Serve(g) \/ Begin(g) \/ ReadList(g) \/ Open(g) \/ Dump(g) \/ LogMail(g) \/ DumpFails(g)
      PROVE  FALSE
  <2>1. \E s : request' = [request EXCEPT ![g] = s]
    BY <1>5 DEF Identify, Serve, Begin, ReadList, Open, Dump, LogMail, DumpFails, Moves, Ends
  <2>2. g = h
    BY <1>3, <2>1
  <2> QED BY <1>1, <1>5, <2>2 DEF Identify, Serve, Begin, ReadList, Open, Dump, LogMail, DumpFails
<1>6. ~(\E e \in issued : Expire(e) \/ Revoke(e.key))
  BY <1>2 DEF Expire, Revoke
<1>7. PICK g \in Requests : Guard(g)
  BY <1>4, <1>5, <1>6 DEF BackendNext
<1>8. ~Ends(g)
  BY <1>1, <1>3 DEF Ends
<1>9. /\ Moves(g, First(request[g].op)) /\ request[g].at = "guard" /\ UNCHANGED env
      /\ Suffices(Resolve(Process(request[g].op), request[g].key), Level(request[g].op)) \/ ~env[Process(request[g].op)].enforcing
  BY <1>7, <1>8 DEF Guard
<1>10. g = h /\ request'[h] = [request[h] EXCEPT !.at = First(request[g].op)]
  BY <1>3, <1>9 DEF Moves
<1>11. Comes(request[h])
  BY <1>1, <1>9, <1>10 DEF RequestOk, NoRequest, Writing
<1> QED BY <1>9, <1>10, <1>11

\* Who begins to work has the role that the route asks for, by the register of what was issued.
LEMMA WorksEntitled ==
  ASSUME BackendInv, BackendNext, NEW h \in Requests, Works(h)', ~Works(h), env[Process(request'[h].op)].enforcing
  PROVE  \/ Suffices(Holder(Process(request'[h].op), request'[h].key), Level(request'[h].op))
         \/ issued # Shipped /\ Suffices(Unissued(Process(request'[h].op), request'[h].key), Level(request'[h].op))
<1>1. Comes(request[h]) /\ \E to : request'[h] = [request[h] EXCEPT !.at = to]
  BY GuardPasses
<1>2. request'[h].op = request[h].op /\ request'[h].key = request[h].key /\ request[h].op \in Operations
  BY <1>1 DEF Comes
<1>3. Suffices(Resolve(Process(request[h].op), request[h].key), Level(request[h].op))
  BY <1>2, GuardPasses
<1> QED BY <1>2, <1>3, GuardIsRight

\* OnlyTheEntitled: with roles enforced a handler begins to work only for a caller whose key has the
\* role that its route asks for: the one that it was issued with until it expires or is revoked
\* (access.check, resolve and lookup_issued), or, once a key was created, that of the environment
\* or the demo table.
THEOREM RolesAreChecked == BackendSpec => OnlyTheEntitled
<1>1. BackendInv /\ [BackendNext]_backendVars =>
        [\A h \in Requests :
           LET r == request'[h]
               p == Process(r.op)
           IN Works(h)' /\ ~Works(h) /\ env[p].enforcing =>
                \/ Suffices(Holder(p, r.key), Level(r.op))
                \/ issued # Shipped /\ Suffices(Unissued(p, r.key), Level(r.op))]_backendVars
  BY WorksEntitled
<1> QED BY <1>1, BackendInitial, BackendStep, PTL DEF BackendSpec, OnlyTheEntitled

\* AnsweredIsStored: what was written to a file since two requests last overlapped or a write failed
\* is in it whenever nobody is writing it, and a key that is in it has the role that it was issued
\* with until it expires or is revoked (create_api_key, contact_sales, put_settings).
THEOREM StoredAsAnswered == BackendSpec => []AnsweredIsStored
<1>1. ASSUME BackendInv PROVE AnsweredIsStored
  <2>1. ASSUME NEW f \in Files, \A h \in Requests : ~At(h, f, {"dump"}) PROVE kept[f] \subseteq Stored(f).entries
    BY <1>1, <2>1 DEF BackendInv, Keeping
  <2>2. ASSUME NEW e \in Stored("keys").entries, NEW p \in Backends, e.key \notin undone
        PROVE  Resolve(p, e.key) = Holder(p, e.key)
    <3>1. Issued(e.key) # {}
      BY <2>2 DEF Issued
    <3> QED BY <1>1, <2>2, <3>1, FoundIsHolder
  <2> QED BY <2>1, <2>2 DEF AnsweredIsStored
<1> QED BY <1>1, BackendInitial, BackendStep, PTL DEF BackendSpec
=============================================================================
