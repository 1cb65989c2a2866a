-------------------------- MODULE MCAgentPipeline --------------------------
(* For TLC: AgentPipeline with its dashboards (Dashboard), or the launch of  *)
(* the applications of three runs, of which two use one port (AppLaunch).    *)
EXTENDS Dashboard, AppLaunch, TLC

CONSTANTS alone, port, other

TwoOutputs == {"o1", "o2"}
Alike == Permutations(Windows)
PortOfDef == [r \in Runs |-> IF r = alone THEN other ELSE port]

\* One of the two.
PipelineNext == \/ AppInit /\ DashNext /\ UNCHANGED appVars
                \/ DashInit /\ AppNext /\ UNCHANGED <<vars, dashVars>>
PipelineInit == DashInit /\ AppInit
PipelineSpec == PipelineInit /\ [][PipelineNext]_<<vars, dashVars, appVars>>
=============================================================================
