------------------------------ MODULE MCBackend ------------------------------
(* What requests of the web backend leave in its files, for TLC: the keys,    *)
(* leads and settings (BackendFiles), the activity ledger of one key          *)
(* (ActivityLog) and the operators' prompts (PromptStore); one of the three   *)
(* at a time.                                                                 *)
EXTENDS BackendFiles, ActivityLog, PromptStore, TLC

\* The demo's key, as the repository has it.
ShippedDef == {[key |-> "demo", role |-> "System Admin", expires |-> FALSE]}

\* Roles are enforced, with the administrator's key and the licensees' set or neither.
Set(enforcing, keys) == [p \in Backends |-> [enforcing |-> enforcing, admins |-> keys, keys |-> keys]]
EnvironmentsDef == {Set(TRUE, TRUE), Set(TRUE, FALSE)}
\* Nothing, or the switch and the licensees' keys.
DotEnvsDef == {<<>>, [enforcing |-> FALSE, keys |-> TRUE]}

Alike == Permutations(Requests) \cup Permutations(Handlers) \cup Permutations(Issuable)

SharedInit == BackendInit /\ ActInit /\ PromptInit
SharedNext ==
  \/ ActInit /\ PromptInit /\ BackendNext /\ UNCHANGED <<actVars, promptVars>>
  \/ BackendInit /\ PromptInit /\ ActNext /\ UNCHANGED <<backendVars, promptVars>>
  \/ BackendInit /\ ActInit /\ PromptNext /\ UNCHANGED <<backendVars, actVars>>
SharedSpec == SharedInit /\ [][SharedNext]_<<backendVars, actVars, promptVars>>
=============================================================================
