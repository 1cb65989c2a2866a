--------------------------- MODULE MCApprovalGate ---------------------------
(* ApprovalGate for TLC: the windows of one kind are interchangeable. *)
EXTENDS ApprovalGate, TLC

WindowSymmetry == Permutations(Dashboards) \cup Permutations(Operators)
=============================================================================
