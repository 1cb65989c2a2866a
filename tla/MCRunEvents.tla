---------------------------- MODULE MCRunEvents ----------------------------
(* RunEvents for TLC.                                                      *)
EXTENDS RunEvents
=============================================================================
