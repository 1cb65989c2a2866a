---------------------------- MODULE MCRunStream ----------------------------
(* RunStream for TLC.                                                      *)
EXTENDS RunStream
=============================================================================
