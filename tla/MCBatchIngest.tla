---------------------------- MODULE MCBatchIngest ----------------------------
(* BatchIngest for TLC: documents are alike.                                *)
EXTENDS BatchIngest
=============================================================================
