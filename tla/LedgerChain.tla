---------------------------- MODULE LedgerChain ----------------------------
(***************************************************************************)
(* The pure part of decision_ledger.py: what one line of                   *)
(* decision_ledger.jsonl holds, how an append changes the file, what a     *)
(* reopened ledger resumes from, and what verify_file accepts.             *)
(*                                                                         *)
(* A ledger file is a sequence of lines.  Only what the chain is made of   *)
(* is kept of an entry: its seq, its prev_hash and its entry_hash.  SHA-256 *)
(* over the canonical entry (which holds a timestamp and prev_hash) is     *)
(* taken as collision free: every entry ever hashed gets a number of its   *)
(* own, and GENESIS_HASH is 0.  A line that is not valid JSON has parses   *)
(* FALSE; what its other fields are is then irrelevant.                    *)
(***************************************************************************)
EXTENDS Integers, Sequences, FiniteSets

GENESIS_HASH == 0

Line == [parses : BOOLEAN, seq : Nat, prev : Nat, hash : Nat]

\* The entry a ledger object whose cached tail is <<s, h>> builds and hashes.
NextEntry(s, h, fresh) == [parses |-> TRUE, seq |-> s + 1, prev |-> h, hash |-> fresh]

\* A line that is no longer JSON.
Torn(e) == [e EXCEPT !.parses = FALSE]

\* An append opens the file in mode "a".  If the last line was left without
\* its newline by a write that failed half way, the new entry is glued to it
\* and the line they share is no longer JSON.
WriteLine(f, eol, e) ==
  IF eol \/ f = <<>> THEN Append(f, e) ELSE [f EXCEPT ![Len(f)] = Torn(@)]

\* The lines _load_tail reads before json.loads raises (all of them if none does).
ReadablePrefix(f) ==
  Cardinality({n \in 1 .. Len(f) : \A k \in 1 .. n : f[k].parses})

\* The hash the next entry has to chain from.
LastHash(f) == IF f = <<>> THEN GENESIS_HASH ELSE f[Len(f)].hash

\* Mutant of LoadTail: a reopened ledger starts a new chain.
LoadTailForgets(f) == [seq |-> 0, head |-> GENESIS_HASH]

LoadTail(f) ==
  LET n == ReadablePrefix(f)
  IN IF n = 0 THEN [seq |-> 0, head |-> GENESIS_HASH]
     ELSE [seq |-> f[n].seq, head |-> f[n].hash]

\* What verify_file requires of line k before it goes on to line k + 1.
Linked(f, k) ==
  /\ f[k].parses
  /\ f[k].seq = k
  /\ f[k].prev = IF k = 1 THEN GENESIS_HASH ELSE f[k - 1].hash

VerifyFile(f) == \A k \in 1 .. Len(f) : Linked(f, k)

\* entries_checked in verify_file's result.
Checked(f) == Cardinality({n \in 1 .. Len(f) : \A k \in 1 .. n : Linked(f, k)})
=============================================================================
