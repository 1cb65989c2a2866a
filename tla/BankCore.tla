------------------------------ MODULE BankCore ------------------------------
(***************************************************************************)
(* bank_core.py: accounts and the transactions table in SQLite.            *)
(*                                                                         *)
(* A handler looks an account up on one connection and changes it in a     *)
(* transaction on another, so a money movement is two steps; handlers run  *)
(* in a thread pool.  Amounts are small integers.  An op is a request body: *)
(* its kind, the accounts it debits and credits, its amount, and an id;    *)
(* nobody has read it before, so that an amount may be negative.           *)
(***************************************************************************)
EXTENDS Integers, FiniteSets, FiniteSetsExt

CONSTANTS Accounts, Savings, \* account numbers, those of an SB scheme
          Opening,           \* seeded balances
          Seeded,            \* the accounts that were seeded
          Outside,           \* CASH or INTPOOL, the other side of an entry
          Yield              \* a day's interest is balance \div Yield

ASSUME BankAssumption ==
  /\ Savings \subseteq Accounts /\ Seeded \subseteq Accounts /\ Outside \notin Accounts
  /\ Opening \in [Accounts -> Nat] /\ Yield \in Nat \ {0}
  /\ \A a \in Accounts \ Seeded : Opening[a] = 0

VARIABLES open,    \* the account numbers in the accounts table
          balance, \* their balances
          txns,    \* the rows of the transactions table
          start    \* history: what an account began with and no row tells

bank == <<open, balance, txns, start>>

BankInit == open = Seeded /\ balance = Opening /\ txns = {} /\ start = Opening

\* The kinds of bodies: cash takes any kind that is not DEPOSIT for a withdrawal, but
\* only WITHDRAW for one whose funds it checks.
Movements == {"deposit", "withdraw", "other", "transfer"}
OpKinds == Movements \cup {"open", "eod", "read"}

\* The accounts exist and something is to be moved.
Known(op) == op.amount > 0 /\ {op.dr, op.cr} \ {Outside} \subseteq open

\* What cash and transfer look up first, and the funds of WITHDRAW and of a transfer;
\* the other handlers go on in any case.
Covered(op) ==
  op.kind \in Movements =>
    Known(op) /\ (op.kind \in {"withdraw", "transfer"} => balance[op.dr] >= op.amount)

\* Mutant: the second UPDATE of a transfer is missing.
MovedOneLeg(op) ==
  [a \in Accounts |-> balance[a] - (IF a = op.dr THEN op.amount ELSE 0)
                                 + (IF a = op.cr /\ op.dr = Outside THEN op.amount ELSE 0)]

\* UPDATE ... balance=balance-?, then balance=balance+?, relative to what is there now.
Moved(op) ==
  [a \in Accounts |-> balance[a] - (IF a = op.dr THEN op.amount ELSE 0)
                                 + (IF a = op.cr THEN op.amount ELSE 0)]

\* cash, transfer, open_account: one transaction for the balances and the row, which an
\* account opened with nothing or less has not.  A number that is taken is refused.
Post(op) ==
  IF op.kind = "open" /\ op.cr \in open THEN UNCHANGED bank
  ELSE /\ balance' = Moved(op)
       /\ open' = open \cup ({op.cr} \ {Outside})
       /\ txns' = IF op.amount > 0 THEN txns \cup {op} ELSE txns
       /\ start' = IF op.amount > 0 THEN start ELSE [start EXCEPT ![op.cr] = op.amount]

Accrued(a) == IF a \in Savings \cap open THEN balance[a] \div Yield ELSE 0

\* eod: interest on every savings account, in one transaction; none where it rounds to nothing.
EndOfDay(id) ==
  /\ balance' = [a \in Accounts |-> balance[a] + IF Accrued(a) > 0 THEN Accrued(a) ELSE 0]
  /\ txns' = txns \cup {[kind |-> "interest", dr |-> Outside, cr |-> a, amount |-> Accrued(a), id |-> id] :
                        a \in {b \in Savings : Accrued(b) > 0}}
  /\ UNCHANGED <<open, start>>

Amounts(rows) == MapThenSumSet(LAMBDA t : t.amount, rows)

\* statement: what the rows of an account add up to.
Statement(a) == Amounts({t \in txns : t.cr = a}) - Amounts({t \in txns : t.dr = a})

\* Every balance is what the statement of the account says beyond what the account began
\* with and no row tells: the seed, or an initial deposit that was not positive (the double
\* entry of transfer, cash, open_account and eod), whatever handlers run side by side.
BooksBalance == \A a \in Accounts : balance[a] = start[a] + Statement(a)

\* The cash debited without a look at the funds.
Unchecked(a) == Amounts({t \in txns : t.dr = a /\ t.kind = "other"})

\* What the core lets an account owe: an initial deposit below zero, and unchecked cash.
Debt(a) == (IF start[a] < 0 THEN -start[a] ELSE 0) + Unchecked(a)
=============================================================================
