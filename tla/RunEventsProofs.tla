-------------------------- MODULE RunEventsProofs --------------------------
(***************************************************************************)
(* Proofs about the event store of a run, for any number of emitting       *)
(* threads, dashboards, connections and events, and any size of the        *)
(* buffer in memory; and about the ends of the streams (RunStream), for    *)
(* any number of dashboards, lost connections and reloaded windows.        *)
(***************************************************************************)
EXTENDS RunEvents, RunStream, TLAPS

-----------------------------------------------------------------------------
(* Sequences *)

Values(s) == {s[i] : i \in 1 .. Len(s)}
Distinct(s) == \A i, j \in 1 .. Len(s) : s[i] = s[j] => i = j

\* The head of a queue that goes behind what was received.
LEMMA Pass == ASSUME NEW r \in Seq(Nat), NEW q \in Seq(Nat), q # <<>>
              PROVE  Append(r, Head(q)) \o Tail(q) = r \o q /\ Head(q) \in Nat /\ Head(q) \in Values(r \o q)
<1>1. Append(r, Head(q)) \o Tail(q) = r \o q
  OBVIOUS
<1>2. Head(q) = (r \o q)[Len(r) + 1] /\ Len(r) + 1 \in 1 .. Len(r \o q) /\ Head(q) \in Nat
  OBVIOUS
<1> QED
  BY <1>1, <1>2 DEF Values

\* The head of the queue comes right behind what was received.
LEMMA Behind == ASSUME NEW r \in Seq(Nat), NEW q \in Seq(Nat), q # <<>>, Distinct(r \o q)
                PROVE  Head(q) \notin Values(r)
<1> SUFFICES ASSUME NEW i \in 1 .. Len(r), r[i] = Head(q) PROVE FALSE
  BY DEF Values
<1>1. (r \o q)[i] = r[i] /\ i \in 1 .. Len(r \o q)
  OBVIOUS
<1>2. (r \o q)[Len(r) + 1] = Head(q) /\ Len(r) + 1 \in 1 .. Len(r \o q)
  OBVIOUS
<1>3. i = Len(r) + 1
  BY <1>1, <1>2 DEF Distinct
<1> QED
  BY <1>3

\* A value that is not there is appended.
LEMMA AppendNew == ASSUME NEW s \in Seq(Nat), NEW x \in Nat, x \notin Values(s)
                   PROVE  Values(Append(s, x)) = Values(s) \cup {x} /\ (Distinct(s) => Distinct(Append(s, x)))
<1> DEFINE t == Append(s, x)
<1>1. Len(t) = Len(s) + 1 /\ t[Len(t)] = x /\ \A i \in 1 .. Len(s) : t[i] = s[i]
  OBVIOUS
<1>2. \A i \in 1 .. Len(t) : i \in 1 .. Len(s) \/ i = Len(t)
  BY <1>1
<1>3. Len(s) \in Nat /\ \A i \in 1 .. Len(s) : i \in 1 .. Len(t)
  BY <1>1
<1>4. Len(t) \in 1 .. Len(t)
  BY <1>1, <1>3
<1> HIDE DEF t
<1>5. Values(t) = Values(s) \cup {x}
  BY <1>1, <1>2, <1>3, <1>4 DEF Values
<1>6. Distinct(s) => Distinct(t)
  BY <1>1, <1>2, <1>3 DEF Values, Distinct
<1> QED
  BY <1>5, <1>6 DEF t

\* The events of a backlog.
LEMMA IntervalIs == ASSUME NEW lo \in Nat, NEW hi \in Nat
                    PROVE  /\ Interval(lo, hi) \in Seq(Nat) /\ Distinct(Interval(lo, hi))
                           /\ Values(Interval(lo, hi)) = (lo + 1) .. hi
<1> DEFINE n == IF hi > lo THEN hi - lo ELSE 0
<1>1. n \in Nat
  OBVIOUS
<1> HIDE DEF n
<1>2. Interval(lo, hi) = [k \in 1 .. n |-> lo + k]
  BY DEF Interval, n
<1>3. Interval(lo, hi) \in Seq(Nat) /\ Len(Interval(lo, hi)) = n
  BY <1>1, <1>2
<1>4. \A k \in 1 .. n : Interval(lo, hi)[k] = lo + k
  BY <1>2
<1>5. Distinct(Interval(lo, hi))
  BY <1>1, <1>3, <1>4 DEF Distinct
<1>6. Values(Interval(lo, hi)) = {lo + k : k \in 1 .. n}
  BY <1>1, <1>3, <1>4 DEF Values
<1>7. {lo + k : k \in 1 .. n} = (lo + 1) .. hi
  <2>1. ASSUME NEW x \in (lo + 1) .. hi PROVE x \in {lo + k : k \in 1 .. n}
    <3>1. x - lo \in 1 .. n /\ x = lo + (x - lo)
      BY DEF n
    <3> QED
      BY <3>1
  <2>2. ASSUME NEW k \in 1 .. n PROVE lo + k \in (lo + 1) .. hi
    BY DEF n
  <2> QED
    BY <2>1, <2>2
<1> QED
  BY <1>3, <1>5, <1>6, <1>7

-----------------------------------------------------------------------------
(* The numbers, and who tells whom *)

Numbers ==
  /\ seq \in Nat /\ trimmed \in Nat /\ trimmed <= seq
  /\ ev \in [Emitters -> Nat] /\ \A e \in Emitters : ev[e] <= seq
  /\ lastId \in [Clients -> Nat] /\ floor \in [Clients -> Nat]
  /\ \A c \in Clients : lastId[c] <= seq /\ floor[c] <= seq

\* Two threads never tell the same event, and only those attached are told.
Tellers ==
  /\ DOMAIN at = Emitters
  /\ \A e, f \in Emitters : at[e] = "put" /\ at[f] = "put" /\ e # f => ev[e] # ev[f]
  /\ targets \in [Emitters -> SUBSET Clients] /\ subs \subseteq Clients
  /\ \A e \in Emitters : targets[e] \subseteq subs

Queues == queue \in [Clients -> Seq(Nat)] /\ rcvd \in [Clients -> Seq(Nat)]

Sent(c) == rcvd[c] \o queue[c]

Once(c) ==
  /\ Distinct(Sent(c))
  /\ Values(Sent(c)) \cap InHand(c) = {}
  /\ Values(Sent(c)) \cup InHand(c) = (floor[c] + 1) .. seq

OnceInv == Numbers /\ Tellers /\ Queues /\ \A c \in subs : Once(c)

\* At the start there is no event and no window.
LEMMA OnceInit == Init => OnceInv
<1> SUFFICES ASSUME Init PROVE OnceInv
  OBVIOUS
<1>1. Numbers
  BY DEF Init, Numbers
<1>2. Tellers
  BY DEF Init, Tellers
<1>3. Queues
  BY DEF Init, Queues
<1> QED
  BY <1>1, <1>2, <1>3 DEF Init, OnceInv

\* The invariant says that each event is there exactly once.
LEMMA OnceIsExactlyOnce == OnceInv => ExactlyOnce
BY DEF OnceInv, Once, Sent, Values, Distinct, ExactlyOnce

-----------------------------------------------------------------------------
(* The steps *)

\* A window whose stream and whose events under way do not change keeps its account.
LEMMA Kept == ASSUME NEW c, Once(c), Sent(c)' = Sent(c), InHand(c)' = InHand(c), UNCHANGED <<floor, seq>>
              PROVE  Once(c)'
BY DEF Once

\* Numbering an event puts it into the hands of its emitter, for everybody attached.
LEMMA RecordKeeps == ASSUME OnceInv, NEW e \in Emitters, Record(e) PROVE OnceInv'
<1> USE DEF OnceInv
<1>1. Numbers'
  BY EventAssumption DEF Record, Numbers, client
<1>2. Tellers'
  BY DEF Record, Numbers, Tellers
<1>3. Queues'
  BY DEF Record, Queues, client
<1>4. ASSUME NEW c \in subs PROVE Once(c)'
  <2>1. Sent(c)' = Sent(c) /\ floor' = floor /\ seq' = seq + 1 /\ seq \in Nat /\ floor[c] \in Nat /\ floor[c] <= seq
    BY DEF Record, client, Sent, Numbers, Tellers
  <2>2. InHand(c)' = InHand(c) \cup {seq + 1}
    BY DEF Record, InHand, Tellers, Numbers
  <2>3. Values(Sent(c)) \cup InHand(c) = (floor[c] + 1) .. seq
    BY DEF Once
  <2>4. seq + 1 \notin Values(Sent(c))
    BY <2>1, <2>3
  <2>5. (floor[c] + 1) .. (seq + 1) = ((floor[c] + 1) .. seq) \cup {seq + 1}
    BY <2>1
  <2>6. Distinct(Sent(c)') /\ Values(Sent(c)') = Values(Sent(c))
    BY <2>1 DEF Once, Distinct, Values
  <2>7. Values(Sent(c)) \cap InHand(c)' = {} /\ Values(Sent(c)) \cup InHand(c)' = (floor[c] + 1) .. (seq + 1)
    BY <2>2, <2>3, <2>4, <2>5 DEF Once
  <2> QED
    BY <2>1, <2>6, <2>7 DEF Once, Values, Distinct
<1>5. subs' = subs
  BY DEF Record
<1> QED
  BY <1>1, <1>2, <1>3, <1>4, <1>5

\* Telling a window moves the event from the hands to the queue.
LEMMA PutKeeps == ASSUME OnceInv, NEW e \in Emitters, Put(e) PROVE OnceInv'
<1> USE DEF OnceInv
<1>1. PICK c \in targets[e] : /\ queue' = [queue EXCEPT ![c] = Append(queue[c], ev[e])]
                              /\ targets' = [targets EXCEPT ![e] = targets[e] \ {c}]
  BY DEF Put
<1>2. at[e] = "put" /\ UNCHANGED <<seq, trimmed, subs, at, ev, lastId, rcvd, floor>>
  BY DEF Put, store, client
<1>3. c \in subs /\ c \in Clients /\ ev[e] \in Nat
  BY <1>1 DEF Tellers, Numbers
<1>4. Numbers'
  BY <1>2 DEF Numbers
<1>5. Tellers'
  BY <1>1, <1>2 DEF Tellers
<1>6. Queues'
  BY <1>1, <1>2, <1>3 DEF Queues
<1>7. InHand(c)' = InHand(c) \ {ev[e]} /\ ev[e] \in InHand(c)
  BY <1>1, <1>2 DEF InHand, Tellers, Numbers
<1>8. Sent(c)' = Append(Sent(c), ev[e]) /\ Sent(c) \in Seq(Nat)
  BY <1>1, <1>2, <1>3 DEF Sent, Queues
<1>9. Once(c)'
  <2>1. ev[e] \notin Values(Sent(c))
    BY <1>3, <1>7 DEF Once
  <2>2. Values(Sent(c)') = Values(Sent(c)) \cup {ev[e]} /\ Distinct(Sent(c)')
    BY <1>3, <1>8, <2>1, AppendNew DEF Once
  <2>3. Values(Sent(c)') \cap InHand(c)' = {} /\ Values(Sent(c)') \cup InHand(c)' = (floor[c] + 1) .. seq
    BY <1>3, <1>7, <2>1, <2>2 DEF Once
  <2> QED
    BY <1>2, <2>2, <2>3 DEF Once, Values, Distinct
<1>10. ASSUME NEW d \in subs, d # c PROVE Once(d)'
  <2>1. Sent(d)' = Sent(d)
    BY <1>1, <1>2, <1>10 DEF Sent, Queues, Tellers
  <2>2. InHand(d)' = InHand(d)
    BY <1>1, <1>2, <1>10 DEF InHand, Tellers
  <2> QED
    BY <1>2, <2>1, <2>2, Kept
<1> QED
  BY <1>2, <1>4, <1>5, <1>6, <1>9, <1>10

\* A thread that moves on without telling anybody.
LEMMA MoveKeeps ==
  ASSUME OnceInv, NEW e \in Emitters, NEW p \in {"write", "idle", "flush"}, at' = [at EXCEPT ![e] = p],
         at[e] = "put" => targets[e] = {}, UNCHANGED <<seq, trimmed, ev, targets, subs, queue, client>>
  PROVE  OnceInv'
<1> USE DEF OnceInv
<1>1. Numbers'
  BY DEF Numbers, client
<1>2. Tellers'
  BY DEF Tellers
<1>3. Queues'
  BY DEF Queues, client
<1>4. ASSUME NEW c \in subs PROVE Once(c)'
  <2>1. Sent(c)' = Sent(c) /\ floor' = floor
    BY DEF Sent, client
  <2>2. InHand(c)' = InHand(c)
    BY DEF InHand, Tellers
  <2> QED
    BY <2>1, <2>2, Kept
<1> QED
  BY <1>1, <1>2, <1>3, <1>4

\* A window that attaches gets what it lacks, and nothing in hand is for it.
LEMMA AttachKeeps == ASSUME OnceInv, NEW c \in Clients, Attach(c) PROVE OnceInv'
<1> USE DEF OnceInv
<1>1. /\ c \notin subs /\ subs' = subs \cup {c}
      /\ floor' = [floor EXCEPT ![c] = Higher(lastId[c], trimmed)]
      /\ queue' = [queue EXCEPT ![c] = Interval(floor'[c], seq)]
      /\ rcvd' = [rcvd EXCEPT ![c] = <<>>]
      /\ UNCHANGED <<seq, trimmed, at, ev, targets, lastId>>
  BY DEF Attach, store, emitter
<1>2. Higher(lastId[c], trimmed) \in Nat /\ Higher(lastId[c], trimmed) <= seq /\ seq \in Nat
  BY DEF Numbers, Higher
<1>3. floor'[c] \in Nat /\ floor'[c] <= seq
  BY <1>1, <1>2 DEF Numbers
<1>4. Numbers'
  BY <1>1, <1>2 DEF Numbers
<1>5. Tellers'
  BY <1>1 DEF Tellers
<1>6. /\ Interval(floor'[c], seq) \in Seq(Nat) /\ Distinct(Interval(floor'[c], seq))
      /\ Values(Interval(floor'[c], seq)) = (floor'[c] + 1) .. seq
  BY <1>2, <1>3, IntervalIs
<1>7. Queues'
  BY <1>1, <1>6 DEF Queues
<1>8. Once(c)'
  <2>1. Sent(c)' = Interval(floor'[c], seq)
    BY <1>1, <1>6 DEF Sent, Queues
  <2>2. InHand(c)' = {}
    BY <1>1 DEF InHand, Tellers
  <2> QED
    BY <1>1, <1>6, <2>1, <2>2 DEF Once, Values, Distinct
<1>9. ASSUME NEW d \in subs PROVE Once(d)'
  <2>1. Sent(d)' = Sent(d) /\ floor'[d] = floor[d] /\ seq' = seq
    BY <1>1 DEF Sent, Queues, Tellers, Numbers
  <2>2. InHand(d)' = InHand(d)
    BY <1>1 DEF InHand
  <2> QED
    BY <2>1, <2>2 DEF Once
<1> QED
  BY <1>1, <1>4, <1>5, <1>7, <1>8, <1>9

\* A window that receives moves the head of its queue.
LEMMA ReceiveKeeps == ASSUME OnceInv, NEW c \in Clients, Receive(c) PROVE OnceInv'
<1> USE DEF OnceInv
<1>1. /\ c \in subs /\ queue[c] # <<>>
      /\ queue' = [queue EXCEPT ![c] = Tail(queue[c])]
      /\ lastId' = [lastId EXCEPT ![c] = Head(queue[c])]
      /\ rcvd' = [rcvd EXCEPT ![c] = Append(rcvd[c], Head(queue[c]))]
      /\ UNCHANGED <<seq, trimmed, subs, at, ev, targets, floor>>
  BY DEF Receive, store, emitter
<1>2. queue[c] \in Seq(Nat) /\ rcvd[c] \in Seq(Nat)
  BY DEF Queues
<1>3. /\ Append(rcvd[c], Head(queue[c])) \o Tail(queue[c]) = Sent(c)
      /\ Head(queue[c]) \in Nat /\ Head(queue[c]) \in Values(Sent(c))
  BY <1>1, <1>2, Pass DEF Sent
<1>4. Head(queue[c]) <= seq
  BY <1>1, <1>3 DEF Once, Numbers
<1>5. Numbers'
  BY <1>1, <1>3, <1>4 DEF Numbers
<1>6. Tellers'
  BY <1>1 DEF Tellers
<1>7. Queues'
  BY <1>1, <1>2, <1>3 DEF Queues
<1>8. Once(c)'
  <2>1. Sent(c)' = Sent(c)
    BY <1>1, <1>3 DEF Sent, Queues
  <2>2. InHand(c)' = InHand(c)
    BY <1>1 DEF InHand
  <2> QED
    BY <1>1, <2>1, <2>2, Kept
<1>9. ASSUME NEW d \in subs, d # c PROVE Once(d)'
  <2>1. Sent(d)' = Sent(d)
    BY <1>1, <1>9 DEF Sent, Queues, Tellers
  <2>2. InHand(d)' = InHand(d)
    BY <1>1 DEF InHand
  <2> QED
    BY <1>1, <2>1, <2>2, Kept
<1> QED
  BY <1>1, <1>5, <1>6, <1>7, <1>8, <1>9

\* A window that goes away has no account left.
LEMMA DetachKeeps == ASSUME OnceInv, NEW c \in Clients, Detach(c) PROVE OnceInv'
<1> USE DEF OnceInv
<1>1. /\ subs' = subs \ {c}
      /\ queue' = [queue EXCEPT ![c] = <<>>]
      /\ rcvd' = [rcvd EXCEPT ![c] = <<>>]
      /\ targets' = [e \in Emitters |-> targets[e] \ {c}]
      /\ UNCHANGED <<seq, trimmed, at, ev, lastId, floor>>
  BY DEF Detach, store
<1>2. Numbers'
  BY <1>1 DEF Numbers
<1>3. Tellers'
  BY <1>1 DEF Tellers
<1>4. Queues'
  BY <1>1 DEF Queues
<1>5. ASSUME NEW d \in subs, d # c PROVE Once(d)'
  <2>1. Sent(d)' = Sent(d)
    BY <1>1, <1>5 DEF Sent, Queues, Tellers
  <2>2. InHand(d)' = InHand(d)
    BY <1>1, <1>5 DEF InHand, Tellers
  <2> QED
    BY <1>1, <2>1, <2>2, Kept
<1> QED
  BY <1>1, <1>2, <1>3, <1>4, <1>5

\* Every step keeps every account.
LEMMA OnceStep == OnceInv /\ [Next]_vars => OnceInv'
<1> SUFFICES ASSUME OnceInv, [Next]_vars PROVE OnceInv'
  OBVIOUS
<1>1. ASSUME NEW e \in Emitters, Record(e) PROVE OnceInv'
  BY <1>1, RecordKeeps
<1>2. ASSUME NEW e \in Emitters, Emit(e) PROVE OnceInv'
  <2>1. CASE Put(e)
    BY <2>1, PutKeeps
  <2>2. CASE AllTold(e)
    <3>1. PICK p \in {"write", "idle"} : at' = [at EXCEPT ![e] = p]
      BY <2>2 DEF AllTold
    <3>2. targets[e] = {} /\ UNCHANGED <<seq, trimmed, ev, targets, subs, queue, client>>
      BY <2>2 DEF AllTold, store
    <3> QED
      BY <3>1, <3>2, MoveKeeps
  <2>3. CASE Write(e)
    <3>1. at' = [at EXCEPT ![e] = "idle"] /\ at[e] = "write"
          /\ UNCHANGED <<seq, trimmed, ev, targets, subs, queue, client>>
      BY <2>3 DEF Write
    <3> QED
      BY <3>1, MoveKeeps
  <2> QED
    BY <1>2, <2>1, <2>2, <2>3 DEF Emit
<1>3. CASE Bind
  <2>1. at' = [at EXCEPT ![Binder] = "flush"] /\ at[Binder] = "unbound" /\ Binder \in Emitters
        /\ UNCHANGED <<seq, trimmed, ev, targets, subs, queue, client>>
    BY <1>3, EventAssumption DEF Bind
  <2> QED
    BY <2>1, MoveKeeps
<1>4. CASE Flush
  <2>1. at' = [at EXCEPT ![Binder] = "idle"] /\ at[Binder] = "flush" /\ Binder \in Emitters
        /\ UNCHANGED <<seq, trimmed, ev, targets, subs, queue, client>>
    BY <1>4, EventAssumption DEF Flush
  <2> QED
    BY <2>1, MoveKeeps
<1>5. ASSUME NEW c \in Clients, Attach(c) \/ Receive(c) \/ Detach(c) PROVE OnceInv'
  BY <1>5, AttachKeeps, ReceiveKeeps, DetachKeeps
<1>6. CASE UNCHANGED vars
  <2>1. UNCHANGED <<seq, trimmed, ev, at, targets, subs, queue, lastId, floor, rcvd>>
    BY <1>6 DEF vars, store, emitter, client
  <2>2. Numbers' /\ Tellers' /\ Queues'
    BY <2>1 DEF OnceInv, Numbers, Tellers, Queues
  <2>3. ASSUME NEW c \in subs PROVE Once(c)'
    <3>1. Sent(c)' = Sent(c) /\ InHand(c)' = InHand(c)
      BY <2>1 DEF Sent, InHand
    <3> QED
      BY <2>1, <3>1, Kept DEF OnceInv
  <2> QED
    BY <2>1, <2>2, <2>3 DEF OnceInv
<1> QED
  BY <1>1, <1>2, <1>3, <1>4, <1>5, <1>6 DEF Next

\* For any number of threads, dashboards and connections, and a buffer of any
\* size: each event after a dashboard's resume point has been received, is in
\* its queue or is being put there, exactly once.
THEOREM EachEventOnce == Spec => []ExactlyOnce
BY OnceInit, OnceStep, OnceIsExactlyOnce, PTL DEF Spec

-----------------------------------------------------------------------------
(* The log the store promises *)

LogRead == [c \in Clients |-> IF c \in subs THEN (1 .. floor[c]) \cup ToSet(rcvd[c]) ELSE {}]

\* The two ways to say which values a sequence has.
LEMMA SetIsValues == ASSUME NEW s \in Seq(Nat) PROVE ToSet(s) = Values(s)
BY DEF ToSet, Values

\* The empty store is the empty log.
LEMMA LogInit == Init => Log!Init
BY DEF Init, Log!Init

\* What a client receives next is an event it does not have.
LEMMA NextIsNew ==
  ASSUME OnceInv, NEW c \in subs, queue[c] # <<>>
  PROVE  Head(queue[c]) \in (1 .. seq) \ ((1 .. floor[c]) \cup ToSet(rcvd[c]))
<1> USE DEF OnceInv
<1>1. c \in Clients /\ queue[c] \in Seq(Nat) /\ rcvd[c] \in Seq(Nat) /\ floor[c] \in Nat /\ seq \in Nat
  BY DEF Tellers, Queues, Numbers
<1>2. Head(queue[c]) \in Values(Sent(c))
  BY <1>1, Pass DEF Sent
<1>3. Values(Sent(c)) \subseteq (floor[c] + 1) .. seq /\ Distinct(Sent(c))
  BY DEF Once
<1>4. Head(queue[c]) \notin Values(rcvd[c])
  BY <1>1, <1>3, Behind DEF Sent
<1> QED
  BY <1>1, <1>2, <1>3, <1>4, SetIsValues

\* Every step of the store is a step of the log or leaves it.
LEMMA LogStep == OnceInv /\ [Next]_vars => [Log!Next]_(Log!vars)
<1> SUFFICES ASSUME OnceInv, [Next]_vars PROVE [Log!Next]_(Log!vars)
  OBVIOUS
<1>1. ASSUME NEW e \in Emitters, Record(e) PROVE Log!Next
  <2>1. seq' = seq + 1 /\ UNCHANGED <<subs, floor, rcvd>>
    BY <1>1 DEF Record, client
  <2> QED
    BY <2>1 DEF Log!Next, Log!Write
<1>2. ASSUME UNCHANGED <<seq, subs, floor, rcvd>> PROVE UNCHANGED Log!vars
  BY <1>2 DEF Log!vars
<1>3. ASSUME NEW e \in Emitters, Emit(e) PROVE UNCHANGED Log!vars
  BY <1>2, <1>3 DEF Emit, Put, AllTold, Write, store, client
<1>4. CASE Bind \/ Flush \/ UNCHANGED vars
  BY <1>2, <1>4 DEF Bind, Flush, vars, store, client
<1>5. ASSUME NEW c \in Clients, Attach(c) PROVE Log!Attach(c)
  <2>1. /\ c \notin subs /\ subs' = subs \cup {c} /\ seq' = seq
        /\ floor' = [floor EXCEPT ![c] = Higher(lastId[c], trimmed)]
        /\ rcvd' = [rcvd EXCEPT ![c] = <<>>]
    BY <1>5 DEF Attach, store
  <2>2. Higher(lastId[c], trimmed) \in 0 .. seq
    BY DEF OnceInv, Numbers, Higher
  <2>3. floor'[c] \in 0 .. seq /\ rcvd'[c] = <<>> /\ ToSet(<<>>) = {}
    BY <2>1, <2>2, SetIsValues DEF OnceInv, Numbers, Queues, Values, ToSet
  <2>4. LogRead' = [LogRead EXCEPT ![c] = 1 .. floor'[c]]
    BY <2>1, <2>3 DEF LogRead, OnceInv, Numbers, Queues
  <2> QED
    BY <2>1, <2>3, <2>4 DEF Log!Attach, LogRead
<1>6. ASSUME NEW c \in Clients, Receive(c) PROVE Log!Read(c)
  <2>1. /\ c \in subs /\ queue[c] # <<>> /\ UNCHANGED <<seq, subs, floor>>
        /\ rcvd' = [rcvd EXCEPT ![c] = Append(rcvd[c], Head(queue[c]))]
    BY <1>6 DEF Receive, store
  <2>2. Head(queue[c]) \in (1 .. seq) \ LogRead[c]
    BY <2>1, NextIsNew DEF LogRead
  <2>3. ToSet(Append(rcvd[c], Head(queue[c]))) = ToSet(rcvd[c]) \cup {Head(queue[c])}
    <3>1. rcvd[c] \in Seq(Nat) /\ Head(queue[c]) \in Nat
      BY <2>2 DEF OnceInv, Queues, Numbers
    <3>2. Append(rcvd[c], Head(queue[c])) \in Seq(Nat) /\ Head(queue[c]) \notin Values(rcvd[c])
      BY <2>1, <2>2, <3>1, SetIsValues DEF LogRead
    <3> QED
      BY <3>1, <3>2, AppendNew, SetIsValues
  <2>4. LogRead' = [LogRead EXCEPT ![c] = LogRead[c] \cup {Head(queue[c])}]
    BY <2>1, <2>3 DEF LogRead, OnceInv, Queues
  <2> QED
    BY <2>1, <2>2, <2>4 DEF Log!Read, LogRead
<1>7. ASSUME NEW c \in Clients, Detach(c) PROVE Log!Detach(c)
  <2>1. /\ c \in subs /\ subs' = subs \ {c} /\ UNCHANGED <<seq, floor>>
        /\ rcvd' = [rcvd EXCEPT ![c] = <<>>]
    BY <1>7 DEF Detach, store
  <2>2. LogRead' = [LogRead EXCEPT ![c] = {}]
    BY <2>1 DEF LogRead, OnceInv, Queues
  <2> QED
    BY <2>1, <2>2 DEF Log!Detach, LogRead
<1> QED
  BY <1>1, <1>3, <1>4, <1>5, <1>6, <1>7 DEF Next, Log!Next

\* The safety of the refinement: for any number of threads, dashboards and
\* events, the store is a log that only grows, of which each dashboard that
\* stays attached is given events it did not have.
THEOREM StoreIsTheLog == Spec => Log!Safety
BY LogInit, LogStep, OnceInit, OnceStep, PTL DEF Spec, Log!Safety

-----------------------------------------------------------------------------
(* What a crash costs *)

InFlight == {ev[e] : e \in {x \in Emitters : at[x] \in {"put", "write"}}}

\* The file is written once the store is bound, which the binder does once; and every
\* event is then somewhere.
FileInv ==
  /\ disk \in Seq(Nat) /\ backlog \in Seq(Nat)
  /\ seq \in Nat /\ trimmed \in 0 .. seq /\ bound \in BOOLEAN
  /\ DOMAIN at = Emitters /\ ev \in [Emitters -> Nat]
  /\ \A e \in Emitters : at[e] \in {"write", "flush"} => bound
  /\ ~bound => persisted = 0
  /\ at[Binder] = "unbound" => ~bound
  /\ CrashLosesOnlyInFlight

\* Nothing is bound at the start.
LEMMA FileInit == Init => FileInv
<1> SUFFICES ASSUME Init PROVE FileInv
  OBVIOUS
<1>1. /\ disk \in Seq(Nat) /\ backlog \in Seq(Nat) /\ seq \in Nat /\ trimmed \in 0 .. seq
      /\ bound = FALSE /\ persisted = 0
  BY DEF Init
<1>2. DOMAIN at = Emitters /\ ev \in [Emitters -> Nat] /\ \A e \in Emitters : at[e] \in {"unbound", "idle"}
  BY DEF Init
<1> QED
  BY <1>1, <1>2 DEF FileInv, CrashLosesOnlyInFlight

\* Part of a sequence.
LEMMA PartOf ==
  ASSUME NEW evs \in Seq(Nat), NEW lo \in {1, 2}, NEW n \in 0 .. Len(evs)
  PROVE  SubSeq(evs, lo, n) \in Seq(Nat)
OBVIOUS

\* What _append_to_disk was given is in the file or lost, whether it raises or not.
LEMMA WrittenOrDamaged ==
  ASSUME NEW evs \in Seq(Nat), disk \in Seq(Nat), AppendToDisk(evs)
  PROVE  /\ disk' \in Seq(Nat)
         /\ ToSet(disk) \subseteq ToSet(disk') /\ damaged \subseteq damaged'
         /\ ToSet(evs) \subseteq ToSet(disk') \cup damaged'
<1>1. PICK n \in 0 .. Len(evs) : AppendLines(evs, n)
  <2>1. Len(evs) \in Nat
    OBVIOUS
  <2>2. Len(evs) \in 0 .. Len(evs) /\ 0 .. Len(evs) - 1 \subseteq 0 .. Len(evs)
    BY <2>1
  <2> QED
    BY <2>2, Zenon DEF AppendToDisk
<1> DEFINE s == SubSeq(evs, IF eol THEN 1 ELSE 2, n)
<1>2. s \in Seq(Nat)
  BY PartOf
<1>3. disk' = disk \o s /\ damaged' = damaged \cup (ToSet(evs) \ ToSet(disk'))
  BY <1>1 DEF AppendLines
<1> HIDE DEF s
<1>4. disk' \in Seq(Nat) /\ Len(disk') = Len(disk) + Len(s) /\ \A i \in 1 .. Len(disk) : disk'[i] = disk[i]
  BY <1>2, <1>3
<1>5. ToSet(disk) \subseteq ToSet(disk')
  <2>1. \A i \in 1 .. Len(disk) : i \in 1 .. Len(disk') /\ disk'[i] = disk[i]
    BY <1>2, <1>4
  <2>2. ToSet(disk) = Values(disk) /\ ToSet(disk') = Values(disk')
    BY <1>4, SetIsValues
  <2> QED
    BY <2>1, <2>2, Zenon DEF Values
<1> QED
  BY <1>3, <1>4, <1>5

\* Where the lost events would be does not shrink, and the file's state is kept.
LEMMA FileKept ==
  ASSUME FileInv, UNCHANGED <<seq, trimmed, bound, persisted, disk, damaged, backlog>>,
         DOMAIN at' = Emitters, ev' \in [Emitters -> Nat],
         \A e \in Emitters : at'[e] \in {"write", "flush"} => bound,
         at'[Binder] = "unbound" => ~bound,
         bound => InFlight \subseteq InFlight'
  PROVE  FileInv'
<1>1. CrashLosesOnlyInFlight'
  BY DEF FileInv, CrashLosesOnlyInFlight, InFlight
<1> QED
  BY <1>1 DEF FileInv

\* Every step keeps each event somewhere.
LEMMA FileStep == FileInv /\ [Next]_vars => FileInv'
<1> SUFFICES ASSUME FileInv, [Next]_vars PROVE FileInv'
  OBVIOUS
<1>1. ASSUME NEW e \in Emitters, Record(e) PROVE FileInv'
  <2>1. /\ at[e] = "idle" /\ seq' = seq + 1
        /\ at' = [at EXCEPT ![e] = "put"] /\ ev' = [ev EXCEPT ![e] = seq']
        /\ trimmed' \in 0 .. seq'
        /\ UNCHANGED <<bound, persisted, disk, damaged, backlog>>
    BY <1>1, EventAssumption DEF Record, FileInv, file
  <2>2. DOMAIN at' = Emitters /\ ev' \in [Emitters -> Nat] /\ at'[e] = "put" /\ ev'[e] = seq + 1
        /\ \A x \in Emitters \ {e} : at'[x] = at[x] /\ ev'[x] = ev[x]
    BY <2>1 DEF FileInv
  <2>3. InFlight' = InFlight \cup {seq + 1}
    BY <2>1, <2>2 DEF InFlight
  <2>4. CrashLosesOnlyInFlight'
    <3>1. 1 .. seq' = (1 .. seq) \cup {seq + 1}
      BY <2>1 DEF FileInv
    <3> QED
      BY <2>1, <2>3, <3>1 DEF FileInv, CrashLosesOnlyInFlight, InFlight
  <2>5. /\ \A x \in Emitters : at'[x] \in {"write", "flush"} => bound
        /\ at'[Binder] = "unbound" => ~bound
    BY <2>2, EventAssumption DEF FileInv
  <2> QED
    BY <2>1, <2>2, <2>4, <2>5 DEF FileInv
<1>2. ASSUME NEW e \in Emitters, Put(e) PROVE FileInv'
  BY <1>2, FileKept DEF Put, store, file, FileInv, InFlight
<1>3. ASSUME NEW e \in Emitters, AllTold(e) PROVE FileInv'
  <2>1. /\ at[e] = "put" /\ at' = [at EXCEPT ![e] = IF bound THEN "write" ELSE "idle"] /\ ev' = ev
        /\ UNCHANGED <<seq, trimmed, bound, persisted, disk, damaged, backlog>>
    BY <1>3 DEF AllTold, store, file
  <2>2. DOMAIN at' = Emitters /\ at'[e] = (IF bound THEN "write" ELSE "idle")
        /\ \A x \in Emitters \ {e} : at'[x] = at[x]
    BY <2>1 DEF FileInv
  <2>3. bound => InFlight \subseteq InFlight'
    BY <2>1, <2>2 DEF InFlight
  <2> QED
    BY <2>1, <2>2, <2>3, FileKept, EventAssumption DEF FileInv
<1>4. ASSUME NEW e \in Emitters, Write(e) PROVE FileInv'
  <2>1. /\ at[e] = "write" /\ AppendToDisk(<<ev[e]>>) /\ at' = [at EXCEPT ![e] = "idle"] /\ ev' = ev
        /\ UNCHANGED <<seq, trimmed, bound, backlog>>
    BY <1>4 DEF Write
  <2>2. DOMAIN at' = Emitters /\ at'[e] = "idle" /\ \A x \in Emitters \ {e} : at'[x] = at[x]
    BY <2>1 DEF FileInv
  <2>3. <<ev[e]>> \in Seq(Nat) /\ ToSet(<<ev[e]>>) = {ev[e]}
    BY DEF FileInv, ToSet
  <2>4. /\ disk' \in Seq(Nat)
        /\ ToSet(disk) \subseteq ToSet(disk') /\ damaged \subseteq damaged'
        /\ ev[e] \in ToSet(disk') \cup damaged'
    BY <2>1, <2>3, WrittenOrDamaged DEF FileInv
  <2>5. InFlight \subseteq InFlight' \cup {ev[e]}
    BY <2>1, <2>2 DEF InFlight
  <2>6. bound /\ bound'
    BY <2>1 DEF FileInv
  <2>7. CrashLosesOnlyInFlight'
    BY <2>1, <2>4, <2>5, <2>6 DEF FileInv, CrashLosesOnlyInFlight, InFlight
  <2> QED
    BY <2>1, <2>2, <2>4, <2>6, <2>7, EventAssumption DEF FileInv
<1>5. CASE Bind
  <2>1. /\ at[Binder] = "unbound" /\ bound' = TRUE
        /\ backlog' = Interval(Higher(persisted, trimmed), seq)
        /\ damaged' = damaged \cup ((persisted + 1) .. trimmed)
        /\ at' = [at EXCEPT ![Binder] = "flush"]
        /\ UNCHANGED <<seq, trimmed, persisted, disk, ev>>
    BY <1>5 DEF Bind
  <2>2. persisted = 0
    BY <2>1 DEF FileInv
  <2>3. Higher(persisted, trimmed) = trimmed
    BY <2>2 DEF Higher, FileInv
  <2>4. backlog' \in Seq(Nat) /\ ToSet(backlog') = (trimmed + 1) .. seq
    BY <2>1, <2>3, IntervalIs, SetIsValues DEF FileInv
  <2>5. 1 .. seq \subseteq ToSet(backlog') \cup damaged'
    BY <2>1, <2>2, <2>4 DEF FileInv
  <2>6. CrashLosesOnlyInFlight'
    BY <2>1, <2>5 DEF CrashLosesOnlyInFlight
  <2>7. DOMAIN at' = Emitters /\ at'[Binder] = "flush"
    BY <2>1, EventAssumption DEF FileInv
  <2> QED
    BY <2>1, <2>4, <2>6, <2>7 DEF FileInv
<1>6. CASE Flush
  <2>1. /\ at[Binder] = "flush" /\ AppendToDisk(backlog) /\ backlog' = <<>>
        /\ at' = [at EXCEPT ![Binder] = "idle"]
        /\ UNCHANGED <<seq, trimmed, bound, ev>>
    BY <1>6 DEF Flush
  <2>2. DOMAIN at' = Emitters /\ at'[Binder] = "idle" /\ \A x \in Emitters \ {Binder} : at'[x] = at[x]
    BY <2>1, EventAssumption DEF FileInv
  <2>3. /\ disk' \in Seq(Nat)
        /\ ToSet(disk) \subseteq ToSet(disk') /\ damaged \subseteq damaged'
        /\ ToSet(backlog) \subseteq ToSet(disk') \cup damaged'
    BY <2>1, WrittenOrDamaged DEF FileInv
  <2>4. InFlight \subseteq InFlight'
    BY <2>1, <2>2 DEF InFlight
  <2>5. bound /\ bound' /\ backlog' \in Seq(Nat)
    BY <2>1, EventAssumption DEF FileInv
  <2>6. CrashLosesOnlyInFlight'
    BY <2>1, <2>3, <2>4, <2>5 DEF FileInv, CrashLosesOnlyInFlight, InFlight
  <2> QED
    BY <2>1, <2>2, <2>3, <2>5, <2>6 DEF FileInv
<1>7. ASSUME NEW c \in Clients, Attach(c) \/ Receive(c) \/ Detach(c) PROVE FileInv'
  <2>1. UNCHANGED <<seq, trimmed, bound, persisted, disk, damaged, backlog, at, ev>>
    BY <1>7 DEF Attach, Receive, Detach, store, file, emitter
  <2> QED
    BY <2>1, FileKept DEF FileInv, InFlight
<1>8. CASE UNCHANGED vars
  BY <1>8, FileKept DEF vars, store, file, emitter, FileInv, InFlight
<1> QED
  BY <1>1, <1>2, <1>3, <1>4, <1>5, <1>6, <1>7, <1>8 DEF Next, Emit

\* For any number of threads and events, any size of the buffer and whichever writes fail:
\* once the store is bound, the events missing from events.jsonl are on their way, in the
\* backlog, or were lost by a write that failed or by the trim before the bind.
THEOREM OnlyInFlightIsLost == Spec => []CrashLosesOnlyInFlight
<1>1. FileInv => CrashLosesOnlyInFlight
  BY DEF FileInv
<1> QED
  BY <1>1, FileInit, FileStep, PTL DEF Spec

-----------------------------------------------------------------------------
(* The ends of the streams.  A dashboard is told the end by a stream_end it reads, by a    *)
(* status it times out under, or by a server that no longer has the run.  The invariant   *)
(* says that each of the three comes after the run is over.                               *)

\* The status is set before the tail, and stream_end comes last.
EndIsLast ==
  /\ pc \in {"run", "tail", "ended"}
  /\ status = "running" <=> pc = "run"
  /\ log \in Seq(Kinds)
  /\ \A k \in 1 .. Len(log) : log[k] = "stream_end" => pc # "run"

\* Where a dashboard stands, and that the past is replayed only after a restart.
Followers ==
  /\ conn \in [Dashboards -> Conn] /\ pos \in [Dashboards -> Nat]
  /\ \A d \in Dashboards : conn[d] \in {"past", "retry past"} => ~up
  /\ \A d \in Dashboards : conn[d] = "over" => Over

\* At the start there is no end and no follower.
LEMMA StreamInitKeeps == StreamInit => EndIsLast /\ Followers
BY DEF StreamInit, EndIsLast, Followers, Conn, Over, Kinds

\* A stream that was ended belongs to a run that was, and stays so.
LEMMA EndIsLastStep == EndIsLast /\ [StreamNext]_streamVars => EndIsLast'
<1> SUFFICES ASSUME EndIsLast, [StreamNext]_streamVars PROVE EndIsLast'
  OBVIOUS
<1> USE DEF EndIsLast, Kinds
<1>1. CASE Work
  BY <1>1 DEF Work, Emits
<1>2. CASE SetStatus
  BY <1>2 DEF SetStatus
<1>3. CASE EndStream
  BY <1>3 DEF EndStream, Emits
<1>4. CASE RequestEmits
  BY <1>4 DEF RequestEmits, Emits
<1>5. CASE UNCHANGED <<pc, status, log>>
  BY <1>5
<1>6. Work \/ SetStatus \/ EndStream \/ RequestEmits \/ UNCHANGED <<pc, status, log>>
  BY DEF StreamNext, streamVars, Restart, Connect, Stream, Subscribe, AttachPast, NotFound, RetryPast, GetsEvent, Timeout,
         ReplayOver, Drop, Reload
<1> QED
  BY <1>1, <1>2, <1>3, <1>4, <1>5, <1>6

\* A dashboard that reads stream_end reads it of a run that has its status.
LEMMA EndSeen == ASSUME EndIsLast, NEW k \in Nat, k < Len(log) PROVE log[k + 1] = "stream_end" => status # "running"
BY DEF EndIsLast

\* A place in the log that is moved by one is a place.
LEMMA OneMore == \A f \in [Dashboards -> Nat] : \A d \in Dashboards : [f EXCEPT ![d] = f[d] + 1] \in [Dashboards -> Nat]
OBVIOUS

\* A window is told of an end only by the log that has it.
LEMMA FollowersStep == EndIsLast /\ Followers /\ [StreamNext]_streamVars => Followers'
<1> SUFFICES ASSUME EndIsLast, Followers, [StreamNext]_streamVars PROVE Followers'
  OBVIOUS
<1> USE DEF Followers, Conn, Over
<1>1. CASE Work \/ EndStream \/ RequestEmits
  BY <1>1 DEF Work, EndStream, RequestEmits
<1>2. CASE SetStatus
  BY <1>2 DEF SetStatus
<1>3. CASE Restart
  BY <1>3 DEF Restart
<1>4. ASSUME NEW d \in Dashboards, Connect(d) PROVE Followers'
  <2>1. CASE Subscribe(d)
    BY <2>1 DEF Subscribe
  <2>2. CASE AttachPast(d)
    BY <2>2 DEF AttachPast
  <2>3. CASE NotFound(d)
    BY <2>3 DEF NotFound
  <2>4. CASE RetryPast(d)
    BY <2>4 DEF RetryPast
  <2> QED
    BY <1>4, <2>1, <2>2, <2>3, <2>4 DEF Connect
<1>5. ASSUME NEW d \in Dashboards, GetsEvent(d) PROVE Followers'
  <2>1. conn[d] \in {"live", "past"} /\ pos[d] < Len(log)
    BY <1>5, Zenon DEF GetsEvent
  <2>2. pos[d] \in Nat
    OBVIOUS
  <2>3. log[pos[d] + 1] = "stream_end" => status # "running"
    BY <2>1, <2>2, EndSeen
  <2>4. UNCHANGED <<status, up>>
    BY <1>5, Zenon DEF GetsEvent
  <2>5. pos' \in [Dashboards -> Nat]
    <3>1. pos' = [pos EXCEPT ![d] = pos[d] + 1]
      BY <1>5, Zenon DEF GetsEvent
    <3>2. pos \in [Dashboards -> Nat]
      OBVIOUS
    <3> QED
      BY <3>1, <3>2, OneMore, Zenon
  <2>6. \/ conn' = [conn EXCEPT ![d] = "over"] /\ status # "running"
        \/ conn' = conn
    BY <1>5, <2>3, Zenon DEF GetsEvent
  <2>7. CASE conn' = [conn EXCEPT ![d] = "over"] /\ status # "running"
    BY <2>4, <2>5, <2>7
  <2>8. CASE conn' = conn
    BY <2>4, <2>5, <2>8
  <2> QED
    BY <2>6, <2>7, <2>8
<1>6. ASSUME NEW d \in Dashboards, Timeout(d) \/ ReplayOver(d) \/ Drop(d) PROVE Followers'
  <2>1. CASE Timeout(d)
    <3>1. conn' = [conn EXCEPT ![d] = "over"] /\ status # "running" /\ UNCHANGED <<status, up, pos>>
      BY <2>1 DEF Timeout
    <3> QED
      BY <3>1
  <2>2. CASE ReplayOver(d)
    BY <2>2 DEF ReplayOver
  <2>3. CASE Drop(d)
    BY <2>3 DEF Drop
  <2> QED
    BY <1>6, <2>1, <2>2, <2>3
<1>7. ASSUME NEW d \in Dashboards, Reload(d) PROVE Followers'
  BY <1>7 DEF Reload
<1>8. CASE UNCHANGED streamVars
  BY <1>8 DEF streamVars
<1> QED
  BY <1>1, <1>2, <1>3, <1>4, <1>5, <1>6, <1>7, <1>8 DEF StreamNext, Stream

\* No dashboard is told the end of a run that goes on, however many there are
\* and however often they drop, reload or time out.
THEOREM EndAfterTheResult == StreamSpec => []NoEndBeforeTheResult
<1>1. EndIsLast /\ Followers /\ [StreamNext]_streamVars => (EndIsLast /\ Followers)'
  BY EndIsLastStep, FollowersStep
<1>2. EndIsLast /\ Followers => NoEndBeforeTheResult
  BY DEF Followers, NoEndBeforeTheResult
<1> QED
  BY StreamInitKeeps, <1>1, <1>2, PTL DEF StreamSpec
=============================================================================
