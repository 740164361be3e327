--------------------------- MODULE TraceIngestProofs ---------------------------
(***************************************************************************)
(* Theorems about TraceIngest, for any number of workers, agents and       *)
(* messages, any foreign messages and any number of faults.                *)
(***************************************************************************)
EXTENDS TraceIngest, SequenceTheorems, TLAPS

USE TraceIngestAssumption

(***************************************************************************)
(* The inductive invariant.  A worker about to acknowledge has persisted   *)
(* the message at the head of its buffer, and the buffer does not change   *)
(* in between; a row has the key of the message it is from, so that the    *)
(* unique key keeps a second row of that message out.                      *)
(***************************************************************************)
HasRow(n) == \E i \in DOMAIN rows : SameKey(rows[i], Row(n))

PersistedBeforeAck ==
  \A w \in Worker : pc[w] = "ack" => buffer[w] # <<>> /\ HasRow(Head(buffer[w]))

RowsAreFromMessages ==
  \A i \in DOMAIN rows : SameKey(rows[i], Row(rows[i].src))

IInv ==
  /\ TypeOK
  /\ PersistedBeforeAck
  /\ AckedIsPersisted
  /\ RowsAreFromMessages
  /\ PersistedOnce

RowUpTo(n) == [agent : Agent, step : (-Half)..(Half - 1),
               kind : {"thought", "other"}, src : 1..n]

-----------------------------------------------------------------------------
(* Data. *)

LEMMA AsI32Range == \A x \in Int : AsI32(x) \in (-Half)..(Half - 1)
<1>. SUFFICES ASSUME NEW x \in Int
              PROVE  AsI32(x) \in (-Half)..(Half - 1)
  OBVIOUS
<1>1. 2 * Half \in Nat \ {0} /\ x + Half \in Int
  OBVIOUS
<1>2. \A y \in Int, m \in Nat \ {0} : y % m \in 0..(m - 1)
  OBVIOUS
<1>3. (x + Half) % (2 * Half) \in 0..(2 * Half - 1)
  BY <1>1, <1>2
<1>. QED
  BY <1>3 DEF AsI32

\* What the consumer has handed out is in the stream.
LEMMA DeliveredIsStored ==
  ASSUME TypeOK, NEW n \in 1..(next - 1)
  PROVE  n \in Seqs /\ Len(stream) \in Nat
<1>1. Len(stream) \in Nat
  BY LenProperties DEF TypeOK
<1>. QED
  BY <1>1 DEF TypeOK, Seqs

LEMMA RowType ==
  ASSUME TypeOK, NEW n \in Seqs
  PROVE  Row(n) \in RowUpTo(Len(stream)) /\ Row(n).src = n
<1>1. stream[n] \in Message
  BY ElementOfSeq DEF TypeOK, Seqs
<1>2. stream[n].step # NoStep => stream[n].step \in Int
  BY <1>1 DEF Message
<1>3. n \in Int
  BY LenProperties DEF Seqs, TypeOK
<1>4. (IF stream[n].step # NoStep THEN stream[n].step ELSE n) \in Int
  BY <1>2, <1>3
<1>5. StepIndex(n) \in (-Half)..(Half - 1)
  BY <1>4, AsI32Range DEF StepIndex
<1>6. stream[n].agent \in Agent /\ stream[n].kind \in {"thought", "other"}
  BY <1>1 DEF Message
<1>. QED
  BY <1>5, <1>6 DEF Row, RowUpTo, Seqs

-----------------------------------------------------------------------------
LEMMA InitIInv == Init => IInv
<1>. SUFFICES ASSUME Init
              PROVE  IInv
  OBVIOUS
<1>1. Len(stream) = 0
  BY EmptySeq DEF Init
<1>2. /\ stream \in Seq(Message) /\ rows = <<>> /\ rows \in Seq(RowUpTo(Len(stream)))
      /\ \A S : <<>> \in Seq(S)
  BY EmptySeq DEF Init
<1>3. TypeOK
  BY <1>1, <1>2 DEF Init, TypeOK, RowUpTo, Seqs
<1>4. DOMAIN rows = {}
  BY <1>2
<1>. QED
  BY <1>3, <1>4 DEF Init, IInv, PersistedBeforeAck, AckedIsPersisted, RowsAreFromMessages,
     PersistedOnce

-----------------------------------------------------------------------------
(* Steps on the stream and on the table. *)

\* A key that has a row keeps it: stream and table only grow.
LEMMA HasRowKept ==
  ASSUME \A i \in DOMAIN rows : i \in DOMAIN rows' /\ rows'[i] = rows[i],
         NEW n, stream'[n] = stream[n], HasRow(n)
  PROVE  HasRow(n)'
  BY DEF HasRow, SameKey, Row, StepIndex

LEMMA PublishStep ==
  ASSUME IInv, NEW m \in Message, Publish(m),
         checkpoint' \in [Agent -> 0..(Len(stream) + 1)]
  PROVE  IInv'
<1>. USE DEF IInv
<1>1. /\ stream' = Append(stream, m) /\ stream' \in Seq(Message)
      /\ Len(stream') = Len(stream) + 1 /\ Len(stream) \in Nat
  BY AppendProperties, LenProperties DEF Publish, TypeOK
<1>2. ASSUME NEW n \in Seqs
      PROVE  stream'[n] = stream[n]
  BY <1>1, <1>2, AppendProperties DEF Seqs, TypeOK
<1>3. UNCHANGED <<next, outstanding, lapsed, acked, pc, buffer, rows, faults>>
  BY DEF Publish, consumerVars, workerVars
<1>4. rows' \in Seq(RowUpTo(Len(stream')))
  <2>1. RowUpTo(Len(stream)) \subseteq RowUpTo(Len(stream'))
    BY <1>1 DEF RowUpTo
  <2>2. rows \in Seq(RowUpTo(Len(stream)))
    BY DEF TypeOK, RowUpTo, Seqs
  <2>. QED
    BY <1>3, <2>1, <2>2, SeqMonotonic
<1>5. TypeOK'
  BY <1>1, <1>3, <1>4 DEF TypeOK, RowUpTo, Seqs
<1>6. ASSUME NEW n \in 1..(next - 1), HasRow(n)
      PROVE  HasRow(n)'
  BY <1>2, <1>3, <1>6, DeliveredIsStored, HasRowKept
<1>7. PersistedBeforeAck'
  <2>. SUFFICES ASSUME NEW w \in Worker, pc[w] = "ack"
                PROVE  buffer[w] # <<>> /\ HasRow(Head(buffer[w]))'
    BY <1>3 DEF PersistedBeforeAck
  <2>1. buffer[w] # <<>> /\ HasRow(Head(buffer[w]))
    BY DEF PersistedBeforeAck
  <2>2. Head(buffer[w]) \in 1..(next - 1)
    BY <2>1, HeadTailProperties DEF TypeOK
  <2>3. \A n \in 1..(next - 1) : HasRow(n) => HasRow(n)'
    BY <1>6
  <2>. QED
    BY <1>3, <2>1, <2>2, <2>3 DEF HasRow
<1>8. AckedIsPersisted'
  <2>1. \A n \in acked : HasRow(n) /\ n \in 1..(next - 1)
    BY DEF AckedIsPersisted, HasRow, TypeOK
  <2>. QED
    BY <1>3, <1>6, <2>1 DEF AckedIsPersisted, HasRow
<1>9. RowsAreFromMessages'
  <2>1. ASSUME NEW i \in DOMAIN rows
        PROVE  rows[i].src \in Seqs
    <3>1. rows \in Seq(RowUpTo(Len(stream)))
      BY DEF TypeOK, RowUpTo, Seqs
    <3>2. rows[i] \in RowUpTo(Len(stream))
      BY <2>1, <3>1, ElementOfSeq, LenProperties
    <3>. QED
      BY <3>2 DEF RowUpTo, Seqs
  <2>. QED
    BY <1>2, <1>3, <2>1 DEF RowsAreFromMessages, SameKey, Row, StepIndex
<1>10. PersistedOnce'
  BY <1>3 DEF PersistedOnce
<1>. QED
  BY <1>5, <1>7, <1>8, <1>9, <1>10

\* What InsertRow leaves: the row is there, the others still are, and what
\* held of the rows still does.
LEMMA InsertRowPersists ==
  ASSUME IInv, stream' = stream, NEW n \in Seqs, InsertRow(n)
  PROVE  /\ rows' \in Seq(RowUpTo(Len(stream)))
         /\ HasRow(n)'
         /\ \A i \in DOMAIN rows : i \in DOMAIN rows' /\ rows'[i] = rows[i]
         /\ RowsAreFromMessages' /\ PersistedOnce'
<1>0. rows \in Seq(RowUpTo(Len(stream)))
  BY DEF IInv, TypeOK, RowUpTo, Seqs
<1>1. CASE \E i \in DOMAIN rows : SameKey(rows[i], Row(n))
  <2>1. rows' = rows
    BY <1>1 DEF InsertRow
  <2>. QED
    BY <1>0, <1>1, <2>1
    DEF IInv, HasRow, RowsAreFromMessages, PersistedOnce, SameKey, Row, StepIndex
<1>2. CASE ~ \E i \in DOMAIN rows : SameKey(rows[i], Row(n))
  <2>1. rows' = Append(rows, Row(n))
    BY <1>2 DEF InsertRow
  <2>2. Row(n) \in RowUpTo(Len(stream)) /\ Row(n).src = n
    BY RowType DEF IInv
  <2>3. /\ rows' \in Seq(RowUpTo(Len(stream))) /\ Len(rows) \in Nat
        /\ DOMAIN rows = 1..Len(rows) /\ DOMAIN rows' = 1..(Len(rows) + 1)
        /\ \A i \in 1..Len(rows) : rows'[i] = rows[i]
        /\ rows'[Len(rows) + 1] = Row(n)
    BY <1>0, <2>1, <2>2, AppendProperties, LenProperties
  <2>4. HasRow(n)'
    BY <2>3 DEF HasRow, SameKey, Row, StepIndex
  <2>5. RowsAreFromMessages'
    <3>1. \A i \in 1..Len(rows) : SameKey(rows'[i], Row(rows'[i].src))
      BY <2>3 DEF IInv, RowsAreFromMessages
    <3>2. SameKey(rows'[Len(rows) + 1], Row(rows'[Len(rows) + 1].src))
      BY <2>2, <2>3 DEF SameKey
    <3>3. \A k : Row(k)' = Row(k)
      BY DEF Row, StepIndex
    <3>. QED
      BY <2>3, <3>1, <3>2, <3>3 DEF RowsAreFromMessages, SameKey, Row, StepIndex
  <2>6. PersistedOnce'
    <3>1. \A i \in 1..Len(rows) : rows[i].src # n
      BY <1>2, <2>3 DEF IInv, RowsAreFromMessages
    <3>. QED
      BY <2>2, <2>3, <3>1 DEF IInv, PersistedOnce
  <2>. QED
    BY <2>3, <2>4, <2>5, <2>6
<1>. QED
  BY <1>1, <1>2
-----------------------------------------------------------------------------
(* Steps of the consumer and of a worker. *)

LEMMA WorkerFrame ==
  ASSUME IInv, TypeOK', stream' = stream, RowsAreFromMessages', PersistedOnce',
         \A i \in DOMAIN rows : i \in DOMAIN rows' /\ rows'[i] = rows[i],
         \A n \in acked' : n \in acked \/ HasRow(n),
         \A w \in Worker : pc'[w] = "ack" =>
           \/ pc[w] = "ack" /\ buffer'[w] = buffer[w]
           \/ buffer'[w] # <<>> /\ HasRow(Head(buffer[w]))'
  PROVE  IInv'
<1>1. \A n : HasRow(n) => HasRow(n)'
  BY DEF HasRow, SameKey, Row, StepIndex
<1>2. PersistedBeforeAck'
  <2>. SUFFICES ASSUME NEW w \in Worker, pc'[w] = "ack"
                PROVE  buffer'[w] # <<>> /\ HasRow(Head(buffer[w]))'
    BY DEF PersistedBeforeAck
  <2>1. CASE pc[w] = "ack" /\ buffer'[w] = buffer[w]
    <3>1. PICK n : n = Head(buffer[w])
      OBVIOUS
    <3>2. buffer[w] # <<>> /\ HasRow(n)
      BY <2>1, <3>1 DEF IInv, PersistedBeforeAck
    <3>3. HasRow(n)'
      BY <1>1, <3>2
    <3>. QED
      BY <2>1, <3>1, <3>2, <3>3 DEF HasRow, Row, StepIndex
  <2>. QED
    BY <2>1
<1>3. AckedIsPersisted'
  BY <1>1 DEF IInv, AckedIsPersisted, HasRow
<1>. QED
  BY <1>2, <1>3 DEF IInv

\* A step that leaves stream and table alone.
LEMMA NoInsertStep ==
  ASSUME IInv, TypeOK', stream' = stream, rows' = rows,
         \A n \in acked' : n \in acked \/ HasRow(n),
         \A w \in Worker : pc'[w] = "ack" => pc[w] = "ack" /\ buffer'[w] = buffer[w]
  PROVE  IInv'
<1>1. RowsAreFromMessages' /\ PersistedOnce'
  BY DEF IInv, RowsAreFromMessages, PersistedOnce, SameKey, Row, StepIndex
<1>. QED
  BY <1>1, WorkerFrame

\* When more of the stream is handed out, a buffer keeps its type, and so it
\* does with one more message in it.
LEMMA BufferWidens ==
  ASSUME TypeOK, NEW k \in Nat, next - 1 <= k
  PROVE  \A v \in Worker : buffer[v] \in Seq(1..k)
<1>. SUFFICES ASSUME NEW v \in Worker
              PROVE  buffer[v] \in Seq(1..k)
  OBVIOUS
<1>1. 1..(next - 1) \subseteq 1..k /\ buffer[v] \in Seq(1..(next - 1))
  BY LenProperties DEF TypeOK
<1>2. \A s \in Seq(1..(next - 1)) : 1..(next - 1) \subseteq 1..k => s \in Seq(1..k)
  BY SeqMonotonic
<1>. QED
  BY <1>1, <1>2

LEMMA BufferGrows ==
  ASSUME TypeOK, NEW w \in Worker, NEW k \in Nat, next - 1 <= k, NEW n \in 1..k
  PROVE  [buffer EXCEPT ![w] = Append(@, n)] \in [Worker -> Seq(1..k)]
<1>1. \A v \in Worker : buffer[v] \in Seq(1..k)
  BY BufferWidens
<1>2. Append(buffer[w], n) \in Seq(1..k)
  BY <1>1, AppendProperties
<1>. QED
  BY <1>1, <1>2 DEF TypeOK

LEMMA DeliverStep ==
  ASSUME IInv, NEW w \in Worker, Deliver(w)
  PROVE  IInv'
<1>1. TypeOK'
  <2>1. next \in Nat /\ next + 1 - 1 = next /\ Len(stream) \in Nat
    BY LenProperties DEF IInv, TypeOK
  <2>2. buffer' \in [Worker -> Seq(1..next)]
    BY <2>1, BufferGrows DEF IInv, Deliver, TypeOK
  <2>. QED
    BY <2>1, <2>2 DEF IInv, TypeOK, Deliver, streamVars, Seqs
<1>. QED
  BY <1>1, NoInsertStep DEF Deliver, IInv, TypeOK, streamVars

LEMMA RedeliverStep ==
  ASSUME IInv, NEW w \in Worker, NEW n \in lapsed, Redeliver(w, n)
  PROVE  IInv'
<1>1. TypeOK'
  <2>1. next - 1 \in Nat /\ n \in 1..(next - 1)
    BY LenProperties DEF IInv, TypeOK
  <2>2. buffer' \in [Worker -> Seq(1..(next - 1))]
    BY <2>1, BufferGrows DEF IInv, Redeliver
  <2>. QED
    BY <2>1, <2>2 DEF IInv, TypeOK, Redeliver, streamVars, Seqs
<1>. QED
  BY <1>1, NoInsertStep DEF Redeliver, IInv, TypeOK, streamVars

\* A loop that ends keeps the types, and needs no row.
LEMMA EndTypes ==
  ASSUME TypeOK, NEW w \in Worker, End(w)
  PROVE  /\ pc' \in [Worker -> {"down", "loop", "ack"}]
         /\ buffer' \in [Worker -> Seq(1..(next - 1))]
         /\ \A v \in Worker : pc'[v] = "ack" => pc[v] = "ack" /\ buffer'[v] = buffer[v]
  BY EmptySeq DEF End, TypeOK

LEMMA DoneTypes ==
  ASSUME TypeOK, NEW w \in Worker, Done(w), buffer[w] # <<>>
  PROVE  /\ pc' \in [Worker -> {"down", "loop", "ack"}]
         /\ buffer' \in [Worker -> Seq(1..(next - 1))]
         /\ \A v \in Worker : pc'[v] = "ack" => pc[v] = "ack" /\ buffer'[v] = buffer[v]
<1>1. Tail(buffer[w]) \in Seq(1..(next - 1))
  BY HeadTailProperties DEF TypeOK
<1>. QED
  BY <1>1 DEF Done, TypeOK

LEMMA IngestStep ==
  ASSUME IInv, NEW w \in Worker, Ingest(w)
  PROVE  IInv'
<1>1. PICK n \in 1..(next - 1) : n = Head(buffer[w])
  BY HeadTailProperties DEF IInv, TypeOK, Ingest, AtHead
<1>2. /\ stream' = stream /\ acked' = acked /\ buffer' = buffer
      /\ InsertRow(n) /\ n \in Seqs
  BY <1>1, DeliveredIsStored DEF IInv, Ingest, streamVars, consumerVars
<1>3. /\ rows' \in Seq(RowUpTo(Len(stream))) /\ HasRow(n)'
      /\ \A i \in DOMAIN rows : i \in DOMAIN rows' /\ rows'[i] = rows[i]
      /\ RowsAreFromMessages' /\ PersistedOnce'
  BY <1>2, InsertRowPersists
<1>4. TypeOK'
  BY <1>2, <1>3 DEF IInv, TypeOK, Ingest, streamVars, consumerVars, RowUpTo, Seqs
<1>5. \A v \in Worker : pc'[v] = "ack" =>
        \/ pc[v] = "ack" /\ buffer'[v] = buffer[v]
        \/ buffer'[v] # <<>> /\ HasRow(Head(buffer[v]))'
  <2>. SUFFICES ASSUME NEW v \in Worker, pc'[v] = "ack", pc[v] # "ack"
                PROVE  buffer'[v] # <<>> /\ HasRow(Head(buffer[v]))'
    BY <1>2
  <2>1. v = w
    BY DEF IInv, TypeOK, Ingest
  <2>. QED
    BY <1>1, <1>2, <1>3, <2>1 DEF Ingest, AtHead, HasRow, Row, StepIndex
<1>. QED
  BY <1>2, <1>3, <1>4, <1>5, WorkerFrame

LEMMA IngestFailsStep ==
  ASSUME IInv, NEW w \in Worker, IngestFails(w)
  PROVE  IInv'
<1>. DEFINE n == Head(buffer[w])
<1>1. n \in Seqs
  BY HeadTailProperties, DeliveredIsStored DEF IInv, TypeOK, IngestFails, AtHead
<1>2. /\ stream' = stream /\ acked' = acked /\ End(w)
      /\ InsertRow(n) \/ rows' = rows
  BY DEF IngestFails, streamVars, consumerVars
<1>. HIDE DEF n
<1>3. /\ rows' \in Seq(RowUpTo(Len(stream)))
      /\ \A i \in DOMAIN rows : i \in DOMAIN rows' /\ rows'[i] = rows[i]
      /\ RowsAreFromMessages' /\ PersistedOnce'
  <2>1. CASE InsertRow(n)
    BY <1>1, <1>2, <2>1, InsertRowPersists
  <2>2. CASE rows' = rows
    BY <1>2, <2>2 DEF IInv, TypeOK, RowUpTo, Seqs, RowsAreFromMessages, PersistedOnce,
       SameKey, Row, StepIndex
  <2>. QED
    BY <1>2, <2>1, <2>2
<1>4. TypeOK'
  BY <1>2, <1>3, EndTypes DEF IInv, TypeOK, IngestFails, Fault, streamVars, consumerVars,
     RowUpTo, Seqs
<1>5. \A v \in Worker : pc'[v] = "ack" => pc[v] = "ack" /\ buffer'[v] = buffer[v]
  BY <1>2, EndTypes DEF IInv
<1>. QED
  BY <1>2, <1>3, <1>4, <1>5, WorkerFrame

LEMMA AckStep ==
  ASSUME IInv, NEW w \in Worker, Ack(w) \/ AckLost(w)
  PROVE  IInv'
<1>. DEFINE n == Head(buffer[w])
<1>1. buffer[w] # <<>> /\ HasRow(n)
  BY DEF IInv, PersistedBeforeAck, Ack, AckLost
<1>2. n \in 1..(next - 1)
  BY <1>1, HeadTailProperties DEF IInv, TypeOK
<1>3. Done(w) /\ stream' = stream /\ rows' = rows
  BY DEF Ack, AckLost, streamVars
<1>4. acked' = acked \/ acked' = acked \cup {n}
  BY DEF Ack, AckLost, consumerVars
<1>5. TypeOK'
  <2>1. CASE Ack(w)
    BY <1>1, <1>2, <1>3, <2>1, DoneTypes DEF IInv, TypeOK, Ack, streamVars, Seqs
  <2>2. CASE AckLost(w)
    BY <1>1, <1>3, <2>2, DoneTypes DEF IInv, TypeOK, AckLost, Fault, streamVars, consumerVars, Seqs
  <2>. QED
    BY <2>1, <2>2
<1>6. \A v \in Worker : pc'[v] = "ack" => pc[v] = "ack" /\ buffer'[v] = buffer[v]
  BY <1>1, <1>3, DoneTypes DEF IInv
<1>7. \A k \in acked' : k \in acked \/ HasRow(k)
  BY <1>1, <1>4
<1>. QED
  BY <1>3, <1>5, <1>6, <1>7, NoInsertStep

\* The other steps: the consumer passes a message, an ack wait ends, a loop
\* starts, or ends.
LEMMA OtherStep ==
  ASSUME IInv,
         \/ Pass
         \/ \E n \in outstanding : AckWait(n)
         \/ \E w \in Worker : Start(w) \/ IngestRejected(w) \/ Crash(w)
  PROVE  IInv'
<1>0. Len(stream) \in Nat
  BY LenProperties DEF IInv, TypeOK
<1>1. CASE Pass
  <2>1. next \in Nat /\ 1..(next - 1) \subseteq 1..(next' - 1) /\ next' \in 1..(Len(stream) + 1)
    BY <1>0, <1>1 DEF Pass, IInv, TypeOK, Seqs
  <2>2. buffer' \in [Worker -> Seq(1..(next' - 1))]
    <3>1. PICK k \in Nat : k = next
      BY <2>1
    <3>2. next' - 1 = k /\ next - 1 <= k /\ buffer' = buffer
      BY <1>1, <2>1, <3>1 DEF Pass, workerVars
    <3>3. \A v \in Worker : buffer[v] \in Seq(1..k)
      BY <3>2, BufferWidens DEF IInv
    <3>. QED
      BY <3>2, <3>3 DEF IInv, TypeOK
  <2>3. TypeOK'
    BY <1>1, <2>1, <2>2 DEF Pass, IInv, TypeOK, streamVars, workerVars, Seqs
  <2>. QED
    BY <1>1, <2>3, NoInsertStep DEF Pass, streamVars, workerVars
<1>2. ASSUME NEW n \in outstanding, AckWait(n)
      PROVE  IInv'
  <2>1. TypeOK'
    BY <1>2 DEF AckWait, IInv, TypeOK, streamVars, workerVars, Seqs
  <2>. QED
    BY <1>2, <2>1, NoInsertStep DEF AckWait, streamVars, workerVars
<1>3. ASSUME NEW w \in Worker, Start(w)
      PROVE  IInv'
  <2>1. TypeOK'
    BY <1>3 DEF Start, IInv, TypeOK, streamVars, consumerVars, Seqs
  <2>. QED
    BY <1>3, <2>1, NoInsertStep DEF Start, IInv, TypeOK, streamVars, consumerVars
<1>4. ASSUME NEW w \in Worker, IngestRejected(w) \/ Crash(w)
      PROVE  IInv'
  <2>1. /\ End(w) /\ UNCHANGED <<stream, checkpoint, next, outstanding, lapsed, acked, rows>>
        /\ faults' \in 0..MaxFaults
    BY <1>4 DEF IngestRejected, Crash, Fault, IInv, TypeOK, streamVars, consumerVars
  <2>2. TypeOK'
    BY <1>4, <2>1, EndTypes DEF IInv, TypeOK, Seqs
  <2>. QED
    BY <1>4, <2>1, <2>2, EndTypes, NoInsertStep DEF IInv
<1>. QED
  BY <1>1, <1>2, <1>3, <1>4

LEMMA Invariance == IInv /\ [Next]_vars => IInv'
<1>. SUFFICES ASSUME IInv, [Next]_vars
              PROVE  IInv'
  OBVIOUS
<1>0. Len(stream) \in Nat
  BY LenProperties DEF IInv, TypeOK
<1>1. ASSUME NEW a \in Agent, SaveEvent(a)
      PROVE  IInv'
  <2>. DEFINE m == [subject |-> "trace", agent |-> a, step |-> NoStep,
                    kind |-> "thought", valid |-> TRUE]
  <2>1. m \in Message
    BY DEF Message
  <2>2. Publish(m) /\ checkpoint' \in [Agent -> 0..(Len(stream) + 1)]
    BY <1>0, <1>1 DEF SaveEvent, IInv, TypeOK
  <2>. QED
    BY <2>1, <2>2, PublishStep
<1>2. ASSUME NEW a \in Agent, NEW x \in CheckpointStep, SaveCheckpoint(a, x)
      PROVE  IInv'
  <2>. DEFINE m == [subject |-> "checkpoint", agent |-> a, step |-> x,
                    kind |-> "thought", valid |-> TRUE]
  <2>1. m \in Message
    BY DEF Message
  <2>2. Publish(m)
    BY <1>2 DEF SaveCheckpoint
  <2>3. Len(stream') = Len(stream) + 1
    BY <2>1, <2>2, AppendProperties DEF Publish, IInv, TypeOK
  <2>4. checkpoint' \in [Agent -> 0..(Len(stream) + 1)]
    BY <1>0, <1>2, <2>3 DEF SaveCheckpoint, IInv, TypeOK
  <2>. QED
    BY <2>1, <2>2, <2>4, PublishStep
<1>3. ASSUME NEW m \in Foreign, PublishForeign(m)
      PROVE  IInv'
  <2>1. checkpoint' \in [Agent -> 0..(Len(stream) + 1)]
    BY <1>0, <1>3 DEF PublishForeign, IInv, TypeOK
  <2>. QED
    BY <1>3, <2>1, PublishStep DEF PublishForeign
<1>4. ASSUME NEW w \in Worker, WorkerStep(w)
      PROVE  IInv'
  BY <1>4, DeliverStep, RedeliverStep, IngestStep, IngestFailsStep, AckStep, OtherStep
  DEF WorkerStep
<1>5. CASE Pass \/ \E n \in outstanding : AckWait(n)
  BY <1>5, OtherStep
<1>6. CASE UNCHANGED vars
  <2>1. TypeOK'
    BY <1>6 DEF vars, streamVars, consumerVars, workerVars, IInv, TypeOK, Seqs
  <2>. QED
    BY <1>6, <2>1, NoInsertStep DEF vars, streamVars, consumerVars, workerVars
<1>. QED
  BY <1>1, <1>2, <1>3, <1>4, <1>5, <1>6 DEF Next

LEMMA InvariantHolds == Spec => []IInv
<1>. QED
  BY InitIInv, Invariance, PTL DEF Spec

\* Every variable keeps its type: the consumer hands out only what is in the
\* stream, and every step_index fits the column.
THEOREM TypeCorrect == Spec => []TypeOK
<1>1. IInv => TypeOK
  BY DEF IInv
<1>. QED
  BY <1>1, InvariantHolds, PTL

\* No message is acknowledged before agent_traces has a row of its key,
\* whatever is redelivered, lost or restarted (ingest_agent_trace_stream).
THEOREM AckAfterInsert == Spec => []AckedIsPersisted
<1>1. IInv => AckedIsPersisted
  BY DEF IInv
<1>. QED
  BY <1>1, InvariantHolds, PTL

\* At-least-once delivery leaves at most one row a message (AgentTrace::insert).
THEOREM InsertOnce == Spec => []PersistedOnce
<1>1. IInv => PersistedOnce
  BY DEF IInv
<1>. QED
  BY <1>1, InvariantHolds, PTL
=============================================================================
