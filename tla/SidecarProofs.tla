------------------------------ MODULE SidecarProofs ------------------------------
(***************************************************************************)
(* Theorems about Sidecar, for any number of agents, connections, workers, *)
(* messages and faults.                                                    *)
(***************************************************************************)
EXTENDS Sidecar, TraceIngestProofs, WellFoundedInduction

USE TraceIngestAssumption, SidecarAssumption

Request == [agent : Agent, conn : 1..MaxOpen, op : Op,
            done : BOOLEAN, step : (-Half)..(Half - 1)]

\* A call that is awaited has its request at the server, and the requests of an
\* agent have a connection each.
Connected ==
  /\ \A a \in Agent : awaited[a] # 0 => \E h \in handlers : h.agent = a /\ Awaits(h)
  /\ \A h, k \in handlers : h.agent = k.agent /\ h.conn = k.conn => h = k

\* The invariant of the ingestion holds beside that of the connections.
SInv == IInv /\ SidecarTypeOK /\ Connected

-----------------------------------------------------------------------------
(* Data. *)

\* A bounded set of integers has a greatest element.
LEMMA NatHasMin ==
  ASSUME NEW T, T \subseteq Nat, T # {}
  PROVE  \E t \in T : \A u \in T : t <= u
<1>1. PICK t \in T : \A u \in T : ~ (<<u, t>> \in OpToRel(<, Nat))
  BY NatLessThanWellFounded, WFMin
<1>2. \A u \in T : ~ (u < t)
  BY <1>1 DEF OpToRel
<1>3. \A u \in T : t <= u
  <2>. SUFFICES ASSUME NEW u \in T
                PROVE  t <= u
    OBVIOUS
  <2>1. u \in Nat /\ t \in Nat
    OBVIOUS
  <2>. QED
    BY <1>2, <2>1
<1>. QED
  BY <1>3

LEMMA BoundedHasMax ==
  ASSUME NEW S, S \subseteq Int, S # {}, NEW b \in Int, \A s \in S : s <= b
  PROVE  \E m \in S : \A s \in S : s <= m
<1>. DEFINE T == {b - s : s \in S}
<1>0. \A s \in S : s \in Int /\ s <= b /\ b - s \in Nat
  <2>. SUFFICES ASSUME NEW s \in S
                PROVE  s \in Int /\ s <= b /\ b - s \in Nat
    OBVIOUS
  <2>1. s \in Int /\ s <= b
    OBVIOUS
  <2>. QED
    BY <2>1
<1>1. T \subseteq Nat /\ T # {}
  BY <1>0
<1>2. PICK t \in T : \A u \in T : t <= u
  BY <1>1, NatHasMin
<1>3. PICK m \in S : t = b - m
  OBVIOUS
<1>4. \A s \in S : b - m <= b - s
  BY <1>2, <1>3
<1>5. \A s \in S : s <= m
  <2>. SUFFICES ASSUME NEW s \in S
                PROVE  s <= m
    OBVIOUS
  <2>1. s \in Int /\ m \in Int /\ b - m <= b - s
    BY <1>0, <1>4
  <2>. QED
    BY <2>1
<1>. QED
  BY <1>5

LEMMA RowInTable ==
  ASSUME TypeOK, NEW i \in DOMAIN rows
  PROVE  rows[i] \in RowUpTo(Len(stream))
<1>1. rows \in Seq(RowUpTo(Len(stream)))
  BY DEF TypeOK, RowUpTo, Seqs
<1>2. i \in 1..Len(rows)
  BY <1>1, LenProperties
<1>. QED
  BY <1>1, <1>2, ElementOfSeq

LEMMA ResumedRow ==
  ASSUME TypeOK, NEW a, Thoughts(a) # {}
  PROVE  \E i \in Thoughts(a) : /\ Resumed(a) = rows[i].src
                                /\ \A k \in Thoughts(a) : rows[k].step <= rows[i].step
<1>. DEFINE S == {rows[k].step : k \in Thoughts(a)}
<1>1. \A k \in Thoughts(a) : rows[k].step \in (-Half)..(Half - 1)
  BY RowInTable DEF RowUpTo, Thoughts
<1>2. S \subseteq Int /\ S # {} /\ Half - 1 \in Int /\ \A x \in S : x <= Half - 1
  <2>1. \A x \in (-Half)..(Half - 1) : x \in Int /\ x <= Half - 1
    OBVIOUS
  <2>. QED
    BY <1>1, <2>1
<1>3. PICK m \in S : \A x \in S : x <= m
  <2>. HIDE DEF S
  <2>. QED
    BY <1>2, BoundedHasMax
<1>4. \E j \in Thoughts(a) : \A k \in Thoughts(a) : rows[k].step <= rows[j].step
  BY <1>3
<1>. QED
  BY <1>4 DEF Resumed

LEMMA ResumedRange ==
  ASSUME TypeOK, NEW a
  PROVE  Resumed(a) \in 0..Len(stream) /\ ResumedStep(a) \in (-Half)..(Half - 1)
<1>1. Len(stream) \in Nat
  BY LenProperties DEF TypeOK
<1>2. CASE Thoughts(a) = {}
  <2>1. Resumed(a) = 0
    BY <1>2 DEF Resumed
  <2>2. 0 \in (-Half)..(Half - 1)
    OBVIOUS
  <2>. QED
    BY <1>1, <2>1, <2>2 DEF ResumedStep
<1>3. CASE Thoughts(a) # {}
  <2>1. PICK i \in Thoughts(a) : Resumed(a) = rows[i].src
    BY <1>3, ResumedRow
  <2>2. Resumed(a) \in Seqs
    BY <2>1, RowInTable DEF RowUpTo, Thoughts, Seqs
  <2>3. StepIndex(Resumed(a)) \in (-Half)..(Half - 1)
    BY <2>2, RowType DEF Row, RowUpTo
  <2>. QED
    BY <1>1, <2>2, <2>3 DEF ResumedStep, Seqs
<1>. QED
  BY <1>2, <1>3

-----------------------------------------------------------------------------
(* A step of the sidecar is a step of the ingestion, or leaves it as it is *)
(* but for the count of the faults.                                        *)

LEMMA FaultOnly ==
  ASSUME IInv, Fault, UNCHANGED <<streamVars, consumerVars, workerVars, rows>>
  PROVE  IInv'
<1>1. /\ UNCHANGED <<stream, checkpoint, next, outstanding, lapsed, acked, pc, buffer, rows>>
      /\ faults' \in 0..MaxFaults
  BY DEF Fault, IInv, TypeOK, streamVars, consumerVars, workerVars
<1>2. TypeOK'
  BY <1>1 DEF IInv, TypeOK, Seqs
<1>. QED
  BY <1>1, <1>2, NoInsertStep

LEMMA IngestionPart ==
  ASSUME SidecarTypeOK, [SidecarNext]_allVars
  PROVE  [Next]_vars \/ (Fault /\ UNCHANGED <<streamVars, consumerVars, workerVars, rows>>)
<1>1. \A h \in handlers : h.agent \in Agent
  BY DEF SidecarTypeOK
<1>2. ASSUME NEW a \in Agent, NEW op \in Op, GiveUp(a) \/ Call(a, op)
      PROVE  UNCHANGED vars
  BY <1>2 DEF GiveUp, Call
<1>3. ASSUME NEW h \in handlers, HandlerStep(h)
      PROVE  [Next]_vars \/ (Fault /\ UNCHANGED <<streamVars, consumerVars, workerVars, rows>>)
  BY <1>1, <1>3 DEF HandlerStep, PublishEvent, PublishCheckpoint, ReadState, Answer,
     HandlerFails, Dropped, Next
<1>4. CASE SidecarCrash
  BY <1>4 DEF SidecarCrash
<1>5. CASE IngestionStep
  BY <1>5 DEF IngestionStep, Next
<1>6. CASE UNCHANGED allVars
  BY <1>6 DEF allVars
<1>7. Op # {}
  BY DEF Op
<1>. QED
  BY <1>2, <1>3, <1>4, <1>5, <1>6, <1>7 DEF SidecarNext

LEMMA IngestionInvariant ==
  ASSUME SInv, [SidecarNext]_allVars
  PROVE  IInv'
  BY IngestionPart, Invariance, FaultOnly DEF SInv

-----------------------------------------------------------------------------
(* The connections. *)

LEMMA InitSInv == SidecarInit => SInv
<1>. SUFFICES ASSUME SidecarInit
              PROVE  SInv
  OBVIOUS
<1>1. IInv
  BY InitIInv DEF SidecarInit
<1>2. 0 \in (-Half)..(Half - 1)
  OBVIOUS
<1>. QED
  BY <1>1, <1>2 DEF SInv, IInv, SidecarInit, SidecarTypeOK, Connected

\* h is answered or dropped; a call that awaits it is not any more.
LEMMA ReturnedStep ==
  ASSUME SInv, IInv', NEW h \in handlers, handlers' = handlers \ {h},
         Returned(h), given' \in [Agent -> (-Half)..(Half - 1)]
  PROVE  SInv'
<1>1. handlers \subseteq Request /\ awaited \in [Agent -> 0..MaxOpen] /\ h.agent \in Agent
  BY DEF SInv, SidecarTypeOK, Request
<1>2. awaited' \in [Agent -> 0..MaxOpen]
  BY <1>1 DEF Returned
<1>3. ASSUME NEW a \in Agent, awaited'[a] # 0
      PROVE  \E k \in handlers' : k.agent = a /\ Awaits(k)'
  <2>1. awaited'[a] = awaited[a] /\ (a = h.agent => ~Awaits(h))
    BY <1>1, <1>3 DEF Returned
  <2>2. PICK k \in handlers : k.agent = a /\ Awaits(k)
    BY <1>3, <2>1 DEF SInv, Connected
  <2>. QED
    BY <2>1, <2>2 DEF Awaits
<1>. QED
  BY <1>1, <1>2, <1>3 DEF SInv, IInv, SidecarTypeOK, Connected, Request

\* h goes on.
LEMMA FinishedStep ==
  ASSUME SInv, IInv', NEW h \in handlers, NEW s \in (-Half)..(Half - 1), Finished(h, s),
         UNCHANGED <<awaited, given>>
  PROVE  SInv'
<1>. DEFINE g == [h EXCEPT !.done = TRUE, !.step = s]
<1>1. handlers \subseteq Request /\ h \in Request
  BY DEF SInv, SidecarTypeOK, Request
<1>2. g \in Request /\ g.agent = h.agent /\ g.conn = h.conn
  BY <1>1 DEF Request
<1>3. handlers' = (handlers \ {h}) \cup {g}
  BY DEF Finished
<1>4. SidecarTypeOK'
  BY <1>1, <1>2, <1>3 DEF SInv, IInv, SidecarTypeOK, Request
<1>. HIDE DEF g
<1>5. Connected'
  BY <1>1, <1>2, <1>3 DEF SInv, Connected, Awaits
<1>. QED
  BY <1>4, <1>5 DEF SInv

LEMMA CallStep ==
  ASSUME SInv, IInv', NEW a \in Agent, NEW op \in Op, Call(a, op)
  PROVE  SInv'
<1>1. PICK c \in 1..MaxOpen :
        /\ \A h \in handlers : h.agent = a => h.conn # c
        /\ awaited' = [awaited EXCEPT ![a] = c]
        /\ handlers' = handlers \cup
             {[agent |-> a, conn |-> c, op |-> op, done |-> FALSE, step |-> 0]}
  BY DEF Call
<1>. DEFINE g == [agent |-> a, conn |-> c, op |-> op, done |-> FALSE, step |-> 0]
<1>2. handlers \subseteq Request /\ awaited \in [Agent -> 0..MaxOpen]
  BY DEF SInv, SidecarTypeOK, Request
<1>3. g \in Request /\ g.agent = a /\ g.conn = c
  BY DEF Request
<1>4. given' = given
  BY DEF Call
<1>5. handlers' = handlers \cup {g}
  BY <1>1
<1>. HIDE DEF g
<1>6. SidecarTypeOK'
  <2>1. handlers' \subseteq Request
    BY <1>2, <1>3, <1>5
  <2>2. awaited' \in [Agent -> 0..MaxOpen]
    BY <1>1, <1>2
  <2>. QED
    BY <1>4, <2>1, <2>2 DEF SInv, IInv, SidecarTypeOK, Request
<1>7. ASSUME NEW b \in Agent, awaited'[b] # 0
      PROVE  \E k \in handlers' : k.agent = b /\ Awaits(k)'
  <2>1. CASE b = a
    BY <1>1, <1>2, <1>3, <1>5, <2>1 DEF Awaits
  <2>2. CASE b # a
    <3>1. awaited'[b] = awaited[b]
      BY <1>1, <1>2, <2>2
    <3>2. PICK k \in handlers : k.agent = b /\ Awaits(k)
      BY <1>7, <3>1 DEF SInv, Connected
    <3>. QED
      BY <1>5, <3>1, <3>2 DEF Awaits
  <2>. QED
    BY <2>1, <2>2
<1>8. \A h, k \in handlers' : h.agent = k.agent /\ h.conn = k.conn => h = k
  BY <1>1, <1>3, <1>5 DEF SInv, Connected
<1>. QED
  BY <1>6, <1>7, <1>8 DEF SInv, Connected

LEMMA HandlerInvariant ==
  ASSUME SInv, IInv', NEW h \in handlers, HandlerStep(h)
  PROVE  SInv'
<1>1. /\ given \in [Agent -> (-Half)..(Half - 1)] /\ h \in Request
      /\ \A a : ResumedStep(a) \in (-Half)..(Half - 1)
      /\ 0 \in (-Half)..(Half - 1)
  BY ResumedRange DEF SInv, IInv, SidecarTypeOK, Request
<1>2. CASE PublishEvent(h) \/ PublishCheckpoint(h) \/ ReadState(h)
  <2>1. PICK s \in (-Half)..(Half - 1) : Finished(h, s)
    BY <1>1, <1>2 DEF PublishEvent, PublishCheckpoint, ReadState
  <2>2. UNCHANGED <<awaited, given>>
    BY <1>2 DEF PublishEvent, PublishCheckpoint, ReadState
  <2>. QED
    BY <2>1, <2>2, FinishedStep
<1>3. CASE Answer(h)
  <2>1. given' \in [Agent -> (-Half)..(Half - 1)]
    BY <1>1, <1>3 DEF Answer, Request
  <2>. QED
    BY <1>3, <2>1, ReturnedStep DEF Answer
<1>4. CASE HandlerFails(h)
  BY <1>1, <1>4, ReturnedStep DEF HandlerFails
<1>5. CASE Dropped(h)
  <2>1. Returned(h)
    BY <1>5 DEF Dropped, Returned, SInv, SidecarTypeOK
  <2>. QED
    BY <1>1, <1>5, <2>1, ReturnedStep DEF Dropped
<1>. QED
  BY <1>2, <1>3, <1>4, <1>5 DEF HandlerStep

LEMMA SInvariance == SInv /\ [SidecarNext]_allVars => SInv'
<1>. SUFFICES ASSUME SInv, [SidecarNext]_allVars
              PROVE  SInv'
  OBVIOUS
<1>1. IInv'
  BY IngestionInvariant
<1>2. ASSUME NEW a \in Agent, GiveUp(a)
      PROVE  SInv'
  <2>1. awaited' \in [Agent -> 0..MaxOpen]
    BY <1>2 DEF GiveUp, SInv, SidecarTypeOK
  <2>2. \A b \in Agent : awaited'[b] # 0 => awaited'[b] = awaited[b]
    BY <1>2 DEF GiveUp, SInv, SidecarTypeOK
  <2>3. \A b \in Agent : awaited'[b] # 0 => \E h \in handlers : h.agent = b /\ Awaits(h)'
    BY <1>2, <2>2 DEF GiveUp, SInv, Connected, Awaits
  <2>. QED
    BY <1>1, <1>2, <2>1, <2>3 DEF GiveUp, SInv, IInv, SidecarTypeOK, Connected
<1>3. CASE SidecarCrash
  BY <1>1, <1>3 DEF SidecarCrash, SInv, IInv, SidecarTypeOK, Connected
<1>4. CASE UNCHANGED sidecarVars
  BY <1>1, <1>4 DEF sidecarVars, SInv, IInv, SidecarTypeOK, Connected, Awaits
<1>. QED
  BY <1>1, <1>2, <1>3, <1>4, CallStep, HandlerInvariant DEF SidecarNext, IngestionStep, allVars

LEMMA SInvHolds == SidecarSpec => []SInv
<1>. QED
  BY InitSInv, SInvariance, PTL DEF SidecarSpec

\* Every variable of the composition keeps its type: requests use the
\* connections of their agent, and resume() returns a step_index of 32 bits.
THEOREM SidecarTypeCorrect == SidecarSpec => []SidecarTypeOK
<1>1. SInv => SidecarTypeOK
  BY DEF SInv
<1>. QED
  BY <1>1, SInvHolds, PTL

\* With the sidecar as the publisher, a message is acknowledged only after its
\* row is there, and never has two, also if a sidecar or a worker crashes.
THEOREM SidecarKeepsIngestion == SidecarSpec => [](AckedIsPersisted /\ PersistedOnce)
<1>1. SInv => AckedIsPersisted /\ PersistedOnce
  BY DEF SInv, IInv
<1>. QED
  BY <1>1, SInvHolds, PTL

-----------------------------------------------------------------------------
(***************************************************************************)
(* The events.  The stream sequence is the step_index of an event, as long *)
(* as it fits the column (NoWrap); so a row has the key of one event, and  *)
(* the row with the greatest step_index is that of the last event.         *)
(***************************************************************************)
NoWrap == MaxMessages < Half

Events == {n \in Seqs : Filtered(n)}

OwnMessages ==
  /\ Len(stream) <= MaxMessages
  /\ \A n \in Events : stream[n].step = NoStep /\ stream[n].kind = "thought"

HandedOver ==
  /\ outstanding \cup lapsed \cup acked \subseteq Events
  /\ \A n \in Events : n < next => n \in outstanding \cup lapsed \cup acked
  /\ \A w \in Worker : buffer[w] \in Seq(Events)

EventRows == \A i \in DOMAIN rows : rows[i].src \in Events /\ rows[i].kind = "thought"

EInv == OwnMessages /\ HandedOver /\ EventRows

RowsKept == \A i \in DOMAIN rows : i \in DOMAIN rows' /\ rows'[i] = rows[i]

LEMMA InitEInv == SidecarInit => EInv
<1>. SUFFICES ASSUME SidecarInit
              PROVE  EInv
  OBVIOUS
<1>1. Len(stream) = 0 /\ DOMAIN rows = {} /\ Events = {}
  BY EmptySeq DEF SidecarInit, Init, Events, Seqs
<1>2. \A S : <<>> \in Seq(S)
  BY EmptySeq
<1>. QED
  BY <1>1, <1>2 DEF SidecarInit, Init, EInv, OwnMessages, HandedOver, EventRows

\* A step that leaves the stream alone.
LEMMA StreamKept ==
  ASSUME EInv, stream' = stream
  PROVE  Events' = Events /\ OwnMessages'
  BY DEF EInv, OwnMessages, Events, Seqs, Filtered

LEMMA OwnPublishStep ==
  ASSUME TypeOK, EInv, NEW m \in Message, Publish(m),
         m.subject = "trace" => m.step = NoStep /\ m.kind = "thought"
  PROVE  EInv' /\ RowsKept
<1>1. /\ stream' = Append(stream, m) /\ Len(stream') = Len(stream) + 1 /\ Len(stream) \in Nat
      /\ stream'[Len(stream) + 1] = m
      /\ \A n \in Seqs : stream'[n] = stream[n]
      /\ Len(stream) < MaxMessages
  BY AppendProperties, LenProperties DEF Publish, TypeOK, Seqs
<1>2. UNCHANGED <<next, outstanding, lapsed, acked, pc, buffer, rows>>
  BY DEF Publish, consumerVars, workerVars
<1>3. /\ Seqs \subseteq Seqs' /\ \A n \in Seqs' : n \in Seqs \/ n = Len(stream) + 1
  BY <1>1 DEF Seqs
<1>4. /\ Events \subseteq Events'
      /\ \A n \in Events' : n \in Events \/ (n = Len(stream) + 1 /\ m.subject = "trace")
  BY <1>1, <1>3 DEF Events, Filtered
<1>5. OwnMessages'
  <2>1. Len(stream') <= MaxMessages
    BY <1>1
  <2>2. ASSUME NEW n \in Events
        PROVE  stream'[n].step = NoStep /\ stream'[n].kind = "thought"
    BY <1>1 DEF EInv, OwnMessages, Events
  <2>3. ASSUME m.subject = "trace"
        PROVE  stream'[Len(stream) + 1].step = NoStep /\ stream'[Len(stream) + 1].kind = "thought"
    BY <1>1, <2>3
  <2>. QED
    BY <1>4, <2>1, <2>2, <2>3 DEF OwnMessages
<1>6. HandedOver'
  <2>1. ASSUME NEW w \in Worker
        PROVE  buffer'[w] \in Seq(Events')
    BY <1>2, <1>4, SeqMonotonic DEF EInv, HandedOver
  <2>2. \A n \in Events' : n < next' => n \in Events
    BY <1>1, <1>2, <1>4 DEF TypeOK
  <2>. QED
    BY <1>2, <1>4, <2>1, <2>2 DEF EInv, HandedOver
<1>7. EventRows'
  BY <1>2, <1>4 DEF EInv, EventRows
<1>. QED
  BY <1>2, <1>5, <1>6, <1>7 DEF EInv, RowsKept

LEMMA InsertEvent ==
  ASSUME IInv, EInv, stream' = stream, NEW n \in Events, InsertRow(n)
  PROVE  EventRows' /\ RowsKept
<1>1. RowsKept
  BY InsertRowPersists DEF RowsKept, Events
<1>2. CASE rows' = rows
  BY <1>1, <1>2, StreamKept DEF EInv, EventRows
<1>3. CASE rows' = Append(rows, Row(n))
  <2>1. rows \in Seq(RowUpTo(Len(stream)))
    BY DEF IInv, TypeOK, RowUpTo, Seqs
  <2>2. \A i \in DOMAIN rows' : i \in DOMAIN rows \/ rows'[i] = Row(n)
    <3>1. Row(n) \in RowUpTo(Len(stream))
      BY RowType DEF IInv, Events
    <3>. QED
      BY <1>3, <2>1, <3>1, AppendProperties, LenProperties
  <2>3. Row(n).src = n /\ Row(n).kind = "thought"
    BY DEF Row, EInv, OwnMessages
  <2>. QED
    BY <1>1, <2>2, <2>3, StreamKept DEF EInv, EventRows, RowsKept
<1>. QED
  BY <1>2, <1>3 DEF InsertRow

LEMMA HeadIsEvent ==
  ASSUME EInv, NEW w \in Worker, buffer[w] # <<>>
  PROVE  Head(buffer[w]) \in Events /\ Tail(buffer[w]) \in Seq(Events)
  BY HeadTailProperties DEF EInv, HandedOver

\* The buffers when that of one worker changes.
LEMMA BufferStep ==
  ASSUME TypeOK, EInv, stream' = stream, NEW w \in Worker, NEW s \in Seq(Events),
         buffer' = [buffer EXCEPT ![w] = s]
  PROVE  \A v \in Worker : buffer'[v] \in Seq(Events')
  BY StreamKept DEF TypeOK, EInv, HandedOver

LEMMA HandOverStep ==
  ASSUME TypeOK, EInv, NEW w \in Worker,
         Deliver(w) \/ \E n \in lapsed : Redeliver(w, n)
  PROVE  EInv' /\ RowsKept
<1>1. stream' = stream /\ rows' = rows
  BY DEF Deliver, Redeliver, streamVars
<1>2. Events' = Events /\ OwnMessages'
  BY <1>1, StreamKept
<1>3. EventRows' /\ RowsKept
  BY <1>1, <1>2 DEF EInv, EventRows, RowsKept
<1>4. next \in Int /\ \A n \in Events : n \in Int
  BY LenProperties DEF TypeOK, Events, Seqs
<1>5. CASE Deliver(w)
  <2>1. next \in Events
    BY <1>5 DEF Deliver, Events
  <2>2. Append(buffer[w], next) \in Seq(Events)
    BY <2>1, AppendProperties DEF EInv, HandedOver
  <2>3. \A v \in Worker : buffer'[v] \in Seq(Events')
    BY <1>1, <1>5, <2>2, BufferStep DEF Deliver
  <2>. QED
    BY <1>2, <1>3, <1>4, <1>5, <2>1, <2>3 DEF Deliver, EInv, HandedOver
<1>6. ASSUME NEW n \in lapsed, Redeliver(w, n)
      PROVE  EInv'
  <2>1. n \in Events
    BY DEF EInv, HandedOver
  <2>2. Append(buffer[w], n) \in Seq(Events)
    BY <2>1, AppendProperties DEF EInv, HandedOver
  <2>3. \A v \in Worker : buffer'[v] \in Seq(Events')
    BY <1>1, <1>6, <2>2, BufferStep DEF Redeliver
  <2>. QED
    BY <1>2, <1>3, <1>6, <2>1, <2>3 DEF Redeliver, EInv, HandedOver
<1>. QED
  BY <1>3, <1>5, <1>6

LEMMA WorkerEventStep ==
  ASSUME IInv, EInv, NEW w \in Worker, WorkerStep(w)
  PROVE  EInv' /\ RowsKept
<1>1. stream' = stream
  BY DEF WorkerStep, Deliver, Redeliver, Start, Ingest, IngestFails, IngestRejected, Ack,
     AckLost, Crash, streamVars
<1>2. Events' = Events /\ OwnMessages'
  BY <1>1, StreamKept
<1>3. CASE Deliver(w) \/ \E n \in lapsed : Redeliver(w, n)
  BY <1>3, HandOverStep DEF IInv
<1>4. CASE Start(w)
  BY <1>2, <1>4 DEF Start, consumerVars, EInv, HandedOver, EventRows, RowsKept
<1>5. CASE Ingest(w) \/ IngestFails(w)
  <2>1. Head(buffer[w]) \in Events
    BY <1>5, HeadIsEvent DEF Ingest, IngestFails, AtHead
  <2>2. EventRows' /\ RowsKept
    <3>1. CASE InsertRow(Head(buffer[w]))
      BY <1>1, <2>1, <3>1, InsertEvent
    <3>2. CASE rows' = rows
      BY <1>2, <3>2 DEF EInv, EventRows, RowsKept
    <3>. QED
      BY <1>5, <3>1, <3>2 DEF Ingest, IngestFails
  <2>3. \A v \in Worker : buffer'[v] \in Seq(Events')
    <3>1. CASE Ingest(w)
      BY <1>2, <3>1 DEF Ingest, EInv, HandedOver
    <3>2. CASE IngestFails(w)
      BY <1>1, <3>2, EmptySeq, BufferStep DEF IngestFails, End, IInv
    <3>. QED
      BY <1>5, <3>1, <3>2
  <2>. QED
    BY <1>2, <1>5, <2>2, <2>3 DEF Ingest, IngestFails, consumerVars, EInv, HandedOver
<1>6. CASE IngestRejected(w) \/ Crash(w)
  <2>1. \A v \in Worker : buffer'[v] \in Seq(Events')
    BY <1>1, <1>6, EmptySeq, BufferStep DEF IngestRejected, Crash, End, IInv
  <2>. QED
    BY <1>2, <1>6, <2>1 DEF IngestRejected, Crash, consumerVars, EInv, HandedOver, EventRows,
       RowsKept
<1>7. CASE Ack(w) \/ AckLost(w)
  <2>1. buffer[w] # <<>> /\ buffer' = [buffer EXCEPT ![w] = Tail(buffer[w])]
    BY <1>7 DEF Ack, AckLost, Done, IInv, PersistedBeforeAck
  <2>2. \A v \in Worker : buffer'[v] \in Seq(Events')
    BY <1>1, <2>1, HeadIsEvent, BufferStep DEF IInv
  <2>3. rows' = rows /\ next' = next
    BY <1>7 DEF Ack, AckLost, consumerVars
  <2>4. /\ outstanding' \cup lapsed' \cup acked' \subseteq
             outstanding \cup lapsed \cup acked \cup {Head(buffer[w])}
        /\ outstanding \cup lapsed \cup acked \subseteq outstanding' \cup lapsed' \cup acked'
    BY <1>7 DEF Ack, AckLost, consumerVars
  <2>. QED
    BY <1>2, <2>1, <2>2, <2>3, <2>4, HeadIsEvent DEF EInv, HandedOver, EventRows, RowsKept
<1>. QED
  BY <1>3, <1>4, <1>5, <1>6, <1>7 DEF WorkerStep

LEMMA EventStep ==
  ASSUME SInv, EInv, [SidecarNext]_allVars
  PROVE  EInv' /\ RowsKept
<1>0. IInv /\ TypeOK /\ \A h \in handlers : h.agent \in Agent
  BY DEF SInv, IInv, SidecarTypeOK
<1>1. ASSUME NEW a \in Agent, SaveEvent(a)
      PROVE  EInv' /\ RowsKept
  <2>. DEFINE m == [subject |-> "trace", agent |-> a, step |-> NoStep,
                    kind |-> "thought", valid |-> TRUE]
  <2>1. m \in Message /\ m.step = NoStep /\ m.kind = "thought"
    BY DEF Message
  <2>2. Publish(m)
    BY <1>1 DEF SaveEvent
  <2>. HIDE DEF m
  <2>. QED
    BY <1>0, <2>1, <2>2, OwnPublishStep
<1>2. ASSUME NEW a \in Agent, NEW x \in CheckpointStep, SaveCheckpoint(a, x)
      PROVE  EInv' /\ RowsKept
  <2>. DEFINE m == [subject |-> "checkpoint", agent |-> a, step |-> x,
                    kind |-> "thought", valid |-> TRUE]
  <2>1. m \in Message /\ m.subject # "trace"
    BY DEF Message
  <2>2. Publish(m)
    BY <1>2 DEF SaveCheckpoint
  <2>. HIDE DEF m
  <2>. QED
    BY <1>0, <2>1, <2>2, OwnPublishStep
<1>3. CASE UNCHANGED <<streamVars, consumerVars, workerVars, rows>>
  <2>1. UNCHANGED <<stream, next, outstanding, lapsed, acked, buffer, rows>>
    BY <1>3 DEF streamVars, consumerVars, workerVars
  <2>. QED
    BY <2>1, StreamKept DEF EInv, HandedOver, EventRows, RowsKept
<1>4. CASE Pass
  <2>1. /\ UNCHANGED <<stream, outstanding, lapsed, acked, buffer, rows>>
        /\ next' = next + 1 /\ next \in Int /\ next \notin Events
    BY <1>0, <1>4, LenProperties DEF Pass, streamVars, workerVars, Events, TypeOK
  <2>2. \A n \in Events : n \in Int
    BY LenProperties DEF Events, Seqs, SInv, IInv, TypeOK
  <2>3. \A n \in Events : n < next' => n < next
    BY <2>1, <2>2
  <2>. QED
    BY <2>1, <2>3, StreamKept DEF EInv, HandedOver, EventRows, RowsKept
<1>5. ASSUME NEW n \in outstanding, AckWait(n)
      PROVE  EInv' /\ RowsKept
  <2>1. /\ UNCHANGED <<stream, next, acked, buffer, rows>>
        /\ outstanding' \cup lapsed' = outstanding \cup lapsed
    BY <1>5 DEF AckWait, streamVars, workerVars
  <2>. QED
    BY <2>1, StreamKept DEF EInv, HandedOver, EventRows, RowsKept
<1>6. CASE \E w \in Worker : WorkerStep(w)
  BY <1>0, <1>6, WorkerEventStep
<1>7. ASSUME NEW h \in handlers, HandlerStep(h)
      PROVE  EInv' /\ RowsKept
  BY <1>0, <1>1, <1>2, <1>3, <1>7
  DEF HandlerStep, PublishEvent, PublishCheckpoint, ReadState, Answer, HandlerFails, Dropped,
      vars
<1>8. ASSUME NEW a \in Agent, NEW op \in Op, GiveUp(a) \/ Call(a, op)
      PROVE  EInv' /\ RowsKept
  BY <1>3, <1>8 DEF GiveUp, Call, vars
<1>9. CASE SidecarCrash \/ UNCHANGED allVars
  BY <1>3, <1>9 DEF SidecarCrash, allVars, vars
<1>. QED
  BY <1>4, <1>5, <1>6, <1>7, <1>8, <1>9 DEF SidecarNext, IngestionStep, Op

-----------------------------------------------------------------------------
(* What follows for a table of events, as long as their step_index fits.   *)

LEMMA AsI32Fits == \A x \in 0..(Half - 1) : AsI32(x) = x
<1>1. \A y \in Int, m \in Nat \ {0} : 0 <= y /\ y < m => y % m = y
  OBVIOUS
<1>. SUFFICES ASSUME NEW x \in 0..(Half - 1)
              PROVE  AsI32(x) = x
  OBVIOUS
<1>2. /\ x + Half \in Int /\ 0 <= x + Half /\ x + Half < 2 * Half
      /\ 2 * Half \in Nat \ {0}
  OBVIOUS
<1>3. (x + Half) % (2 * Half) = x + Half
  BY <1>1, <1>2
<1>. QED
  BY <1>3 DEF AsI32

LEMMA EventStepIndex ==
  ASSUME NoWrap, TypeOK, EInv, NEW n \in Events
  PROVE  n \in 1..(Half - 1) /\ StepIndex(n) = n
<1>1. n \in 0..(Half - 1) /\ n \in 1..(Half - 1)
  BY LenProperties DEF NoWrap, TypeOK, EInv, OwnMessages, Events, Seqs
<1>. QED
  BY <1>1, AsI32Fits DEF StepIndex, EInv, OwnMessages

LEMMA RowOfEvent ==
  ASSUME NoWrap, IInv, EInv, NEW i \in DOMAIN rows
  PROVE  /\ rows[i].src \in Events /\ rows[i].step = rows[i].src
         /\ rows[i].step \in 1..(Half - 1)
         /\ rows[i].agent = stream[rows[i].src].agent /\ rows[i].kind = "thought"
  BY EventStepIndex DEF IInv, RowsAreFromMessages, SameKey, Row, EInv, EventRows

LEMMA AckedEventHasRow ==
  ASSUME NoWrap, IInv, EInv, NEW n \in Events, n \in acked
  PROVE  \E i \in DOMAIN rows : rows[i].src = n
<1>1. PICK i \in DOMAIN rows : SameKey(rows[i], Row(n))
  BY DEF IInv, AckedIsPersisted
<1>2. rows[i].step = n
  BY <1>1, EventStepIndex DEF IInv, SameKey, Row
<1>. QED
  BY <1>2, RowOfEvent

LEMMA OwnRow ==
  ASSUME NoWrap, SInv, EInv
  PROVE  EventHasOwnRow
  BY AckedEventHasRow DEF SInv, EInv, HandedOver, EventHasOwnRow

LEMMA ResumedIsMax ==
  ASSUME NoWrap, IInv, EInv, NEW a
  PROVE  /\ Resumed(a) \in 0..(Half - 1) /\ ResumedStep(a) = Resumed(a)
         /\ \A k \in Thoughts(a) : rows[k].step <= Resumed(a)
         /\ \/ Resumed(a) = 0
            \/ \E k \in Thoughts(a) : rows[k].step = Resumed(a)
<1>1. CASE Thoughts(a) = {}
  BY <1>1 DEF Resumed, ResumedStep
<1>2. CASE Thoughts(a) # {}
  <2>1. PICK i \in Thoughts(a) : /\ Resumed(a) = rows[i].src
                                 /\ \A k \in Thoughts(a) : rows[k].step <= rows[i].step
    BY <1>2, ResumedRow DEF IInv
  <2>2. /\ rows[i].src \in Events /\ rows[i].step = rows[i].src
        /\ rows[i].step \in 1..(Half - 1)
    BY RowOfEvent DEF Thoughts
  <2>3. StepIndex(Resumed(a)) = Resumed(a)
    BY <2>1, <2>2, EventStepIndex DEF IInv
  <2>. QED
    BY <2>1, <2>2, <2>3 DEF ResumedStep
<1>. QED
  BY <1>1, <1>2

LEMMA LastEvent ==
  ASSUME NoWrap, SInv, EInv
  PROVE  ResumesLastEvent
<1>. SUFFICES ASSUME Quiescent, NEW a \in Agent, NEW n \in Seqs,
                     stream[n].subject = "trace", stream[n].agent = a
              PROVE  n <= Resumed(a)
  BY DEF ResumesLastEvent
<1>1. IInv /\ n \in Events /\ n < next
  BY LenProperties DEF SInv, IInv, TypeOK, Events, Filtered, Quiescent, Seqs
<1>2. n \in acked
  BY <1>1 DEF Quiescent, EInv, HandedOver
<1>3. PICK i \in DOMAIN rows : rows[i].src = n
  BY <1>1, <1>2, AckedEventHasRow
<1>4. i \in Thoughts(a) /\ rows[i].step = n
  BY <1>1, <1>3, RowOfEvent DEF Thoughts
<1>. QED
  BY <1>1, <1>4, ResumedIsMax

LEMMA ResumedGrows ==
  ASSUME NoWrap, IInv, EInv, IInv', EInv', RowsKept, NEW a,
         Resumed(a)' \in Int, \A k \in Thoughts(a)' : rows'[k].step <= Resumed(a)',
         0 <= Resumed(a)'
  PROVE  Resumed(a) <= Resumed(a)'
<1>1. CASE Resumed(a) = 0
  BY <1>1
<1>2. ASSUME NEW k \in Thoughts(a), rows[k].step = Resumed(a)
      PROVE  Resumed(a) <= Resumed(a)'
  <2>1. k \in Thoughts(a)' /\ rows'[k] = rows[k]
    BY DEF Thoughts, RowsKept
  <2>. QED
    BY <1>2, <2>1
<1>. QED
  BY <1>1, <1>2, ResumedIsMax

-----------------------------------------------------------------------------
(***************************************************************************)
(* What resume() returns.  A read that is finished and awaited is not      *)
(* older than what its agent was given before; it stays so, because only   *)
(* one request of the agent is awaited, and the table only grows.          *)
(***************************************************************************)
NotBehind(h) ==
  /\ h.step <= Resumed(h.agent)
  /\ Awaits(h) => given[h.agent] <= h.step

GInv ==
  /\ \A a \in Agent : given[a] <= Resumed(a)
  /\ \A h \in handlers : h.op = "resume" /\ h.done => NotBehind(h)

LEMMA ResumedBounds ==
  NoWrap /\ IInv /\ EInv =>
    \A a : /\ Resumed(a) \in Nat /\ ResumedStep(a) = Resumed(a)
           /\ \A k \in Thoughts(a) : rows[k].step <= Resumed(a)
<1>. SUFFICES ASSUME NoWrap, IInv, EInv, NEW a
              PROVE  /\ Resumed(a) \in Nat /\ ResumedStep(a) = Resumed(a)
                     /\ \A k \in Thoughts(a) : rows[k].step <= Resumed(a)
  OBVIOUS
<1>. QED
  BY ResumedIsMax

LEMMA TableGrows ==
  ASSUME NoWrap, IInv, EInv, IInv', EInv', RowsKept
  PROVE  \A a : Resumed(a) \in Nat /\ Resumed(a)' \in Nat /\ Resumed(a) <= Resumed(a)'
<1>1. NoWrap' /\ IInv' /\ EInv' =>
        (\A a : /\ Resumed(a) \in Nat /\ ResumedStep(a) = Resumed(a)
                /\ \A k \in Thoughts(a) : rows[k].step <= Resumed(a))'
  BY ResumedBounds, PTL
<1>2. NoWrap'
  BY DEF NoWrap
<1>. QED
  BY <1>1, <1>2, ResumedBounds, ResumedGrows

LEMMA GivenTypes ==
  ASSUME SInv
  PROVE  /\ given \in [Agent -> Int] /\ awaited \in [Agent -> 0..MaxOpen]
         /\ handlers \subseteq Request
         /\ \A h \in handlers : h.agent \in Agent /\ h.step \in Int /\ h.conn \in 1..MaxOpen
  BY DEF SInv, SidecarTypeOK, Request

\* A step that gives nothing, finishes no read and lets no other be awaited.
LEMMA NothingGiven ==
  ASSUME SInv, SInv', GInv, given' = given,
         \A a : Resumed(a) \in Nat /\ Resumed(a)' \in Nat /\ Resumed(a) <= Resumed(a)',
         \A h \in handlers' : h.op = "resume" /\ h.done => h \in handlers,
         \A h \in handlers : Awaits(h)' => Awaits(h)
  PROVE  GInv' /\ \A a \in Agent : given'[a] >= given[a]
<1>1. \A a \in Agent : given'[a] <= Resumed(a)' /\ given'[a] >= given[a]
  BY GivenTypes DEF GInv
<1>2. ASSUME NEW h \in handlers', h.op = "resume", h.done
      PROVE  NotBehind(h)'
  <2>1. h \in handlers /\ h.agent \in Agent /\ h.step \in Int
    BY <1>2, GivenTypes
  <2>2. NotBehind(h)
    BY <1>2, <2>1 DEF GInv
  <2>. QED
    BY <2>1, <2>2 DEF NotBehind
<1>. QED
  BY <1>1, <1>2 DEF GInv

LEMMA ReadGiven ==
  ASSUME SInv, SInv', GInv, NEW h \in handlers, ReadState(h),
         \A a : Resumed(a) \in Nat /\ Resumed(a)' \in Nat /\ Resumed(a) <= Resumed(a)',
         ResumedStep(h.agent) = Resumed(h.agent)
  PROVE  GInv' /\ \A a \in Agent : given'[a] >= given[a]
<1>0. PICK s : s = ResumedStep(h.agent)
  OBVIOUS
<1>. DEFINE g == [h EXCEPT !.done = TRUE, !.step = s]
<1>1. handlers' = (handlers \ {h}) \cup {g} /\ UNCHANGED <<awaited, given>>
  BY <1>0 DEF ReadState, Finished
<1>2. g.agent = h.agent /\ g.conn = h.conn /\ g.step = Resumed(h.agent)
  BY <1>0, GivenTypes DEF Request
<1>. HIDE DEF g
<1>3. \A a \in Agent : given'[a] <= Resumed(a)' /\ given'[a] >= given[a]
  BY <1>1, GivenTypes DEF GInv
<1>4. NotBehind(g)'
  BY <1>1, <1>2, GivenTypes DEF NotBehind, GInv
<1>5. ASSUME NEW k \in handlers, k.op = "resume", k.done
      PROVE  NotBehind(k)'
  <2>1. k.agent \in Agent /\ k.step \in Int
    BY GivenTypes
  <2>2. NotBehind(k)
    BY <1>5 DEF GInv
  <2>. QED
    BY <1>1, <2>1, <2>2 DEF NotBehind, Awaits
<1>. QED
  BY <1>1, <1>3, <1>4, <1>5 DEF GInv

LEMMA AnswerGiven ==
  ASSUME SInv, SInv', GInv, NEW h \in handlers, Answer(h),
         \A a : Resumed(a) \in Nat /\ Resumed(a)' \in Nat /\ Resumed(a) <= Resumed(a)'
  PROVE  GInv' /\ \A a \in Agent : given'[a] >= given[a]
<1>1. /\ handlers' = handlers \ {h}
      /\ awaited' = [awaited EXCEPT ![h.agent] = IF Awaits(h) THEN 0 ELSE @]
      /\ h.agent \in Agent /\ h.step \in Int
  BY GivenTypes DEF Answer, Returned
<1>2. \A k \in handlers : Awaits(k)' => Awaits(k) /\ (Awaits(h) => k.agent # h.agent)
  BY <1>1, GivenTypes DEF Awaits
<1>3. CASE h.op = "resume" /\ Awaits(h)
  <2>1. given' = [given EXCEPT ![h.agent] = h.step]
    BY <1>3 DEF Answer
  <2>2. h.step <= Resumed(h.agent) /\ given[h.agent] <= h.step
    BY <1>3 DEF Answer, GInv, NotBehind
  <2>3. \A a \in Agent : given'[a] <= Resumed(a)' /\ given'[a] >= given[a]
    BY <1>1, <2>1, <2>2, GivenTypes DEF GInv
  <2>4. ASSUME NEW k \in handlers', k.op = "resume", k.done
        PROVE  NotBehind(k)'
    <3>1. k \in handlers /\ k.agent \in Agent /\ k.step \in Int
      BY <1>1, <2>4, GivenTypes
    <3>2. NotBehind(k)
      BY <2>4, <3>1 DEF GInv
    <3>3. Awaits(k)' => given'[k.agent] = given[k.agent]
      BY <1>2, <1>3, <2>1, <3>1, GivenTypes
    <3>. QED
      BY <1>2, <3>1, <3>2, <3>3 DEF NotBehind
  <2>. QED
    BY <2>3, <2>4 DEF GInv
<1>4. CASE ~(h.op = "resume" /\ Awaits(h))
  <2>1. given' = given
    BY <1>4 DEF Answer
  <2>. QED
    BY <1>1, <1>2, <2>1, NothingGiven
<1>. QED
  BY <1>3, <1>4

LEMMA GivenStep ==
  ASSUME NoWrap, SInv, EInv, GInv, SInv', EInv', RowsKept, [SidecarNext]_allVars
  PROVE  GInv' /\ \A a \in Agent : given'[a] >= given[a]
<1>1. /\ \A a : Resumed(a) \in Nat /\ Resumed(a)' \in Nat /\ Resumed(a) <= Resumed(a)'
      /\ \A a : ResumedStep(a) = Resumed(a)
  BY TableGrows, ResumedBounds DEF SInv
<1>. DEFINE G == GInv' /\ \A a \in Agent : given'[a] >= given[a]
<1>2. ASSUME NEW a \in Agent, NEW op \in Op, Call(a, op)
      PROVE  G
  <2>1. PICK c \in 1..MaxOpen :
          /\ \A h \in handlers : h.agent = a => h.conn # c
          /\ awaited' = [awaited EXCEPT ![a] = c]
          /\ handlers' = handlers \cup
               {[agent |-> a, conn |-> c, op |-> op, done |-> FALSE, step |-> 0]}
    BY <1>2 DEF Call
  <2>2. \A h \in handlers' : h.done => h \in handlers
    BY <2>1
  <2>3. \A h \in handlers : Awaits(h)' => Awaits(h)
    BY <2>1, GivenTypes DEF Awaits
  <2>4. given' = given
    BY <1>2 DEF Call
  <2>. QED
    BY <1>1, <2>2, <2>3, <2>4, NothingGiven
<1>3. ASSUME NEW a \in Agent, GiveUp(a)
      PROVE  G
  <2>1. \A h \in handlers : Awaits(h)' => Awaits(h)
    BY <1>3, GivenTypes DEF GiveUp, Awaits
  <2>. QED
    BY <1>1, <1>3, <2>1, NothingGiven DEF GiveUp
<1>4. ASSUME NEW h \in handlers, PublishEvent(h) \/ PublishCheckpoint(h)
      PROVE  G
  <2>1. \E g : handlers' = (handlers \ {h}) \cup {g} /\ g.op # "resume"
    <3>1. h.op # "resume" /\ Finished(h, 0)
      BY <1>4 DEF PublishEvent, PublishCheckpoint
    <3>2. [h EXCEPT !.done = TRUE, !.step = 0].op = h.op
      BY GivenTypes DEF Request
    <3>. QED
      BY <3>1, <3>2 DEF Finished
  <2>2. UNCHANGED <<awaited, given>>
    BY <1>4 DEF PublishEvent, PublishCheckpoint
  <2>3. \A k \in handlers : Awaits(k)' => Awaits(k)
    BY <2>2 DEF Awaits
  <2>. QED
    BY <1>1, <2>1, <2>2, <2>3, NothingGiven
<1>5. ASSUME NEW h \in handlers, HandlerFails(h) \/ Dropped(h)
      PROVE  G
  <2>1. /\ handlers' = handlers \ {h} /\ given' = given
        /\ awaited' = awaited \/ Returned(h)
    BY <1>5 DEF HandlerFails, Dropped
  <2>2. \A k \in handlers : Awaits(k)' => Awaits(k)
    BY <2>1, GivenTypes DEF Returned, Awaits
  <2>. QED
    BY <1>1, <2>1, <2>2, NothingGiven
<1>6. CASE SidecarCrash
  <2>1. \A k \in handlers : ~Awaits(k)'
    BY <1>6, GivenTypes DEF SidecarCrash, Awaits
  <2>. QED
    BY <1>1, <1>6, <2>1, NothingGiven DEF SidecarCrash
<1>7. CASE UNCHANGED sidecarVars
  <2>1. UNCHANGED <<awaited, handlers, given>> /\ \A k \in handlers : Awaits(k)' => Awaits(k)
    BY <1>7 DEF sidecarVars, Awaits
  <2>. QED
    BY <1>1, <2>1, NothingGiven
<1>8. ASSUME NEW h \in handlers, HandlerStep(h)
      PROVE  G
  <2>. HIDE DEF G
  <2>1. ReadState(h) => G
    BY <1>1, ReadGiven DEF G
  <2>2. Answer(h) => G
    BY <1>1, AnswerGiven DEF G
  <2>. QED
    BY <1>4, <1>5, <1>8, <2>1, <2>2 DEF HandlerStep
<1>. HIDE DEF G
<1>9. G
  <2>1. CASE SidecarCrash \/ UNCHANGED sidecarVars
    BY <1>6, <1>7, <2>1 DEF G
  <2>. QED
    BY <1>2, <1>3, <1>8, <2>1 DEF SidecarNext, IngestionStep, allVars
<1>. QED
  BY <1>9 DEF G

-----------------------------------------------------------------------------
(* The theorems about events.                                              *)

AllInv == SInv /\ EInv /\ GInv

LEMMA InitAllInv == NoWrap /\ SidecarInit => AllInv
<1>. SUFFICES ASSUME NoWrap, SidecarInit
              PROVE  AllInv
  OBVIOUS
<1>1. SInv /\ EInv
  BY InitSInv, InitEInv
<1>2. \A a : Resumed(a) \in Nat
  BY <1>1, ResumedBounds DEF SInv
<1>. QED
  BY <1>1, <1>2 DEF AllInv, GInv, SidecarInit

LEMMA AllInvariance ==
  NoWrap /\ AllInv /\ [SidecarNext]_allVars =>
    AllInv' /\ \A a \in Agent : given'[a] >= given[a]
<1>. SUFFICES ASSUME NoWrap, AllInv, [SidecarNext]_allVars
              PROVE  AllInv' /\ \A a \in Agent : given'[a] >= given[a]
  OBVIOUS
<1>1. SInv' /\ EInv' /\ RowsKept
  BY SInvariance, EventStep DEF AllInv
<1>. QED
  BY <1>1, GivenStep DEF AllInv

LEMMA AllInvHolds ==
  ASSUME NoWrap
  PROVE  SidecarSpec => []AllInv /\ ResumeNeverBack
<1>1. SidecarInit => AllInv
  BY InitAllInv
<1>2. AllInv /\ [SidecarNext]_allVars => AllInv'
  BY AllInvariance
<1>3. AllInv /\ [SidecarNext]_allVars => [\A a \in Agent : given'[a] >= given[a]]_allVars
  BY AllInvariance
<1>. QED
  BY <1>1, <1>2, <1>3, PTL DEF SidecarSpec, ResumeNeverBack

\* As long as sequences fit the column, an acknowledged event of save_event has
\* a row of its own: no other event has its step_index (trace_ingest.rs:83).
THEOREM EventsDoNotCollide ==
  ASSUME NoWrap
  PROVE  SidecarSpec => []EventHasOwnRow
<1>1. AllInv => EventHasOwnRow
  BY OwnRow DEF AllInv
<1>. QED
  BY <1>1, AllInvHolds, PTL

\* With everything ingested resume_agent returns the last event of the agent,
\* in whatever order events were delivered, and however often.
THEOREM LastEventIsResumed ==
  ASSUME NoWrap
  PROVE  SidecarSpec => []ResumesLastEvent
<1>1. AllInv => ResumesLastEvent
  BY LastEvent DEF AllInv
<1>. QED
  BY <1>1, AllInvHolds, PTL

\* No agent gets an older step_index from resume() than it got before: an answer
\* that is late is not awaited, and the table only grows.
THEOREM ResumeGoesForward ==
  ASSUME NoWrap
  PROVE  SidecarSpec => ResumeNeverBack
<1>. QED
  BY AllInvHolds, PTL

=============================================================================
