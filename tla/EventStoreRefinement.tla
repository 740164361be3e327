------------------------- MODULE EventStoreRefinement -------------------------
(***************************************************************************)
(* EventStore implements DurableQueue: channel and batch of a writer are   *)
(* its lane, the stream is the log, and each step of the pipeline is a     *)
(* step of the queue or is invisible there.                                *)
(***************************************************************************)
EXTENDS EventStoreProofs

\* The lanes of the refinement mapping.
Held == [w \in Writer |-> batch[w] \o chan[w]]

(***************************************************************************)
(* The queue accepts a call once.  In the code this rests on a call being  *)
(* at one await: until its send completes it is in no channel, no batch    *)
(* and has no fate.                                                        *)
(***************************************************************************)
NotYetAccepted ==
  \A c \in Call : pc[c] # "accepted" =>
    fate[c] = "none" /\ \A w \in Writer : c \notin Range(batch[w] \o chan[w])

-----------------------------------------------------------------------------
(* The invariant.                                                          *)

LEMMA NotYetAcceptedInvariant ==
  TypeOK /\ NotYetAccepted /\ [Next]_vars => NotYetAccepted'
<1>. SUFFICES ASSUME TypeOK, NotYetAccepted, [Next]_vars,
                     NEW c \in Call, pc'[c] # "accepted"
              PROVE  /\ fate'[c] = "none"
                     /\ \A w \in Writer : c \notin Range(batch'[w] \o chan'[w])
  BY DEF NotYetAccepted
<1>1. ASSUME NEW d \in Call, CallStep(d)
      PROVE  /\ fate'[c] = "none"
             /\ \A w \in Writer : c \notin Range(batch'[w] \o chan'[w])
  <2>1. CASE Enqueue(d)
    <3>1. c # d /\ pc[c] # "accepted" /\ fate' = fate
      BY <2>1 DEF Enqueue, TypeOK
    <3>2. ASSUME NEW w \in Writer
          PROVE  c \notin Range(batch'[w] \o chan'[w])
      <4>. DEFINE s == batch[w] \o chan[w]
      <4>1. s \in Seq(Call)
        BY ConcatProperties DEF TypeOK
      <4>3. batch'[w] \o chan'[w] = IF w = cur THEN Append(s, d) ELSE s
        BY <2>1, EnqueueAppends
      <4>4. c \notin Range(s)
        BY <3>1 DEF NotYetAccepted
      <4>. HIDE DEF s
      <4>2. Range(Append(s, d)) = Range(s) \cup {d}
        BY <4>1, AppendRange
      <4>. QED
        BY <3>1, <4>2, <4>3, <4>4
    <3>. QED
      BY <3>1, <3>2 DEF NotYetAccepted
  <2>2. CASE Publish(d) \/ PublishFails(d) \/ EnqueueClosed(d) \/ Cancel(d)
    <3>1. pc[c] # "accepted" /\ fate' = fate /\ batch' = batch /\ chan' = chan
      BY <2>2
      DEF Publish, PublishFails, EnqueueClosed, Cancel, writerVars, historyVars, TypeOK
    <3>. QED
      BY <3>1 DEF NotYetAccepted
  <2>. QED
    BY <1>1, <2>1, <2>2 DEF CallStep
<1>2. ASSUME NEW w \in Writer, WriterStep(w)
      PROVE  /\ fate'[c] = "none"
             /\ \A v \in Writer : c \notin Range(batch'[v] \o chan'[v])
  <2>1. pc[c] # "accepted"
    BY <1>2, WriterOutcome
  <2>2. /\ fate[c] = "none"
        /\ \A v \in Writer : c \notin Range(batch[v] \o chan[v])
    BY <2>1 DEF NotYetAccepted
  <2>3. CASE /\ fate' = fate
             /\ \A v \in Writer : batch'[v] \o chan'[v] = batch[v] \o chan[v]
    BY <2>2, <2>3
  <2>4. ASSUME NEW f \in Fate, Settle(w, f), chan' = chan
        PROVE  /\ fate'[c] = "none"
               /\ \A v \in Writer : c \notin Range(batch'[v] \o chan'[v])
    <3>1. ASSUME NEW v \in Writer
          PROVE  Range(batch[v] \o chan[v]) = Range(batch[v]) \cup Range(chan[v])
      <4>1. batch[v] \in Seq(Call) /\ chan[v] \in Seq(Call)
        BY DEF TypeOK
      <4>. QED
        BY <4>1, RangeConcatenation
    <3>2. fate'[c] = "none"
      BY <2>2, <2>4, <3>1 DEF Settle
    <3>3. ASSUME NEW v \in Writer
          PROVE  c \notin Range(batch'[v] \o chan'[v])
      <4>1. batch'[v] \o chan'[v] = IF v = w THEN chan[v] ELSE batch[v] \o chan[v]
        BY <2>4, SettleLeaves
      <4>. QED
        BY <2>2, <3>1, <4>1
    <3>. QED
      BY <3>2, <3>3
  <2>5. {"stored", "dead", "lost"} \subseteq Fate
    BY DEF Fate
  <2>. QED
    BY <1>2, <2>3, <2>4, <2>5, WriterOutcome
<1>3. CASE WithDeadLetter \/ DropStore \/ DrainDeadLetter \/ CloseDeadLetter \/ UNCHANGED vars
  BY <1>3
  DEF WithDeadLetter, DropStore, DrainDeadLetter, CloseDeadLetter, vars,
      clientVars, writerVars, historyVars, NotYetAccepted
<1>4. CASE Crash
  <2>1. <<>> \o <<>> = <<>> /\ Range(<<>>) = {}
    BY ConcatEmptySeq, EmptySeq DEF Range
  <2>2. \A w \in Writer : c \notin Range(batch'[w] \o chan'[w])
    BY <1>4, <2>1 DEF Crash
  <2>3. pc[c] # "accepted"
    BY <1>4 DEF Crash
  <2>. QED
    BY <1>4, <2>2, <2>3 DEF Crash, NotYetAccepted
<1>5. ASSUME NEW w \in Writer, FirstPollPanics(w)
      PROVE  /\ fate'[c] = "none"
             /\ \A v \in Writer : c \notin Range(batch'[v] \o chan'[v])
  <2>1. Range(<<>>) = {}
    BY EmptySeq DEF Range
  <2>2. pc[c] # "accepted"
    BY <1>5, PanicOutcome
  <2>3. \A v \in Writer : c \notin Range(batch'[v] \o chan'[v])
    BY <1>5, <2>1, <2>2, PanicOutcome DEF NotYetAccepted
  <2>. QED
    BY <1>5, <2>2, <2>3 DEF FirstPollPanics, NotYetAccepted
<1>. QED
  BY <1>1, <1>2, <1>3, <1>4, <1>5 DEF Next

LEMMA NotYetAcceptedHolds == Spec => []NotYetAccepted
<1>1. Init => NotYetAccepted
  <2>1. <<>> \o <<>> = <<>> /\ Range(<<>>) = {}
    BY ConcatEmptySeq, EmptySeq DEF Range
  <2>. QED
    BY <2>1 DEF Init, NotYetAccepted
<1>. QED
  BY <1>1, NotYetAcceptedInvariant, TypeCorrect, PTL DEF Spec

\* Nobody drops or replaces a store that a call borrows (NoCallInFlight).
StoreIsBorrowed ==
  \A c \in Call : pc[c] = "enqueue" => cur # "none"

LEMMA StoreIsBorrowedHolds == Spec => []StoreIsBorrowed
<1>1. Init => StoreIsBorrowed
  BY DEF Init, StoreIsBorrowed
<1>2. TypeOK /\ StoreIsBorrowed /\ [Next]_vars => StoreIsBorrowed'
  <2>. SUFFICES ASSUME TypeOK, StoreIsBorrowed, [Next]_vars,
                       NEW c \in Call, pc'[c] = "enqueue"
                PROVE  cur' # "none"
    BY DEF StoreIsBorrowed
  <2>1. CASE \E d \in Call : CallStep(d)
    BY <2>1
    DEF CallStep, Publish, PublishFails, Enqueue, EnqueueClosed, Cancel, TypeOK, StoreIsBorrowed
  <2>2. CASE \E w \in Writer : WriterStep(w)
    BY <2>2, WriterOutcome DEF StoreIsBorrowed
  <2>3. CASE WithDeadLetter \/ DropStore \/ Crash
    BY <2>3 DEF WithDeadLetter, DropStore, Crash, NoCallInFlight
  <2>4. CASE DrainDeadLetter \/ CloseDeadLetter \/ UNCHANGED vars
    BY <2>4 DEF DrainDeadLetter, CloseDeadLetter, vars, clientVars, StoreIsBorrowed
  <2>5. CASE \E w \in Writer : FirstPollPanics(w)
    BY <2>5, PanicOutcome DEF StoreIsBorrowed
  <2>. QED
    BY <2>1, <2>2, <2>3, <2>4, <2>5 DEF Next
<1>. QED
  BY <1>1, <1>2, TypeCorrect, PTL DEF Spec

-----------------------------------------------------------------------------
(* The mapping of steps.                                                   *)

\* The queue's instance has its own name for the range of a function.
LEMMA QueueRange == \A s : Queue!Range(s) = Range(s)
  BY DEF Queue!Range, Range

\* The batch is the oldest part of a lane.
LEMMA SplitConcat ==
  ASSUME NEW S, NEW s \in Seq(S), NEW t \in Seq(S)
  PROVE  /\ SubSeq(s \o t, 1, Len(s)) = s
         /\ SubSeq(s \o t, Len(s) + 1, Len(s \o t)) = t
<1>1. /\ Len(s) \in Nat /\ Len(t) \in Nat /\ s \o t \in Seq(S)
      /\ Len(s \o t) = Len(s) + Len(t)
      /\ \A i \in 1..Len(s) : (s \o t)[i] = s[i] /\ s[i] \in S
      /\ \A i \in 1..Len(t) : (s \o t)[Len(s) + i] = t[i] /\ t[i] \in S
  BY ConcatProperties, LenProperties, ElementOfSeq
<1>2. \A i \in (Len(s) + 1)..Len(s \o t) : (s \o t)[i] \in S
  BY <1>1, LenProperties, ElementOfSeq
<1>3. SubSeq(s \o t, 1, Len(s)) = s
  <2>1. /\ SubSeq(s \o t, 1, Len(s)) \in Seq(S) /\ Len(SubSeq(s \o t, 1, Len(s))) = Len(s)
        /\ \A i \in 1..Len(s) : SubSeq(s \o t, 1, Len(s))[i] = s[i]
    BY <1>1, SubSeqProperties
  <2>. QED
    BY <2>1, SeqEqual
<1>4. SubSeq(s \o t, Len(s) + 1, Len(s \o t)) = t
  <2>. DEFINE u == SubSeq(s \o t, Len(s) + 1, Len(s \o t))
  <2>1. /\ u \in Seq(S) /\ Len(u) = Len(t)
        /\ \A i \in 1..Len(t) : u[i] = (s \o t)[Len(s) + 1 + i - 1]
    BY <1>1, <1>2, SubSeqProperties
  <2>2. \A i \in 1..Len(t) : u[i] = t[i]
    BY <1>1, <2>1
  <2>. QED
    BY <2>1, <2>2, SeqEqual
<1>. QED
  BY <1>3, <1>4

\* A flush that ends disposes of as many calls as the batch has.
LEMMA SettleRefines ==
  ASSUME TypeOK, NEW w \in Writer, NEW f \in {"stored", "dead", "lost"},
         Settle(w, f), chan' = chan, wal' = wal
  PROVE  [Queue!Next]_(Queue!vars)
<1>. DEFINE n == Len(batch[w])
<1>0. batch[w] \in Seq(Call) /\ chan[w] \in Seq(Call)
  BY DEF TypeOK
<1>1. /\ SubSeq(batch[w] \o chan[w], 1, n) = batch[w]
      /\ SubSeq(batch[w] \o chan[w], n + 1, Len(batch[w] \o chan[w])) = chan[w]
  BY <1>0, SplitConcat
<1>2. \A v \in Writer : batch'[v] \o chan'[v] = IF v = w THEN chan[v] ELSE batch[v] \o chan[v]
  BY SettleLeaves
<1>3. Held' = [Held EXCEPT ![w] = SubSeq(@, n + 1, Len(@))]
  BY <1>1, <1>2 DEF Held
<1>4. fate' = [c \in Call |-> IF c \in Range(SubSeq(Held[w], 1, n)) THEN f ELSE fate[c]]
  BY <1>1 DEF Held, Settle
<1>5. CASE batch[w] = <<>>
  <2>1. Range(batch[w]) = {}
    BY <1>5 DEF Range
  <2>2. fate' = fate
    BY <2>1 DEF Settle, TypeOK
  <2>3. \A v \in Writer : batch'[v] \o chan'[v] = batch[v] \o chan[v]
    BY <1>0, <1>2, <1>5, ConcatEmptySeq
  <2>. QED
    BY <2>2, <2>3 DEF Queue!vars
<1>6. CASE batch[w] # <<>>
  <2>1. n \in 1..Len(Held[w])
    <3>1. Len(batch[w] \o chan[w]) = n + Len(chan[w]) /\ n \in Nat /\ Len(chan[w]) \in Nat
      BY <1>0, ConcatProperties, LenProperties
    <3>2. n # 0
      BY <1>0, <1>6, EmptySeq
    <3>3. Held[w] = batch[w] \o chan[w]
      BY DEF Held
    <3>4. \A i, j \in Nat : i # 0 => i \in 1..(i + j)
      OBVIOUS
    <3>. QED
      BY <3>1, <3>2, <3>3, <3>4
  <2>2. Queue!Dispose(w, n, f)
    BY <1>3, <1>4, QueueRange DEF Queue!Dispose, Held
  <2>. QED
    BY <2>1, <2>2 DEF Queue!Next, Held
<1>. QED
  BY <1>5, <1>6

\* A writer that panics drops its lane.
LEMMA PanicRefines ==
  ASSUME TypeOK, NEW w \in Writer, FirstPollPanics(w)
  PROVE  [Queue!Next]_(Queue!vars)
<1>. DEFINE s == batch[w] \o chan[w]  n == Len(s)
<1>1. s \in Seq(Call) /\ n \in Nat
  BY ConcatProperties, LenProperties DEF TypeOK
<1>2. SubSeq(s, 1, n) = s /\ SubSeq(s, n + 1, n) = <<>>
  <2>1. s \o <<>> = s /\ <<>> \in Seq(Call)
    BY <1>1, ConcatEmptySeq, EmptySeq
  <2>. HIDE DEF s
  <2>. QED
    BY <1>1, <2>1, SplitConcat
<1>3. Held' = [Held EXCEPT ![w] = SubSeq(@, n + 1, Len(@))]
  BY <1>2, PanicOutcome DEF Held
<1>4. /\ wal' = wal
      /\ fate' = [c \in Call |-> IF c \in Range(SubSeq(Held[w], 1, n)) THEN "dropped" ELSE fate[c]]
  BY <1>2, PanicOutcome DEF Held, FirstPollPanics
<1>5. CASE s = <<>>
  <2>1. Range(s) = {}
    BY <1>5 DEF Range
  <2>2. fate' = fate
    BY <2>1 DEF FirstPollPanics, TypeOK
  <2>3. \A v \in Writer : batch'[v] \o chan'[v] = batch[v] \o chan[v]
    BY <1>5, PanicOutcome
  <2>. QED
    BY <1>4, <2>2, <2>3 DEF Queue!vars
<1>6. CASE s # <<>>
  <2>1. n \in 1..Len(Held[w])
    <3>1. n # 0
      BY <1>1, <1>6, EmptySeq
    <3>2. Held[w] = s
      BY DEF Held
    <3>3. \A i \in Nat : i # 0 => i \in 1..i
      OBVIOUS
    <3>. QED
      BY <1>1, <3>1, <3>2, <3>3
  <2>2. Queue!Dispose(w, n, "dropped")
    BY <1>3, <1>4, QueueRange DEF Queue!Dispose, Held
  <2>. QED
    BY <2>1, <2>2 DEF Queue!Next, Held
<1>. QED
  BY <1>5, <1>6

LEMMA StepRefines ==
  TypeOK /\ LoggedBeforeTable /\ NotYetAccepted /\ StoreIsBorrowed /\ [Next]_vars
    => [Queue!Next]_(Queue!vars)
<1>. SUFFICES ASSUME TypeOK, LoggedBeforeTable, NotYetAccepted, StoreIsBorrowed, [Next]_vars
              PROVE  [Queue!Next]_(Queue!vars)
  OBVIOUS
<1>0. ASSUME wal' = wal, fate' = fate,
             \A v \in Writer : batch'[v] \o chan'[v] = batch[v] \o chan[v]
      PROVE  [Queue!Next]_(Queue!vars)
  BY <1>0 DEF Queue!vars
<1>1. ASSUME NEW c \in Call, CallStep(c)
      PROVE  [Queue!Next]_(Queue!vars)
  <2>1. CASE Publish(c) \/ PublishFails(c)
    <3>1. /\ wal' = wal \/ wal' = wal \cup {c}
          /\ batch' = batch /\ chan' = chan /\ fate' = fate
      BY <2>1 DEF Publish, PublishFails, writerVars, historyVars
    <3>2. CASE wal' = wal \cup {c}
      <4>1. Queue!Log(c)
        BY <3>1, <3>2 DEF Queue!Log
      <4>. QED
        BY <4>1 DEF Queue!Next
    <3>. QED
      BY <1>0, <3>1, <3>2
  <2>2. CASE Enqueue(c)
    <3>0. cur \in Writer
      BY <2>2 DEF Enqueue, TypeOK, StoreIsBorrowed
    <3>1. PICK l \in Writer : l = cur
      BY <3>0
    <3>2. pc[c] = "enqueue" /\ wal' = wal /\ fate' = fate
      BY <2>2 DEF Enqueue
    <3>3. c \in wal /\ fate[c] = "none" /\ \A v \in Writer : c \notin Range(Held[v])
      BY <3>2 DEF LoggedBeforeTable, NotYetAccepted, Held
    <3>4. Held' = [Held EXCEPT ![l] = Append(@, c)]
      BY <2>2, <3>1, EnqueueAppends DEF Held
    <3>5. Queue!Accept(c, l)
      BY <3>2, <3>3, <3>4, QueueRange DEF Queue!Accept, Held
    <3>. QED
      BY <3>5 DEF Queue!Next
  <2>3. CASE EnqueueClosed(c) \/ Cancel(c)
    BY <1>0, <2>3 DEF EnqueueClosed, Cancel, writerVars, historyVars
  <2>. QED
    BY <1>1, <2>1, <2>2, <2>3 DEF CallStep
<1>2. ASSUME NEW w \in Writer, WriterStep(w)
      PROVE  [Queue!Next]_(Queue!vars)
  BY <1>0, <1>2, WriterOutcome, SettleRefines
<1>3. CASE WithDeadLetter \/ DropStore \/ DrainDeadLetter \/ CloseDeadLetter \/ UNCHANGED vars
  BY <1>0, <1>3
  DEF WithDeadLetter, DropStore, DrainDeadLetter, CloseDeadLetter, vars,
      clientVars, writerVars, historyVars
<1>4. CASE Crash
  <2>1. <<>> \o <<>> = <<>>
    BY ConcatEmptySeq, EmptySeq
  <2>2. Queue!Fail
    BY <1>4, <2>1, QueueRange DEF Crash, Queue!Fail
  <2>. QED
    BY <2>2 DEF Queue!Next
<1>5. ASSUME NEW w \in Writer, FirstPollPanics(w)
      PROVE  [Queue!Next]_(Queue!vars)
  BY <1>5, PanicRefines
<1>. QED
  BY <1>0, <1>1, <1>2, <1>3, <1>4, <1>5 DEF Next

\* The pipeline, with its channels, retries, dead letters, a second writer and
\* crashes, is a durable FIFO queue to its callers (SkialithStore).
THEOREM Refinement == Spec => ImplementsQueue
<1>1. Init => Queue!Init
  <2>1. <<>> \o <<>> = <<>>
    BY ConcatEmptySeq, EmptySeq
  <2>. QED
    BY <2>1 DEF Init, Queue!Init
<1>. QED
  BY <1>1, StepRefines, TypeCorrect, WriteAhead, NotYetAcceptedHolds, StoreIsBorrowedHolds, PTL
  DEF Spec, ImplementsQueue, Queue!Spec

-----------------------------------------------------------------------------
(* What holds of the queue holds of the pipeline.                          *)

QueueProofs == INSTANCE DurableQueueProofs WITH
                 Producer <- Call, Lane <- Writer, logged <- wal, fate <- fate,
                 pending <- [w \in Writer |-> batch[w] \o chan[w]]

\* No event is stored, dead-lettered or lost a second time: neither by the
\* other writer, nor by a retry, nor in a crash (flush_batch_with_retry).
THEOREM OneFate == Spec => FateIsFinal
<1>1. Queue!Init => QueueProofs!Init
  BY DEF Queue!Init, QueueProofs!Init
<1>2. [Queue!Next]_(Queue!vars) => [QueueProofs!Next]_(QueueProofs!vars)
  BY DEF Queue!Next, Queue!Log, Queue!Accept, Queue!Dispose, Queue!Fail, Queue!vars, Queue!Range,
     QueueProofs!Next, QueueProofs!Log, QueueProofs!Accept, QueueProofs!Dispose,
     QueueProofs!Fail, QueueProofs!vars, QueueProofs!Range
<1>3. [QueueProofs!FateIsKept]_(QueueProofs!vars)
        => [\A c \in Call : fate[c] # "none" => fate'[c] = fate[c]]_vars
  BY DEF QueueProofs!FateIsKept, QueueProofs!vars
<1>. QED
  BY <1>1, <1>2, <1>3, Refinement, QueueProofs!FateFinal, PTL
  DEF ImplementsQueue, Queue!Spec, QueueProofs!Spec, FateIsFinal

===============================================================================
