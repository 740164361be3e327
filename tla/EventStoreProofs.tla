--------------------------- MODULE EventStoreProofs ---------------------------
(***************************************************************************)
(* Theorems about EventStore, for every number of calls, every assignment  *)
(* of keys, every configuration and every bound on faults and crashes.     *)
(***************************************************************************)
EXTENDS EventStore, SequenceTheorems, TLAPS

USE EventStoreAssumption

-----------------------------------------------------------------------------
(* Sequences. *)

\* Moving the head of t to the end of s leaves s \o t as it is.
LEMMA PassHead ==
  ASSUME NEW S, NEW s \in Seq(S), NEW t \in Seq(S), t # <<>>
  PROVE  Append(s, Head(t)) \o Tail(t) = s \o t
<1>1. Append(s, Head(t)) = s \o <<Head(t)>>
  BY HeadTailProperties, AppendIsConcat
<1>2. <<Head(t)>> \in Seq(S) /\ Tail(t) \in Seq(S)
  BY HeadTailProperties
<1>3. <<Head(t)>> \o Tail(t) = t
  <2>1. Len(<<Head(t)>> \o Tail(t)) = Len(t)
    BY <1>2, HeadTailProperties, ConcatProperties
  <2>2. \A i \in 1..Len(t) : (<<Head(t)>> \o Tail(t))[i] = t[i]
    BY <1>2, HeadTailProperties, ConcatProperties, LenProperties
  <2>. QED
    BY <1>2, <2>1, <2>2, ConcatProperties, SeqEqual
<1>4. (s \o <<Head(t)>>) \o Tail(t) = s \o (<<Head(t)>> \o Tail(t))
  BY <1>2, ConcatAssociative
<1>. QED
  BY <1>1, <1>3, <1>4

\* Appending to the right part of a concatenation appends to the whole.
LEMMA AppendRight ==
  ASSUME NEW S, NEW s \in Seq(S), NEW t \in Seq(S), NEW e \in S
  PROVE  s \o Append(t, e) = Append(s \o t, e)
<1>1. Append(t, e) = t \o <<e>> /\ Append(s \o t, e) = (s \o t) \o <<e>>
  BY AppendIsConcat, ConcatProperties
<1>. QED
  BY <1>1, ConcatAssociative

-----------------------------------------------------------------------------
(* Types. *)

LEMMA InitTypeOK == Init => TypeOK
  BY DEF Init, TypeOK, TotalAttempts, Writer, Mode, Fate

\* What a flush that ends, and one that fails, leave has the right types.
LEMMA SettleTypes ==
  ASSUME TypeOK, NEW w \in Writer, NEW f \in Fate, Settle(w, f)
  PROVE  /\ batch' \in [Writer -> Seq(Call)] /\ mode' \in [Writer -> Mode]
         /\ settled' \in [Writer -> Seq(Call)] /\ fate' \in [Call -> Fate]
<1>1. settled[w] \o batch[w] \in Seq(Call)
  BY ConcatProperties DEF TypeOK
<1>. QED
  BY <1>1 DEF Settle, TypeOK, Mode

LEMMA AttemptFailedTypes ==
  ASSUME TypeOK, NEW w \in Writer, AttemptFailed(w)
  PROVE  /\ batch' \in [Writer -> Seq(Call)] /\ mode' \in [Writer -> Mode]
         /\ settled' \in [Writer -> Seq(Call)] /\ fate' \in [Call -> Fate]
         /\ attempt' \in [Writer -> 0..TotalAttempts]
<1>1. CASE attempt[w] < TotalAttempts
  <2>1. attempt[w] + 1 \in 0..TotalAttempts
    BY <1>1 DEF TypeOK, TotalAttempts
  <2>. QED
    BY <1>1, <2>1 DEF AttemptFailed, TypeOK
<1>2. CASE ~(attempt[w] < TotalAttempts) /\ w = "dead_letter"
  BY <1>2 DEF AttemptFailed, TypeOK, Mode
<1>3. CASE ~(attempt[w] < TotalAttempts) /\ w # "dead_letter"
  <2>1. Settle(w, "lost") /\ attempt' = attempt
    BY <1>3 DEF AttemptFailed
  <2>. QED
    BY <2>1, SettleTypes DEF Fate, TypeOK
<1>. QED
  BY <1>1, <1>2, <1>3

\* A flush that starts has the right types.
LEMMA StartFlushTypes ==
  ASSUME TypeOK, NEW w \in Writer, NEW final \in BOOLEAN, StartFlush(w, final)
  PROVE  /\ mode' \in [Writer -> Mode] /\ last' \in [Writer -> BOOLEAN]
         /\ attempt' \in [Writer -> 0..TotalAttempts]
<1>1. 1 \in 0..TotalAttempts
  BY DEF TotalAttempts
<1>. QED
  BY <1>1 DEF StartFlush, TypeOK, Mode

LEMMA TypeOKInvariant == TypeOK /\ [Next]_vars => TypeOK'
<1>. SUFFICES ASSUME TypeOK, [Next]_vars
              PROVE  TypeOK'
  OBVIOUS
<1>. USE DEF TypeOK
<1>1. ASSUME NEW c \in Call, CallStep(c)
      PROVE  TypeOK'
  <2>1. CASE Publish(c)
    BY <2>1 DEF Publish, writerVars, outsideVars, historyVars
  <2>2. CASE PublishFails(c)
    BY <2>2 DEF PublishFails, writerVars, outsideVars, historyVars
  <2>3. CASE Enqueue(c)
    <3>1. \A w \in Writer : /\ Append(chan[w], c) \in Seq(Call)
                            /\ Append(log[w], c) \in Seq(Call)
      BY <1>1, AppendProperties
    <3>. QED
      BY <2>3, <3>1 DEF Enqueue, outsideVars
  <2>4. CASE EnqueueClosed(c)
    BY <2>4 DEF EnqueueClosed, writerVars, outsideVars, historyVars
  <2>5. CASE Cancel(c)
    BY <2>5 DEF Cancel, writerVars, outsideVars, historyVars
  <2>. QED
    BY <1>1, <2>1, <2>2, <2>3, <2>4, <2>5 DEF CallStep
<1>2. ASSUME NEW w \in Writer, WriterStep(w)
      PROVE  TypeOK'
  <2>1. CASE Recv(w)
    <3>1. /\ Append(batch[w], Head(chan[w])) \in Seq(Call)
          /\ Tail(chan[w]) \in Seq(Call)
      BY <2>1, HeadTailProperties, AppendProperties DEF Recv
    <3>2. batch' \in [Writer -> Seq(Call)] /\ chan' \in [Writer -> Seq(Call)]
      BY <2>1, <3>1 DEF Recv
    <3>3. /\ mode' \in [Writer -> Mode] /\ last' \in [Writer -> BOOLEAN]
          /\ attempt' \in [Writer -> 0..TotalAttempts]
      BY <2>1, StartFlushTypes DEF Recv
    <3>. QED
      BY <2>1, <3>2, <3>3 DEF Recv, clientVars, outsideVars, historyVars
  <2>2. CASE RecvNone(w)
    <3>1. /\ mode' \in [Writer -> Mode] /\ last' \in [Writer -> BOOLEAN]
          /\ attempt' \in [Writer -> 0..TotalAttempts]
      <4>1. CASE batch[w] # <<>>
        BY <2>2, <4>1, StartFlushTypes DEF RecvNone
      <4>2. CASE batch[w] = <<>>
        BY <2>2, <4>2 DEF RecvNone, Mode
      <4>. QED
        BY <4>1, <4>2
    <3>. QED
      BY <2>2, <3>1 DEF RecvNone, clientVars, outsideVars, historyVars
  <2>3. CASE Tick(w)
    BY <2>3, StartFlushTypes DEF Tick, clientVars, outsideVars, historyVars
  <2>10. CASE FirstPoll(w)
    BY <2>10 DEF FirstPoll, clientVars, outsideVars, historyVars, Mode
  <2>4. CASE FlushOk(w)
    <3>1. rows \o batch[w] \in Seq(Call)
      BY ConcatProperties
    <3>. QED
      BY <2>4, <3>1, SettleTypes DEF FlushOk, clientVars, Fate
  <2>5. CASE FlushDuplicate(w)
    BY <2>5, AttemptFailedTypes DEF FlushDuplicate, clientVars, outsideVars
  <2>6. CASE FlushFault(w)
    BY <2>6, AttemptFailedTypes DEF FlushFault, clientVars
  <2>7. CASE FlushCommitLost(w)
    <3>1. rows \o batch[w] \in Seq(Call)
      BY ConcatProperties
    <3>2. rows' \in Seq(Call) /\ dbFaults' \in 0..MaxDbFaults
      BY <2>7, <3>1 DEF FlushCommitLost
    <3>3. /\ cfg' = cfg /\ clientVars' = clientVars /\ chan' = chan /\ last' = last
          /\ dlq' = dlq /\ dlOpen' = dlOpen /\ crashes' = crashes /\ log' = log
      BY <2>7 DEF FlushCommitLost
    <3>4. AttemptFailed(w)
      BY <2>7 DEF FlushCommitLost
    <3>. QED
      BY <1>2, <3>2, <3>3, <3>4, AttemptFailedTypes DEF clientVars
  <2>8. CASE DeadLetterSend(w)
    BY <2>8, SettleTypes DEF DeadLetterSend, clientVars, Fate
  <2>9. CASE DeadLetterClosed(w)
    BY <2>9, SettleTypes DEF DeadLetterClosed, clientVars, outsideVars, Fate
  <2>. QED
    BY <1>2, <2>1, <2>2, <2>3, <2>4, <2>5, <2>6, <2>7, <2>8, <2>9, <2>10 DEF WriterStep
<1>3. CASE WithDeadLetter
  BY <1>3 DEF WithDeadLetter, outsideVars, historyVars, Writer, Mode
<1>4. CASE DropStore
  BY <1>4 DEF DropStore, writerVars, outsideVars, historyVars
<1>5. CASE DrainDeadLetter
  BY <1>5 DEF DrainDeadLetter, clientVars, writerVars, historyVars
<1>6. CASE CloseDeadLetter
  <2>1. dlq' \in 0..DeadLetterCapacity
    BY <1>6 DEF CloseDeadLetter
  <2>2. dlOpen' \in BOOLEAN
    BY <1>6, Zenon DEF CloseDeadLetter
  <2>. QED
    BY <1>6, <2>1, <2>2 DEF CloseDeadLetter, clientVars, writerVars, historyVars
<1>7. CASE Crash
  <2>1. \A w \in Writer : settled[w] \o (batch[w] \o chan[w]) \in Seq(Call)
    BY ConcatProperties
  <2>2. settled' \in [Writer -> Seq(Call)]
    BY <1>7, <2>1 DEF Crash
  <2>3. /\ chan' \in [Writer -> Seq(Call)] /\ batch' \in [Writer -> Seq(Call)]
        /\ last' \in [Writer -> BOOLEAN] /\ attempt' \in [Writer -> 0..TotalAttempts]
    BY <1>7 DEF Crash, TotalAttempts
  <2>4. mode' \in [Writer -> Mode]
    BY <1>7 DEF Crash, Mode
  <2>5. fate' \in [Call -> Fate]
    BY <1>7 DEF Crash, Fate
  <2>6. /\ pc' \in [Call -> {"idle", "enqueue", "accepted", "failed", "cancelled"}]
        /\ cur' \in Writer \cup {"none"} /\ dlq' \in 0..DeadLetterCapacity
        /\ dlOpen' \in BOOLEAN /\ crashes' \in 0..MaxCrashes
    BY <1>7 DEF Crash, Writer
  <2>7. cfg' = cfg /\ wal' = wal /\ rows' = rows /\ dbFaults' = dbFaults /\ log' = log
    BY <1>7 DEF Crash
  <2>. QED
    BY <2>2, <2>3, <2>4, <2>5, <2>6, <2>7
<1>8. CASE UNCHANGED vars
  BY <1>8 DEF vars, clientVars, writerVars, outsideVars, historyVars
<1>9. ASSUME NEW w \in Writer, FirstPollPanics(w)
      PROVE  TypeOK'
  <2>1. settled[w] \o (batch[w] \o chan[w]) \in Seq(Call)
    BY ConcatProperties
  <2>2. /\ settled' \in [Writer -> Seq(Call)] /\ chan' \in [Writer -> Seq(Call)]
        /\ batch' \in [Writer -> Seq(Call)]
    BY <1>9, <2>1 DEF FirstPollPanics
  <2>3. mode' \in [Writer -> Mode] /\ fate' \in [Call -> Fate]
    BY <1>9 DEF FirstPollPanics, Mode, Fate
  <2>. QED
    BY <1>9, <2>2, <2>3 DEF FirstPollPanics, clientVars, outsideVars
<1>. QED
  BY <1>1, <1>2, <1>3, <1>4, <1>5, <1>6, <1>7, <1>8, <1>9 DEF Next

\* Every variable keeps its type, the counters their bounds: no attempt beyond
\* the last, no batch in the dead-letter channel beyond its capacity.
THEOREM TypeCorrect == Spec => []TypeOK
<1>. QED
  BY InitTypeOK, TypeOKInvariant, PTL DEF Spec

-----------------------------------------------------------------------------
(* Conservation. *)

\* Settling moves the batch from the front of the pending events to the end
\* of the settled ones.
LEMMA SettleConserves ==
  ASSUME TypeOK, NoEventVanishes, NEW w \in Writer, NEW f, Settle(w, f),
         chan' = chan, log' = log
  PROVE  NoEventVanishes'
<1>. SUFFICES ASSUME NEW v \in Writer
              PROVE  log'[v] = settled'[v] \o (batch'[v] \o chan'[v])
  BY DEF NoEventVanishes, Pending
<1>0. settled[v] \in Seq(Call) /\ batch[v] \in Seq(Call) /\ chan[v] \in Seq(Call)
  BY DEF TypeOK
<1>1. log[v] = settled[v] \o (batch[v] \o chan[v])
  BY DEF NoEventVanishes, Pending
<1>2. CASE v # w
  BY <1>1, <1>2 DEF Settle, TypeOK
<1>3. CASE v = w
  <2>1. settled'[v] = settled[v] \o batch[v] /\ batch'[v] = <<>>
    BY <1>3 DEF Settle, TypeOK
  <2>2. <<>> \o chan[v] = chan[v]
    BY <1>0, ConcatEmptySeq
  <2>3. ASSUME NEW p \in Seq(Call), NEW q \in Seq(Call), NEW r \in Seq(Call)
        PROVE  (p \o q) \o r = p \o (q \o r)
    BY ConcatAssociative
  <2>4. settled'[v] \o (batch'[v] \o chan'[v]) = (settled[v] \o batch[v]) \o chan[v]
    BY <2>1, <2>2
  <2>. QED
    BY <1>0, <1>1, <2>3, <2>4
<1>. QED
  BY <1>2, <1>3

LEMMA AttemptFailedConserves ==
  ASSUME TypeOK, NoEventVanishes, NEW w \in Writer, AttemptFailed(w),
         chan' = chan, log' = log
  PROVE  NoEventVanishes'
<1>1. CASE Settle(w, "lost")
  BY <1>1, SettleConserves
<1>2. CASE batch' = batch /\ settled' = settled
  BY <1>2 DEF NoEventVanishes, Pending
<1>. QED
  BY <1>1, <1>2 DEF AttemptFailed

LEMMA ConservationInvariant ==
  TypeOK /\ NoEventVanishes /\ [Next]_vars => NoEventVanishes'
<1>. SUFFICES ASSUME TypeOK, NoEventVanishes, [Next]_vars
              PROVE  NoEventVanishes'
  OBVIOUS
<1>0. ASSUME chan' = chan, batch' = batch, log' = log, settled' = settled
      PROVE  NoEventVanishes'
  BY <1>0 DEF NoEventVanishes, Pending
<1>1. ASSUME NEW c \in Call, Enqueue(c)
      PROVE  NoEventVanishes'
  <2>. SUFFICES ASSUME NEW v \in Writer
                PROVE  log'[v] = settled'[v] \o (batch'[v] \o chan'[v])
    BY DEF NoEventVanishes, Pending
  <2>1. log[v] = settled[v] \o (batch[v] \o chan[v])
    BY DEF NoEventVanishes, Pending
  <2>2. CASE v # cur
    BY <1>1, <2>1, <2>2 DEF Enqueue, TypeOK
  <2>3. CASE v = cur
    <3>1. /\ log'[v] = Append(log[v], c) /\ chan'[v] = Append(chan[v], c)
          /\ settled'[v] = settled[v] /\ batch'[v] = batch[v]
      BY <1>1, <2>3 DEF Enqueue, TypeOK
    <3>2. batch[v] \in Seq(Call) /\ chan[v] \in Seq(Call) /\ settled[v] \in Seq(Call)
      BY DEF TypeOK
    <3>3. ASSUME NEW s \in Seq(Call), NEW t \in Seq(Call)
          PROVE  s \o t \in Seq(Call) /\ s \o Append(t, c) = Append(s \o t, c)
      BY AppendRight, ConcatProperties
    <3>4. /\ batch[v] \o chan[v] \in Seq(Call)
          /\ batch[v] \o Append(chan[v], c) = Append(batch[v] \o chan[v], c)
      BY <3>2, <3>3
    <3>5. settled[v] \o Append(batch[v] \o chan[v], c)
            = Append(settled[v] \o (batch[v] \o chan[v]), c)
      BY <3>2, <3>3, <3>4
    <3>. QED
      BY <2>1, <3>1, <3>4, <3>5
  <2>. QED
    BY <2>2, <2>3
<1>2. ASSUME NEW w \in Writer, Recv(w)
      PROVE  NoEventVanishes'
  <2>. SUFFICES ASSUME NEW v \in Writer
                PROVE  log'[v] = settled'[v] \o (batch'[v] \o chan'[v])
    BY DEF NoEventVanishes, Pending
  <2>1. log'[v] = settled'[v] \o (batch[v] \o chan[v])
    BY <1>2 DEF NoEventVanishes, Pending, Recv, historyVars
  <2>2. CASE v # w
    BY <1>2, <2>1, <2>2 DEF Recv, TypeOK
  <2>3. CASE v = w
    <3>1. /\ batch'[v] = Append(batch[v], Head(chan[v]))
          /\ chan'[v] = Tail(chan[v]) /\ chan[v] # <<>>
      BY <1>2, <2>3 DEF Recv, TypeOK
    <3>2. batch[v] \in Seq(Call) /\ chan[v] \in Seq(Call)
      BY DEF TypeOK
    <3>. Append(batch[v], Head(chan[v])) \o Tail(chan[v]) = batch[v] \o chan[v]
      BY <3>1, <3>2, PassHead
    <3>3. batch'[v] \o chan'[v] = batch[v] \o chan[v]
      BY <3>1
    <3>. QED
      BY <2>1, <3>3
  <2>. QED
    BY <2>2, <2>3
<1>3. CASE Crash
  <2>. SUFFICES ASSUME NEW v \in Writer
                PROVE  log'[v] = settled'[v] \o (batch'[v] \o chan'[v])
    BY DEF NoEventVanishes, Pending
  <2>1. /\ log'[v] = log[v] /\ settled'[v] = settled[v] \o (batch[v] \o chan[v])
        /\ batch'[v] = <<>> /\ chan'[v] = <<>>
    BY <1>3 DEF Crash
  <2>2. settled[v] \o (batch[v] \o chan[v]) \in Seq(Call)
    BY ConcatProperties DEF TypeOK
  <2>3. <<>> \o <<>> = <<>> /\ settled'[v] \o <<>> = settled'[v]
    BY <2>1, <2>2, ConcatEmptySeq, EmptySeq
  <2>. QED
    BY <2>1, <2>3 DEF NoEventVanishes, Pending
<1>4. ASSUME NEW c \in Call, CallStep(c)
      PROVE  NoEventVanishes'
  <2>1. CASE Enqueue(c)
    BY <1>1, <2>1
  <2>2. CASE Publish(c) \/ PublishFails(c) \/ EnqueueClosed(c) \/ Cancel(c)
    BY <1>0, <2>2
    DEF Publish, PublishFails, EnqueueClosed, Cancel, writerVars, historyVars
  <2>. QED
    BY <1>4, <2>1, <2>2 DEF CallStep
<1>5. ASSUME NEW w \in Writer, WriterStep(w)
      PROVE  NoEventVanishes'
  <2>1. CASE Recv(w)
    BY <1>2, <2>1
  <2>2. CASE FirstPoll(w) \/ RecvNone(w) \/ Tick(w)
    BY <1>0, <2>2 DEF FirstPoll, RecvNone, Tick, historyVars
  <2>3. CASE FlushOk(w)
    BY <2>3, SettleConserves DEF FlushOk
  <2>4. CASE FlushDuplicate(w) \/ FlushFault(w) \/ FlushCommitLost(w)
    BY <2>4, AttemptFailedConserves DEF FlushDuplicate, FlushFault, FlushCommitLost
  <2>5. CASE DeadLetterSend(w) \/ DeadLetterClosed(w)
    BY <2>5, SettleConserves DEF DeadLetterSend, DeadLetterClosed
  <2>. QED
    BY <1>5, <2>1, <2>2, <2>3, <2>4, <2>5 DEF WriterStep
<1>6. CASE WithDeadLetter \/ DropStore \/ DrainDeadLetter \/ CloseDeadLetter
  BY <1>0, <1>6
  DEF WithDeadLetter, DropStore, DrainDeadLetter, CloseDeadLetter, writerVars, historyVars
<1>7. CASE UNCHANGED vars
  BY <1>0, <1>7 DEF vars, writerVars, historyVars
<1>8. ASSUME NEW w \in Writer, FirstPollPanics(w)
      PROVE  NoEventVanishes'
  <2>. SUFFICES ASSUME NEW v \in Writer
                PROVE  log'[v] = settled'[v] \o (batch'[v] \o chan'[v])
    BY DEF NoEventVanishes, Pending
  <2>0. log'[v] = settled[v] \o (batch[v] \o chan[v])
    BY <1>8 DEF NoEventVanishes, Pending, FirstPollPanics
  <2>1. CASE v # w
    BY <1>8, <2>0, <2>1 DEF FirstPollPanics, TypeOK
  <2>2. CASE v = w
    <3>1. /\ settled'[v] = settled[v] \o (batch[v] \o chan[v])
          /\ batch'[v] = <<>> /\ chan'[v] = <<>>
      BY <1>8, <2>2 DEF FirstPollPanics, TypeOK
    <3>2. settled[v] \o (batch[v] \o chan[v]) \in Seq(Call)
      BY ConcatProperties DEF TypeOK
    <3>3. <<>> \o <<>> = <<>> /\ settled'[v] \o <<>> = settled'[v]
      BY <3>1, <3>2, ConcatEmptySeq, EmptySeq
    <3>. QED
      BY <2>0, <3>1, <3>3
  <2>. QED
    BY <2>1, <2>2
<1>. QED
  BY <1>3, <1>4, <1>5, <1>6, <1>7, <1>8 DEF Next

\* No accepted event is dropped, duplicated or reordered between the channel
\* and its disposal, whatever the batch limits, faults, crashes and switches.
THEOREM Conservation == Spec => []NoEventVanishes
<1>1. Init => NoEventVanishes
  <2>. SUFFICES ASSUME Init, NEW w \in Writer
                PROVE  log[w] = settled[w] \o (batch[w] \o chan[w])
    BY DEF NoEventVanishes, Pending
  <2>1. <<>> \o (<<>> \o <<>>) = <<>>
    BY ConcatEmptySeq, EmptySeq
  <2>. QED
    BY <2>1 DEF Init
<1>. QED
  BY <1>1, ConservationInvariant, TypeCorrect, PTL DEF Spec

-----------------------------------------------------------------------------
(* The log is ahead of the table.                                          *)

\* Whatever a writer does, the calls it holds change hands or are settled: it
\* receives, flushes or parks, or it ends a flush.
LEMMA WriterOutcome ==
  ASSUME TypeOK, NEW w \in Writer, WriterStep(w)
  PROVE  /\ pc' = pc /\ wal' = wal /\ cur' = cur /\ log' = log
         /\ rows' = rows \/ rows' = rows \o batch[w]
         /\ \/ /\ fate' = fate /\ settled' = settled
               /\ \A v \in Writer : batch'[v] \o chan'[v] = batch[v] \o chan[v]
            \/ \E f \in {"stored", "dead", "lost"} : Settle(w, f) /\ chan' = chan
<1>1. CASE Recv(w)
  <2>. SUFFICES ASSUME NEW v \in Writer
                PROVE  batch'[v] \o chan'[v] = batch[v] \o chan[v]
    BY <1>1 DEF Recv, clientVars, outsideVars, historyVars
  <2>1. CASE v # w
    BY <1>1, <2>1 DEF Recv, TypeOK
  <2>2. CASE v = w
    <3>1. /\ batch'[v] = Append(batch[v], Head(chan[v]))
          /\ chan'[v] = Tail(chan[v]) /\ chan[v] # <<>>
      BY <1>1, <2>2 DEF Recv, TypeOK
    <3>2. batch[v] \in Seq(Call) /\ chan[v] \in Seq(Call)
      BY DEF TypeOK
    <3>. QED
      BY <3>1, <3>2, PassHead
  <2>. QED
    BY <2>1, <2>2
<1>2. CASE FirstPoll(w) \/ RecvNone(w) \/ Tick(w)
  BY <1>2 DEF FirstPoll, RecvNone, Tick, clientVars, outsideVars, historyVars
<1>3. CASE FlushOk(w) \/ DeadLetterSend(w) \/ DeadLetterClosed(w)
  BY <1>3 DEF FlushOk, DeadLetterSend, DeadLetterClosed, clientVars, outsideVars
<1>4. CASE FlushDuplicate(w) \/ FlushFault(w) \/ FlushCommitLost(w)
  <2>1. /\ pc' = pc /\ wal' = wal /\ cur' = cur /\ log' = log /\ chan' = chan
        /\ rows' = rows \/ rows' = rows \o batch[w]
        /\ AttemptFailed(w)
    BY <1>4 DEF FlushDuplicate, FlushFault, FlushCommitLost, clientVars, outsideVars
  <2>2. Settle(w, "lost") \/ (batch' = batch /\ settled' = settled /\ fate' = fate)
    BY <2>1 DEF AttemptFailed
  <2>. QED
    BY <2>1, <2>2
<1>. QED
  BY <1>1, <1>2, <1>3, <1>4 DEF WriterStep

\* A writer that panics drops what it has, and touches nothing else.
LEMMA PanicOutcome ==
  ASSUME TypeOK, NEW w \in Writer, FirstPollPanics(w)
  PROVE  /\ pc' = pc /\ wal' = wal /\ cur' = cur /\ log' = log /\ cfg' = cfg
         /\ rows' = rows /\ dbFaults' = dbFaults /\ attempt' = attempt /\ last' = last
         /\ \A v \in Writer :
              /\ mode'[v] = IF v = w THEN "exited" ELSE mode[v]
              /\ batch'[v] = IF v = w THEN <<>> ELSE batch[v]
              /\ chan'[v] = IF v = w THEN <<>> ELSE chan[v]
              /\ batch'[v] \o chan'[v] = IF v = w THEN <<>> ELSE batch[v] \o chan[v]
<1>1. <<>> \o <<>> = <<>>
  BY ConcatEmptySeq, EmptySeq
<1>. QED
  BY <1>1 DEF FirstPollPanics, clientVars, outsideVars, TypeOK

PendingLogged ==
  \A w \in Writer : Range(Pending(w)) \subseteq wal

LoggedInv ==
  /\ \A c \in Call : pc[c] \in {"enqueue", "accepted"} => c \in wal
  /\ Range(rows) \subseteq wal
  /\ PendingLogged

LEMMA AppendRange ==
  ASSUME NEW S, NEW s \in Seq(S), NEW e \in S
  PROVE  Range(Append(s, e)) = Range(s) \cup {e}
  BY AppendProperties, LenProperties DEF Range

\* What Enqueue does to the calls that are pending.
LEMMA EnqueueAppends ==
  ASSUME TypeOK, NEW c \in Call, Enqueue(c), NEW v \in Writer
  PROVE  batch'[v] \o chan'[v] = IF v = cur THEN Append(batch[v] \o chan[v], c)
                                 ELSE batch[v] \o chan[v]
<1>1. CASE v # cur
  BY <1>1 DEF Enqueue, TypeOK
<1>2. CASE v = cur
  <2>1. chan'[v] = Append(chan[v], c) /\ batch'[v] = batch[v]
    BY <1>2 DEF Enqueue, TypeOK
  <2>2. batch[v] \in Seq(Call) /\ chan[v] \in Seq(Call)
    BY DEF TypeOK
  <2>3. \A s, t \in Seq(Call) : s \o Append(t, c) = Append(s \o t, c)
    BY AppendRight
  <2>. QED
    BY <1>2, <2>1, <2>2, <2>3
<1>. QED
  BY <1>1, <1>2

\* What Settle leaves pending.
LEMMA SettleLeaves ==
  ASSUME TypeOK, NEW w \in Writer, NEW f, Settle(w, f), chan' = chan, NEW v \in Writer
  PROVE  batch'[v] \o chan'[v] = IF v = w THEN chan[v] ELSE batch[v] \o chan[v]
<1>1. batch'[v] = IF v = w THEN <<>> ELSE batch[v]
  BY DEF Settle, TypeOK
<1>. QED
  BY <1>1, ConcatEmptySeq DEF TypeOK

LEMMA LoggedInvariant == TypeOK /\ LoggedInv /\ [Next]_vars => LoggedInv'
<1>. SUFFICES ASSUME TypeOK, LoggedInv, [Next]_vars
              PROVE  LoggedInv'
  OBVIOUS
<1>1. ASSUME NEW c \in Call, CallStep(c)
      PROVE  LoggedInv'
  <2>1. CASE Enqueue(c)
    <3>1. c \in wal /\ wal' = wal /\ rows' = rows
      BY <2>1 DEF Enqueue, LoggedInv, outsideVars
    <3>2. \A d \in Call : pc'[d] \in {"enqueue", "accepted"} => d \in wal
      BY <2>1, <3>1 DEF Enqueue, LoggedInv, TypeOK
    <3>3. ASSUME NEW v \in Writer
          PROVE  Range(batch'[v] \o chan'[v]) \subseteq wal
      <4>. DEFINE s == batch[v] \o chan[v]
      <4>1. s \in Seq(Call)
        BY ConcatProperties DEF TypeOK
      <4>2. Range(s) \subseteq wal
        BY DEF LoggedInv, PendingLogged, Pending
      <4>3. batch'[v] \o chan'[v] = IF v = cur THEN Append(s, c) ELSE s
        BY <2>1, EnqueueAppends
      <4>. HIDE DEF s
      <4>4. Range(Append(s, c)) = Range(s) \cup {c}
        BY <4>1, AppendRange
      <4>. QED
        BY <3>1, <4>2, <4>3, <4>4
    <3>. QED
      BY <3>1, <3>2, <3>3 DEF LoggedInv, PendingLogged, Pending
  <2>2. CASE Publish(c) \/ PublishFails(c) \/ EnqueueClosed(c) \/ Cancel(c)
    <3>1. /\ wal \subseteq wal' /\ rows' = rows /\ chan' = chan /\ batch' = batch
          /\ \A d \in Call : pc'[d] \in {"enqueue", "accepted"} =>
               d \in wal' \/ pc'[d] = pc[d]
      BY <2>2
      DEF Publish, PublishFails, EnqueueClosed, Cancel, writerVars, outsideVars, TypeOK
    <3>. QED
      BY <3>1 DEF LoggedInv, PendingLogged, Pending
  <2>. QED
    BY <1>1, <2>1, <2>2 DEF CallStep
<1>2. ASSUME NEW w \in Writer, WriterStep(w)
      PROVE  LoggedInv'
  <2>1. pc' = pc /\ wal' = wal /\ (rows' = rows \/ rows' = rows \o batch[w])
    BY <1>2, WriterOutcome
  <2>2. ASSUME NEW v \in Writer
        PROVE  /\ Range(batch[v] \o chan[v]) = Range(batch[v]) \cup Range(chan[v])
               /\ Range(batch[v] \o chan[v]) \subseteq wal
    BY RangeConcatenation DEF TypeOK, LoggedInv, PendingLogged, Pending
  <2>3. Range(rows') \subseteq wal
    <3>1. rows \in Seq(Call) /\ batch[w] \in Seq(Call)
      BY DEF TypeOK
    <3>2. Range(rows \o batch[w]) = Range(rows) \cup Range(batch[w])
      BY <3>1, RangeConcatenation
    <3>. QED
      BY <2>1, <2>2, <3>2 DEF LoggedInv
  <2>4. ASSUME NEW v \in Writer
        PROVE  Range(batch'[v] \o chan'[v]) \subseteq wal
    <3>1. CASE batch'[v] \o chan'[v] = batch[v] \o chan[v]
      BY <2>2, <3>1
    <3>2. ASSUME NEW f, Settle(w, f), chan' = chan
          PROVE  Range(batch'[v] \o chan'[v]) \subseteq wal
      <4>1. batch'[v] \o chan'[v] = IF v = w THEN chan[v] ELSE batch[v] \o chan[v]
        BY <3>2, SettleLeaves
      <4>. QED
        BY <2>2, <4>1
    <3>. QED
      BY <1>2, <3>1, <3>2, WriterOutcome
  <2>. QED
    BY <2>1, <2>3, <2>4 DEF LoggedInv, PendingLogged, Pending
<1>3. CASE WithDeadLetter \/ DropStore \/ DrainDeadLetter \/ CloseDeadLetter
  BY <1>3 DEF WithDeadLetter, DropStore, DrainDeadLetter, CloseDeadLetter,
     clientVars, writerVars, outsideVars, LoggedInv, PendingLogged, Pending
<1>4. CASE Crash
  <2>1. \A v \in Writer : Range(batch'[v] \o chan'[v]) = {}
    <3>1. Range(<<>>) = {} /\ <<>> \o <<>> = <<>>
      BY ConcatEmptySeq, EmptySeq DEF Range
    <3>. QED
      BY <1>4, <3>1 DEF Crash
  <2>. QED
    BY <1>4, <2>1 DEF Crash, TypeOK, LoggedInv, PendingLogged, Pending
<1>5. CASE UNCHANGED vars
  BY <1>5 DEF vars, clientVars, writerVars, outsideVars, LoggedInv, PendingLogged, Pending
<1>6. ASSUME NEW w \in Writer, FirstPollPanics(w)
      PROVE  LoggedInv'
  <2>1. Range(<<>>) = {}
    BY EmptySeq DEF Range
  <2>. QED
    BY <1>6, <2>1, PanicOutcome DEF LoggedInv, PendingLogged, Pending
<1>. QED
  BY <1>1, <1>2, <1>3, <1>4, <1>5, <1>6 DEF Next

LEMMA LoggedInvHolds == Spec => []LoggedInv
<1>1. Init => LoggedInv
  <2>1. Range(<<>>) = {} /\ <<>> \o <<>> = <<>>
    BY ConcatEmptySeq, EmptySeq DEF Range
  <2>. QED
    BY <2>1 DEF Init, LoggedInv, PendingLogged, Pending
<1>. QED
  BY <1>1, LoggedInvariant, TypeCorrect, PTL DEF Spec

\* The stream is ahead of the table: what save_event took, and every row of
\* agent_events, has its message in the log, also across errors and crashes.
THEOREM WriteAhead == Spec => []LoggedBeforeTable
<1>1. LoggedInv => LoggedBeforeTable
  BY DEF LoggedInv, LoggedBeforeTable, Range
<1>. QED
  BY <1>1, LoggedInvHolds, PTL

-----------------------------------------------------------------------------
(* A writer ends empty.                                                    *)

(***************************************************************************)
(* NoStrandedEvents is not inductive.  The flush before a writer ends must *)
(* find its channel empty and closed, and no call may use the channel of a *)
(* writer that was not started.                                            *)
(***************************************************************************)
LastIsClosed ==
  \A w \in Writer : last[w] => chan[w] = <<>> /\ cur # w /\ mode[w] # "absent"

CurIsStarted ==
  /\ cur # "none" => mode[cur] # "absent"
  /\ cur = "plain" => mode["dead_letter"] = "absent"

EndedIsEmpty ==
  \A w \in Writer : mode[w] \in {"absent", "exited"} => batch[w] = <<>> /\ chan[w] = <<>>

DrainInv == LastIsClosed /\ CurIsStarted /\ EndedIsEmpty

\* A flush that starts on a running writer.
LEMMA StartFlushDrains ==
  ASSUME TypeOK, DrainInv, NEW w \in Writer, NEW final \in BOOLEAN,
         mode[w] = "select", StartFlush(w, final), cur' = cur,
         \A v \in Writer : v # w => batch'[v] = batch[v] /\ chan'[v] = chan[v],
         final => chan'[w] = <<>> /\ cur # w
  PROVE  DrainInv'
<1>1. \A v \in Writer : /\ mode'[v] = IF v = w THEN "flush" ELSE mode[v]
                        /\ last'[v] = IF v = w THEN final ELSE last[v]
  BY DEF StartFlush, TypeOK
<1>2. LastIsClosed'
  BY <1>1 DEF DrainInv, LastIsClosed
<1>3. CurIsStarted'
  BY <1>1 DEF DrainInv, CurIsStarted, TypeOK, Writer
<1>4. EndedIsEmpty'
  BY <1>1 DEF DrainInv, EndedIsEmpty
<1>. QED
  BY <1>2, <1>3, <1>4 DEF DrainInv

\* A flush that ends.
LEMMA SettleDrains ==
  ASSUME TypeOK, DrainInv, NEW w \in Writer, NEW f, mode[w] \in {"flush", "park"},
         Settle(w, f), cur' = cur, chan' = chan, last' = last
  PROVE  DrainInv'
<1>1. \A v \in Writer :
        /\ mode'[v] = IF v # w THEN mode[v] ELSE IF last[w] THEN "exited" ELSE "select"
        /\ batch'[v] = IF v = w THEN <<>> ELSE batch[v]
  BY DEF Settle, TypeOK
<1>2. LastIsClosed'
  BY <1>1 DEF DrainInv, LastIsClosed
<1>3. CurIsStarted'
  BY <1>1 DEF DrainInv, CurIsStarted, TypeOK, Writer
<1>4. EndedIsEmpty'
  BY <1>1 DEF DrainInv, LastIsClosed, EndedIsEmpty
<1>. QED
  BY <1>2, <1>3, <1>4 DEF DrainInv

\* An attempt that fails.
LEMMA AttemptFailedDrains ==
  ASSUME TypeOK, DrainInv, NEW w \in Writer, mode[w] = "flush",
         AttemptFailed(w), cur' = cur, chan' = chan, last' = last
  PROVE  DrainInv'
<1>1. CASE Settle(w, "lost")
  BY <1>1, SettleDrains
<1>2. CASE batch' = batch /\ mode' \in {mode, [mode EXCEPT ![w] = "park"]}
  <2>1. \A v \in Writer : mode'[v] = mode[v] \/ (v = w /\ mode'[v] = "park")
    BY <1>2 DEF TypeOK
  <2>. QED
    BY <1>2, <2>1 DEF DrainInv, LastIsClosed, CurIsStarted, EndedIsEmpty, TypeOK, Writer
<1>. QED
  BY <1>1, <1>2 DEF AttemptFailed

LEMMA WriterDrains ==
  ASSUME TypeOK, DrainInv, NEW w \in Writer, WriterStep(w)
  PROVE  DrainInv'
<1>1. CASE Recv(w)
  <2>1. /\ mode[w] = "select" /\ chan[w] # <<>> /\ cur' = cur
        /\ \A v \in Writer : v # w => batch'[v] = batch[v] /\ chan'[v] = chan[v]
    BY <1>1 DEF Recv, clientVars, TypeOK
  <2>2. CASE StartFlush(w, FALSE)
    BY <2>1, <2>2, StartFlushDrains
  <2>3. CASE UNCHANGED <<mode, attempt, last>>
    <3>1. ~last[w]
      BY <2>1 DEF DrainInv, LastIsClosed
    <3>. QED
      BY <2>1, <2>3, <3>1 DEF DrainInv, LastIsClosed, CurIsStarted, EndedIsEmpty
  <2>. QED
    BY <1>1, <2>2, <2>3 DEF Recv
<1>2. CASE RecvNone(w)
  <2>1. /\ mode[w] = "select" /\ chan[w] = <<>> /\ cur # w
        /\ cur' = cur /\ chan' = chan /\ batch' = batch
    BY <1>2 DEF RecvNone, clientVars
  <2>2. CASE batch[w] # <<>>
    BY <1>2, <2>1, <2>2, StartFlushDrains DEF RecvNone
  <2>3. CASE batch[w] = <<>>
    <3>1. last' = last /\ \A v \in Writer : mode'[v] = IF v = w THEN "exited" ELSE mode[v]
      BY <1>2, <2>3 DEF RecvNone, TypeOK
    <3>. QED
      BY <2>1, <2>3, <3>1
      DEF DrainInv, LastIsClosed, CurIsStarted, EndedIsEmpty, TypeOK, Writer
  <2>. QED
    BY <2>2, <2>3
<1>3. CASE Tick(w)
  BY <1>3, StartFlushDrains DEF Tick, clientVars
<1>4. CASE FlushOk(w) \/ DeadLetterSend(w) \/ DeadLetterClosed(w)
  BY <1>4, SettleDrains DEF FlushOk, DeadLetterSend, DeadLetterClosed, clientVars
<1>5. CASE FlushDuplicate(w) \/ FlushFault(w) \/ FlushCommitLost(w)
  BY <1>5, AttemptFailedDrains DEF FlushDuplicate, FlushFault, FlushCommitLost, clientVars
<1>6. CASE FirstPoll(w)
  <2>1. \A v \in Writer : mode'[v] = IF v = w THEN "select" ELSE mode[v]
    BY <1>6 DEF FirstPoll, TypeOK
  <2>2. cur' = cur /\ chan' = chan /\ batch' = batch /\ last' = last
    BY <1>6 DEF FirstPoll, clientVars
  <2>3. mode[w] = "spawned"
    BY <1>6 DEF FirstPoll
  <2>. QED
    BY <2>1, <2>2, <2>3 DEF DrainInv, LastIsClosed, CurIsStarted, EndedIsEmpty, TypeOK, Writer
<1>. QED
  BY <1>1, <1>2, <1>3, <1>4, <1>5, <1>6 DEF WriterStep

LEMMA DrainInvariant == TypeOK /\ DrainInv /\ [Next]_vars => DrainInv'
<1>. SUFFICES ASSUME TypeOK, DrainInv, [Next]_vars
              PROVE  DrainInv'
  OBVIOUS
<1>. USE DEF DrainInv, LastIsClosed, CurIsStarted, EndedIsEmpty
<1>1. ASSUME NEW c \in Call, CallStep(c)
      PROVE  DrainInv'
  <2>1. CASE Enqueue(c)
    <3>1. cur' = cur /\ mode' = mode /\ last' = last /\ batch' = batch
      BY <2>1 DEF Enqueue
    <3>2. \A v \in Writer : v # cur => chan'[v] = chan[v]
      BY <2>1 DEF Enqueue, TypeOK
    <3>3. cur # "none" => mode[cur] \notin {"absent", "exited"}
      BY <2>1 DEF Enqueue
    <3>. QED
      BY <3>1, <3>2, <3>3 DEF TypeOK, Writer
  <2>2. CASE Publish(c) \/ PublishFails(c) \/ EnqueueClosed(c) \/ Cancel(c)
    BY <2>2 DEF Publish, PublishFails, EnqueueClosed, Cancel, writerVars
  <2>. QED
    BY <1>1, <2>1, <2>2 DEF CallStep
<1>2. ASSUME NEW w \in Writer, WriterStep(w)
      PROVE  DrainInv'
  BY <1>2, WriterDrains
<1>3. CASE WithDeadLetter
  <2>1. /\ cur = "plain" /\ cur' = "dead_letter" /\ chan' = chan /\ batch' = batch
        /\ last' = last /\ mode["dead_letter"] = "absent"
    BY <1>3 DEF WithDeadLetter
  <2>2. /\ mode'["plain"] = mode["plain"] /\ mode'["dead_letter"] = "spawned"
    BY <1>3 DEF WithDeadLetter, TypeOK, Writer
  <2>. QED
    BY <2>1, <2>2 DEF Writer
<1>4. CASE DropStore
  BY <1>4 DEF DropStore, writerVars, Writer
<1>5. CASE DrainDeadLetter \/ CloseDeadLetter
  BY <1>5 DEF DrainDeadLetter, CloseDeadLetter, clientVars, writerVars
<1>6. CASE Crash
  BY <1>6 DEF Crash, Writer
<1>7. CASE UNCHANGED vars
  BY <1>7 DEF vars, clientVars, writerVars
<1>8. ASSUME NEW w \in Writer, FirstPollPanics(w)
      PROVE  DrainInv'
  <2>1. mode[w] = "spawned"
    BY <1>8 DEF FirstPollPanics
  <2>. QED
    BY <1>8, <2>1, PanicOutcome DEF TypeOK, Writer
<1>. QED
  BY <1>1, <1>2, <1>3, <1>4, <1>5, <1>6, <1>7, <1>8 DEF Next

LEMMA DrainInvHolds == Spec => []DrainInv
<1>1. Init => DrainInv
  BY DEF Init, DrainInv, LastIsClosed, CurIsStarted, EndedIsEmpty, Writer
<1>. QED
  BY <1>1, DrainInvariant, TypeCorrect, PTL DEF Spec

\* A writer that ended, at the closed channel or at a zero interval, holds no
\* event, and neither does one that with_dead_letter has not started yet.
THEOREM Drained == Spec => []NoStrandedEvents
<1>1. DrainInv => NoStrandedEvents
  BY ConcatEmptySeq, EmptySeq DEF DrainInv, EndedIsEmpty, NoStrandedEvents, Pending
<1>. QED
  BY <1>1, DrainInvHolds, PTL

-----------------------------------------------------------------------------
(* What is cleared as written is written.                                  *)

LEMMA StoredInvariant == TypeOK /\ StoredHasRow /\ [Next]_vars => StoredHasRow'
<1>. SUFFICES ASSUME TypeOK, StoredHasRow, [Next]_vars, NEW c \in Call, fate'[c] = "stored"
              PROVE  c \in Range(rows')
  BY DEF StoredHasRow, Range
<1>1. fate[c] = "stored" => c \in Range(rows)
  BY DEF StoredHasRow, Range
<1>2. ASSUME NEW w \in Writer, WriterStep(w)
      PROVE  c \in Range(rows')
  <2>1. /\ Range(rows \o batch[w]) = Range(rows) \cup Range(batch[w])
        /\ rows' = rows \/ rows' = rows \o batch[w]
    <3>1. rows \in Seq(Call) /\ batch[w] \in Seq(Call)
      BY DEF TypeOK
    <3>2. Range(rows \o batch[w]) = Range(rows) \cup Range(batch[w])
      BY <3>1, RangeConcatenation
    <3>3. rows' = rows \/ rows' = rows \o batch[w]
      BY <1>2, WriterOutcome
    <3>. QED
      BY <3>2, <3>3
  <2>2. CASE fate[c] = "stored"
    BY <1>1, <2>1, <2>2
  <2>3. CASE fate[c] # "stored"
    <3>1. FlushOk(w)
      BY <1>2, <2>3
      DEF WriterStep, FirstPoll, Recv, RecvNone, Tick, FlushDuplicate, FlushFault,
          FlushCommitLost, AttemptFailed, DeadLetterSend, DeadLetterClosed, Settle, historyVars, TypeOK
    <3>2. rows' = rows \o batch[w] /\ c \in Range(batch[w])
      BY <2>3, <3>1 DEF FlushOk, Settle
    <3>. QED
      BY <2>1, <3>2
  <2>. QED
    BY <2>2, <2>3
<1>3. ASSUME NEW d \in Call, CallStep(d)
      PROVE  c \in Range(rows')
  BY <1>1, <1>3
  DEF CallStep, Publish, PublishFails, Enqueue, EnqueueClosed, Cancel, outsideVars, historyVars
<1>4. CASE WithDeadLetter \/ DropStore \/ DrainDeadLetter \/ CloseDeadLetter \/ UNCHANGED vars
  BY <1>1, <1>4
  DEF WithDeadLetter, DropStore, DrainDeadLetter, CloseDeadLetter, vars, outsideVars, historyVars
<1>5. CASE Crash
  BY <1>1, <1>5 DEF Crash
<1>6. ASSUME NEW w \in Writer, FirstPollPanics(w)
      PROVE  c \in Range(rows')
  BY <1>1, <1>6 DEF FirstPollPanics, outsideVars
<1>. QED
  BY <1>2, <1>3, <1>4, <1>5, <1>6 DEF Next

\* flush_batch clears the batch only after a commit that took effect.
THEOREM StoredIsInTable == Spec => []StoredHasRow
<1>1. Init => StoredHasRow
  BY DEF Init, StoredHasRow
<1>. QED
  BY <1>1, StoredInvariant, TypeCorrect, PTL DEF Spec

-----------------------------------------------------------------------------
(* What a crash can cost.                                                  *)

Room(w) == IF BatchLimit(w) = 0 THEN 1 ELSE BatchLimit(w)

(***************************************************************************)
(* ExposureBounded is not inductive: the channel and the batch have their  *)
(* bounds each, and a writer that may receive has room for one more.       *)
(***************************************************************************)
HeldWithinBounds ==
  \A w \in Writer :
    /\ Len(chan[w]) <= Capacity(w)
    /\ Len(batch[w]) <= Room(w)
    /\ mode[w] \in {"absent", "spawned", "select", "exited"} => Len(batch[w]) < Room(w)

LEMMA BoundsTypes ==
  ASSUME TypeOK, NEW w \in Writer
  PROVE  /\ BatchLimit(w) \in Nat /\ Room(w) \in Nat \ {0} /\ Capacity(w) \in Nat \ {0}
         /\ Len(batch[w]) \in Nat /\ Len(chan[w]) \in Nat
<1>1. cfg \in SkialithConfig
  BY DEF TypeOK
<1>2. BatchLimit(w) \in Nat /\ Capacity(w) \in Nat \ {0}
  BY <1>1 DEF BatchLimit, Capacity, SkialithConfig
<1>3. batch[w] \in Seq(Call) /\ chan[w] \in Seq(Call)
  BY DEF TypeOK
<1>. QED
  BY <1>2, <1>3, LenProperties DEF Room

\* The configuration of a store does not change.
LEMMA ConfigIsFixed == [Next]_vars => cfg' = cfg
<1>. USE DEF clientVars, writerVars, outsideVars, historyVars
<1>1. ASSUME NEW c \in Call, CallStep(c)
      PROVE  cfg' = cfg
  BY <1>1 DEF CallStep, Publish, PublishFails, Enqueue, EnqueueClosed, Cancel
<1>2. ASSUME NEW w \in Writer, WriterStep(w)
      PROVE  cfg' = cfg
  BY <1>2 DEF WriterStep, FirstPoll, Recv, RecvNone, Tick, FlushOk, FlushDuplicate, FlushFault,
     FlushCommitLost, DeadLetterSend, DeadLetterClosed
<1>4. ASSUME NEW w \in Writer, FirstPollPanics(w)
      PROVE  cfg' = cfg
  BY <1>4 DEF FirstPollPanics
<1>3. CASE WithDeadLetter \/ DropStore \/ DrainDeadLetter \/ CloseDeadLetter \/ Crash
  BY <1>3 DEF WithDeadLetter, DropStore, DrainDeadLetter, CloseDeadLetter, Crash
<1>. QED
  BY <1>1, <1>2, <1>3, <1>4 DEF Next, vars

\* A writer whose channel and batch do not grow keeps its bounds.
LEMMA HeldShrinks ==
  ASSUME TypeOK, TypeOK', HeldWithinBounds, cfg' = cfg, NEW w \in Writer,
         Len(chan'[w]) <= Len(chan[w]), Len(batch'[w]) <= Len(batch[w]),
         mode'[w] \in {"absent", "spawned", "select", "exited"} =>
           batch'[w] = <<>> \/ mode[w] \in {"absent", "spawned", "select", "exited"}
  PROVE  /\ Len(chan'[w]) <= Capacity(w)'
         /\ Len(batch'[w]) <= Room(w)'
         /\ mode'[w] \in {"absent", "spawned", "select", "exited"} => Len(batch'[w]) < Room(w)'
<1>1. Room(w)' = Room(w) /\ Capacity(w)' = Capacity(w)
  BY DEF Room, BatchLimit, Capacity
<1>2. Len(<<>>) = 0
  BY EmptySeq
<1>3. /\ Room(w) \in Nat \ {0} /\ Capacity(w) \in Nat \ {0}
      /\ Len(batch[w]) \in Nat /\ Len(chan[w]) \in Nat
  BY BoundsTypes
<1>4. /\ batch'[w] \in Seq(Call) /\ chan'[w] \in Seq(Call)
      /\ Len(batch'[w]) \in Nat /\ Len(chan'[w]) \in Nat
  BY LenProperties DEF TypeOK
<1>5. /\ Len(chan[w]) <= Capacity(w) /\ Len(batch[w]) <= Room(w)
      /\ mode[w] \in {"absent", "spawned", "select", "exited"} => Len(batch[w]) < Room(w)
  BY DEF HeldWithinBounds
<1>6. Len(chan'[w]) <= Capacity(w)' /\ Len(batch'[w]) <= Room(w)'
  BY <1>1, <1>3, <1>4, <1>5
<1>7. ASSUME mode'[w] \in {"absent", "spawned", "select", "exited"}
      PROVE  Len(batch'[w]) < Room(w)'
  <2>1. CASE batch'[w] = <<>>
    BY <1>1, <1>2, <1>3, <2>1
  <2>2. CASE mode[w] \in {"absent", "spawned", "select", "exited"}
    BY <1>1, <1>3, <1>4, <1>5, <2>2
  <2>. QED
    BY <1>7, <2>1, <2>2
<1>. QED
  BY <1>6, <1>7

\* A flush that ends, or is tried again, holds nothing new.
LEMMA FlushHolds ==
  ASSUME TypeOK, NEW w \in Writer, chan' = chan,
         mode[w] \in {"flush", "park"}, (\E f \in Fate : Settle(w, f)) \/ AttemptFailed(w),
         NEW v \in Writer
  PROVE  /\ Len(chan'[v]) <= Len(chan[v]) /\ Len(batch'[v]) <= Len(batch[v])
         /\ mode'[v] \in {"absent", "spawned", "select", "exited"} =>
              batch'[v] = <<>> \/ mode[v] \in {"absent", "spawned", "select", "exited"}
<1>0. /\ Len(batch[v]) \in Nat /\ Len(chan[v]) \in Nat /\ Len(<<>>) = 0
  BY BoundsTypes, EmptySeq
<1>1. ASSUME NEW f, Settle(w, f)
      PROVE  /\ batch'[v] = IF v = w THEN <<>> ELSE batch[v]
             /\ v # w => mode'[v] = mode[v]
  BY <1>1 DEF Settle, TypeOK
<1>2. \/ \E f : Settle(w, f)
      \/ batch' = batch /\ mode' \in {mode, [mode EXCEPT ![w] = "park"]}
  BY DEF AttemptFailed
<1>3. CASE \E f : Settle(w, f)
  BY <1>0, <1>1, <1>3
<1>4. CASE batch' = batch /\ mode' \in {mode, [mode EXCEPT ![w] = "park"]}
  <2>1. mode'[v] = mode[v] \/ mode'[v] = "park"
    BY <1>4 DEF TypeOK
  <2>. QED
    BY <1>0, <1>4, <2>1
<1>. QED
  BY <1>2, <1>3, <1>4

\* The receive arm flushes a batch as soon as it is full.
LEMMA RecvHolds ==
  ASSUME TypeOK, TypeOK', HeldWithinBounds, cfg' = cfg, NEW w \in Writer, Recv(w)
  PROVE  HeldWithinBounds'
<1>. SUFFICES ASSUME NEW v \in Writer
              PROVE  /\ Len(chan'[v]) <= Capacity(v)'
                     /\ Len(batch'[v]) <= Room(v)'
                     /\ mode'[v] \in {"absent", "spawned", "select", "exited"} =>
                          Len(batch'[v]) < Room(v)'
  BY DEF HeldWithinBounds
<1>0. /\ Room(v) \in Nat \ {0} /\ Capacity(v) \in Nat \ {0} /\ BatchLimit(v) \in Nat
      /\ Len(batch[v]) \in Nat /\ Len(chan[v]) \in Nat
      /\ Room(v)' = Room(v) /\ Capacity(v)' = Capacity(v)
  BY BoundsTypes DEF Room, BatchLimit, Capacity
<1>1. CASE v # w
  <2>1. chan'[v] = chan[v] /\ batch'[v] = batch[v] /\ mode'[v] = mode[v]
    BY <1>1 DEF Recv, StartFlush, TypeOK
  <2>. QED
    BY <1>0, <2>1 DEF HeldWithinBounds
<1>2. CASE v = w
  <2>1. /\ mode[v] = "select" /\ chan[v] # <<>>
        /\ batch'[v] = Append(batch[v], Head(chan[v])) /\ chan'[v] = Tail(chan[v])
    BY <1>2 DEF Recv, TypeOK
  <2>2. batch[v] \in Seq(Call) /\ chan[v] \in Seq(Call)
    BY DEF TypeOK
  <2>3. Len(batch'[v]) = Len(batch[v]) + 1 /\ Len(chan'[v]) = Len(chan[v]) - 1
    BY <2>1, <2>2, HeadTailProperties, AppendProperties
  <2>4. Len(chan[v]) <= Capacity(v) /\ Len(batch[v]) < Room(v)
    BY <2>1 DEF HeldWithinBounds
  <2>5. CASE Len(batch'[v]) >= BatchLimit(v)
    <3>1. mode'[v] = "flush"
      BY <1>2, <2>5 DEF Recv, StartFlush, TypeOK
    <3>. QED
      BY <1>0, <2>3, <2>4, <3>1
  <2>6. CASE ~(Len(batch'[v]) >= BatchLimit(v))
    <3>1. BatchLimit(v) # 0
      BY <1>0, <2>3, <2>6
    <3>2. Room(v) = BatchLimit(v)
      BY <3>1 DEF Room
    <3>. QED
      BY <1>0, <2>3, <2>4, <2>6, <3>2
  <2>. QED
    BY <2>5, <2>6
<1>. QED
  BY <1>1, <1>2

LEMMA HeldInvariant ==
  TypeOK /\ TypeOK' /\ DrainInv /\ HeldWithinBounds /\ [Next]_vars => HeldWithinBounds'
<1>. SUFFICES ASSUME TypeOK, TypeOK', DrainInv, HeldWithinBounds, [Next]_vars
              PROVE  HeldWithinBounds'
  OBVIOUS
<1>0. cfg' = cfg
  BY ConfigIsFixed
<1>1. ASSUME \A v \in Writer :
               /\ Len(chan'[v]) <= Len(chan[v]) /\ Len(batch'[v]) <= Len(batch[v])
               /\ mode'[v] \in {"absent", "spawned", "select", "exited"} =>
                    batch'[v] = <<>> \/ mode[v] \in {"absent", "spawned", "select", "exited"}
      PROVE  HeldWithinBounds'
  BY <1>0, <1>1, HeldShrinks DEF HeldWithinBounds
<1>2. \A v \in Writer : /\ Len(chan[v]) \in Nat /\ Len(batch[v]) \in Nat
                        /\ Len(chan[v]) <= Len(chan[v]) /\ Len(batch[v]) <= Len(batch[v])
  BY BoundsTypes
<1>3. ASSUME NEW c \in Call, CallStep(c)
      PROVE  HeldWithinBounds'
  <2>1. CASE Enqueue(c)
    <3>. SUFFICES ASSUME NEW v \in Writer
                  PROVE  /\ Len(chan'[v]) <= Capacity(v)'
                         /\ Len(batch'[v]) <= Room(v)'
                         /\ mode'[v] \in {"absent", "spawned", "select", "exited"} =>
                              Len(batch'[v]) < Room(v)'
      BY DEF HeldWithinBounds
    <3>1. /\ Capacity(v)' = Capacity(v) /\ Room(v)' = Room(v)
          /\ batch' = batch /\ mode' = mode
      BY <1>0, <2>1 DEF Capacity, Room, BatchLimit, Enqueue
    <3>2. chan[v] \in Seq(Call) /\ Len(chan[v]) \in Nat /\ Capacity(v) \in Nat
      BY BoundsTypes DEF TypeOK
    <3>3. chan'[v] = chan[v] \/ (chan'[v] = Append(chan[v], c) /\ Len(chan[v]) < Capacity(v))
      BY <2>1 DEF Enqueue, TypeOK
    <3>4. Len(Append(chan[v], c)) = Len(chan[v]) + 1
      BY <1>3, <3>2, AppendProperties
    <3>5. Len(chan'[v]) <= Capacity(v)
      BY <3>2, <3>3, <3>4 DEF HeldWithinBounds
    <3>. QED
      BY <3>1, <3>5 DEF HeldWithinBounds
  <2>2. CASE Publish(c) \/ PublishFails(c) \/ EnqueueClosed(c) \/ Cancel(c)
    BY <1>1, <1>2, <2>2 DEF Publish, PublishFails, EnqueueClosed, Cancel, writerVars
  <2>. QED
    BY <1>3, <2>1, <2>2 DEF CallStep
<1>4. ASSUME NEW w \in Writer, WriterStep(w)
      PROVE  HeldWithinBounds'
  <2>1. CASE Recv(w)
    BY <1>0, <2>1, RecvHolds
  <2>2. CASE FirstPoll(w) \/ RecvNone(w) \/ Tick(w)
    <3>1. chan' = chan /\ batch' = batch /\ mode[w] \in {"spawned", "select"}
      BY <2>2 DEF FirstPoll, RecvNone, Tick
    <3>2. \A v \in Writer : v # w => mode'[v] = mode[v]
      BY <2>2 DEF FirstPoll, RecvNone, Tick, StartFlush, TypeOK
    <3>. QED
      BY <1>1, <1>2, <3>1, <3>2
  <2>3. CASE FlushOk(w) \/ DeadLetterSend(w) \/ DeadLetterClosed(w)
    <3>1. chan' = chan /\ mode[w] \in {"flush", "park"} /\ \E f \in Fate : Settle(w, f)
      BY <2>3 DEF FlushOk, DeadLetterSend, DeadLetterClosed, Fate
    <3>. QED
      BY <1>1, <3>1, FlushHolds
  <2>4. CASE FlushDuplicate(w) \/ FlushFault(w) \/ FlushCommitLost(w)
    <3>1. chan' = chan /\ mode[w] \in {"flush", "park"} /\ AttemptFailed(w)
      BY <2>4 DEF FlushDuplicate, FlushFault, FlushCommitLost
    <3>. QED
      BY <1>1, <3>1, FlushHolds
  <2>. QED
    BY <1>4, <2>1, <2>2, <2>3, <2>4 DEF WriterStep
<1>5. CASE WithDeadLetter
  <2>1. /\ chan' = chan /\ batch' = batch
        /\ \A v \in Writer : mode'[v] = mode[v] \/ v = "dead_letter"
    BY <1>5 DEF WithDeadLetter, TypeOK
  <2>2. mode["dead_letter"] = "absent"
    BY <1>5 DEF WithDeadLetter, DrainInv, CurIsStarted
  <2>. QED
    BY <1>1, <1>2, <2>1, <2>2
<1>6. CASE DropStore \/ DrainDeadLetter \/ CloseDeadLetter \/ UNCHANGED vars
  BY <1>1, <1>2, <1>6 DEF DropStore, DrainDeadLetter, CloseDeadLetter, vars, writerVars
<1>7. CASE Crash
  <2>1. \A v \in Writer : chan'[v] = <<>> /\ batch'[v] = <<>> /\ Len(<<>>) = 0
    BY <1>7, EmptySeq DEF Crash
  <2>. QED
    BY <1>1, <1>2, <2>1
<1>8. ASSUME NEW w \in Writer, FirstPollPanics(w)
      PROVE  HeldWithinBounds'
  <2>. SUFFICES ASSUME NEW v \in Writer
                PROVE  /\ Len(chan'[v]) <= Len(chan[v]) /\ Len(batch'[v]) <= Len(batch[v])
                       /\ mode'[v] \in {"absent", "spawned", "select", "exited"} =>
                            \/ batch'[v] = <<>>
                            \/ mode[v] \in {"absent", "spawned", "select", "exited"}
    BY <1>1
  <2>1. CASE v = w
    <3>1. chan'[v] = <<>> /\ batch'[v] = <<>> /\ Len(<<>>) = 0
      BY <1>8, <2>1, PanicOutcome, EmptySeq
    <3>2. Len(chan[v]) \in Nat /\ Len(batch[v]) \in Nat
      BY <1>2
    <3>. QED
      BY <3>1, <3>2
  <2>2. CASE v # w
    <3>1. chan'[v] = chan[v] /\ batch'[v] = batch[v] /\ mode'[v] = mode[v]
      BY <1>8, <2>2, PanicOutcome
    <3>. QED
      BY <1>2, <3>1
  <2>. QED
    BY <2>1, <2>2
<1>. QED
  BY <1>3, <1>4, <1>5, <1>6, <1>7, <1>8 DEF Next

\* A crash costs at most a channel and a batch of accepted events, whatever the
\* configuration; a batch limit of zero is one of one (run_tidb_batch_writer).
THEOREM BoundedExposure == Spec => []ExposureBounded
<1>1. Init => HeldWithinBounds
  <2>. SUFFICES ASSUME Init, NEW w \in Writer
                PROVE  /\ Len(chan[w]) <= Capacity(w)
                       /\ Len(batch[w]) <= Room(w) /\ Len(batch[w]) < Room(w)
    BY DEF HeldWithinBounds
  <2>1. chan[w] = <<>> /\ batch[w] = <<>> /\ Len(<<>>) = 0
    BY EmptySeq DEF Init
  <2>2. Room(w) \in Nat \ {0} /\ Capacity(w) \in Nat \ {0}
    BY InitTypeOK, BoundsTypes
  <2>. QED
    BY <2>1, <2>2
<1>2. TypeOK /\ HeldWithinBounds => ExposureBounded
  <2>. SUFFICES ASSUME TypeOK, HeldWithinBounds, NEW w \in Writer
                PROVE  Len(batch[w] \o chan[w]) <= Capacity(w) + Room(w)
    BY DEF ExposureBounded, Pending, Room
  <2>1. Len(batch[w] \o chan[w]) = Len(batch[w]) + Len(chan[w])
    BY ConcatProperties DEF TypeOK
  <2>2. /\ Len(batch[w]) \in Nat /\ Len(chan[w]) \in Nat
        /\ Room(w) \in Nat /\ Capacity(w) \in Nat
    BY BoundsTypes
  <2>3. Len(chan[w]) <= Capacity(w) /\ Len(batch[w]) <= Room(w)
    BY DEF HeldWithinBounds
  <2>4. \A a, b, c, d \in Nat : a <= c /\ b <= d => a + b <= d + c
    OBVIOUS
  <2>5. Len(batch[w]) + Len(chan[w]) <= Capacity(w) + Room(w)
    BY <2>2, <2>3, <2>4
  <2>. QED
    BY <2>1, <2>5
<1>. QED
  BY <1>1, <1>2, HeldInvariant, TypeCorrect, DrainInvHolds, PTL DEF Spec

-----------------------------------------------------------------------------
(* A call is accepted once.                                                *)

Accepted == {c \in Call : pc[c] = "accepted"}

(***************************************************************************)
(* The logs of the two writers name every call at most once: a call that   *)
(* was accepted is at no await any more, and nothing takes it back there.  *)
(***************************************************************************)
AcceptedOnce ==
  /\ \A w \in Writer : \A p \in DOMAIN log[w] : log[w][p] \in Accepted
  /\ \A v, w \in Writer : \A p \in DOMAIN log[v], q \in DOMAIN log[w] :
       log[v][p] = log[w][q] => v = w /\ p = q

\* Only Enqueue appends to a log, and its call was not accepted before.
LEMMA LogStep ==
  ASSUME TypeOK, [Next]_vars
  PROVE  /\ Accepted \subseteq Accepted'
         /\ \/ log' = log
            \/ \E c \in Call : Enqueue(c) /\ c \notin Accepted /\ c \in Accepted'
<1>1. ASSUME NEW c \in Call, CallStep(c)
      PROVE  /\ Accepted \subseteq Accepted'
             /\ \/ log' = log
                \/ \E d \in Call : Enqueue(d) /\ d \notin Accepted /\ d \in Accepted'
  <2>1. CASE Enqueue(c)
    BY <2>1 DEF Enqueue, Accepted, TypeOK
  <2>2. CASE Publish(c) \/ PublishFails(c) \/ EnqueueClosed(c) \/ Cancel(c)
    BY <2>2
    DEF Publish, PublishFails, EnqueueClosed, Cancel, historyVars, Accepted, TypeOK
  <2>. QED
    BY <1>1, <2>1, <2>2 DEF CallStep
<1>2. ASSUME NEW w \in Writer, WriterStep(w)
      PROVE  pc' = pc /\ log' = log
  BY <1>2, WriterOutcome
<1>3. CASE WithDeadLetter \/ DropStore \/ DrainDeadLetter \/ CloseDeadLetter \/ UNCHANGED vars
  BY <1>3
  DEF WithDeadLetter, DropStore, DrainDeadLetter, CloseDeadLetter, vars,
      clientVars, historyVars, Accepted
<1>4. CASE Crash
  BY <1>4 DEF Crash, Accepted
<1>5. ASSUME NEW w \in Writer, FirstPollPanics(w)
      PROVE  pc' = pc /\ log' = log
  BY <1>5, PanicOutcome
<1>. QED
  BY <1>1, <1>2, <1>3, <1>4, <1>5 DEF Next, Accepted

LEMMA AcceptedOnceInvariant == TypeOK /\ AcceptedOnce /\ [Next]_vars => AcceptedOnce'
<1>. SUFFICES ASSUME TypeOK, AcceptedOnce, [Next]_vars
              PROVE  AcceptedOnce'
  OBVIOUS
<1>1. CASE log' = log
  BY <1>1, LogStep DEF AcceptedOnce
<1>2. ASSUME NEW c \in Call, Enqueue(c), c \notin Accepted, c \in Accepted'
      PROVE  AcceptedOnce'
  <2>. DEFINE n(w) == Len(log[w])
  <2>1. ASSUME NEW w \in Writer
        PROVE  /\ n(w) \in Nat /\ DOMAIN log[w] = 1..n(w)
               /\ \/ log'[w] = log[w]
                  \/ /\ w = cur /\ DOMAIN log'[w] = 1..(n(w) + 1) /\ log'[w][n(w) + 1] = c
                     /\ \A p \in 1..n(w) : log'[w][p] = log[w][p]
    <3>1. log[w] \in Seq(Call)
      BY DEF TypeOK
    <3>2. log'[w] = IF w = cur THEN Append(log[w], c) ELSE log[w]
      BY <1>2 DEF Enqueue, TypeOK
    <3>. QED
      BY <3>1, <3>2, AppendProperties, LenProperties
  <2>. HIDE DEF n
  <2>2. Accepted \subseteq Accepted'
    BY LogStep
  <2>3. ASSUME NEW w \in Writer, NEW p \in DOMAIN log'[w]
        PROVE  \/ p \in DOMAIN log[w] /\ log'[w][p] = log[w][p] /\ log[w][p] # c
               \/ w = cur /\ p = n(w) + 1 /\ log'[w][p] = c
    BY <1>2, <2>1 DEF AcceptedOnce
  <2>4. \A w \in Writer : \A p \in DOMAIN log'[w] : log'[w][p] \in Accepted'
    BY <1>2, <2>2, <2>3 DEF AcceptedOnce
  <2>5. ASSUME NEW v \in Writer, NEW w \in Writer, NEW p \in DOMAIN log'[v],
               NEW q \in DOMAIN log'[w], log'[v][p] = log'[w][q]
        PROVE  v = w /\ p = q
    <3>1. \/ p \in DOMAIN log[v] /\ log'[v][p] = log[v][p] /\ log[v][p] # c
          \/ v = cur /\ p = n(v) + 1 /\ log'[v][p] = c
      BY <2>3
    <3>2. \/ q \in DOMAIN log[w] /\ log'[w][q] = log[w][q] /\ log[w][q] # c
          \/ w = cur /\ q = n(w) + 1 /\ log'[w][q] = c
      BY <2>3
    <3>. QED
      BY <2>5, <3>1, <3>2 DEF AcceptedOnce
  <2>. QED
    BY <2>4, <2>5 DEF AcceptedOnce
<1>. QED
  BY <1>1, <1>2, LogStep

LEMMA AcceptedOnceHolds == Spec => []AcceptedOnce
<1>1. Init => AcceptedOnce
  BY EmptySeq DEF Init, AcceptedOnce
<1>. QED
  BY <1>1, AcceptedOnceInvariant, TypeCorrect, PTL DEF Spec

\* Where the parts of a concatenation of three are.
LEMMA ConcatPositions ==
  ASSUME NEW S, NEW s \in Seq(S), NEW t \in Seq(S)
  PROVE  /\ Len(s) \in Nat /\ Len(t) \in Nat /\ s \o t \in Seq(S)
         /\ Len(s \o t) = Len(s) + Len(t) /\ DOMAIN (s \o t) = 1..(Len(s) + Len(t))
         /\ \A i \in 1..Len(s) : (s \o t)[i] = s[i]
         /\ \A i \in 1..Len(t) : (s \o t)[Len(s) + i] = t[i]
  BY ConcatProperties, LenProperties

LEMMA ThreeParts ==
  ASSUME NEW S, NEW s \in Seq(S), NEW t \in Seq(S), NEW u \in Seq(S)
  PROVE  /\ DOMAIN (s \o (t \o u)) = 1..(Len(s) + Len(t) + Len(u))
         /\ \A i \in 1..Len(t) : (s \o (t \o u))[Len(s) + i] = t[i]
         /\ \A i \in 1..Len(u) : (s \o (t \o u))[Len(s) + Len(t) + i] = u[i]
<1>1. PICK r \in Seq(S) : r = t \o u
  BY ConcatPositions
<1>2. /\ Len(t) \in Nat /\ Len(u) \in Nat /\ Len(r) = Len(t) + Len(u)
      /\ \A i \in 1..Len(t) : r[i] = t[i]
      /\ \A i \in 1..Len(u) : r[Len(t) + i] = u[i]
  BY <1>1, ConcatPositions
<1>3. PICK q \in Seq(S) : q = s \o r
  BY ConcatPositions
<1>4. /\ Len(s) \in Nat /\ DOMAIN q = 1..(Len(s) + Len(r))
      /\ \A i \in 1..Len(r) : q[Len(s) + i] = r[i]
  BY <1>3, ConcatPositions
<1>5. \A i \in 1..Len(t) : q[Len(s) + i] = t[i]
  BY <1>2, <1>4
<1>6. ASSUME NEW i \in 1..Len(u)
      PROVE  q[Len(s) + Len(t) + i] = u[i]
  <2>1. Len(t) + i \in 1..Len(r) /\ Len(s) + Len(t) + i = Len(s) + (Len(t) + i)
    BY <1>2, <1>4
  <2>. QED
    BY <1>2, <1>4, <2>1
<1>7. DOMAIN q = 1..(Len(s) + Len(t) + Len(u))
  BY <1>2, <1>4
<1>. QED
  BY <1>1, <1>3, <1>5, <1>6, <1>7

\* Where the calls a writer holds are in its log.
LEMMA LogPositions ==
  ASSUME TypeOK, NoEventVanishes, NEW w \in Writer
  PROVE  /\ Len(settled[w]) \in Nat /\ Len(batch[w]) \in Nat /\ Len(chan[w]) \in Nat
         /\ DOMAIN batch[w] = 1..Len(batch[w]) /\ DOMAIN chan[w] = 1..Len(chan[w])
         /\ DOMAIN log[w] = 1..(Len(settled[w]) + Len(batch[w]) + Len(chan[w]))
         /\ \A i \in DOMAIN batch[w] : log[w][Len(settled[w]) + i] = batch[w][i]
         /\ \A i \in DOMAIN chan[w] : log[w][Len(settled[w]) + Len(batch[w]) + i] = chan[w][i]
<1>1. settled[w] \in Seq(Call) /\ batch[w] \in Seq(Call) /\ chan[w] \in Seq(Call)
  BY DEF TypeOK
<1>2. PICK s \in Seq(Call), t \in Seq(Call), u \in Seq(Call) :
        s = settled[w] /\ t = batch[w] /\ u = chan[w]
  BY <1>1
<1>3. PICK l : l = s \o (t \o u)
  OBVIOUS
<1>4. log[w] = l
  BY <1>2, <1>3 DEF NoEventVanishes, Pending
<1>5. /\ Len(s) \in Nat /\ Len(t) \in Nat /\ Len(u) \in Nat
      /\ DOMAIN t = 1..Len(t) /\ DOMAIN u = 1..Len(u)
  BY LenProperties
<1>6. /\ DOMAIN l = 1..(Len(s) + Len(t) + Len(u))
      /\ \A i \in 1..Len(t) : l[Len(s) + i] = t[i]
      /\ \A i \in 1..Len(u) : l[Len(s) + Len(t) + i] = u[i]
  BY <1>3, ThreeParts
<1>. QED
  BY <1>2, <1>4, <1>5, <1>6

\* A call is held in one place.
LEMMA HeldOnce ==
  ASSUME TypeOK, NoEventVanishes, AcceptedOnce, NEW w \in Writer
  PROVE  /\ Range(batch[w]) \subseteq Accepted /\ Range(chan[w]) \subseteq Accepted
         /\ \A v \in Writer : Range(batch[w]) \cap Range(chan[v]) = {}
         /\ \A v \in Writer \ {w} : Range(batch[w]) \cap Range(batch[v]) = {}
         /\ \A i, j \in DOMAIN batch[w] : batch[w][i] = batch[w][j] => i = j
<1>. DEFINE B(v) == Len(settled[v])
            C(v) == Len(settled[v]) + Len(batch[v])
<1>1. ASSUME NEW v \in Writer
      PROVE  /\ B(v) \in Nat /\ C(v) \in Nat
             /\ \A i \in DOMAIN batch[v] :
                  /\ i \in Nat /\ i >= 1 /\ B(v) + i <= C(v)
                  /\ B(v) + i \in DOMAIN log[v] /\ log[v][B(v) + i] = batch[v][i]
             /\ \A i \in DOMAIN chan[v] :
                  /\ i \in Nat /\ i >= 1
                  /\ C(v) + i \in DOMAIN log[v] /\ log[v][C(v) + i] = chan[v][i]
  <2>1. PICK n \in Nat, k \in Nat, m \in Nat :
          n = Len(settled[v]) /\ k = Len(batch[v]) /\ m = Len(chan[v])
    BY LogPositions
  <2>2. /\ DOMAIN batch[v] = 1..k /\ DOMAIN chan[v] = 1..m
        /\ DOMAIN log[v] = 1..(n + k + m)
        /\ \A i \in DOMAIN batch[v] : log[v][n + i] = batch[v][i]
        /\ \A i \in DOMAIN chan[v] : log[v][n + k + i] = chan[v][i]
    BY <2>1, LogPositions
  <2>3. B(v) = n /\ C(v) = n + k
    BY <2>1
  <2>. HIDE DEF B, C
  <2>. QED
    BY <2>2, <2>3
<1>. HIDE DEF B, C
<1>2. Range(batch[w]) \subseteq Accepted /\ Range(chan[w]) \subseteq Accepted
  BY <1>1 DEF AcceptedOnce, Range
<1>3. ASSUME NEW v \in Writer, NEW i \in DOMAIN batch[w], NEW j \in DOMAIN chan[v],
             batch[w][i] = chan[v][j]
      PROVE  FALSE
  <2>1. w = v /\ B(w) + i = C(v) + j
    BY <1>1, <1>3 DEF AcceptedOnce
  <2>. QED
    BY <1>1, <2>1
<1>4. ASSUME NEW v \in Writer, NEW i \in DOMAIN batch[w], NEW j \in DOMAIN batch[v],
             batch[w][i] = batch[v][j]
      PROVE  v = w /\ i = j
  <2>1. w = v /\ B(w) + i = B(v) + j
    BY <1>1, <1>4 DEF AcceptedOnce
  <2>. QED
    BY <1>1, <2>1
<1>. QED
  BY <1>2, <1>3, <1>4 DEF Range

-----------------------------------------------------------------------------
(* What is in the table before its batch is settled.                       *)

(***************************************************************************)
(* A commit whose answer was lost leaves the rows of a batch that is still *)
(* held.  Then all its rows are there, and the writer is not back at its   *)
(* select, so that nothing joins such a batch.                             *)
(***************************************************************************)
RowsAreAccepted == Range(rows) \subseteq Accepted

ChanIsUnwritten == \A w \in Writer : Range(chan[w]) \cap Range(rows) = {}

BatchIsWhole ==
  \A w \in Writer :
    \/ Range(batch[w]) \cap Range(rows) = {}
    \/ mode[w] \in {"flush", "park"} /\ Range(batch[w]) \subseteq Range(rows)

WrittenInv == RowsAreAccepted /\ ChanIsUnwritten /\ BatchIsWhole

\* What a step of a writer that is flushing or parking does.
FlushStep(w) ==
  /\ mode[w] \in {"flush", "park"}
  /\ chan' = chan /\ pc' = pc /\ log' = log
  /\ rows' = rows \/ (Insertable(w) /\ rows' = rows \o batch[w])
  /\ \A v \in Writer \ {w} : batch'[v] = batch[v] /\ mode'[v] = mode[v]
  /\ \/ batch'[w] = <<>>
     \/ batch'[w] = batch[w] /\ mode'[w] \in {"flush", "park"}

LEMMA FlushSteps ==
  ASSUME TypeOK, NEW w \in Writer,
         \/ FlushOk(w) \/ FlushDuplicate(w) \/ FlushFault(w) \/ FlushCommitLost(w)
         \/ DeadLetterSend(w) \/ DeadLetterClosed(w)
  PROVE  FlushStep(w)
<1>1. ASSUME NEW f, Settle(w, f)
      PROVE  /\ \A v \in Writer \ {w} : batch'[v] = batch[v] /\ mode'[v] = mode[v]
             /\ batch'[w] = <<>>
  BY <1>1 DEF Settle, TypeOK
<1>2. ASSUME AttemptFailed(w), mode[w] = "flush"
      PROVE  /\ \A v \in Writer \ {w} : batch'[v] = batch[v] /\ mode'[v] = mode[v]
             /\ \/ batch'[w] = <<>>
                \/ batch'[w] = batch[w] /\ mode'[w] \in {"flush", "park"}
  <2>1. CASE Settle(w, "lost")
    BY <1>1, <2>1
  <2>2. CASE batch' = batch /\ mode' \in {mode, [mode EXCEPT ![w] = "park"]}
    BY <1>2, <2>2 DEF TypeOK
  <2>. QED
    BY <1>2, <2>1, <2>2 DEF AttemptFailed
<1>3. CASE FlushOk(w) \/ DeadLetterSend(w) \/ DeadLetterClosed(w)
  BY <1>1, <1>3
  DEF FlushStep, FlushOk, DeadLetterSend, DeadLetterClosed, clientVars, outsideVars
<1>4. CASE FlushDuplicate(w) \/ FlushFault(w) \/ FlushCommitLost(w)
  <2>1. AttemptFailed(w) /\ mode[w] = "flush"
    BY <1>4 DEF FlushDuplicate, FlushFault, FlushCommitLost
  <2>2. /\ \A v \in Writer \ {w} : batch'[v] = batch[v] /\ mode'[v] = mode[v]
        /\ \/ batch'[w] = <<>>
           \/ batch'[w] = batch[w] /\ mode'[w] \in {"flush", "park"}
    BY <1>2, <2>1
  <2>3. /\ mode[w] \in {"flush", "park"} /\ chan' = chan /\ pc' = pc /\ log' = log
        /\ rows' = rows \/ (Insertable(w) /\ rows' = rows \o batch[w])
    BY <1>4 DEF FlushDuplicate, FlushFault, FlushCommitLost, clientVars, outsideVars
  <2>. QED
    BY <2>2, <2>3 DEF FlushStep
<1>. QED
  BY <1>3, <1>4

\* What a step of one of the writers does to the table.
LEMMA WriterSteps ==
  ASSUME TypeOK, NEW w \in Writer, WriterStep(w)
  PROVE  \/ FlushStep(w)
         \/ mode[w] \in {"spawned", "select"} /\ rows' = rows /\ pc' = pc /\ log' = log
  BY FlushSteps
  DEF WriterStep, FirstPoll, Recv, RecvNone, Tick, clientVars, outsideVars, historyVars

LEMMA FlushWritten ==
  ASSUME TypeOK, NoEventVanishes, AcceptedOnce, WrittenInv, NEW w \in Writer, FlushStep(w)
  PROVE  WrittenInv'
<1>1. Accepted' = Accepted /\ chan' = chan
  BY DEF FlushStep, Accepted
<1>2. rows' = rows \/ Range(rows') = Range(rows) \cup Range(batch[w])
  <2>1. rows \in Seq(Call) /\ batch[w] \in Seq(Call)
    BY DEF TypeOK
  <2>2. Range(rows \o batch[w]) = Range(rows) \cup Range(batch[w])
    BY <2>1, RangeConcatenation
  <2>. QED
    BY <2>2 DEF FlushStep
<1>3. /\ Range(batch[w]) \subseteq Accepted
      /\ \A v \in Writer : Range(batch[w]) \cap Range(chan[v]) = {}
      /\ \A v \in Writer \ {w} : Range(batch[w]) \cap Range(batch[v]) = {}
  BY HeldOnce
<1>4. Range(<<>>) = {}
  BY EmptySeq DEF Range
<1>5. RowsAreAccepted' /\ ChanIsUnwritten'
  BY <1>1, <1>2, <1>3 DEF WrittenInv, RowsAreAccepted, ChanIsUnwritten
<1>6. BatchIsWhole'
  <2>. SUFFICES ASSUME NEW v \in Writer
                PROVE  \/ Range(batch'[v]) \cap Range(rows') = {}
                       \/ /\ mode'[v] \in {"flush", "park"}
                          /\ Range(batch'[v]) \subseteq Range(rows')
    BY DEF BatchIsWhole
  <2>1. \/ Range(batch[v]) \cap Range(rows) = {}
        \/ mode[v] \in {"flush", "park"} /\ Range(batch[v]) \subseteq Range(rows)
    BY DEF WrittenInv, BatchIsWhole
  <2>2. CASE v # w
    <3>1. batch'[v] = batch[v] /\ mode'[v] = mode[v]
      BY <2>2 DEF FlushStep
    <3>. QED
      BY <1>2, <1>3, <2>1, <2>2, <3>1
  <2>3. CASE v = w /\ batch'[w] = <<>>
    BY <1>4, <2>3
  <2>4. CASE v = w /\ batch'[w] = batch[w] /\ mode'[w] \in {"flush", "park"}
    BY <1>2, <2>1, <2>4
  <2>. QED
    BY <2>2, <2>3, <2>4 DEF FlushStep
<1>. QED
  BY <1>5, <1>6 DEF WrittenInv

LEMMA WrittenInvariant ==
  TypeOK /\ NoEventVanishes /\ DrainInv /\ AcceptedOnce /\ WrittenInv /\ [Next]_vars
    => WrittenInv'
<1>. SUFFICES ASSUME TypeOK, NoEventVanishes, DrainInv, AcceptedOnce, WrittenInv, [Next]_vars
              PROVE  WrittenInv'
  OBVIOUS
<1>0. Accepted \subseteq Accepted'
  BY LogStep
<1>1. ASSUME rows' = rows, chan' = chan, batch' = batch,
             \A v \in Writer : \/ batch[v] = <<>> \/ mode'[v] = mode[v]
                                \/ mode[v] \in {"spawned", "select"}
      PROVE  WrittenInv'
  <2>1. Range(<<>>) = {}
    BY EmptySeq DEF Range
  <2>. QED
    BY <1>0, <1>1, <2>1 DEF WrittenInv, RowsAreAccepted, ChanIsUnwritten, BatchIsWhole
<1>2. ASSUME NEW c \in Call, CallStep(c)
      PROVE  WrittenInv'
  <2>1. CASE Enqueue(c)
    <3>1. rows' = rows /\ batch' = batch /\ mode' = mode /\ c \notin Accepted
      BY <2>1 DEF Enqueue, outsideVars, Accepted
    <3>2. ASSUME NEW v \in Writer
          PROVE  Range(chan'[v]) \subseteq Range(chan[v]) \cup {c}
      <4>1. chan'[v] = chan[v] \/ chan'[v] = Append(chan[v], c)
        BY <2>1 DEF Enqueue, TypeOK
      <4>2. chan[v] \in Seq(Call)
        BY DEF TypeOK
      <4>3. Range(Append(chan[v], c)) = Range(chan[v]) \cup {c}
        BY <1>2, <4>2, AppendRange
      <4>. QED
        BY <4>1, <4>3
    <3>3. c \notin Range(rows)
      BY <3>1 DEF WrittenInv, RowsAreAccepted
    <3>4. ChanIsUnwritten'
      BY <3>1, <3>2, <3>3 DEF WrittenInv, ChanIsUnwritten
    <3>. QED
      BY <1>0, <3>1, <3>4 DEF WrittenInv, RowsAreAccepted, BatchIsWhole
  <2>2. CASE Publish(c) \/ PublishFails(c) \/ EnqueueClosed(c) \/ Cancel(c)
    BY <1>1, <2>2
    DEF Publish, PublishFails, EnqueueClosed, Cancel, writerVars, outsideVars
  <2>. QED
    BY <1>2, <2>1, <2>2 DEF CallStep
<1>3. ASSUME NEW w \in Writer, WriterStep(w)
      PROVE  WrittenInv'
  <2>1. CASE Recv(w)
    <3>1. /\ mode[w] = "select" /\ rows' = rows /\ chan[w] # <<>>
          /\ batch'[w] = Append(batch[w], Head(chan[w])) /\ chan'[w] = Tail(chan[w])
          /\ \A v \in Writer \ {w} : /\ batch'[v] = batch[v] /\ chan'[v] = chan[v]
                                     /\ mode'[v] = mode[v]
      BY <2>1 DEF Recv, StartFlush, outsideVars, TypeOK
    <3>2. batch[w] \in Seq(Call) /\ chan[w] \in Seq(Call)
      BY DEF TypeOK
    <3>3. Head(chan[w]) \in Range(chan[w]) /\ Range(Tail(chan[w])) \subseteq Range(chan[w])
      BY <3>1, <3>2, HeadTailProperties, LenProperties DEF Range
    <3>4. Range(batch'[w]) = Range(batch[w]) \cup {Head(chan[w])}
      BY <3>1, <3>2, HeadTailProperties, AppendRange
    <3>5. Range(batch[w]) \cap Range(rows) = {} /\ Range(chan[w]) \cap Range(rows) = {}
      BY <3>1 DEF WrittenInv, BatchIsWhole, ChanIsUnwritten
    <3>6. Range(batch'[w]) \cap Range(rows) = {} /\ Range(chan'[w]) \cap Range(rows) = {}
      BY <3>1, <3>3, <3>4, <3>5
    <3>7. ASSUME NEW v \in Writer
          PROVE  /\ Range(chan'[v]) \cap Range(rows') = {}
                 /\ \/ Range(batch'[v]) \cap Range(rows') = {}
                    \/ /\ mode'[v] \in {"flush", "park"}
                       /\ Range(batch'[v]) \subseteq Range(rows')
      BY <3>1, <3>6 DEF WrittenInv, ChanIsUnwritten, BatchIsWhole
    <3>. QED
      BY <1>0, <3>1, <3>7 DEF WrittenInv, RowsAreAccepted, ChanIsUnwritten, BatchIsWhole
  <2>2. CASE FirstPoll(w) \/ RecvNone(w) \/ Tick(w)
    <3>1. /\ rows' = rows /\ chan' = chan /\ batch' = batch
          /\ mode[w] \in {"spawned", "select"}
      BY <2>2 DEF FirstPoll, RecvNone, Tick, outsideVars
    <3>2. \A v \in Writer \ {w} : mode'[v] = mode[v]
      BY <2>2 DEF FirstPoll, RecvNone, Tick, StartFlush, TypeOK
    <3>. QED
      BY <1>1, <3>1, <3>2
  <2>. QED
    BY <1>3, <2>1, <2>2, FlushSteps, FlushWritten DEF WriterStep
<1>4. CASE WithDeadLetter
  <2>1. rows' = rows /\ chan' = chan /\ batch' = batch
    BY <1>4 DEF WithDeadLetter, outsideVars
  <2>2. \A v \in Writer : mode'[v] = mode[v] \/ batch[v] = <<>>
    BY <1>4 DEF WithDeadLetter, TypeOK, DrainInv, CurIsStarted, EndedIsEmpty
  <2>. QED
    BY <1>1, <2>1, <2>2
<1>5. CASE DropStore \/ DrainDeadLetter \/ CloseDeadLetter \/ UNCHANGED vars
  BY <1>1, <1>5
  DEF DropStore, DrainDeadLetter, CloseDeadLetter, vars, writerVars, outsideVars
<1>6. CASE Crash
  <2>1. Range(<<>>) = {}
    BY EmptySeq DEF Range
  <2>2. \A v \in Writer : Range(chan'[v]) = {} /\ Range(batch'[v]) = {}
    BY <1>6, <2>1 DEF Crash
  <2>3. rows' = rows
    BY <1>6 DEF Crash
  <2>. QED
    BY <1>0, <2>2, <2>3 DEF WrittenInv, RowsAreAccepted, ChanIsUnwritten, BatchIsWhole
<1>7. ASSUME NEW w \in Writer, FirstPollPanics(w)
      PROVE  WrittenInv'
  <2>1. Range(<<>>) = {}
    BY EmptySeq DEF Range
  <2>2. /\ rows' = rows
        /\ \A v \in Writer :
             /\ Range(chan'[v]) = {} \/ chan'[v] = chan[v]
             /\ \/ Range(batch'[v]) = {}
                \/ (batch'[v] = batch[v] /\ mode'[v] = mode[v])
    BY <1>7, <2>1, PanicOutcome
  <2>. QED
    BY <1>0, <2>2 DEF WrittenInv, RowsAreAccepted, ChanIsUnwritten, BatchIsWhole
<1>. QED
  BY <1>2, <1>3, <1>4, <1>5, <1>6, <1>7 DEF Next

LEMMA WrittenInvHolds == Spec => []WrittenInv
<1>1. Init => WrittenInv
  <2>1. Range(<<>>) = {}
    BY EmptySeq DEF Range
  <2>. QED
    BY <2>1 DEF Init, WrittenInv, RowsAreAccepted, ChanIsUnwritten, BatchIsWhole
<1>. QED
  BY <1>1, WrittenInvariant, TypeCorrect, Conservation, DrainInvHolds, AcceptedOnceHolds, PTL
  DEF Spec

-----------------------------------------------------------------------------
(* The order of the table.                                                 *)

LEMMA BeyondTheFirst ==
  ASSUME NEW a \in Nat, NEW b \in Nat, NEW x \in 1..(a + b), x > a
  PROVE  \E y \in 1..b : x = a + y
<1>1. x - a \in 1..b /\ x = a + (x - a)
  OBVIOUS
<1>. QED
  BY <1>1

\* The rows of a batch join those of the calls accepted before them.
LEMMA RowsAppendOrder ==
  ASSUME TypeOK, NoEventVanishes, AcceptedOnce, WrittenInv, RowsInAcceptanceOrder,
         NEW w \in Writer, Insertable(w), rows' = rows \o batch[w], log' = log
  PROVE  RowsInAcceptanceOrder'
<1>1. PICK m \in Nat : m = Len(rows)
  BY LenProperties DEF TypeOK
<1>2. PICK n \in Nat, k \in Nat, r \in Nat :
        n = Len(settled[w]) /\ k = Len(batch[w]) /\ r = Len(chan[w])
  BY LogPositions
<1>3. /\ DOMAIN batch[w] = 1..k /\ DOMAIN chan[w] = 1..r /\ DOMAIN log[w] = 1..(n + k + r)
      /\ \A i \in 1..k : log[w][n + i] = batch[w][i]
      /\ \A i \in 1..r : log[w][n + k + i] = chan[w][i]
  BY <1>2, LogPositions
<1>4. /\ DOMAIN rows = 1..m /\ DOMAIN rows' = 1..(m + k)
      /\ \A i \in 1..m : rows'[i] = rows[i]
      /\ \A i \in 1..k : rows'[m + i] = batch[w][i]
  <2>1. rows \in Seq(Call) /\ batch[w] \in Seq(Call)
    BY DEF TypeOK
  <2>5. PICK s \in Seq(Call), t \in Seq(Call) : s = rows /\ t = batch[w]
    BY <2>1
  <2>2. PICK q \in Seq(Call) : q = s \o t
    BY ConcatPositions
  <2>3. /\ DOMAIN s = 1..Len(s) /\ DOMAIN q = 1..(Len(s) + Len(t))
        /\ \A i \in 1..Len(s) : q[i] = s[i]
        /\ \A i \in 1..Len(t) : q[Len(s) + i] = t[i]
    BY <2>2, ConcatPositions, LenProperties
  <2>4. Len(s) = m /\ Len(t) = k /\ rows' = q
    BY <1>1, <1>2, <2>2, <2>5
  <2>. QED
    BY <2>3, <2>4, <2>5
<1>. SUFFICES ASSUME NEW v \in Writer, NEW p \in DOMAIN log[v], NEW q \in DOMAIN log[v],
                     p < q, NEW i \in DOMAIN rows', NEW j \in DOMAIN rows',
                     rows'[i] = log[v][p], rows'[j] = log[v][q]
              PROVE  i < j
  BY DEF RowsInAcceptanceOrder
<1>5. ASSUME NEW x \in DOMAIN rows', x > m
      PROVE  \E y \in 1..k : /\ x = m + y /\ rows'[x] = log[w][n + y]
                             /\ n + y \in DOMAIN log[w]
  <2>0. x \in 1..(m + k)
    BY <1>4, Zenon
  <2>1. PICK y \in 1..k : x = m + y
    BY <1>5, <2>0, BeyondTheFirst
  <2>2. rows'[x] = log[w][n + y]
    BY <1>3, <1>4, <2>1
  <2>3. n + y \in 1..(n + k + r)
    OBVIOUS
  <2>. QED
    BY <1>3, <2>1, <2>2, <2>3
<1>6. CASE i <= m /\ j <= m
  BY <1>4, <1>6 DEF RowsInAcceptanceOrder
<1>7. CASE i <= m /\ j > m
  BY <1>4, <1>7
<1>8. CASE i > m /\ j > m
  <2>1. PICK x \in 1..k, y \in 1..k : /\ i = m + x /\ rows'[i] = log[w][n + x]
                                      /\ n + x \in DOMAIN log[w]
                                      /\ j = m + y /\ rows'[j] = log[w][n + y]
                                      /\ n + y \in DOMAIN log[w]
    BY <1>5, <1>8
  <2>2. p = n + x /\ q = n + y
    BY <2>1 DEF AcceptedOnce
  <2>. QED
    BY <2>1, <2>2
<1>9. CASE i > m /\ j <= m
  <2>1. PICK x \in 1..k : /\ i = m + x /\ rows'[i] = log[w][n + x]
                          /\ n + x \in DOMAIN log[w]
    BY <1>5, <1>9
  <2>2. v = w /\ p = n + x
    BY <2>1 DEF AcceptedOnce
  <2>3. j \in DOMAIN rows /\ rows[j] = log[w][q]
    BY <1>4, <1>9, <2>2
  <2>4. q \in Nat /\ n < q /\ q <= n + k + r
    BY <1>3, <2>2
  <2>5. CASE q <= n + k
    <3>0. n \in Nat /\ k \in Nat /\ q \in 1..(n + k) /\ q > n
      BY <2>4, <2>5
    <3>1. PICK y \in 1..k : q = n + y
      BY <3>0, BeyondTheFirst
    <3>2. batch[w][y] = rows[j]
      BY <1>3, <2>3, <3>1
    <3>. QED
      BY <1>3, <2>3, <3>2 DEF Insertable
  <2>6. CASE q > n + k
    <3>0. n + k \in Nat /\ r \in Nat /\ q \in 1..((n + k) + r) /\ q > n + k
      BY <2>4, <2>6
    <3>1. PICK y \in 1..r : q = (n + k) + y
      BY <3>0, BeyondTheFirst
    <3>2. chan[w][y] = rows[j]
      BY <1>3, <2>3, <3>1
    <3>3. chan[w][y] \in Range(chan[w]) /\ rows[j] \in Range(rows)
      BY <1>3, <2>3 DEF Range
    <3>. QED
      BY <3>2, <3>3 DEF WrittenInv, ChanIsUnwritten
  <2>. QED
    BY <2>4, <2>5, <2>6
<1>. QED
  BY <1>4, <1>6, <1>7, <1>8, <1>9

\* Outside a flush the table does not change.
LEMMA RowsStep ==
  ASSUME TypeOK, [Next]_vars
  PROVE  \/ rows' = rows
         \/ \E w \in Writer : Insertable(w) /\ rows' = rows \o batch[w] /\ log' = log
<1>1. ASSUME NEW c \in Call, CallStep(c)
      PROVE  rows' = rows
  BY <1>1 DEF CallStep, Publish, PublishFails, Enqueue, EnqueueClosed, Cancel, outsideVars
<1>2. ASSUME NEW w \in Writer, WriterStep(w)
      PROVE  \/ rows' = rows
             \/ Insertable(w) /\ rows' = rows \o batch[w] /\ log' = log
  BY <1>2, WriterSteps DEF FlushStep
<1>3. CASE \/ WithDeadLetter \/ DropStore \/ DrainDeadLetter \/ CloseDeadLetter
           \/ Crash \/ UNCHANGED vars
  BY <1>3 DEF WithDeadLetter, DropStore, DrainDeadLetter, CloseDeadLetter, Crash, vars,
     outsideVars
<1>4. ASSUME NEW w \in Writer, FirstPollPanics(w)
      PROVE  rows' = rows
  BY <1>4, PanicOutcome
<1>. QED
  BY <1>1, <1>2, <1>3, <1>4 DEF Next

LEMMA OrderInvariant ==
  TypeOK /\ NoEventVanishes /\ AcceptedOnce /\ WrittenInv /\ RowsInAcceptanceOrder /\ [Next]_vars
    => RowsInAcceptanceOrder'
<1>. SUFFICES ASSUME TypeOK, NoEventVanishes, AcceptedOnce, WrittenInv,
                     RowsInAcceptanceOrder, [Next]_vars
              PROVE  RowsInAcceptanceOrder'
  OBVIOUS
<1>1. CASE rows' = rows /\ log' = log
  BY <1>1 DEF RowsInAcceptanceOrder
<1>2. ASSUME NEW w \in Writer, Insertable(w), rows' = rows \o batch[w], log' = log
      PROVE  RowsInAcceptanceOrder'
  BY <1>2, RowsAppendOrder
<1>3. ASSUME NEW c \in Call, Enqueue(c), c \notin Accepted
      PROVE  RowsInAcceptanceOrder'
  <2>. SUFFICES ASSUME NEW v \in Writer, NEW p \in DOMAIN log'[v], NEW q \in DOMAIN log'[v],
                       p < q, NEW i \in DOMAIN rows, NEW j \in DOMAIN rows,
                       rows[i] = log'[v][p], rows[j] = log'[v][q]
                PROVE  i < j
    BY <1>3 DEF RowsInAcceptanceOrder, Enqueue, outsideVars
  <2>1. rows[i] # c /\ rows[j] # c
    BY <1>3 DEF WrittenInv, RowsAreAccepted, Range
  <2>2. PICK l \in Seq(Call) : l = log[v]
    BY DEF TypeOK
  <2>3. log'[v] = l \/ log'[v] = Append(l, c)
    BY <1>3, <2>2 DEF Enqueue, TypeOK
  <2>4. /\ Len(l) \in Nat /\ DOMAIN l = 1..Len(l)
        /\ DOMAIN Append(l, c) = 1..(Len(l) + 1) /\ Append(l, c)[Len(l) + 1] = c
        /\ \A x \in 1..Len(l) : Append(l, c)[x] = l[x]
    BY AppendProperties, LenProperties
  <2>5. p \in DOMAIN l /\ q \in DOMAIN l /\ l[p] = log'[v][p] /\ l[q] = log'[v][q]
    BY <2>1, <2>3, <2>4
  <2>. QED
    BY <2>2, <2>5 DEF RowsInAcceptanceOrder
<1>4. rows' = rows \/ log' = log
  BY RowsStep
<1>. QED
  BY <1>1, <1>2, <1>3, <1>4, LogStep, RowsStep

\* The table has the events of a writer in the order it accepted them, with
\* retried, unnoticed and dead-lettered batches in between (flush_batch).
THEOREM OrderedRows == Spec => []RowsInAcceptanceOrder
<1>1. Init => RowsInAcceptanceOrder
  BY EmptySeq DEF Init, RowsInAcceptanceOrder
<1>. QED
  BY <1>1, OrderInvariant, TypeCorrect, Conservation, AcceptedOnceHolds, WrittenInvHolds, PTL
  DEF Spec

-----------------------------------------------------------------------------
(* What a lost event takes.                                                *)

KeyRepeated == \E d, e \in wal : d # e /\ KeyOf[d] = KeyOf[e]

(***************************************************************************)
(* Where no key is saved twice, an attempt fails by an error of the        *)
(* database, which dbFaults counts, or because a commit whose answer was   *)
(* lost has put the batch into the table.                                  *)
(***************************************************************************)
FaultsCounted ==
  \A w \in Writer :
    /\ mode[w] = "flush" =>
         Range(batch[w]) \subseteq Range(rows) \/ attempt[w] <= dbFaults + 1
    /\ mode[w] = "park" =>
         Range(batch[w]) \subseteq Range(rows) \/ TotalAttempts <= dbFaults

\* A batch that repeats no key is refused only if it is in the table.
LEMMA RefusedIsWritten ==
  ASSUME TypeOK, NoEventVanishes, AcceptedOnce, WrittenInv, LoggedInv, ~KeyRepeated,
         NEW w \in Writer, ~Insertable(w)
  PROVE  Range(batch[w]) \subseteq Range(rows)
<1>1. Range(batch[w]) \subseteq wal
  <2>1. batch[w] \in Seq(Call) /\ chan[w] \in Seq(Call)
    BY DEF TypeOK
  <2>. QED
    BY <2>1, RangeConcatenation DEF LoggedInv, PendingLogged, Pending
<1>2. \A i, j \in DOMAIN batch[w] : i # j => KeyOf[batch[w][i]] # KeyOf[batch[w][j]]
  <2>. SUFFICES ASSUME NEW i \in DOMAIN batch[w], NEW j \in DOMAIN batch[w], i # j
                PROVE  KeyOf[batch[w][i]] # KeyOf[batch[w][j]]
    OBVIOUS
  <2>1. batch[w][i] # batch[w][j]
    BY HeldOnce
  <2>. QED
    BY <1>1, <2>1 DEF KeyRepeated, Range
<1>3. PICK i \in DOMAIN batch[w], r \in DOMAIN rows : KeyOf[batch[w][i]] = KeyOf[rows[r]]
  BY <1>2 DEF Insertable
<1>4. batch[w][i] = rows[r]
  BY <1>1, <1>3 DEF KeyRepeated, LoggedInv, Range
<1>. QED
  BY <1>4 DEF WrittenInv, BatchIsWhole, Range

\* A key, a row or an error of the database that was there stays.
LEMMA NothingForgotten ==
  ASSUME TypeOK, [Next]_vars
  PROVE  /\ KeyRepeated => KeyRepeated'
         /\ Range(rows) \subseteq Range(rows') /\ dbFaults <= dbFaults'
<1>1. wal \subseteq wal'
  <2>1. ASSUME NEW c \in Call, CallStep(c)
        PROVE  wal \subseteq wal'
    BY <2>1 DEF CallStep, Publish, PublishFails, Enqueue, EnqueueClosed, Cancel
  <2>2. ASSUME NEW w \in Writer, WriterStep(w)
        PROVE  wal' = wal
    BY <2>2, WriterOutcome
  <2>3. CASE \/ WithDeadLetter \/ DropStore \/ DrainDeadLetter \/ CloseDeadLetter
             \/ Crash \/ UNCHANGED vars
    BY <2>3 DEF WithDeadLetter, DropStore, DrainDeadLetter, CloseDeadLetter, Crash, vars,
       clientVars
  <2>4. ASSUME NEW w \in Writer, FirstPollPanics(w)
        PROVE  wal' = wal
    BY <2>4, PanicOutcome
  <2>. QED
    BY <2>1, <2>2, <2>3, <2>4 DEF Next
<1>2. Range(rows) \subseteq Range(rows')
  <2>1. ASSUME NEW w \in Writer
        PROVE  Range(rows) \subseteq Range(rows \o batch[w])
    <3>1. rows \in Seq(Call) /\ batch[w] \in Seq(Call)
      BY DEF TypeOK
    <3>. QED
      BY <3>1, RangeConcatenation
  <2>. QED
    BY <2>1, RowsStep
<1>3. dbFaults <= dbFaults'
  <2>1. dbFaults \in Nat
    BY DEF TypeOK
  <2>2. ASSUME NEW c \in Call, CallStep(c)
        PROVE  dbFaults' = dbFaults
    BY <2>2
    DEF CallStep, Publish, PublishFails, Enqueue, EnqueueClosed, Cancel, outsideVars
  <2>3. ASSUME NEW w \in Writer, WriterStep(w)
        PROVE  dbFaults' = dbFaults \/ dbFaults' = dbFaults + 1
    BY <2>3 DEF WriterStep, FirstPoll, Recv, RecvNone, Tick, FlushOk, FlushDuplicate, FlushFault,
       FlushCommitLost, DeadLetterSend, DeadLetterClosed, outsideVars
  <2>6. ASSUME NEW w \in Writer, FirstPollPanics(w)
        PROVE  dbFaults' = dbFaults
    BY <2>6, PanicOutcome
  <2>4. ASSUME \/ WithDeadLetter \/ DropStore \/ DrainDeadLetter \/ CloseDeadLetter
               \/ Crash \/ UNCHANGED vars
        PROVE  dbFaults' = dbFaults
    BY <2>4 DEF WithDeadLetter, DropStore, DrainDeadLetter, CloseDeadLetter, Crash, vars,
       outsideVars
  <2>5. dbFaults' = dbFaults \/ dbFaults' = dbFaults + 1
    BY <2>2, <2>3, <2>4, <2>6 DEF Next
  <2>. QED
    BY <2>1, <2>5
<1>. QED
  BY <1>1, <1>2, <1>3 DEF KeyRepeated

\* The events given up so far.
LossCounted ==
  \A c \in Call : fate[c] \in {"dead", "lost"} /\ c \notin Range(rows) => TotalAttempts <= dbFaults

LossInv == KeyRepeated \/ (FaultsCounted /\ LossCounted)

\* What FaultsCounted says of one writer.
Counted(w) ==
  /\ mode[w] = "flush" =>
       Range(batch[w]) \subseteq Range(rows) \/ attempt[w] <= dbFaults + 1
  /\ mode[w] = "park" =>
       Range(batch[w]) \subseteq Range(rows) \/ TotalAttempts <= dbFaults

\* A writer whose batch is not touched stays counted.
LEMMA StaysCounted ==
  ASSUME TypeOK, TypeOK', [Next]_vars, NEW w \in Writer, Counted(w),
         mode'[w] = mode[w], batch'[w] = batch[w], attempt'[w] = attempt[w]
  PROVE  Counted(w)'
<1>1. Range(rows) \subseteq Range(rows') /\ dbFaults <= dbFaults'
  BY NothingForgotten
<1>2. /\ dbFaults \in Nat /\ dbFaults' \in Nat /\ attempt[w] \in Nat
      /\ TotalAttempts \in Nat /\ TotalAttempts' = TotalAttempts
  BY DEF TypeOK, TotalAttempts
<1>3. CASE Range(batch[w]) \subseteq Range(rows)
  BY <1>1, <1>3 DEF Counted
<1>4. CASE ~(Range(batch[w]) \subseteq Range(rows))
  <2>1. mode[w] = "flush" => attempt[w] <= dbFaults' + 1
    BY <1>1, <1>2, <1>4 DEF Counted
  <2>2. mode[w] = "park" => TotalAttempts <= dbFaults'
    BY <1>1, <1>2, <1>4 DEF Counted
  <2>. QED
    BY <1>2, <2>1, <2>2 DEF Counted
<1>. QED
  BY <1>3, <1>4

\* A call whose fate was known stays counted; a batch that is settled is in
\* the table, or all attempts met an error.
LEMMA SettleCounted ==
  ASSUME TypeOK, TypeOK', [Next]_vars, FaultsCounted, LossCounted,
         NEW w \in Writer, NEW f, Settle(w, f), attempt' = attempt,
         f = "stored" \/ Range(batch[w]) \subseteq Range(rows') \/ TotalAttempts <= dbFaults'
  PROVE  FaultsCounted' /\ LossCounted'
<1>1. Range(rows) \subseteq Range(rows') /\ dbFaults <= dbFaults'
  BY NothingForgotten
<1>2. dbFaults \in Nat /\ dbFaults' \in Nat /\ TotalAttempts \in Nat
  BY DEF TypeOK, TotalAttempts
<1>3. FaultsCounted'
  <2>. SUFFICES ASSUME NEW v \in Writer
                PROVE  Counted(v)'
    BY DEF FaultsCounted, Counted
  <2>1. CASE v = w
    BY <2>1 DEF Settle, TypeOK, Counted
  <2>2. CASE v # w
    <3>1. mode'[v] = mode[v] /\ batch'[v] = batch[v] /\ attempt'[v] = attempt[v]
      BY <2>2 DEF Settle, TypeOK
    <3>. QED
      BY <3>1, StaysCounted DEF FaultsCounted, Counted
  <2>. QED
    BY <2>1, <2>2
<1>4. LossCounted'
  <2>. SUFFICES ASSUME NEW c \in Call, fate'[c] \in {"dead", "lost"}, c \notin Range(rows')
                PROVE  TotalAttempts <= dbFaults'
    BY DEF LossCounted, TotalAttempts
  <2>1. CASE c \in Range(batch[w])
    BY <2>1 DEF Settle
  <2>2. CASE c \notin Range(batch[w])
    <3>1. fate[c] \in {"dead", "lost"}
      BY <2>2 DEF Settle
    <3>2. TotalAttempts <= dbFaults
      BY <1>1, <3>1 DEF LossCounted
    <3>. QED
      BY <1>1, <1>2, <3>2
  <2>. QED
    BY <2>1, <2>2
<1>. QED
  BY <1>3, <1>4

\* Steps that settle nothing.
LEMMA FatesCounted ==
  ASSUME TypeOK, TypeOK', [Next]_vars, LossCounted, fate' = fate
  PROVE  LossCounted'
<1>1. Range(rows) \subseteq Range(rows') /\ dbFaults <= dbFaults'
  BY NothingForgotten
<1>2. dbFaults \in Nat /\ dbFaults' \in Nat /\ TotalAttempts \in Nat
  BY DEF TypeOK, TotalAttempts
<1>. SUFFICES ASSUME NEW c \in Call, fate[c] \in {"dead", "lost"}, c \notin Range(rows')
              PROVE  TotalAttempts <= dbFaults'
  BY DEF LossCounted, TotalAttempts
<1>3. TotalAttempts <= dbFaults
  BY <1>1 DEF LossCounted
<1>. QED
  BY <1>1, <1>2, <1>3

\* An attempt that failed for one of the two reasons.
LEMMA AttemptCounted ==
  ASSUME TypeOK, TypeOK', [Next]_vars, FaultsCounted, LossCounted,
         NEW w \in Writer, mode[w] = "flush", AttemptFailed(w),
         Range(batch[w]) \subseteq Range(rows') \/ attempt[w] <= dbFaults'
  PROVE  FaultsCounted' /\ LossCounted'
<1>1. /\ dbFaults' \in Nat /\ attempt[w] \in Nat /\ TotalAttempts \in Nat
      /\ TotalAttempts' = TotalAttempts
  BY DEF TypeOK, TotalAttempts
<1>2. ASSUME fate' = fate, batch' = batch, Counted(w)',
             \A v \in Writer \ {w} : mode'[v] = mode[v] /\ attempt'[v] = attempt[v]
      PROVE  FaultsCounted' /\ LossCounted'
  <2>1. ASSUME NEW v \in Writer
        PROVE  Counted(v)'
    <3>1. CASE v = w
      BY <1>2, <3>1
    <3>2. CASE v # w
      BY <1>2, <3>2, StaysCounted DEF FaultsCounted, Counted
    <3>. QED
      BY <3>1, <3>2
  <2>2. FaultsCounted'
    BY <2>1 DEF FaultsCounted, Counted
  <2>. QED
    BY <1>2, <2>2, FatesCounted
<1>3. CASE attempt[w] < TotalAttempts
  <2>1. /\ attempt' = [attempt EXCEPT ![w] = @ + 1]
        /\ batch' = batch /\ mode' = mode /\ fate' = fate
    BY <1>3 DEF AttemptFailed
  <2>2. attempt'[w] = attempt[w] + 1 /\ mode'[w] = "flush"
    BY <2>1 DEF TypeOK
  <2>3. Range(batch[w]) \subseteq Range(rows') \/ attempt'[w] <= dbFaults' + 1
    BY <1>1, <2>2
  <2>4. Counted(w)'
    BY <2>1, <2>2, <2>3 DEF Counted
  <2>. QED
    BY <1>2, <2>1, <2>4 DEF TypeOK
<1>4. CASE ~(attempt[w] < TotalAttempts)
  <2>1. Range(batch[w]) \subseteq Range(rows') \/ TotalAttempts <= dbFaults'
    BY <1>1, <1>4
  <2>2. attempt' = attempt
    BY <1>4 DEF AttemptFailed
  <2>3. CASE w = "dead_letter"
    <3>1. mode' = [mode EXCEPT ![w] = "park"] /\ batch' = batch /\ fate' = fate
      BY <1>4, <2>3 DEF AttemptFailed
    <3>2. mode'[w] = "park" /\ \A v \in Writer \ {w} : mode'[v] = mode[v]
      BY <3>1 DEF TypeOK
    <3>3. Counted(w)'
      BY <1>1, <2>1, <3>1, <3>2 DEF Counted
    <3>. QED
      BY <1>2, <2>2, <3>1, <3>2, <3>3
  <2>4. CASE w # "dead_letter"
    <3>1. Settle(w, "lost")
      BY <1>4, <2>4 DEF AttemptFailed
    <3>. QED
      BY <2>1, <2>2, <3>1, SettleCounted
  <2>. QED
    BY <2>3, <2>4
<1>. QED
  BY <1>3, <1>4

LEMMA LossInvariant ==
  TypeOK /\ TypeOK' /\ NoEventVanishes /\ AcceptedOnce /\ WrittenInv /\ LoggedInv
    /\ LossInv /\ [Next]_vars => LossInv'
<1>. SUFFICES ASSUME TypeOK, TypeOK', NoEventVanishes, AcceptedOnce, WrittenInv, LoggedInv,
                     FaultsCounted, LossCounted, ~KeyRepeated, [Next]_vars
              PROVE  FaultsCounted' /\ LossCounted'
  BY NothingForgotten DEF LossInv
<1>0. ASSUME fate' = fate, \A v \in Writer : \/ mode'[v] \notin {"flush", "park"}
                                             \/ /\ mode'[v] = mode[v] /\ batch'[v] = batch[v]
                                                /\ attempt'[v] = attempt[v]
                                             \/ mode'[v] = "flush" /\ attempt'[v] = 1
      PROVE  FaultsCounted' /\ LossCounted'
  <2>. SUFFICES ASSUME NEW v \in Writer
                PROVE  Counted(v)'
    BY <1>0, FatesCounted DEF FaultsCounted, Counted
  <2>1. dbFaults' \in Nat /\ \A n \in Nat : 1 <= n + 1
    BY DEF TypeOK
  <2>2. 1 <= dbFaults' + 1
    BY <2>1
  <2>3. CASE mode'[v] \notin {"flush", "park"}
    BY <2>3 DEF Counted
  <2>4. CASE mode'[v] = mode[v] /\ batch'[v] = batch[v] /\ attempt'[v] = attempt[v]
    BY <2>4, StaysCounted DEF FaultsCounted, Counted
  <2>5. CASE mode'[v] = "flush" /\ attempt'[v] = 1
    BY <2>2, <2>5 DEF Counted
  <2>. QED
    BY <1>0, <2>3, <2>4, <2>5
<1>1. ASSUME NEW c \in Call, CallStep(c)
      PROVE  FaultsCounted' /\ LossCounted'
  BY <1>0, <1>1
  DEF CallStep, Publish, PublishFails, Enqueue, EnqueueClosed, Cancel, writerVars, historyVars
<1>2. ASSUME NEW w \in Writer, WriterStep(w)
      PROVE  FaultsCounted' /\ LossCounted'
  <2>1. CASE FirstPoll(w) \/ Recv(w) \/ RecvNone(w) \/ Tick(w)
    <3>1. /\ fate' = fate /\ mode[w] \in {"spawned", "select"}
          /\ \A v \in Writer \ {w} : batch'[v] = batch[v]
      BY <2>1 DEF FirstPoll, Recv, RecvNone, Tick, historyVars, TypeOK
    <3>2. \/ UNCHANGED <<mode, attempt>>
          \/ \E final \in BOOLEAN : StartFlush(w, final)
          \/ \E m \in {"select", "exited"} : mode' = [mode EXCEPT ![w] = m] /\ attempt' = attempt
      BY <2>1 DEF FirstPoll, Recv, RecvNone, Tick
    <3>3. ASSUME NEW v \in Writer
          PROVE  \/ mode'[v] \notin {"flush", "park"}
                 \/ /\ mode'[v] = mode[v] /\ batch'[v] = batch[v]
                    /\ attempt'[v] = attempt[v]
                 \/ mode'[v] = "flush" /\ attempt'[v] = 1
      BY <3>1, <3>2 DEF StartFlush, TypeOK
    <3>. QED
      BY <1>0, <3>1, <3>3
  <2>2. CASE FlushOk(w)
    BY <2>2, SettleCounted DEF FlushOk
  <2>3. CASE FlushDuplicate(w)
    <3>1. /\ mode[w] = "flush" /\ AttemptFailed(w) /\ rows' = rows
          /\ Range(batch[w]) \subseteq Range(rows)
      BY <2>3, RefusedIsWritten DEF FlushDuplicate, outsideVars
    <3>. QED
      BY <3>1, AttemptCounted
  <2>4. CASE FlushFault(w)
    <3>1. /\ mode[w] = "flush" /\ AttemptFailed(w) /\ rows' = rows
          /\ dbFaults' = dbFaults + 1
      BY <2>4 DEF FlushFault
    <3>2. Range(batch[w]) \subseteq Range(rows') \/ attempt[w] <= dbFaults'
      BY <3>1 DEF FaultsCounted
    <3>. QED
      BY <3>1, <3>2, AttemptCounted
  <2>5. CASE FlushCommitLost(w)
    <3>1. mode[w] = "flush" /\ AttemptFailed(w) /\ rows' = rows \o batch[w]
      BY <2>5 DEF FlushCommitLost
    <3>2. rows \in Seq(Call) /\ batch[w] \in Seq(Call)
      BY DEF TypeOK
    <3>3. Range(batch[w]) \subseteq Range(rows')
      BY <3>1, <3>2, RangeConcatenation
    <3>. QED
      BY <3>1, <3>3, AttemptCounted
  <2>6. CASE DeadLetterSend(w) \/ DeadLetterClosed(w)
    <3>1. /\ mode[w] = "park" /\ attempt' = attempt /\ rows' = rows /\ dbFaults' = dbFaults
          /\ \E f : Settle(w, f)
      BY <2>6 DEF DeadLetterSend, DeadLetterClosed, outsideVars
    <3>2. Range(batch[w]) \subseteq Range(rows') \/ TotalAttempts <= dbFaults'
      BY <3>1 DEF FaultsCounted
    <3>. QED
      BY <3>1, <3>2, SettleCounted
  <2>. QED
    BY <1>2, <2>1, <2>2, <2>3, <2>4, <2>5, <2>6 DEF WriterStep
<1>3. CASE WithDeadLetter
  <2>1. batch' = batch /\ attempt' = attempt /\ fate' = fate
    BY <1>3 DEF WithDeadLetter, historyVars
  <2>2. ASSUME NEW v \in Writer
        PROVE  mode'[v] = mode[v] \/ mode'[v] = "spawned"
    BY <1>3 DEF WithDeadLetter, TypeOK
  <2>. QED
    BY <1>0, <2>1, <2>2
<1>4. CASE DropStore \/ DrainDeadLetter \/ CloseDeadLetter \/ UNCHANGED vars
  BY <1>0, <1>4
  DEF DropStore, DrainDeadLetter, CloseDeadLetter, vars, writerVars, historyVars
<1>5. CASE Crash
  <2>1. \A v \in Writer : mode'[v] \notin {"flush", "park"}
    BY <1>5 DEF Crash
  <2>2. FaultsCounted'
    BY <2>1 DEF FaultsCounted
  <2>3. /\ \A c \in Call : fate'[c] \in {"dead", "lost"} => fate[c] \in {"dead", "lost"}
        /\ rows' = rows /\ dbFaults' = dbFaults
    BY <1>5 DEF Crash, TypeOK
  <2>4. LossCounted'
    BY <2>3 DEF LossCounted, TotalAttempts
  <2>. QED
    BY <2>2, <2>4
<1>6. ASSUME NEW w \in Writer, FirstPollPanics(w)
      PROVE  FaultsCounted' /\ LossCounted'
  <2>1. FaultsCounted'
    <3>. SUFFICES ASSUME NEW v \in Writer
                  PROVE  Counted(v)'
      BY DEF FaultsCounted, Counted
    <3>1. CASE v = w
      BY <1>6, <3>1, PanicOutcome DEF Counted
    <3>2. CASE v # w
      BY <1>6, <3>2, PanicOutcome, StaysCounted DEF FaultsCounted, Counted
    <3>. QED
      BY <3>1, <3>2
  <2>2. \A c \in Call : fate'[c] \in {"dead", "lost"} => fate[c] \in {"dead", "lost"}
    BY <1>6 DEF FirstPollPanics, TypeOK
  <2>3. LossCounted'
    BY <1>6, <2>2, PanicOutcome DEF LossCounted, TotalAttempts
  <2>. QED
    BY <2>1, <2>3
<1>. QED
  BY <1>1, <1>2, <1>3, <1>4, <1>5, <1>6 DEF Next

\* Only a writer with a linger of zero drops what it has.
DroppedAtZero ==
  \A c \in Call : fate[c] = "dropped" => \E w \in Writer : Linger(w) = 0

LEMMA DroppedInvariant == TypeOK /\ DroppedAtZero /\ [Next]_vars => DroppedAtZero'
<1>. SUFFICES ASSUME TypeOK, DroppedAtZero, [Next]_vars,
                     NEW c \in Call, fate'[c] = "dropped"
              PROVE  \E w \in Writer : Linger(w)' = 0
  BY DEF DroppedAtZero
<1>1. \A w \in Writer : Linger(w)' = Linger(w)
  BY ConfigIsFixed DEF Linger
<1>2. CASE fate[c] = "dropped"
  BY <1>1, <1>2 DEF DroppedAtZero
<1>3. CASE fate[c] # "dropped"
  <2>1. ASSUME NEW d \in Call, CallStep(d)
        PROVE  FALSE
    BY <1>3, <2>1
    DEF CallStep, Publish, PublishFails, Enqueue, EnqueueClosed, Cancel, historyVars
  <2>2. ASSUME NEW w \in Writer, WriterStep(w)
        PROVE  FALSE
    BY <1>3, <2>2, WriterOutcome DEF Settle
  <2>3. CASE \/ WithDeadLetter \/ DropStore \/ DrainDeadLetter \/ CloseDeadLetter
             \/ Crash \/ UNCHANGED vars
    BY <1>3, <2>3 DEF WithDeadLetter, DropStore, DrainDeadLetter, CloseDeadLetter, Crash, vars,
       historyVars
  <2>4. ASSUME NEW w \in Writer, FirstPollPanics(w)
        PROVE  Linger(w) = 0
    BY <2>4 DEF FirstPollPanics
  <2>. QED
    BY <1>1, <2>1, <2>2, <2>3, <2>4 DEF Next
<1>. QED
  BY <1>2, <1>3

\* An event without a row is given up only once the database has failed as often
\* as a batch is tried, or where a key is saved twice; the duplicate that follows
\* an unnoticed commit loses nothing (flush_batch_with_retry).  It is dropped with
\* a writer's receiver only at a linger of zero (run_tidb_batch_writer).
THEOREM LossIsEarned == Spec => []LossNeedsExhaustedRetries
<1>1. Init => LossInv /\ DroppedAtZero
  BY DEF Init, LossInv, FaultsCounted, LossCounted, DroppedAtZero
<1>2. LossInv /\ DroppedAtZero => LossNeedsExhaustedRetries
  <2>1. TotalAttempts <= dbFaults => dbFaults >= RetryDelays + 1
    BY DEF TotalAttempts
  <2>. QED
    BY <2>1
    DEF LossInv, KeyRepeated, LossCounted, DroppedAtZero, LossNeedsExhaustedRetries, Range
<1>. QED
  BY <1>1, <1>2, LossInvariant, DroppedInvariant, TypeCorrect, Conservation, AcceptedOnceHolds, WrittenInvHolds,
     LoggedInvHolds, PTL DEF Spec

===============================================================================
