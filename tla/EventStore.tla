------------------------------ MODULE EventStore ------------------------------
(***************************************************************************)
(* The event pipeline of durable_event_store.rs: calls of                  *)
(* SkialithStore::save_event publish to the JetStream log and push the     *)
(* event on a bounded mpsc channel; a background task, the batch writer,   *)
(* collects batches and inserts them into the table agent_events, retrying *)
(* a failed batch and then handing it to the dead-letter channel, or       *)
(* giving it up.                                                           *)
(*                                                                         *)
(* A store starts with the writer spawned by `new' ("plain", no            *)
(* dead-letter channel); `with_dead_letter' replaces it by a second one    *)
(* ("dead_letter") while the first drains what it already received.        *)
(***************************************************************************)
EXTENDS Naturals, Sequences, Functions

CONSTANTS
  Call,              \* the save_event calls of the run
  Key,               \* the (agent_id, event_id) pairs
  KeyOf,             \* the pair each call saves; two calls of one pair: a retry
  Configs,           \* the values of SkialithConfig a store may be given
  Default,           \* SkialithConfig::default()
  BatchCap,          \* limits::MAX_BATCH_SIZE
  MinLinger,         \* limits::MIN_FLUSH_INTERVAL_MS
  RetryDelays,       \* retry_strategy().take(3)
  DeadLetterCapacity,\* capacity of the channel given to with_dead_letter
  MaxDbFaults,       \* bound: database errors in a behaviour
  MaxCrashes         \* bound: crashes of the process in a behaviour

SkialithConfig == [max_batch_size : Nat, max_batch_linger : Nat,
                   channel_capacity : Nat \ {0}]

ASSUME EventStoreAssumption ==
  /\ KeyOf \in [Call -> Key]
  /\ Configs \subseteq SkialithConfig /\ Default \in SkialithConfig
  /\ DeadLetterCapacity \in Nat \ {0}
  /\ BatchCap \in Nat /\ MinLinger \in Nat /\ RetryDelays \in Nat
  /\ MaxDbFaults \in Nat /\ MaxCrashes \in Nat

Writer == {"plain", "dead_letter"}
Fate   == {"none", "stored", "dead", "lost", "dropped", "crashed"}
Mode   == {"absent", "spawned", "select", "flush", "park", "exited"}

VARIABLES
  cfg,       \* the SkialithConfig given to `new'
  pc,        \* where each call is: before or after its publish, or finished
  wal,       \* calls whose message the stream holds
  cur,       \* the writer enqueue_tx feeds; "none" once the store is dropped
  chan,      \* per writer: the mpsc channel
  batch,     \* per writer: the Vec `batch' (`failed' while it is parked)
  mode,      \* per writer: which await the task is at
  attempt,   \* per writer: number of the current insert attempt
  last,      \* per writer: this flush is the one of the closed-channel arm
  rows,      \* agent_events, in insertion order
  dlq,       \* batches waiting in the dead-letter channel
  dlOpen,    \* the dead-letter receiver still exists
  dbFaults,  \* database errors so far
  crashes,   \* crashes so far
  log,       \* history, per writer: calls accepted, in the order of send
  settled,   \* history, per writer: calls the writer has disposed of, in order
  fate       \* history: how each call was disposed of

clientVars  == <<pc, wal, cur>>
writerVars  == <<chan, batch, mode, attempt, last>>
outsideVars == <<cfg, rows, dlq, dlOpen, dbFaults, crashes>>
historyVars == <<log, settled, fate>>
vars == <<clientVars, writerVars, outsideVars, historyVars>>

(***************************************************************************)
(* What `new' and `with_dead_letter' configure a writer with.  Only `new'  *)
(* clamps: with_dead_letter passes SkialithConfig::default() as it is.     *)
(***************************************************************************)
BatchLimit(w) ==
  IF w = "dead_letter" THEN Default.max_batch_size
  ELSE IF cfg.max_batch_size < BatchCap THEN cfg.max_batch_size ELSE BatchCap

Linger(w) ==
  IF w = "dead_letter" THEN Default.max_batch_linger
  ELSE IF cfg.max_batch_linger > MinLinger THEN cfg.max_batch_linger ELSE MinLinger

Capacity(w) ==
  IF w = "dead_letter" THEN Default.channel_capacity ELSE cfg.channel_capacity

\* Mutation: the attempt after the last delay is forgotten.
DelaysOnly == RetryDelays

TotalAttempts == RetryDelays + 1

\* The dead-letter channel is the embedding program's: another store of it may
\* have put batches there before.
Init ==
  /\ cfg \in Configs
  /\ pc = [c \in Call |-> "idle"]
  /\ wal = {}
  /\ cur = "plain"
  /\ chan = [w \in Writer |-> <<>>]
  /\ batch = [w \in Writer |-> <<>>]
  /\ mode = [w \in Writer |-> IF w = "plain" THEN "spawned" ELSE "absent"]
  /\ attempt = [w \in Writer |-> 0]
  /\ last = [w \in Writer |-> FALSE]
  /\ rows = <<>>
  /\ dlq \in 0..DeadLetterCapacity
  /\ dlOpen = TRUE
  /\ dbFaults = 0
  /\ crashes = 0
  /\ log = [w \in Writer |-> <<>>]
  /\ settled = [w \in Writer |-> <<>>]
  /\ fate = [c \in Call |-> "none"]

-----------------------------------------------------------------------------
(* save_event.  The rate limiter's wait is before the first visible step.  *)

\* Mutation: the PubAck is not awaited.
PublishUnacked(c) ==
  /\ pc[c] = "idle" /\ cur # "none"
  /\ pc' = [pc EXCEPT ![c] = "enqueue"]
  /\ wal' \in {wal, wal \cup {c}}
  /\ UNCHANGED <<cur, writerVars, outsideVars, historyVars>>

\* The publish is acknowledged; the handler goes on to the channel.
Publish(c) ==
  /\ pc[c] = "idle" /\ cur # "none"
  /\ pc' = [pc EXCEPT ![c] = "enqueue"]
  /\ wal' = wal \cup {c}
  /\ UNCHANGED <<cur, writerVars, outsideVars, historyVars>>

\* publish(..).await?.await? returns an error.  The message may be in the
\* stream all the same, when only the PubAck was lost.
PublishFails(c) ==
  /\ pc[c] = "idle" /\ cur # "none"
  /\ pc' = [pc EXCEPT ![c] = "failed"]
  /\ wal' \in {wal, wal \cup {c}}
  /\ UNCHANGED <<cur, writerVars, outsideVars, historyVars>>

\* send().await: waits for a free slot of the channel.
Enqueue(c) ==
  /\ pc[c] = "enqueue"
  /\ mode[cur] # "exited"
  /\ Len(chan[cur]) < Capacity(cur)
  /\ pc' = [pc EXCEPT ![c] = "accepted"]
  /\ chan' = [chan EXCEPT ![cur] = Append(@, c)]
  /\ log' = [log EXCEPT ![cur] = Append(@, c)]
  /\ UNCHANGED <<wal, cur, batch, mode, attempt, last, outsideVars, settled, fate>>

\* Mutation: a send to a writer that is gone waits for ever.
EnqueueWaits(c) ==
  /\ pc[c] = "enqueue" /\ mode[cur] = "exited"
  /\ UNCHANGED vars

\* The receiver is gone: SkialithError::QueueClosed.
EnqueueClosed(c) ==
  /\ pc[c] = "enqueue"
  /\ mode[cur] = "exited"
  /\ pc' = [pc EXCEPT ![c] = "failed"]
  /\ UNCHANGED <<wal, cur, writerVars, outsideVars, historyVars>>

\* The future of the handler is dropped at an await (the client hung up).
Cancel(c) ==
  /\ pc[c] = "enqueue"
  /\ pc' = [pc EXCEPT ![c] = "cancelled"]
  /\ UNCHANGED <<wal, cur, writerVars, outsideVars, historyVars>>

-----------------------------------------------------------------------------
(* The owner of the store.  Both operations take `self', so no call of     *)
(* save_event, which borrows it, can be in flight.                         *)

NoCallInFlight == \A c \in Call : pc[c] # "enqueue"

\* The new sender replaces enqueue_tx; dropping the old one closes the old
\* channel, whose writer drains it on its own.
WithDeadLetter ==
  /\ cur = "plain" /\ NoCallInFlight
  /\ cur' = "dead_letter"
  /\ mode' = [mode EXCEPT !["dead_letter"] = "spawned"]
  /\ UNCHANGED <<pc, wal, chan, batch, attempt, last, outsideVars, historyVars>>

DropStore ==
  /\ cur # "none" /\ NoCallInFlight
  /\ cur' = "none"
  /\ UNCHANGED <<pc, wal, writerVars, outsideVars, historyVars>>

-----------------------------------------------------------------------------
(* run_tidb_batch_writer.  The channel takes events from the spawn on, also *)
(* before the task is polled for the first time.                           *)

\* The first poll: interval() makes the ticker, and the loop begins.
FirstPoll(w) ==
  /\ mode[w] = "spawned" /\ Linger(w) # 0
  /\ mode' = [mode EXCEPT ![w] = "select"]
  /\ UNCHANGED <<clientVars, chan, batch, attempt, last, outsideVars, historyVars>>

\* interval() panics on a zero period: the task drops its batch, still empty,
\* and its receiver with the events sent so far, whose save_event returned Ok.
FirstPollPanics(w) ==
  /\ mode[w] = "spawned" /\ Linger(w) = 0
  /\ mode' = [mode EXCEPT ![w] = "exited"]
  /\ batch' = [batch EXCEPT ![w] = <<>>]
  /\ chan' = [chan EXCEPT ![w] = <<>>]
  /\ settled' = [settled EXCEPT ![w] = @ \o (batch[w] \o chan[w])]
  /\ fate' = [c \in Call |->
                IF c \in Range(batch[w] \o chan[w]) THEN "dropped" ELSE fate[c]]
  /\ UNCHANGED <<clientVars, attempt, last, outsideVars, log>>

StartFlush(w, final) ==
  /\ mode' = [mode EXCEPT ![w] = "flush"]
  /\ attempt' = [attempt EXCEPT ![w] = 1]
  /\ last' = [last EXCEPT ![w] = final]

\* Mutation: a batch is flushed when it exceeds the limit.
RecvOffByOne(w) ==
  /\ mode[w] = "select" /\ chan[w] # <<>>
  /\ batch' = [batch EXCEPT ![w] = Append(@, Head(chan[w]))]
  /\ chan' = [chan EXCEPT ![w] = Tail(@)]
  /\ IF Len(batch'[w]) > BatchLimit(w)
       THEN StartFlush(w, FALSE)
       ELSE UNCHANGED <<mode, attempt, last>>
  /\ UNCHANGED <<clientVars, outsideVars, historyVars>>

\* Mutation: an event is put in front of the ones received before it.
RecvInFront(w) ==
  /\ mode[w] = "select" /\ chan[w] # <<>>
  /\ batch' = [batch EXCEPT ![w] = <<Head(chan[w])>> \o @]
  /\ chan' = [chan EXCEPT ![w] = Tail(@)]
  /\ IF Len(batch'[w]) >= BatchLimit(w)
       THEN StartFlush(w, FALSE)
       ELSE UNCHANGED <<mode, attempt, last>>
  /\ UNCHANGED <<clientVars, outsideVars, historyVars>>

\* rx.recv() yields an event; a full batch is flushed in the same arm.
Recv(w) ==
  /\ mode[w] = "select" /\ chan[w] # <<>>
  /\ batch' = [batch EXCEPT ![w] = Append(@, Head(chan[w]))]
  /\ chan' = [chan EXCEPT ![w] = Tail(@)]
  /\ IF Len(batch'[w]) >= BatchLimit(w)
       THEN StartFlush(w, FALSE)
       ELSE UNCHANGED <<mode, attempt, last>>
  /\ UNCHANGED <<clientVars, outsideVars, historyVars>>

\* Mutation: the closed-channel arm breaks without flushing.
RecvNoneBreaks(w) ==
  /\ mode[w] = "select" /\ chan[w] = <<>> /\ cur # w
  /\ mode' = [mode EXCEPT ![w] = "exited"]
  /\ UNCHANGED <<clientVars, chan, batch, attempt, last, outsideVars, historyVars>>

\* rx.recv() yields None: the sender is dropped and the channel is drained.
RecvNone(w) ==
  /\ mode[w] = "select" /\ chan[w] = <<>> /\ cur # w
  /\ IF batch[w] # <<>>
       THEN StartFlush(w, TRUE)
       ELSE mode' = [mode EXCEPT ![w] = "exited"] /\ UNCHANGED <<attempt, last>>
  /\ UNCHANGED <<clientVars, chan, batch, outsideVars, historyVars>>

\* Mutation: the tick flushes full batches only.
TickWhenFull(w) ==
  /\ mode[w] = "select" /\ batch[w] # <<>> /\ Len(batch[w]) >= BatchLimit(w)
  /\ StartFlush(w, FALSE)
  /\ UNCHANGED <<clientVars, chan, batch, outsideVars, historyVars>>

\* ticker.tick(); with an empty batch the arm does nothing.
Tick(w) ==
  /\ mode[w] = "select" /\ batch[w] # <<>>
  /\ StartFlush(w, FALSE)
  /\ UNCHANGED <<clientVars, chan, batch, outsideVars, historyVars>>

-----------------------------------------------------------------------------
(* flush_batch_with_retry and flush_batch.                                 *)

\* The batch leaves the writer; its task goes back to select, or ends.
Settle(w, f) ==
  /\ batch' = [batch EXCEPT ![w] = <<>>]
  /\ mode' = [mode EXCEPT ![w] = IF last[w] THEN "exited" ELSE "select"]
  /\ settled' = [settled EXCEPT ![w] = @ \o batch[w]]
  /\ fate' = [c \in Call |-> IF c \in Range(batch[w]) THEN f ELSE fate[c]]

\* One multi-row INSERT: it succeeds only if uq_agent_event accepts every row.
Insertable(w) ==
  /\ \A i, j \in DOMAIN batch[w] :
       i # j => KeyOf[batch[w][i]] # KeyOf[batch[w][j]]
  /\ \A i \in DOMAIN batch[w], r \in DOMAIN rows :
       KeyOf[batch[w][i]] # KeyOf[rows[r]]

\* Mutation: the attempts are counted from zero.
AttemptFailedOnceMore(w) ==
  IF attempt[w] <= TotalAttempts
    THEN /\ attempt' = [attempt EXCEPT ![w] = @ + 1]
         /\ UNCHANGED <<batch, mode, settled, fate>>
    ELSE /\ UNCHANGED attempt
         /\ IF w = "dead_letter"
              THEN /\ mode' = [mode EXCEPT ![w] = "park"]
                   /\ UNCHANGED <<batch, settled, fate>>
              ELSE Settle(w, "lost")

\* flush_batch returned Err: sleep and try again, or the last attempt is over
\* and the batch goes to the dead-letter channel or is given up.
AttemptFailed(w) ==
  IF attempt[w] < TotalAttempts
    THEN /\ attempt' = [attempt EXCEPT ![w] = @ + 1]
         /\ UNCHANGED <<batch, mode, settled, fate>>
    ELSE /\ UNCHANGED attempt
         /\ IF w = "dead_letter"
              THEN /\ mode' = [mode EXCEPT ![w] = "park"]
                   /\ UNCHANGED <<batch, settled, fate>>
              ELSE Settle(w, "lost")

FlushOk(w) ==
  /\ mode[w] = "flush" /\ Insertable(w)
  /\ rows' = rows \o batch[w]
  /\ Settle(w, "stored")
  /\ UNCHANGED <<cfg, clientVars, chan, attempt, last, dlq, dlOpen, dbFaults, crashes, log>>

\* A row of the batch repeats a key: the INSERT fails as a whole.
FlushDuplicate(w) ==
  /\ mode[w] = "flush" /\ ~Insertable(w)
  /\ AttemptFailed(w)
  /\ UNCHANGED <<clientVars, chan, last, outsideVars, log>>

\* Mutation: the batch is cleared before the transaction is known to be done.
FlushFaultClears(w) ==
  /\ mode[w] = "flush" /\ dbFaults < MaxDbFaults
  /\ dbFaults' = dbFaults + 1
  /\ batch' = [batch EXCEPT ![w] = <<>>]
  /\ mode' = [mode EXCEPT ![w] = "select"]
  /\ UNCHANGED <<cfg, clientVars, chan, attempt, last, rows, dlq, dlOpen, crashes, historyVars>>

\* Mutation: a failed batch goes back to the end of the channel.
FlushFaultRequeues(w) ==
  /\ mode[w] = "flush" /\ dbFaults < MaxDbFaults
  /\ dbFaults' = dbFaults + 1
  /\ chan' = [chan EXCEPT ![w] = @ \o batch[w]]
  /\ batch' = [batch EXCEPT ![w] = <<>>]
  /\ mode' = [mode EXCEPT ![w] = "select"]
  /\ UNCHANGED <<cfg, clientVars, attempt, last, rows, dlq, dlOpen, crashes, historyVars>>

\* Mutation: the result of commit() is not looked at.
FlushFaultIgnored(w) ==
  /\ mode[w] = "flush" /\ dbFaults < MaxDbFaults
  /\ dbFaults' = dbFaults + 1
  /\ Settle(w, "stored")
  /\ UNCHANGED <<cfg, clientVars, chan, attempt, last, rows, dlq, dlOpen, crashes, log>>

\* No connection, or begin, execute or commit fails without an effect.
FlushFault(w) ==
  /\ mode[w] = "flush" /\ dbFaults < MaxDbFaults
  /\ dbFaults' = dbFaults + 1
  /\ AttemptFailed(w)
  /\ UNCHANGED <<cfg, clientVars, chan, last, rows, dlq, dlOpen, crashes, log>>

\* commit() took effect but its answer was lost: the batch is not cleared.
FlushCommitLost(w) ==
  /\ mode[w] = "flush" /\ Insertable(w) /\ dbFaults < MaxDbFaults
  /\ dbFaults' = dbFaults + 1
  /\ rows' = rows \o batch[w]
  /\ AttemptFailed(w)
  /\ UNCHANGED <<cfg, clientVars, chan, last, dlq, dlOpen, crashes, log>>

Flush(w) == FlushOk(w) \/ FlushDuplicate(w) \/ FlushFault(w) \/ FlushCommitLost(w)

\* Mutation: the dead-letter channel gets a copy, the batch is not taken.
DeadLetterCopies(w) ==
  /\ mode[w] = "park"
  /\ dlOpen /\ dlq < DeadLetterCapacity
  /\ dlq' = dlq + 1
  /\ mode' = [mode EXCEPT ![w] = "select"]
  /\ fate' = [c \in Call |-> IF c \in Range(batch[w]) THEN "dead" ELSE fate[c]]
  /\ UNCHANGED <<cfg, clientVars, chan, batch, attempt, last, rows, dlOpen, dbFaults,
                 crashes, log, settled>>

\* tx.send(failed).await: waits while the dead-letter channel is full.
DeadLetterSend(w) ==
  /\ mode[w] = "park"
  /\ dlOpen /\ dlq < DeadLetterCapacity
  /\ dlq' = dlq + 1
  /\ Settle(w, "dead")
  /\ UNCHANGED <<cfg, clientVars, chan, attempt, last, rows, dlOpen, dbFaults, crashes, log>>

\* tx.send(..) is an error: the consumer is gone, "events lost".
DeadLetterClosed(w) ==
  /\ mode[w] = "park"
  /\ ~dlOpen
  /\ Settle(w, "lost")
  /\ UNCHANGED <<clientVars, chan, attempt, last, outsideVars, log>>

-----------------------------------------------------------------------------
(* Outside the store: the dead-letter consumer, and crashes.               *)

DrainDeadLetter ==
  /\ dlq > 0
  /\ dlq' = dlq - 1
  /\ UNCHANGED <<cfg, clientVars, writerVars, rows, dlOpen, dbFaults, crashes, historyVars>>

CloseDeadLetter ==
  /\ mode["dead_letter"] # "absent" /\ dlOpen
  /\ dlOpen' = FALSE
  /\ dlq' = 0
  /\ UNCHANGED <<cfg, clientVars, writerVars, rows, dbFaults, crashes, historyVars>>

\* The process dies and is started again: a new store with a plain writer.
\* Nothing is read back from the stream into agent_events.
Crash ==
  /\ crashes < MaxCrashes
  /\ crashes' = crashes + 1
  /\ pc' = [c \in Call |-> IF pc[c] = "enqueue" THEN "failed" ELSE pc[c]]
  /\ cur' = "plain"
  /\ settled' = [w \in Writer |-> settled[w] \o (batch[w] \o chan[w])]
  /\ fate' = [c \in Call |->
                IF \E w \in Writer : c \in Range(batch[w] \o chan[w])
                  THEN "crashed" ELSE fate[c]]
  /\ chan' = [w \in Writer |-> <<>>]
  /\ batch' = [w \in Writer |-> <<>>]
  /\ mode' = [w \in Writer |-> IF w = "plain" THEN "spawned" ELSE "absent"]
  /\ attempt' = [w \in Writer |-> 0]
  /\ last' = [w \in Writer |-> FALSE]
  /\ dlq' = 0
  /\ dlOpen' = TRUE
  /\ UNCHANGED <<cfg, wal, rows, dbFaults, log>>

-----------------------------------------------------------------------------
CallStep(c) ==
  \/ Publish(c) \/ PublishFails(c)
  \/ Enqueue(c) \/ EnqueueClosed(c) \/ Cancel(c)

WriterStep(w) ==
  \/ FirstPoll(w) \/ Recv(w) \/ RecvNone(w) \/ Tick(w)
  \/ FlushOk(w) \/ FlushDuplicate(w) \/ FlushFault(w) \/ FlushCommitLost(w)
  \/ DeadLetterSend(w) \/ DeadLetterClosed(w)

Next ==
  \/ \E c \in Call : CallStep(c)
  \/ \E w \in Writer : WriterStep(w) \/ FirstPollPanics(w)
  \/ WithDeadLetter \/ DropStore
  \/ DrainDeadLetter \/ CloseDeadLetter
  \/ Crash

Spec == Init /\ [][Next]_vars

(***************************************************************************)
(* tokio polls a task that is ready: a new one, a pending send, each arm   *)
(* of the writer's select! and each await of a flush make progress.  The   *)
(* dead-letter consumer is the embedding program's; it is assumed to read. *)
(***************************************************************************)
Fairness ==
  /\ \A c \in Call : WF_vars(Enqueue(c) \/ EnqueueClosed(c))
  /\ \A w \in Writer :
       /\ WF_vars(FirstPoll(w) \/ FirstPollPanics(w))
       /\ WF_vars(Recv(w)) /\ WF_vars(RecvNone(w)) /\ WF_vars(Tick(w))
       /\ WF_vars(Flush(w))
       /\ WF_vars(DeadLetterSend(w) \/ DeadLetterClosed(w))
  /\ WF_vars(DrainDeadLetter)

FairSpec == Spec /\ Fairness

-----------------------------------------------------------------------------
TypeOK ==
  /\ cfg \in Configs
  /\ pc \in [Call -> {"idle", "enqueue", "accepted", "failed", "cancelled"}]
  /\ wal \in SUBSET Call
  /\ cur \in Writer \cup {"none"}
  /\ chan \in [Writer -> Seq(Call)]
  /\ batch \in [Writer -> Seq(Call)]
  /\ mode \in [Writer -> Mode]
  /\ attempt \in [Writer -> 0..TotalAttempts]
  /\ last \in [Writer -> BOOLEAN]
  /\ rows \in Seq(Call)
  /\ dlq \in 0..DeadLetterCapacity
  /\ dlOpen \in BOOLEAN
  /\ dbFaults \in 0..MaxDbFaults
  /\ crashes \in 0..MaxCrashes
  /\ log \in [Writer -> Seq(Call)]
  /\ settled \in [Writer -> Seq(Call)]
  /\ fate \in [Call -> Fate]

\* The calls a writer has received and not disposed of, oldest first.
Pending(w) == batch[w] \o chan[w]

(***************************************************************************)
(* Properties.                                                             *)
(***************************************************************************)

\* Every event the channel accepted is, in the order of acceptance, either
\* disposed of or still in the writer's hands: no path through select!, the
\* retries, mem::take, the dead-letter switch or a failed flush drops,
\* duplicates or reorders one (run_tidb_batch_writer, flush_batch_with_retry).
NoEventVanishes ==
  \A w \in Writer : log[w] = settled[w] \o Pending(w)

\* The log is written ahead of the table: an event save_event took or a row
\* of agent_events has its message in the stream (save_event's publish
\* precedes its send).
LoggedBeforeTable ==
  /\ \A c \in Call : pc[c] \in {"enqueue", "accepted"} => c \in wal
  /\ \A i \in DOMAIN rows : rows[i] \in wal

\* Two events of one writer are inserted in the order it accepted them,
\* whatever retries and dead-lettered batches came in between.
RowsInAcceptanceOrder ==
  \A w \in Writer : \A p, q \in DOMAIN log[w] : p < q =>
    \A i, j \in DOMAIN rows :
      rows[i] = log[w][p] /\ rows[j] = log[w][q] => i < j

\* A batch that is cleared as written is in the table, also when the commit
\* of an earlier attempt took effect unnoticed (flush_batch clears the batch
\* after commit() only).
StoredHasRow ==
  \A c \in Call : fate[c] = "stored" => \E i \in DOMAIN rows : rows[i] = c

\* A writer that ended, or was never started, holds no event: the closed
\* channel is drained and the last partial batch flushed before `break'.
NoStrandedEvents ==
  \A w \in Writer : mode[w] \in {"absent", "exited"} => Pending(w) = <<>>

\* An event without a row is given up only once the database has failed as
\* often as a batch is tried, or where two saves of one key are about; and it
\* is dropped only by a writer whose linger is zero.
LossNeedsExhaustedRetries ==
  \A c \in Call :
    fate[c] \in {"dead", "lost", "dropped"} /\ (\A i \in DOMAIN rows : rows[i] # c) =>
      \/ dbFaults >= RetryDelays + 1
      \/ \E d, e \in wal : d # e /\ KeyOf[d] = KeyOf[e]
      \/ fate[c] = "dropped" /\ \E w \in Writer : Linger(w) = 0

\* What one crash can cost: the accepted events outside the table never
\* exceed the channel and one batch, whose size a zero limit makes 1.
ExposureBounded ==
  \A w \in Writer :
    Len(Pending(w)) <= Capacity(w) + (IF BatchLimit(w) = 0 THEN 1 ELSE BatchLimit(w))

\* A disposed event stays disposed of: once stored, dead-lettered, lost or
\* lost in a crash it is not flushed or dead-lettered a second time.
FateIsFinal ==
  [][\A c \in Call : fate[c] # "none" => fate'[c] = fate[c]]_vars

\* The pipeline implements the queue a caller may rely on (DurableQueue).
Queue == INSTANCE DurableQueue WITH
           Producer <- Call, Lane <- Writer, logged <- wal, fate <- fate,
           pending <- [w \in Writer |-> batch[w] \o chan[w]]

ImplementsQueue == Queue!Spec

\* Every accepted event is written, dead-lettered, given up, or lost in a crash:
\* no writer waits for ever on a partial batch, a failing database or a full
\* dead-letter channel.  With a zero linger, and only then, it may be dropped
\* with the receiver of a writer that never ran (durable_event_store.rs:306).
AcceptedSettles ==
  \A c \in Call : pc[c] = "accepted" ~>
    \/ fate[c] \in {"stored", "dead", "lost", "crashed"}
    \/ fate[c] = "dropped" /\ \E w \in Writer : Linger(w) = 0

\* A caller blocked on a full channel gets an answer in the end.
EnqueueReturns ==
  \A c \in Call : pc[c] = "enqueue" ~> pc[c] # "enqueue"

\* "duplicate events (from retries or redeliveries) are safely ignored at the
\* database layer" (README.md:22): while the database does not fail, every
\* event the writer disposes of has its key in the table.
DuplicatesAreIgnored ==
  dbFaults = 0 => \A c \in Call :
    fate[c] \in {"dead", "lost"} => \E i \in DOMAIN rows : KeyOf[rows[i]] = KeyOf[c]

\* "Max rows per TiDB batch INSERT" (limits.rs:22), one of the "hard caps" of
\* limits.rs:3: no writer flushes more rows at once.
BatchWithinCap ==
  \A w \in Writer : mode[w] = "flush" => Len(batch[w]) <= BatchCap

=============================================================================
