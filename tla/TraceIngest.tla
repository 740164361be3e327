------------------------------ MODULE TraceIngest ------------------------------
(***************************************************************************)
(* From the stream to a resumed agent: workers running                     *)
(* ingest_agent_trace_stream (trace_ingest.rs) share one durable pull      *)
(* consumer, insert each message of agent.trace.* into agent_traces        *)
(* (AgentTrace::insert, agent_trace.rs) and acknowledge it; resume_agent   *)
(* (resurrection.rs) reads the last `thought' of an agent.  Checkpoints    *)
(* (agent_manager.rs) go to agent.checkpoint.*, which the filter of the    *)
(* consumer leaves out.                                                    *)
(*                                                                         *)
(* The loop returns at the first error; something outside starts it again. *)
(***************************************************************************)
EXTENDS Integers, Sequences

CONSTANTS
  Worker,        \* tasks that run the loop on one durable consumer
  Agent,
  CheckpointStep,\* step_index values clients checkpoint
  Foreign,       \* messages of other publishers on agent.trace.*
  NoStep,        \* "the payload has no step_index"
  Half,          \* 2^31: `as i32' maps to -Half .. Half - 1
  FetchMax,      \* max_messages of a fetch
  MaxMessages,   \* bound: messages in the stream
  MaxFaults      \* bound: failed inserts and acks, and crashes

Message == [subject : {"trace", "checkpoint"}, agent : Agent,
            step : Int \cup {NoStep}, kind : {"thought", "other"},
            valid : BOOLEAN]

ASSUME TraceIngestAssumption ==
  /\ NoStep \notin Int
  /\ CheckpointStep \subseteq Int
  /\ \A m \in Foreign : m \in Message /\ m.subject = "trace"
  /\ Half \in Nat \ {0} /\ FetchMax \in Nat \ {0}
  /\ MaxMessages \in Nat /\ MaxFaults \in Nat

VARIABLES
  stream,        \* the messages JetStream holds; the index is the sequence
  checkpoint,    \* per agent: sequence of the last checkpoint answered with 204
  next,          \* the consumer's first message that was never delivered
  outstanding,   \* sequences delivered and not acknowledged
  lapsed,        \* sequences whose ack wait ended: to be delivered again
  acked,         \* sequences the consumer counts as acknowledged
  pc,            \* per worker: down, at the head of its buffer, or about to ack
  buffer,        \* per worker: fetched messages not yet processed
  rows,          \* agent_traces; `src' is history: the message a row is from
  faults         \* failures so far

streamVars == <<stream, checkpoint>>
consumerVars == <<next, outstanding, lapsed, acked>>
workerVars == <<pc, buffer>>
vars == <<streamVars, consumerVars, workerVars, rows, faults>>

Seqs == 1..Len(stream)

Init ==
  /\ stream = <<>>
  /\ checkpoint = [a \in Agent |-> 0]
  /\ next = 1
  /\ outstanding = {} /\ lapsed = {} /\ acked = {}
  /\ pc = [w \in Worker |-> "down"]
  /\ buffer = [w \in Worker |-> <<>>]
  /\ rows = <<>>
  /\ faults = 0

Fault == faults < MaxFaults /\ faults' = faults + 1

-----------------------------------------------------------------------------
(* Publishers. *)

Publish(m) ==
  /\ Len(stream) < MaxMessages
  /\ stream' = Append(stream, m)
  /\ UNCHANGED <<consumerVars, workerVars, rows, faults>>

\* save_event: the envelope {agent_id, event_id, payload} has neither a
\* step_index nor an event_type of its own.
SaveEvent(a) ==
  /\ Publish([subject |-> "trace", agent |-> a, step |-> NoStep,
              kind |-> "thought", valid |-> TRUE])
  /\ UNCHANGED checkpoint

\* checkpoint_state: awaits the PubAck, then the handler answers 204.
SaveCheckpoint(a, s) ==
  /\ Publish([subject |-> "checkpoint", agent |-> a, step |-> s,
              kind |-> "thought", valid |-> TRUE])
  /\ checkpoint' = [checkpoint EXCEPT ![a] = Len(stream')]

PublishForeign(m) ==
  /\ Publish(m)
  /\ UNCHANGED checkpoint

-----------------------------------------------------------------------------
(* The durable consumer: filter agent.trace.*, explicit acks, no limit on   *)
(* deliveries.                                                              *)

Filtered(n) == stream[n].subject = "trace"

\* The next message goes to a worker, unless the filter leaves it out.
Deliver(w) ==
  /\ pc[w] = "loop" /\ Len(buffer[w]) < FetchMax
  /\ next \in Seqs /\ Filtered(next)
  /\ next' = next + 1
  /\ outstanding' = outstanding \cup {next}
  /\ buffer' = [buffer EXCEPT ![w] = Append(@, next)]
  /\ UNCHANGED <<streamVars, lapsed, acked, pc, rows, faults>>

Pass ==
  /\ next \in Seqs /\ ~Filtered(next)
  /\ next' = next + 1
  /\ UNCHANGED <<streamVars, outstanding, lapsed, acked, workerVars, rows, faults>>

\* The ack wait ends, also while the message still sits in a buffer.
AckWait(n) ==
  /\ n \in outstanding
  /\ outstanding' = outstanding \ {n}
  /\ lapsed' = lapsed \cup {n}
  /\ UNCHANGED <<streamVars, next, acked, workerVars, rows, faults>>

Redeliver(w, n) ==
  /\ pc[w] = "loop" /\ Len(buffer[w]) < FetchMax
  /\ n \in lapsed
  /\ lapsed' = lapsed \ {n}
  /\ outstanding' = outstanding \cup {n}
  /\ buffer' = [buffer EXCEPT ![w] = Append(@, n)]
  /\ UNCHANGED <<streamVars, next, acked, pc, rows, faults>>

-----------------------------------------------------------------------------
(* ingest_agent_trace_stream.                                              *)

\* Mutation: a new consumer that delivers only what is published from now on.
StartNew(w) ==
  /\ pc[w] = "down"
  /\ pc' = [pc EXCEPT ![w] = "loop"]
  /\ next' = Len(stream) + 1
  /\ outstanding' = {} /\ lapsed' = {}
  /\ UNCHANGED <<streamVars, acked, buffer, rows, faults>>

\* get_or_create_consumer finds the durable consumer where it was left.
Start(w) ==
  /\ pc[w] = "down"
  /\ pc' = [pc EXCEPT ![w] = "loop"]
  /\ UNCHANGED <<streamVars, consumerVars, buffer, rows, faults>>

\* An error is returned, or the process dies: what was fetched is dropped.
End(w) ==
  /\ pc' = [pc EXCEPT ![w] = "down"]
  /\ buffer' = [buffer EXCEPT ![w] = <<>>]

AsI32(x) == ((x + Half) % (2 * Half)) - Half

\* Mutation: the index keeps its 64 bits.
StepUnwrapped(n) ==
  IF stream[n].step # NoStep THEN stream[n].step ELSE n

\* Mutation: a message without a step_index gets step 0.
StepOrZero(n) ==
  AsI32(IF stream[n].step # NoStep THEN stream[n].step ELSE 0)

\* The payload's step_index, or else the stream sequence.
StepIndex(n) ==
  AsI32(IF stream[n].step # NoStep THEN stream[n].step ELSE n)

Row(n) == [agent |-> stream[n].agent, step |-> StepIndex(n),
           kind |-> stream[n].kind, src |-> n]

SameKey(r, s) == r.agent = s.agent /\ r.step = s.step

\* Mutation: no UNIQUE KEY, as in the schema resurrection.rs:41 documents.
InsertRowAlways(n) ==
  rows' = Append(rows, Row(n))

\* AgentTrace::insert: a duplicate key counts as done.
InsertRow(n) ==
  rows' = IF \E i \in DOMAIN rows : SameKey(rows[i], Row(n)) THEN rows
          ELSE Append(rows, Row(n))

AtHead(w) == pc[w] = "loop" /\ buffer[w] # <<>>

Ingest(w) ==
  /\ AtHead(w) /\ stream[Head(buffer[w])].valid
  /\ InsertRow(Head(buffer[w]))
  /\ pc' = [pc EXCEPT ![w] = "ack"]
  /\ UNCHANGED <<streamVars, consumerVars, buffer, faults>>

\* Mutation: a failed insert is logged, and the message acknowledged.
IngestFailsAcks(w) ==
  /\ AtHead(w) /\ stream[Head(buffer[w])].valid
  /\ Fault
  /\ pc' = [pc EXCEPT ![w] = "ack"]
  /\ UNCHANGED <<streamVars, consumerVars, buffer, rows>>

\* The insert returns an error that is not a duplicate; it may have taken
\* effect.
IngestFails(w) ==
  /\ AtHead(w) /\ stream[Head(buffer[w])].valid
  /\ Fault
  /\ InsertRow(Head(buffer[w])) \/ UNCHANGED rows
  /\ End(w)
  /\ UNCHANGED <<streamVars, consumerVars>>

\* The payload is not JSON, or the table refuses the row for good.
IngestRejected(w) ==
  /\ AtHead(w) /\ ~stream[Head(buffer[w])].valid
  /\ End(w)
  /\ UNCHANGED <<streamVars, consumerVars, rows, faults>>

Done(w) ==
  /\ pc' = [pc EXCEPT ![w] = "loop"]
  /\ buffer' = [buffer EXCEPT ![w] = Tail(@)]

\* msg.ack() publishes the acknowledgement and waits for no answer.
Ack(w) ==
  /\ pc[w] = "ack"
  /\ LET n == Head(buffer[w])
     IN  /\ acked' = acked \cup {n}
         /\ outstanding' = outstanding \ {n}
         /\ lapsed' = lapsed \ {n}
  /\ Done(w)
  /\ UNCHANGED <<streamVars, next, rows, faults>>

AckLost(w) ==
  /\ pc[w] = "ack"
  /\ Fault
  /\ Done(w)
  /\ UNCHANGED <<streamVars, consumerVars, rows>>

\* The ack or a fetch returns an error, or the process dies.
Crash(w) ==
  /\ pc[w] # "down"
  /\ Fault
  /\ End(w)
  /\ UNCHANGED <<streamVars, consumerVars, rows>>

-----------------------------------------------------------------------------
WorkerStep(w) ==
  \/ Deliver(w) \/ \E n \in lapsed : Redeliver(w, n)
  \/ Start(w) \/ Ingest(w) \/ IngestFails(w) \/ IngestRejected(w)
  \/ Ack(w) \/ AckLost(w) \/ Crash(w)

Next ==
  \/ \E a \in Agent : SaveEvent(a) \/ \E s \in CheckpointStep : SaveCheckpoint(a, s)
  \/ \E m \in Foreign : PublishForeign(m)
  \/ Pass
  \/ \E n \in outstanding : AckWait(n)
  \/ \E w \in Worker : WorkerStep(w)

Spec == Init /\ [][Next]_vars

-----------------------------------------------------------------------------
(* resume_agent. *)

Thoughts(a) == {i \in DOMAIN rows : rows[i].agent = a /\ rows[i].kind = "thought"}

\* Mutation: ORDER BY step_index without DESC.
ResumedFirst(a) ==
  IF Thoughts(a) = {} THEN 0
  ELSE LET i == CHOOSE j \in Thoughts(a) :
                  \A k \in Thoughts(a) : rows[j].step <= rows[k].step
       IN  rows[i].src

\* The message whose row resume_agent returns; 0: the "NewAgent" state.
Resumed(a) ==
  IF Thoughts(a) = {} THEN 0
  ELSE LET i == CHOOSE j \in Thoughts(a) :
                  \A k \in Thoughts(a) : rows[k].step <= rows[j].step
       IN  rows[i].src

-----------------------------------------------------------------------------
TypeOK ==
  /\ stream \in Seq(Message)
  /\ checkpoint \in [Agent -> 0..Len(stream)]
  /\ next \in 1..(Len(stream) + 1)
  /\ outstanding \subseteq 1..(next - 1)
  /\ lapsed \subseteq 1..(next - 1)
  /\ acked \subseteq 1..(next - 1)
  /\ pc \in [Worker -> {"down", "loop", "ack"}]
  /\ buffer \in [Worker -> Seq(1..(next - 1))]
  /\ rows \in Seq([agent : Agent, step : (-Half)..(Half - 1),
                   kind : {"thought", "other"}, src : Seqs])
  /\ faults \in 0..MaxFaults

\* A message is acknowledged only when agent_traces has a row of its agent and
\* step: "ACK the JetStream message after the insert succeeds".
AckedIsPersisted ==
  \A n \in acked : \E i \in DOMAIN rows : SameKey(rows[i], Row(n))

\* However often a message is delivered, and to however many workers, it has
\* at most one row.
PersistedOnce ==
  \A i, j \in DOMAIN rows : rows[i].src = rows[j].src => i = j

\* "This prevents two payload-less messages for the same agent from colliding
\* on the UNIQUE KEY (agent_id, step_index) and silently dropping data"
\* (trace_ingest.rs:83): an acknowledged event of save_event has its own row.
EventHasOwnRow ==
  \A n \in acked : stream[n].step = NoStep =>
    \E i \in DOMAIN rows : rows[i].src = n

\* The consumer has nothing left to do.
Quiescent == next = Len(stream) + 1 /\ outstanding = {} /\ lapsed = {}

\* When everything published has been ingested, resume_agent returns the last
\* event the agent saved, in whatever order events were redelivered.
ResumesLastEvent ==
  Quiescent => \A a \in Agent :
    \A n \in Seqs : stream[n].subject = "trace" /\ stream[n].agent = a => n <= Resumed(a)

\* "Returns the last checkpointed state for this agent" (server.rs:113), "safe
\* to crash after this returns" (README.md:94): with nothing left to ingest,
\* resume_agent does not miss a checkpoint that was answered with 204.
CheckpointIsResumable ==
  Quiescent => \A a \in Agent : checkpoint[a] <= Resumed(a)

=============================================================================
