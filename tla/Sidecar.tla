-------------------------------- MODULE Sidecar --------------------------------
(***************************************************************************)
(* The HTTP sidecar (bin/server.rs) between the agents that use an SDK     *)
(* (sdks/python/skialith/client.py, sdks/typescript/src/index.ts) and the  *)
(* ingestion of TraceIngest.  An agent awaits one call at a time.  A call  *)
(* it no longer awaits, after the client's timeout or the agent's restart, *)
(* leaves a handler behind that may still publish, also after the handlers *)
(* of later calls, until the server drops it.                              *)
(***************************************************************************)
EXTENDS TraceIngest

CONSTANT MaxOpen    \* bound: requests of one agent the server has at a time

ASSUME SidecarAssumption == MaxOpen \in Nat

VARIABLES
  awaited,      \* per agent: the connection of the call it awaits; 0: none
  handlers,     \* the requests the server works on, or is about to answer
  given         \* per agent: the step_index its last resume() returned

sidecarVars == <<awaited, handlers, given>>
allVars == <<vars, sidecarVars>>

Op == {"event", "checkpoint", "resume"}

SidecarInit ==
  /\ Init
  /\ awaited = [a \in Agent |-> 0]
  /\ handlers = {}
  /\ given = [a \in Agent |-> 0]

\* Mutation: the answer names the step to go on with, not the last one.
ResumedNext(a) == IF Resumed(a) = 0 THEN 0 ELSE StepIndex(Resumed(a)) + 1

\* The step_index of resume_agent's answer; that of "NewAgent" is 0.
ResumedStep(a) == IF Resumed(a) = 0 THEN 0 ELSE StepIndex(Resumed(a))

-----------------------------------------------------------------------------
(* The SDK.                                                                *)

\* resume(), save_event() or checkpoint(), on a connection that no other
\* request of the agent uses.
Call(a, op) ==
  /\ awaited[a] = 0
  /\ \E c \in 1..MaxOpen :
       /\ \A h \in handlers : h.agent = a => h.conn # c
       /\ awaited' = [awaited EXCEPT ![a] = c]
       /\ handlers' = handlers \cup
            {[agent |-> a, conn |-> c, op |-> op, done |-> FALSE, step |-> 0]}
  /\ UNCHANGED <<vars, given>>

\* httpx's timeout of 10 s, or the agent dies and is started again.
GiveUp(a) ==
  /\ awaited[a] # 0
  /\ awaited' = [awaited EXCEPT ![a] = 0]
  /\ UNCHANGED <<vars, handlers, given>>

-----------------------------------------------------------------------------
(* The handlers.                                                           *)

Awaits(h) == awaited[h.agent] = h.conn

\* The call of h returns to its agent, or raises there.
Returned(h) == awaited' = [awaited EXCEPT ![h.agent] = IF Awaits(h) THEN 0 ELSE @]

Finished(h, step) ==
  handlers' = (handlers \ {h}) \cup {[h EXCEPT !.done = TRUE, !.step = step]}

\* save_event: the message is in JetStream; the PubAck is still to come.
PublishEvent(h) ==
  /\ h.op = "event" /\ ~h.done
  /\ SaveEvent(h.agent)
  /\ Finished(h, 0)
  /\ UNCHANGED <<awaited, given>>

\* checkpoint: likewise.
PublishCheckpoint(h) ==
  /\ h.op = "checkpoint" /\ ~h.done
  /\ \E s \in CheckpointStep : SaveCheckpoint(h.agent, s)
  /\ Finished(h, 0)
  /\ UNCHANGED <<awaited, given>>

\* get_state: the query of resume_agent.
ReadState(h) ==
  /\ h.op = "resume" /\ ~h.done
  /\ Finished(h, ResumedStep(h.agent))
  /\ UNCHANGED <<vars, awaited, given>>

\* Mutation: an answer that comes after the timeout is taken all the same.
AnswerLate(h) ==
  /\ h.done
  /\ handlers' = handlers \ {h}
  /\ Returned(h)
  /\ given' = IF h.op = "resume" THEN [given EXCEPT ![h.agent] = h.step] ELSE given
  /\ UNCHANGED vars

\* The PubAck or the row is there: 204, or 200 with the state.  Nobody reads
\* the answer of a call that was given up.
Answer(h) ==
  /\ h.done
  /\ handlers' = handlers \ {h}
  /\ Returned(h)
  /\ given' = IF h.op = "resume" /\ Awaits(h)
                THEN [given EXCEPT ![h.agent] = h.step] ELSE given
  /\ UNCHANGED vars

\* The publish, its PubAck, the queue behind it or the query fails: 500.  A
\* message that was stored stays in the stream.
HandlerFails(h) ==
  /\ Fault
  /\ handlers' = handlers \ {h}
  /\ Returned(h)
  /\ UNCHANGED <<streamVars, consumerVars, workerVars, rows, given>>

\* The client closed the connection: the server drops the handler.
Dropped(h) ==
  /\ ~Awaits(h)
  /\ handlers' = handlers \ {h}
  /\ UNCHANGED <<vars, awaited, given>>

\* The sidecar dies: every connection is reset, and the calls raise.
SidecarCrash ==
  /\ handlers # {} /\ Fault
  /\ handlers' = {}
  /\ awaited' = [a \in Agent |-> 0]
  /\ UNCHANGED <<streamVars, consumerVars, workerVars, rows, given>>

HandlerStep(h) ==
  \/ PublishEvent(h) \/ PublishCheckpoint(h) \/ ReadState(h)
  \/ Answer(h) \/ HandlerFails(h) \/ Dropped(h)

\* What a worker does next on its own: at each moment one of these.
Proceed(w) ==
  Start(w) \/ Ingest(w) \/ IngestFails(w) \/ IngestRejected(w) \/ Ack(w) \/ AckLost(w)

\* The agents are the only publishers here.
IngestionStep ==
  /\ \/ Pass
     \/ \E n \in outstanding : AckWait(n)
     \/ \E w \in Worker : WorkerStep(w)
  /\ UNCHANGED sidecarVars

SidecarNext ==
  \/ \E a \in Agent : GiveUp(a) \/ \E op \in Op : Call(a, op)
  \/ \E h \in handlers : HandlerStep(h)
  \/ SidecarCrash
  \/ IngestionStep

SidecarSpec == SidecarInit /\ [][SidecarNext]_allVars

\* The ingestion goes on as in TraceIngest, and so does every handler.
FairSidecarSpec ==
  /\ SidecarSpec
  /\ WF_allVars(Pass /\ UNCHANGED sidecarVars)
  /\ \A n \in 1..MaxMessages :
       /\ WF_allVars(AckWait(n) /\ UNCHANGED sidecarVars)
       /\ SF_allVars(\E w \in Worker : Redeliver(w, n) /\ UNCHANGED sidecarVars)
  /\ \A w \in Worker :
       /\ WF_allVars(Deliver(w) /\ UNCHANGED sidecarVars)
       /\ WF_allVars(Proceed(w) /\ UNCHANGED sidecarVars)
  /\ WF_allVars(\E h \in handlers : HandlerStep(h))

-----------------------------------------------------------------------------
SidecarTypeOK ==
  /\ TypeOK
  /\ awaited \in [Agent -> 0..MaxOpen]
  /\ handlers \subseteq [agent : Agent, conn : 1..MaxOpen, op : Op,
                         done : BOOLEAN, step : (-Half)..(Half - 1)]
  /\ given \in [Agent -> (-Half)..(Half - 1)]

\* An agent never gets an older step_index from resume() than it got before,
\* through given-up calls whose answers are late, redelivery out of order, and
\* restarts of the sidecar and of the workers.
ResumeNeverBack ==
  [][\A a \in Agent : given'[a] >= given[a]]_allVars

\* An event that reached the stream can be resumed from in the end, also if the
\* workers and the sidecar restart on the way.
EventuallyResumed ==
  \A a \in Agent : \A n \in 1..MaxMessages :
    (n \in Seqs /\ Filtered(n) /\ stream[n].agent = a) ~> Resumed(a) >= n

=============================================================================
