----------------------------- MODULE BenchmarkLoad -----------------------------
(***************************************************************************)
(* Scenarios 3 and 4 of bin/benchmark.rs: concurrent tasks meet at a       *)
(* barrier and then call save_event one event after the other on one       *)
(* store, and so wait in its rate limiter.  A save that fails panics its   *)
(* task; join_all goes on without it, and the totals are printed.          *)
(***************************************************************************)
EXTENDS RateLimiter

CONSTANT MaxPanics   \* bound: saves that fail

ASSUME BenchmarkLoadAssumption == MaxPanics \in Nat

VARIABLE at       \* where each task is

loadVars == <<vars, at>>

LoadInit ==
  /\ Init
  /\ at = [t \in Task |-> "spawned"]

Move(t, p) == at' = [at EXCEPT ![t] = p]

\* Mutation: the barrier waits for one more than there are tasks.
ArriveUnreleased(t) ==
  /\ at[t] = "spawned"
  /\ Move(t, "barrier")
  /\ UNCHANGED vars

\* barrier.wait(): the last one to come lets all of them go.
Arrive(t) ==
  /\ at[t] = "spawned"
  /\ at' = IF \A u \in Task \ {t} : at[u] = "barrier"
             THEN [u \in Task |-> "running"]
             ELSE [at EXCEPT ![t] = "barrier"]
  /\ UNCHANGED vars

\* save_event, up to the rate limiter's wait: events_per_task times.
Save(t) ==
  /\ at[t] = "running"
  /\ Call(t)
  /\ Move(t, "saving")

Wait(t) ==
  /\ Step(t)
  /\ UNCHANGED at

\* The event is published and queued.
Saved(t) ==
  /\ at[t] = "saving" /\ pc[t] = "returned"
  /\ Move(t, IF calls[t] < MaxCalls THEN "running" ELSE "ended")
  /\ UNCHANGED vars

\* expect("save_event failed")
Panics(t) ==
  /\ at[t] = "saving" /\ pc[t] = "returned"
  /\ Cardinality({u \in Task : at[u] = "panicked"}) < MaxPanics
  /\ Move(t, "panicked")
  /\ UNCHANGED vars

Second ==
  /\ Tick
  /\ UNCHANGED at

TaskStep(t) == Arrive(t) \/ Save(t) \/ Wait(t) \/ Saved(t) \/ Panics(t)

LoadNext == Second \/ \E t \in Task : TaskStep(t)

LoadSpec == LoadInit /\ [][LoadNext]_loadVars

\* The tasks are scheduled, and time passes.
FairLoadSpec ==
  /\ LoadSpec
  /\ WF_loadVars(Second)
  /\ \A t \in Task : WF_loadVars(TaskStep(t))

-----------------------------------------------------------------------------
LoadTypeOK ==
  /\ TypeOK
  /\ at \in [Task -> {"spawned", "barrier", "running", "saving", "ended", "panicked"}]

\* join_all returns: no task is left at the barrier, behind a full window or in
\* the loop, whichever others panicked.
JoinAllReturns == <>(\A t \in Task : at[t] \in {"ended", "panicked"})

=============================================================================
