------------------------------ MODULE RateLimiter ------------------------------
(***************************************************************************)
(* RateLimiter::wait of limits.rs: tasks on several threads share two      *)
(* atomics, the second of the current window and the slots taken in it.    *)
(* Every access to an atomic and to the clock is a step of its own; the    *)
(* two Relaxed stores of a reset may become visible in either order.       *)
(***************************************************************************)
EXTENDS Naturals, FiniteSets

CONSTANTS
  Task,        \* the tasks that call wait
  MaxCalls,    \* bound: calls of each task
  Limits,      \* what their argument may be: COMMUNITY_RATE_LIMIT or a license's
  U32Max,      \* u32::MAX: no limit
  MaxBusyTicks \* bound: seconds that begin although somebody could go on

ASSUME RateLimiterAssumption ==
  /\ U32Max \in Nat /\ Limits \subseteq 0..U32Max /\ MaxBusyTicks \in Nat
  /\ MaxCalls \in Nat

VARIABLES
  limit,       \* the store's rate_limit, fixed in connect
  clock,       \* SystemTime, in seconds
  window,      \* window_start
  count,       \* count
  pc,          \* the next step of each task; "returned": it is not in wait
  calls,       \* per task: calls so far
  now,         \* per task: now_secs
  seen,        \* per task: c
  busyTicks,   \* seconds begun although somebody could go on
  claimed,     \* history: slots granted since `count' was last stored
  resets,      \* history: stores of `count' in this second
  granted,     \* history: slots granted in this second
  carry        \* history: `count' when this second began

taskVars == <<pc, calls, now, seen>>
historyVars == <<claimed, resets, granted, carry>>
vars == <<limit, clock, window, count, taskVars, busyTicks, historyVars>>

Init ==
  /\ limit \in Limits
  /\ clock = 1
  /\ window = 0
  /\ count = 0
  /\ pc = [t \in Task |-> "returned"]
  /\ calls = [t \in Task |-> 0]
  /\ now = [t \in Task |-> 0]
  /\ seen = [t \in Task |-> 0]
  /\ busyTicks = 0
  /\ claimed = 0 /\ resets = 0 /\ granted = 0 /\ carry = 0

Goto(t, p) == pc' = [pc EXCEPT ![t] = p]

\* The locals of an iteration end with it.
Leave(t, p) ==
  /\ Goto(t, p)
  /\ now' = [now EXCEPT ![t] = 0]
  /\ seen' = [seen EXCEPT ![t] = 0]

\* save_event calls wait.
Call(t) ==
  /\ pc[t] = "returned" /\ calls[t] < MaxCalls
  /\ Goto(t, "called")
  /\ calls' = [calls EXCEPT ![t] = @ + 1]
  /\ UNCHANGED <<limit, clock, window, count, now, seen, busyTicks, historyVars>>

\* limit == u32::MAX returns at once; otherwise SystemTime::now().
ReadClock(t) ==
  /\ pc[t] = "called"
  /\ IF limit = U32Max
       THEN Goto(t, "returned") /\ UNCHANGED now
       ELSE Goto(t, "load_window") /\ now' = [now EXCEPT ![t] = clock]
  /\ UNCHANGED <<limit, clock, window, count, calls, seen, busyTicks, historyVars>>

LoadWindow(t) ==
  /\ pc[t] = "load_window"
  /\ Goto(t, IF now[t] # window THEN "reset" ELSE "load_count")
  /\ UNCHANGED <<limit, clock, window, count, calls, now, seen, busyTicks, historyVars>>

\* window_start.store(now_secs); the slot of the reset itself is granted with
\* the later of the two stores.
StoreWindow(t) ==
  /\ pc[t] \in {"reset", "reset_window"}
  /\ window' = now[t]
  /\ IF pc[t] = "reset"
       THEN Goto(t, "reset_count") /\ UNCHANGED <<now, seen>>
       ELSE Leave(t, "returned")
  /\ UNCHANGED <<limit, clock, count, calls, busyTicks, historyVars>>

\* count.store(1)
StoreCount(t) ==
  /\ pc[t] \in {"reset", "reset_count"}
  /\ count' = 1
  /\ claimed' = 1 /\ resets' = resets + 1 /\ granted' = granted + 1
  /\ IF pc[t] = "reset"
       THEN Goto(t, "reset_window") /\ UNCHANGED <<now, seen>>
       ELSE Leave(t, "returned")
  /\ UNCHANGED <<limit, clock, window, calls, busyTicks, carry>>

\* Mutation: a full window gives out one more slot.
LoadCountOffByOne(t) ==
  /\ pc[t] = "load_count"
  /\ seen' = [seen EXCEPT ![t] = count]
  /\ Goto(t, IF count <= limit THEN "claim" ELSE "sleep")
  /\ UNCHANGED <<limit, clock, window, count, calls, now, busyTicks, historyVars>>

LoadCount(t) ==
  /\ pc[t] = "load_count"
  /\ seen' = [seen EXCEPT ![t] = count]
  /\ Goto(t, IF count < limit THEN "claim" ELSE "sleep")
  /\ UNCHANGED <<limit, clock, window, count, calls, now, busyTicks, historyVars>>

\* Mutation: the slot is stored, not exchanged.
ClaimStores(t) ==
  /\ pc[t] = "claim"
  /\ count' = seen[t] + 1
  /\ claimed' = claimed + 1 /\ granted' = granted + 1
  /\ Leave(t, "returned")
  /\ UNCHANGED <<limit, clock, window, calls, busyTicks, resets, carry>>

\* compare_exchange(c, c + 1): a slot, or the loop from its start.
Claim(t) ==
  /\ pc[t] = "claim"
  /\ IF count = seen[t]
       THEN /\ count' = seen[t] + 1
            /\ claimed' = claimed + 1 /\ granted' = granted + 1
            /\ Leave(t, "returned")
       ELSE /\ Leave(t, "called")
            /\ UNCHANGED <<count, claimed, granted>>
  /\ UNCHANGED <<limit, clock, window, calls, busyTicks, resets, carry>>

\* Mutation: the sleep ends with the second of the first clock read, which may
\* be over: the difference wraps to a sleep without end.
SleepWraps(t) ==
  /\ pc[t] = "sleep" /\ now[t] = clock
  /\ Leave(t, "asleep")
  /\ UNCHANGED <<limit, clock, window, count, calls, busyTicks, historyVars>>

\* The second clock read and the sleep: until just after the next second.
Sleep(t) ==
  /\ pc[t] = "sleep"
  /\ Leave(t, "asleep")
  /\ UNCHANGED <<limit, clock, window, count, calls, busyTicks, historyVars>>

\* Nobody goes on before the next second.
AllWait ==
  /\ \A t \in Task : pc[t] \in {"asleep", "returned"}
  /\ \E t \in Task : pc[t] = "asleep"

\* A second begins; who slept goes on with the loop.
Tick ==
  /\ clock' = clock + 1
  /\ pc' = [t \in Task |-> IF pc[t] = "asleep" THEN "called" ELSE pc[t]]
  /\ resets' = 0 /\ granted' = 0 /\ carry' = count
  /\ IF AllWait THEN UNCHANGED busyTicks
                ELSE busyTicks < MaxBusyTicks /\ busyTicks' = busyTicks + 1
  /\ UNCHANGED <<limit, window, count, calls, now, seen, claimed>>

Step(t) ==
  \/ ReadClock(t) \/ LoadWindow(t) \/ StoreWindow(t) \/ StoreCount(t)
  \/ LoadCount(t) \/ Claim(t) \/ Sleep(t)

Next == Tick \/ \E t \in Task : Call(t) \/ Step(t)

Spec == Init /\ [][Next]_vars

-----------------------------------------------------------------------------
Slots == IF limit = 0 THEN 1 ELSE limit

TypeOK ==
  /\ limit \in Limits
  /\ clock \in Nat \ {0} /\ window \in 0..clock
  /\ count \in 0..Slots
  /\ pc \in [Task -> {"called", "load_window", "reset", "reset_window", "reset_count",
                      "load_count", "claim", "sleep", "asleep", "returned"}]
  /\ calls \in [Task -> 0..MaxCalls]
  /\ now \in [Task -> 0..clock]
  /\ seen \in [Task -> 0..Slots]
  /\ busyTicks \in 0..MaxBusyTicks
  /\ claimed \in Nat /\ resets \in Nat /\ granted \in Nat /\ carry \in 0..Slots

\* "Slot claims use compare-and-exchange to avoid double-counting": the
\* counter is exactly the number of slots granted since it was last reset.
NoDoubleClaim == claimed = count

\* The cap is soft by the number of tasks that reset the same second, and by
\* no more: each reset buys at most one more window of slots.  What the window
\* before left unused may also go out, in the instant between a reset's two
\* stores or to a task that read the clock before the second began.
SoftCap == granted + carry <= Slots * (resets + 1)

\* Lossless: every caller gets through, also with a limit of 0.
EveryCallReturns == \A t \in Task : pc[t] = "called" ~> pc[t] = "returned"

=============================================================================
