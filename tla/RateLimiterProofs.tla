--------------------------- MODULE RateLimiterProofs ---------------------------
(***************************************************************************)
(* Theorems about RateLimiter, for any number of tasks, any limit and any  *)
(* number of seconds, and about the load that bin/benchmark.rs puts on it: *)
(* BenchmarkLoad takes no step that is not one of the limiter, so that     *)
(* what holds of the limiter holds under the load.                         *)
(***************************************************************************)
EXTENDS BenchmarkLoad, TLAPS

(***************************************************************************)
(* The inductive invariant.  SoftCap is not inductive: it does not relate  *)
(* what was granted to the slots of the present window that are taken.     *)
(* And `count' stays within the slots only because a task about to claim   *)
(* saw fewer than the limit.                                               *)
(***************************************************************************)
ClaimsBelowLimit ==
  \A t \in Task : pc[t] = "claim" => seen[t] < limit

GrantedWithinWindows ==
  granted + carry <= Slots * resets + count

IInv ==
  /\ TypeOK
  /\ ClaimsBelowLimit
  /\ NoDoubleClaim
  /\ GrantedWithinWindows

USE RateLimiterAssumption, BenchmarkLoadAssumption

\* One more reset is one more window of slots.
LEMMA OneMoreWindow ==
  ASSUME NEW s \in Nat, NEW n \in Nat
  PROVE  s * n \in Nat /\ s * (n + 1) = s * n + s
  OBVIOUS

LEMMA SlotsType == limit \in Limits => Slots \in Nat /\ Slots >= 1 /\ Slots >= limit /\ limit \in Nat
  BY DEF Slots

LEMMA InitIInv == Init => IInv
<1>. SUFFICES ASSUME Init
              PROVE  IInv
  OBVIOUS
<1>1. TypeOK
  BY SlotsType DEF Init, TypeOK
<1>2. ClaimsBelowLimit /\ NoDoubleClaim
  BY DEF Init, ClaimsBelowLimit, NoDoubleClaim
<1>3. GrantedWithinWindows
  BY SlotsType DEF Init, GrantedWithinWindows
<1>. QED
  BY <1>1, <1>2, <1>3 DEF IInv

\* A step that leaves the counters alone and starts no claim.
LEMMA QuietStep ==
  ASSUME IInv, TypeOK', UNCHANGED <<limit, count, historyVars>>,
         NEW t \in Task, NEW p, p # "claim", Goto(t, p),
         \A u \in Task : u # t => seen'[u] = seen[u]
  PROVE  IInv'
<1>1. ClaimsBelowLimit'
  BY DEF IInv, ClaimsBelowLimit, Goto, TypeOK
<1>2. NoDoubleClaim' /\ GrantedWithinWindows'
  BY DEF IInv, NoDoubleClaim, GrantedWithinWindows, Slots, historyVars
<1>. QED
  BY <1>1, <1>2 DEF IInv

LEMMA StoreCountStep ==
  ASSUME IInv, NEW t \in Task, StoreCount(t)
  PROVE  IInv'
<1>. USE DEF IInv, StoreCount, Leave, Goto
<1>1. Slots' = Slots /\ Slots \in Nat /\ Slots >= 1
  BY SlotsType DEF Slots, TypeOK
<1>2. TypeOK'
  BY <1>1 DEF TypeOK
<1>3. ClaimsBelowLimit' /\ NoDoubleClaim'
  BY DEF ClaimsBelowLimit, NoDoubleClaim, TypeOK
<1>4. GrantedWithinWindows'
  <2>1. granted + carry <= Slots * resets + count /\ count <= Slots
    BY <1>1 DEF GrantedWithinWindows, TypeOK
  <2>2. Slots * resets \in Nat /\ Slots * (resets + 1) = Slots * resets + Slots
    BY <1>1, OneMoreWindow DEF TypeOK
  <2>3. granted' = granted + 1 /\ carry' = carry /\ resets' = resets + 1 /\ count' = 1
    OBVIOUS
  <2>4. granted \in Nat /\ carry \in Nat /\ count \in Nat
    BY <1>1 DEF TypeOK
  <2>5. granted + 1 + carry <= Slots * (resets + 1) + 1
    BY <1>1, <2>1, <2>2, <2>4
  <2>. QED
    BY <1>1, <2>3, <2>5 DEF GrantedWithinWindows
<1>. QED
  BY <1>2, <1>3, <1>4

LEMMA ClaimStep ==
  ASSUME IInv, NEW t \in Task, Claim(t)
  PROVE  IInv'
<1>. USE DEF IInv, Claim, Leave, Goto
<1>1. Slots' = Slots /\ Slots \in Nat /\ Slots >= limit /\ limit \in Nat /\ seen[t] < limit
  BY SlotsType DEF Slots, TypeOK, ClaimsBelowLimit
<1>2. TypeOK'
  BY <1>1 DEF TypeOK
<1>3. ClaimsBelowLimit' /\ NoDoubleClaim'
  BY DEF ClaimsBelowLimit, NoDoubleClaim, TypeOK
<1>4. GrantedWithinWindows'
  <2>1. resets' = resets /\ carry' = carry
    OBVIOUS
  <2>2. \/ granted' = granted + 1 /\ count' = count + 1
        \/ granted' = granted /\ count' = count
    OBVIOUS
  <2>3. /\ granted \in Nat /\ carry \in Nat /\ count \in Nat
        /\ Slots * resets \in Nat
    BY <1>1, OneMoreWindow DEF TypeOK
  <2>. QED
    BY <1>1, <2>1, <2>2, <2>3 DEF GrantedWithinWindows
<1>. QED
  BY <1>2, <1>3, <1>4

LEMMA TickStep ==
  ASSUME IInv, Tick
  PROVE  IInv'
<1>. USE DEF IInv, Tick
<1>1. Slots' = Slots /\ Slots \in Nat
  BY SlotsType DEF Slots, TypeOK
<1>2. TypeOK'
  BY <1>1 DEF TypeOK
<1>3. ClaimsBelowLimit' /\ NoDoubleClaim'
  BY DEF ClaimsBelowLimit, NoDoubleClaim, TypeOK
<1>4. GrantedWithinWindows'
  BY <1>1 DEF GrantedWithinWindows, TypeOK
<1>. QED
  BY <1>2, <1>3, <1>4

LEMMA Invariance == IInv /\ [Next]_vars => IInv'
<1>. SUFFICES ASSUME IInv, [Next]_vars
              PROVE  IInv'
  OBVIOUS
<1>0. limit' = limit => Slots' = Slots
  BY DEF Slots
<1>1. CASE Tick
  BY <1>1, TickStep
<1>2. ASSUME NEW t \in Task, Step(t)
      PROVE  IInv'
  <2>1. CASE ReadClock(t)
    <3>1. TypeOK'
      BY <1>0, <2>1 DEF IInv, TypeOK, ReadClock, Goto, historyVars
    <3>. QED
      BY <2>1, <3>1, QuietStep DEF IInv, TypeOK, ReadClock
  <2>2. CASE LoadWindow(t)
    <3>1. TypeOK'
      BY <1>0, <2>2 DEF IInv, TypeOK, LoadWindow, Goto, historyVars
    <3>. QED
      BY <2>2, <3>1, QuietStep DEF IInv, TypeOK, LoadWindow
  <2>3. CASE StoreWindow(t)
    <3>1. TypeOK'
      BY <1>0, <2>3, SlotsType DEF IInv, TypeOK, StoreWindow, Leave, Goto, historyVars
    <3>2. UNCHANGED <<limit, count, historyVars>>
      BY <2>3 DEF StoreWindow
    <3>3. \A u \in Task : u # t => seen'[u] = seen[u]
      BY <2>3 DEF IInv, TypeOK, StoreWindow, Leave
    <3>4. Goto(t, "reset_count") \/ Goto(t, "returned")
      BY <2>3 DEF StoreWindow, Leave
    <3>. QED
      BY <3>1, <3>2, <3>3, <3>4, QuietStep
  <2>4. CASE StoreCount(t)
    BY <2>4, StoreCountStep
  <2>5. CASE LoadCount(t)
    <3>1. TypeOK'
      BY <1>0, <2>5 DEF IInv, TypeOK, LoadCount, Goto, historyVars
    <3>2. ClaimsBelowLimit'
      BY <2>5 DEF IInv, ClaimsBelowLimit, LoadCount, Goto, TypeOK
    <3>3. NoDoubleClaim' /\ GrantedWithinWindows'
      BY <1>0, <2>5 DEF IInv, NoDoubleClaim, GrantedWithinWindows, LoadCount, historyVars
    <3>. QED
      BY <3>1, <3>2, <3>3 DEF IInv
  <2>6. CASE Claim(t)
    BY <2>6, ClaimStep
  <2>7. CASE Sleep(t)
    <3>1. TypeOK'
      BY <1>0, <2>7, SlotsType DEF IInv, TypeOK, Sleep, Leave, Goto, historyVars
    <3>2. \A u \in Task : u # t => seen'[u] = seen[u]
      BY <2>7 DEF IInv, TypeOK, Sleep, Leave
    <3>3. UNCHANGED <<limit, count, historyVars>> /\ Goto(t, "asleep")
      BY <2>7 DEF Sleep, Leave
    <3>. QED
      BY <3>1, <3>2, <3>3, QuietStep
  <2>. QED
    BY <1>2, <2>1, <2>2, <2>3, <2>4, <2>5, <2>6, <2>7 DEF Step
<1>3. ASSUME NEW t \in Task, Call(t)
      PROVE  IInv'
  <2>1. TypeOK'
    BY <1>0, <1>3 DEF IInv, TypeOK, Call, Goto, historyVars
  <2>. QED
    BY <1>3, <2>1, QuietStep DEF Call
<1>4. CASE UNCHANGED vars
  BY <1>0, <1>4 DEF IInv, TypeOK, ClaimsBelowLimit, NoDoubleClaim, GrantedWithinWindows,
     vars, taskVars, historyVars
<1>. QED
  BY <1>1, <1>2, <1>3, <1>4 DEF Next

LEMMA InvariantHolds == Spec => []IInv
<1>. QED
  BY InitIInv, Invariance, PTL DEF Spec

\* Every variable keeps its type; in particular `count' never exceeds the
\* limit, or 1 under a limit of zero.
THEOREM TypeCorrect == Spec => []TypeOK
<1>1. IInv => TypeOK
  BY DEF IInv
<1>. QED
  BY <1>1, InvariantHolds, PTL

\* No slot is given to two tasks, whatever the interleaving of loads, stores
\* and exchanges (RateLimiter::wait).
THEOREM SingleClaim == Spec => []NoDoubleClaim
<1>1. IInv => NoDoubleClaim
  BY DEF IInv
<1>. QED
  BY <1>1, InvariantHolds, PTL

\* Each reset of a second costs at most one more window of slots.
THEOREM CapIsSoft == Spec => []SoftCap
<1>1. IInv => SoftCap
  <2>. SUFFICES ASSUME IInv
                PROVE  SoftCap
    OBVIOUS
  <2>1. /\ Slots \in Nat /\ resets \in Nat /\ granted \in Nat /\ carry \in Nat
        /\ count \in Nat /\ count <= Slots
    BY SlotsType DEF IInv, TypeOK
  <2>2. Slots * resets \in Nat /\ Slots * (resets + 1) = Slots * resets + Slots
    BY <2>1, OneMoreWindow
  <2>3. granted + carry <= Slots * resets + count
    BY DEF IInv, GrantedWithinWindows
  <2>. QED
    BY <2>1, <2>2, <2>3 DEF SoftCap
<1>. QED
  BY <1>1, InvariantHolds, PTL

-----------------------------------------------------------------------------
(* The load of the benchmark.                                              *)

LEMMA LoadStep == [LoadNext]_loadVars => [Next]_vars
<1>. SUFFICES ASSUME [LoadNext]_loadVars
              PROVE  [Next]_vars
  OBVIOUS
<1>1. ASSUME NEW t \in Task, TaskStep(t)
      PROVE  [Next]_vars
  <2>1. CASE Save(t)
    BY <2>1 DEF Save, Next
  <2>2. CASE Wait(t)
    BY <2>2 DEF Wait, Next
  <2>3. CASE Arrive(t) \/ Saved(t) \/ Panics(t)
    BY <2>3 DEF Arrive, Saved, Panics
  <2>. QED
    BY <1>1, <2>1, <2>2, <2>3 DEF TaskStep
<1>2. CASE Second
  BY <1>2 DEF Second, Next
<1>3. CASE UNCHANGED loadVars
  BY <1>3 DEF loadVars
<1>. QED
  BY <1>1, <1>2, <1>3 DEF LoadNext

\* The barrier, the loops and the panics of the benchmark's tasks use the
\* limiter only through calls of wait.
THEOREM LoadUsesLimiter == LoadSpec => Spec
<1>1. LoadInit => Init
  BY DEF LoadInit
<1>. QED
  BY <1>1, LoadStep, PTL DEF LoadSpec, Spec

\* Under the load too no slot is given out twice and a second grants at most a
\* window per reset (scenarios 3 and 4 of bin/benchmark.rs).
THEOREM LoadWithinCap == LoadSpec => [](NoDoubleClaim /\ SoftCap)
<1>. QED
  BY LoadUsesLimiter, SingleClaim, CapIsSoft, PTL

LEMMA LoadTypeInvariant == LoadTypeOK /\ TypeOK' /\ [LoadNext]_loadVars => LoadTypeOK'
<1>. SUFFICES ASSUME LoadTypeOK, TypeOK', [LoadNext]_loadVars
              PROVE  LoadTypeOK'
  OBVIOUS
<1>. USE DEF LoadTypeOK
<1>1. ASSUME NEW t \in Task, TaskStep(t)
      PROVE  LoadTypeOK'
  <2>1. CASE Arrive(t)
    BY <2>1 DEF Arrive
  <2>2. CASE Save(t) \/ Wait(t) \/ Saved(t) \/ Panics(t)
    BY <2>2 DEF Save, Wait, Saved, Panics, Move
  <2>. QED
    BY <1>1, <2>1, <2>2 DEF TaskStep
<1>2. CASE Second \/ UNCHANGED loadVars
  BY <1>2 DEF Second, loadVars
<1>. QED
  BY <1>1, <1>2 DEF LoadNext

\* The tasks of the load keep their types, and with them the limiter its own.
THEOREM LoadTypeCorrect == LoadSpec => []LoadTypeOK
<1>1. LoadInit /\ TypeOK => LoadTypeOK
  BY DEF LoadInit, LoadTypeOK
<1>. QED
  BY <1>1, LoadTypeInvariant, LoadUsesLimiter, TypeCorrect, PTL DEF LoadSpec

=============================================================================
