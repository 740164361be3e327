-------------------------- MODULE StoreConnectProofs --------------------------
(***************************************************************************)
(* Theorems about the instance lock and the program around it.  First the  *)
(* lock alone (InstanceLock), for any number of instances, any interval,   *)
(* time to live and lateness with Interval + MaxLate < Ttl.  Then          *)
(* StoreConnect: its steps are steps of the lock, so what is proved of the *)
(* lock holds there, for any licenses, expiries and failures; and the lock *)
(* together with the license bounds what unlicensed stores can do.         *)
(***************************************************************************)
EXTENDS StoreConnect, TLAPS

-----------------------------------------------------------------------------
(***************************************************************************)
(* The inductive invariant.  RefreshesOwnClaim alone is not inductive: a   *)
(* new claim gets revision lastSeq + 1, which must differ from what every  *)
(* other task expects, so tasks expect revisions of the past; and the      *)
(* exclusion rests on the claim still being there when another instance    *)
(* tries to acquire it.                                                    *)
(***************************************************************************)
BeatingInPast ==
  \A i \in Instance : hb[i] = "beating" => revision[i] \in 1..lastSeq

LockedInPast ==
  \A i \in Instance : Up(i) /\ ~Skipped(i) => lastSeq > 0

OwnerWrote ==
  keyRev # 0 => wrote[owner] = keyRev

IInv ==
  /\ TypeOK
  /\ BeatingInPast
  /\ LockedInPast
  /\ OwnerWrote
  /\ RefreshesOwnClaim
  /\ ClaimOutlivesInterval
  /\ ExclusiveWhileSynced

USE InstanceLockAssumption

LEMMA InitIInv == Init => IInv
  BY DEF Init, IInv, TypeOK, BeatingInPast, LockedInPast, OwnerWrote, RefreshesOwnClaim,
         ClaimOutlivesInterval, ExclusiveWhileSynced, Up, Skipped, Synced

\* The next tick after a beat is between one unit and one interval away.
LEMMA NextTick ==
  ASSUME NEW t \in (-MaxLate)..0
  PROVE  Interval - ((-t) % Interval) \in 1..Interval
  OBVIOUS

\* Two tasks never expect the revision the key has.
LEMMA OneMatch ==
  ASSUME RefreshesOwnClaim,
         NEW i \in Instance, hb[i] = "beating", keyRev = revision[i],
         NEW j \in Instance, hb[j] = "beating", keyRev = revision[j]
  PROVE  i = j
  BY DEF RefreshesOwnClaim

-----------------------------------------------------------------------------
LEMMA AcquireStep ==
  ASSUME IInv, NEW i \in Instance, Acquire(i)
  PROVE  IInv'
<1>. USE DEF IInv, Acquire, Update
<1>1. TypeOK'
  BY DEF TypeOK
<1>2. BeatingInPast'
  BY DEF BeatingInPast, TypeOK
<1>3. LockedInPast' /\ OwnerWrote'
  BY DEF LockedInPast, OwnerWrote, TypeOK
<1>4. RefreshesOwnClaim'
  BY DEF RefreshesOwnClaim, BeatingInPast, TypeOK
<1>5. \A j \in Instance : ~Synced(j)
  BY DEF ClaimOutlivesInterval, Synced, BeatingInPast, TypeOK
<1>6. ASSUME NEW j \in Instance, Synced(j)'
      PROVE  j = i /\ lastSeq = 0
  BY <1>5, <1>6 DEF Synced, TypeOK
<1>7. ClaimOutlivesInterval'
  BY <1>6 DEF ClaimOutlivesInterval, TypeOK
<1>8. ExclusiveWhileSynced'
  BY <1>6 DEF ExclusiveWhileSynced, LockedInPast, Up, Skipped, TypeOK
<1>. QED
  BY <1>1, <1>2, <1>3, <1>4, <1>7, <1>8

LEMMA AcquireAckLostStep ==
  ASSUME IInv, NEW i \in Instance, AcquireAckLost(i)
  PROVE  IInv'
<1>. USE DEF IInv, AcquireAckLost, Update
<1>1. TypeOK' /\ BeatingInPast' /\ LockedInPast' /\ OwnerWrote'
  BY DEF TypeOK, BeatingInPast, LockedInPast, OwnerWrote, Up, Skipped
<1>2. RefreshesOwnClaim'
  BY DEF RefreshesOwnClaim, BeatingInPast, TypeOK
<1>3. \A j \in Instance : ~Synced(j)
  BY DEF ClaimOutlivesInterval, Synced, BeatingInPast, TypeOK
<1>4. \A j \in Instance : ~Synced(j)'
  BY <1>3 DEF Synced, BeatingInPast, TypeOK
<1>. QED
  BY <1>1, <1>2, <1>4 DEF ClaimOutlivesInterval, ExclusiveWhileSynced

\* A refresh renews the key, keeps its owner, and is the only one that can.
LEMMA BeatStep ==
  ASSUME IInv, NEW i \in Instance, Beat(i)
  PROVE  IInv'
<1>. USE DEF IInv, Beat, Update, Due
<1>1. TypeOK'
  <2>1. Interval - ((-timer[i]) % Interval) \in (-MaxLate)..Interval
    BY NextTick DEF TypeOK
  <2>2. timer' \in [Instance -> (-MaxLate)..Interval]
    BY <2>1 DEF TypeOK
  <2>. QED
    BY <2>2 DEF TypeOK
<1>2. BeatingInPast' /\ LockedInPast' /\ OwnerWrote'
  BY DEF BeatingInPast, LockedInPast, OwnerWrote, TypeOK, Up, Skipped
<1>3. owner = i /\ Synced(i)
  BY DEF RefreshesOwnClaim, OwnerWrote, BeatingInPast, Synced, TypeOK
<1>4. RefreshesOwnClaim'
  BY <1>3 DEF RefreshesOwnClaim, BeatingInPast, TypeOK
<1>5. ASSUME NEW j \in Instance, Synced(j)', j # i
      PROVE  FALSE
  <2>1. Synced(j)
    BY <1>5 DEF Synced, BeatingInPast, TypeOK
  <2>2. keyRev = revision[j] /\ keyRev = revision[i]
    BY <2>1 DEF ClaimOutlivesInterval
  <2>. QED
    BY <1>5, <2>1, <2>2, OneMatch DEF Synced
<1>6. timer'[i] <= Interval /\ age' = 0 /\ keyRev' = revision'[i]
  BY <1>1 DEF TypeOK
<1>7. ClaimOutlivesInterval'
  BY <1>1, <1>5, <1>6 DEF ClaimOutlivesInterval, TypeOK
<1>8. ExclusiveWhileSynced'
  BY <1>3, <1>5 DEF ExclusiveWhileSynced, Up, Skipped
<1>. QED
  BY <1>1, <1>2, <1>4, <1>7, <1>8

LEMMA BeatErrorStep ==
  ASSUME IInv, NEW i \in Instance, BeatError(i)
  PROVE  IInv'
<1>. USE DEF IInv, BeatError, Due
<1>1. CASE UNCHANGED keyVars
  BY <1>1 DEF keyVars, TypeOK, BeatingInPast, LockedInPast, OwnerWrote, Up, Skipped,
    RefreshesOwnClaim, ClaimOutlivesInterval, ExclusiveWhileSynced, Synced
<1>2. CASE Update(revision[i], i)
  <2>. USE <1>2 DEF Update
  <2>1. TypeOK'
    BY DEF TypeOK
  <2>2. BeatingInPast' /\ LockedInPast' /\ OwnerWrote'
    BY DEF BeatingInPast, LockedInPast, OwnerWrote, TypeOK, Up, Skipped
  <2>3. RefreshesOwnClaim'
    BY DEF RefreshesOwnClaim, BeatingInPast, TypeOK
  <2>4. ASSUME NEW j \in Instance, Synced(j)'
        PROVE  FALSE
    <3>1. j # i /\ Synced(j)
      BY <2>4 DEF Synced, TypeOK
    <3>2. keyRev = revision[j] /\ keyRev = revision[i]
      BY <3>1 DEF ClaimOutlivesInterval
    <3>. QED
      BY <3>1, <3>2, OneMatch DEF Synced
  <2>. QED
    BY <2>1, <2>2, <2>3, <2>4 DEF ClaimOutlivesInterval, ExclusiveWhileSynced
<1>. QED
  BY <1>1, <1>2

\* Time does not expire the key of a task that is in step.
LEMMA TickStep ==
  ASSUME IInv, Tick
  PROVE  IInv'
<1>. USE DEF IInv, Tick
<1>1. TypeOK'
  <2>1. timer' \in [Instance -> (-MaxLate)..Interval]
    BY DEF TypeOK
  <2>2. keyRev' \in 0..lastSeq /\ age' \in 0..Ttl
    BY DEF TypeOK
  <2>. QED
    BY <2>1, <2>2 DEF TypeOK
<1>2. BeatingInPast' /\ LockedInPast' /\ OwnerWrote'
  BY DEF BeatingInPast, LockedInPast, OwnerWrote, Up, Skipped
<1>3. RefreshesOwnClaim'
  BY DEF RefreshesOwnClaim, BeatingInPast, TypeOK
<1>4. ASSUME NEW i \in Instance, Synced(i)'
      PROVE  keyRev' = revision'[i] /\ age' <= Interval - timer'[i]
  <2>1. Synced(i) /\ keyRev = revision[i] /\ keyRev # 0
    BY <1>4 DEF Synced, ClaimOutlivesInterval, BeatingInPast
  <2>2. timer[i] > -MaxLate /\ timer'[i] = timer[i] - 1
    BY <2>1 DEF Synced
  <2>3. age + 1 <= Interval - timer'[i] /\ age + 1 < Ttl
    BY <2>1, <2>2 DEF ClaimOutlivesInterval, TypeOK
  <2>. QED
    BY <2>1, <2>3
<1>5. ExclusiveWhileSynced'
  BY DEF ExclusiveWhileSynced, Synced, Up, Skipped
<1>. QED
  BY <1>1, <1>2, <1>3, <1>4, <1>5 DEF ClaimOutlivesInterval

\* The steps that leave the key alone.
LEMMA OtherSteps ==
  ASSUME IInv, NEW i \in Instance,
         AcquireSkip(i) \/ Connected(i) \/ Exit(i) \/ BeatRejected(i)
  PROVE  IInv'
<1>. USE DEF IInv, keyVars
<1>1. CASE AcquireSkip(i)
  BY <1>1 DEF AcquireSkip, TypeOK, BeatingInPast, LockedInPast, OwnerWrote, Up, Skipped,
    RefreshesOwnClaim, ClaimOutlivesInterval, ExclusiveWhileSynced, Synced
<1>2. CASE Connected(i)
  BY <1>2 DEF Connected, TypeOK, BeatingInPast, LockedInPast, OwnerWrote, Up, Skipped,
    RefreshesOwnClaim, ClaimOutlivesInterval, ExclusiveWhileSynced, Synced
<1>3. CASE Exit(i) \/ BeatRejected(i)
  <2>. USE <1>3 DEF Exit, BeatRejected, Due
  <2>1. TypeOK' /\ UNCHANGED keyVars
    BY DEF TypeOK
  <2>2. \A j \in Instance :
          hb'[j] = "beating" =>
            hb[j] = "beating" /\ revision'[j] = revision[j] /\ timer'[j] = timer[j]
    BY DEF TypeOK
  <2>3. BeatingInPast' /\ OwnerWrote' /\ RefreshesOwnClaim'
    BY <2>1, <2>2 DEF BeatingInPast, OwnerWrote, RefreshesOwnClaim
  <2>4. \A j \in Instance : Up(j)' => Up(j) /\ (Skipped(j)' <=> Skipped(j))
    BY DEF TypeOK, Up, Skipped
  <2>5. \A j \in Instance : Synced(j)' => Synced(j)
    BY <2>1, <2>2 DEF Synced
  <2>6. LockedInPast' /\ ExclusiveWhileSynced'
    BY <2>1, <2>4, <2>5 DEF LockedInPast, ExclusiveWhileSynced
  <2>7. ClaimOutlivesInterval'
    BY <2>1, <2>2, <2>5 DEF ClaimOutlivesInterval, Synced
  <2>. QED
    BY <2>1, <2>3, <2>6, <2>7
<1>. QED
  BY <1>1, <1>2, <1>3

LEMMA IInvInvariant == IInv /\ [Next]_vars => IInv'
<1>. SUFFICES ASSUME IInv, [Next]_vars
              PROVE  IInv'
  OBVIOUS
<1>1. ASSUME NEW i \in Instance, InstanceStep(i)
      PROVE  IInv'
  BY <1>1, AcquireStep, AcquireAckLostStep, BeatStep, BeatErrorStep, OtherSteps
  DEF InstanceStep
<1>2. CASE UNCHANGED vars
  BY <1>2 DEF vars, IInv, TypeOK, BeatingInPast, LockedInPast, OwnerWrote, Up, Skipped,
    RefreshesOwnClaim, ClaimOutlivesInterval, ExclusiveWhileSynced, Synced
<1>. QED
  BY <1>1, <1>2, TickStep DEF Next

LEMMA IInvAlways == Spec => []IInv
  BY InitIInv, IInvInvariant, PTL DEF Spec

-----------------------------------------------------------------------------
\* Every variable keeps its type; no timer runs beyond one interval.
THEOREM TypeCorrect == Spec => []TypeOK
<1>1. IInv => TypeOK
  BY DEF IInv
<1>. QED
  BY <1>1, IInvAlways, PTL

\* Of all the tasks that start from the guess 1, only the one whose instance
\* holds the claim can refresh it.
THEOREM RefreshSafe == Spec => []RefreshesOwnClaim
<1>1. IInv => RefreshesOwnClaim
  BY DEF IInv
<1>. QED
  BY <1>1, IInvAlways, PTL

\* A heartbeat in step keeps its claim alive.
THEOREM ClaimKept == Spec => []ClaimOutlivesInterval
<1>1. IInv => ClaimOutlivesInterval
  BY DEF IInv
<1>. QED
  BY <1>1, IInvAlways, PTL

\* A heartbeat in step keeps every other community instance out.
THEOREM Exclusion == Spec => []ExclusiveWhileSynced
<1>1. IInv => ExclusiveWhileSynced
  BY DEF IInv
<1>. QED
  BY <1>1, IInvAlways, PTL

USE StoreConnectAssumption

-----------------------------------------------------------------------------
(* Every step is one of the lock, or leaves it alone.                       *)

LEMMA LockStep == [ConnectNext]_connectVars => [Next]_vars
<1>. SUFFICES ASSUME [ConnectNext]_connectVars
              PROVE  [Next]_vars
  OBVIOUS
<1>1. CASE UNCHANGED connectVars
  BY <1>1 DEF connectVars
<1>2. CASE Time
  BY <1>2 DEF Time, Next
<1>3. ASSUME NEW l \in License, Expire(l)
      PROVE  [Next]_vars
  BY <1>3 DEF Expire
<1>4. ASSUME NEW i \in Instance, StartStep(i) \/ ConnectFails(i) \/ Shut(i) \/ HeartbeatStep(i)
      PROVE  InstanceStep(i) \/ UNCHANGED vars
  BY <1>4 DEF StartStep, LoadLicense, CheckHa, Claim, ClaimRefused, Opened, Serve,
    ConnectFails, Shut, HeartbeatStep, InstanceStep
<1>. QED
  BY <1>1, <1>2, <1>3, <1>4 DEF ConnectNext, Next

\* The program around the lock implements the lock.
THEOREM ConnectImplementsLock == ConnectSpec => Spec
<1>1. ConnectInit => Init
  BY DEF ConnectInit
<1>. QED
  BY <1>1, LockStep, PTL DEF ConnectSpec, Spec

-----------------------------------------------------------------------------
(***************************************************************************)
(* What connect read from the license.  The HA right is read after the     *)
(* rate limit: a license that still allows HA had not expired when the     *)
(* limit was read, so the limit is its own.                                *)
(***************************************************************************)
LimitBeforeHa ==
  \A i \in Instance :
    stage[i] # "idle" /\ license[i] # None /\ license[i] \notin expired =>
      rateLimit[i] = LicensedLimit(license[i])

HaIsLicensed ==
  \A i \in Instance :
    haAllowed[i] =>
      /\ stage[i] \notin {"idle", "limit"}
      /\ license[i] # None /\ license[i].allow_ha
      /\ rateLimit[i] = LicensedLimit(license[i])

\* Only a store that is up, with the HA right, passed the lock.
SkippedByRight ==
  \A i \in Instance : Skipped(i) => Up(i) /\ haAllowed[i]

\* Up only beyond the claim: until then its rights can still be read.
UpIsLocked ==
  \A i \in Instance : Up(i) <=> stage[i] \in {"locked", "serving"}

ConnectInv ==
  /\ ConnectTypeOK
  /\ LimitBeforeHa
  /\ HaIsLicensed
  /\ SkippedByRight
  /\ UpIsLocked

\* The steps of connect before the claim.
LEMMA ReadStep ==
  ASSUME ConnectInv, NEW i \in Instance, LoadLicense(i) \/ CheckHa(i)
  PROVE  ConnectInv'
<1>. USE DEF ConnectInv, ConnectTypeOK
<1>1. CASE LoadLicense(i)
  <2>. USE <1>1 DEF LoadLicense
  <2>1. PICK l \in License \cup {None} :
          /\ license' = [license EXCEPT ![i] = l]
          /\ rateLimit' = [rateLimit EXCEPT ![i] = EffectiveRateLimit(l)]
    OBVIOUS
  <2>2. EffectiveRateLimit(l) \in 0..U32Max
    BY DEF EffectiveRateLimit, LicensedLimit, Live
  <2>3. ConnectTypeOK'
    BY <2>1, <2>2 DEF vars, TypeOK
  <2>4. ~haAllowed[i]
    BY DEF HaIsLicensed
  <2>5. LimitBeforeHa'
    BY <2>1 DEF LimitBeforeHa, EffectiveRateLimit, Live, LicensedLimit
  <2>6. HaIsLicensed'
    BY <2>1, <2>4 DEF HaIsLicensed, LicensedLimit
  <2>7. SkippedByRight' /\ UpIsLocked'
    BY <2>4 DEF SkippedByRight, UpIsLocked, vars, Up, Skipped
  <2>. QED
    BY <2>3, <2>5, <2>6, <2>7
<1>2. CASE CheckHa(i)
  <2>. USE <1>2 DEF CheckHa
  <2>1. AllowsHa(license[i]) \in BOOLEAN
    BY DEF AllowsHa, Live
  <2>2. ConnectTypeOK'
    BY <2>1 DEF vars, TypeOK
  <2>3. LimitBeforeHa'
    BY DEF LimitBeforeHa, LicensedLimit
  <2>4. HaIsLicensed'
    BY DEF HaIsLicensed, LimitBeforeHa, AllowsHa, Live, LicensedLimit
  <2>5. ~Skipped(i) /\ ~Up(i)
    BY DEF UpIsLocked, SkippedByRight, HaIsLicensed
  <2>6. SkippedByRight' /\ UpIsLocked'
    BY <2>5 DEF SkippedByRight, UpIsLocked, vars, Up, Skipped
  <2>. QED
    BY <2>2, <2>3, <2>4, <2>6
<1>. QED
  BY <1>1, <1>2

LEMMA ClaimStep ==
  ASSUME ConnectInv, TypeOK', NEW i \in Instance, Claim(i)
  PROVE  ConnectInv'
<1>. USE DEF ConnectInv, ConnectTypeOK, Claim, rightsVars
<1>1. ConnectTypeOK' /\ LimitBeforeHa' /\ HaIsLicensed'
  BY DEF LimitBeforeHa, HaIsLicensed, LicensedLimit
<1>2. status' = [status EXCEPT ![i] = "connecting"]
  BY DEF AcquireSkip, Acquire
<1>3. UpIsLocked'
  BY <1>2 DEF UpIsLocked, Up, TypeOK
<1>4. SkippedByRight'
  <2>1. \A j \in Instance : Up(j) => Up(j)'
    BY <1>2 DEF Up, TypeOK
  <2>2. Up(i)'
    BY <1>2 DEF Up, TypeOK
  <2>3. CASE haAllowed[i]
    BY <2>1, <2>2, <2>3 DEF SkippedByRight, Skipped, AcquireSkip, TypeOK
  <2>4. CASE ~haAllowed[i]
    BY <2>1, <2>4 DEF SkippedByRight, Skipped, Acquire, TypeOK
  <2>. QED
    BY <2>3, <2>4
<1>. QED
  BY <1>1, <1>3, <1>4

\* A process that ends takes its rights with it.
LEMMA EndStep ==
  ASSUME ConnectInv, TypeOK', NEW i \in Instance,
         ClaimRefused(i) \/ ConnectFails(i) \/ Shut(i)
  PROVE  ConnectInv'
<1>. USE DEF ConnectInv, ConnectTypeOK, ClaimRefused, ConnectFails, Shut
<1>1. Ended(i) /\ UNCHANGED expired
  OBVIOUS
<1>2. failures' \in 0..MaxFailures
  BY DEF Fail
<1>3. ConnectTypeOK' /\ LimitBeforeHa' /\ HaIsLicensed'
  BY <1>1, <1>2 DEF Ended, LimitBeforeHa, HaIsLicensed, LicensedLimit
<1>4. status'[i] = "down" /\ hb'[i] # "pending"
  BY DEF vars, AcquireAckLost, Exit, TypeOK, UpIsLocked, Up, SkippedByRight, Skipped, HaIsLicensed
<1>5. \A j \in Instance \ {i} : status'[j] = status[j] /\ hb'[j] = hb[j]
  BY DEF vars, AcquireAckLost, Exit, TypeOK
<1>. QED
  BY <1>1, <1>3, <1>4, <1>5 DEF Ended, SkippedByRight, Skipped, UpIsLocked, Up

\* The steps that leave the rights and the rest of the start alone.
LEMMA OtherStep ==
  ASSUME ConnectInv, TypeOK', UNCHANGED <<rightsVars, failures>>,
         stage' = stage \/ \E i \in Instance : Serve(i),
         expired' = expired \/ \E l \in License : Expire(l),
         \A i \in Instance : (Up(i)' <=> Up(i)) /\ (Skipped(i)' => Skipped(i))
  PROVE  ConnectInv'
<1>. USE DEF ConnectInv, ConnectTypeOK, rightsVars
<1>1. expired \subseteq expired' /\ expired' \subseteq License
  BY DEF Expire
<1>2. stage' \in [Instance -> {"idle", "limit", "rights", "locked", "serving"}]
  BY DEF Serve
<1>3. \A i \in Instance :
        /\ stage'[i] \in {"locked", "serving"} <=> stage[i] \in {"locked", "serving"}
        /\ stage'[i] \in {"idle", "limit"} <=> stage[i] \in {"idle", "limit"}
        /\ stage'[i] = "idle" <=> stage[i] = "idle"
  BY DEF Serve
<1>. QED
  BY <1>1, <1>2, <1>3 DEF LimitBeforeHa, HaIsLicensed, SkippedByRight, UpIsLocked, LicensedLimit

LEMMA ConnectInvStep == ConnectInv /\ TypeOK' /\ [ConnectNext]_connectVars => ConnectInv'
<1>. SUFFICES ASSUME ConnectInv, TypeOK', [ConnectNext]_connectVars
              PROVE  ConnectInv'
  OBVIOUS
<1>. USE DEF vars, Up, Skipped
<1>1. CASE UNCHANGED connectVars
  BY <1>1, OtherStep DEF connectVars
<1>2. CASE Time
  BY <1>2, OtherStep DEF Time, Tick
<1>3. ASSUME NEW l \in License, Expire(l)
      PROVE  ConnectInv'
  BY <1>3, OtherStep DEF Expire
<1>4. ASSUME NEW i \in Instance, HeartbeatStep(i)
      PROVE  ConnectInv'
  BY <1>4, OtherStep DEF HeartbeatStep, Beat, BeatRejected, BeatError, ConnectInv, ConnectTypeOK, TypeOK
<1>5. ASSUME NEW i \in Instance, Opened(i)
      PROVE  ConnectInv'
  BY <1>5, OtherStep DEF Opened, Connected, ConnectInv, ConnectTypeOK, TypeOK
<1>6. ASSUME NEW i \in Instance, Serve(i)
      PROVE  ConnectInv'
  BY <1>6, OtherStep DEF Serve
<1>. QED
  BY <1>1, <1>2, <1>3, <1>4, <1>5, <1>6, ReadStep, ClaimStep, EndStep DEF ConnectNext, StartStep

LEMMA ConnectInvAlways == ConnectSpec => []ConnectInv
<1>1. ConnectInit => ConnectInv
  <2>1. ConnectInit => TypeOK
    BY InitIInv DEF ConnectInit, IInv
  <2>. QED
    BY <2>1 DEF ConnectInit, Init, ConnectInv, ConnectTypeOK, LimitBeforeHa, HaIsLicensed,
      SkippedByRight, UpIsLocked, Up, Skipped
<1>2. ConnectSpec => []TypeOK
  BY ConnectImplementsLock, TypeCorrect, PTL
<1>. QED
  BY <1>1, <1>2, ConnectInvStep, PTL DEF ConnectSpec

-----------------------------------------------------------------------------
\* Every variable of connect keeps its type.
THEOREM ConnectTypeCorrect == ConnectSpec => []ConnectTypeOK
<1>1. ConnectInv => ConnectTypeOK
  BY DEF ConnectInv
<1>. QED
  BY <1>1, ConnectInvAlways, PTL

\* While one heartbeat is in step, every other store that is up has a license
\* that allows HA and runs at that license's limit.
THEOREM UnlicensedAreAlone == ConnectSpec => []OthersAreLicensed
<1>1. ConnectInv /\ ExclusiveWhileSynced => OthersAreLicensed
  BY DEF ConnectInv, ExclusiveWhileSynced, SkippedByRight, HaIsLicensed, OthersAreLicensed
<1>. QED
  BY <1>1, ConnectInvAlways, ConnectImplementsLock, Exclusion, PTL

\* The lock's invariants hold of the program around it.
THEOREM LockInConnect ==
  ConnectSpec => [](RefreshesOwnClaim /\ ClaimOutlivesInterval /\ ExclusiveWhileSynced)
  BY ConnectImplementsLock, RefreshSafe, ClaimKept, Exclusion, PTL

-----------------------------------------------------------------------------
\* Once the license is expired and the process is not running, it stays so that
\* a start with this license reads no rights from it.
Lapsed(i, l) ==
  /\ l \in expired
  /\ stage[i] # "idle" /\ license[i] = l =>
       rateLimit[i] = CommunityLimit /\ ~haAllowed[i]

LEMMA LapsedStep ==
  ASSUME NEW i \in Instance, NEW l \in License,
         ConnectInv, Lapsed(i, l), [ConnectNext]_connectVars
  PROVE  Lapsed(i, l)'
<1>. USE DEF Lapsed, ConnectInv, ConnectTypeOK, rightsVars
<1>1. CASE UNCHANGED connectVars
  BY <1>1 DEF connectVars
<1>2. CASE Time
  BY <1>2 DEF Time
<1>3. ASSUME NEW k \in License, Expire(k)
      PROVE  Lapsed(i, l)'
  BY <1>3 DEF Expire
<1>4. ASSUME NEW j \in Instance, LoadLicense(j)
      PROVE  Lapsed(i, l)'
  <2>1. PICK k \in License \cup {None} :
          /\ license' = [license EXCEPT ![j] = k]
          /\ rateLimit' = [rateLimit EXCEPT ![j] = EffectiveRateLimit(k)]
    BY <1>4 DEF LoadLicense
  <2>. QED
    BY <1>4, <2>1 DEF LoadLicense, EffectiveRateLimit, Live, HaIsLicensed
<1>5. ASSUME NEW j \in Instance, CheckHa(j)
      PROVE  Lapsed(i, l)'
  BY <1>5 DEF CheckHa, AllowsHa, Live
<1>6. ASSUME NEW j \in Instance,
             Claim(j) \/ Opened(j) \/ Serve(j) \/ HeartbeatStep(j)
      PROVE  Lapsed(i, l)'
  BY <1>6 DEF Claim, Opened, Serve, HeartbeatStep
<1>7. ASSUME NEW j \in Instance,
             ClaimRefused(j) \/ ConnectFails(j) \/ Shut(j)
      PROVE  Lapsed(i, l)'
  BY <1>7 DEF ClaimRefused, ConnectFails, Shut, Ended
<1>. QED
  BY <1>1, <1>2, <1>3, <1>4, <1>5, <1>6, <1>7 DEF ConnectNext, StartStep

\* Whatever the clock did before, a process that starts after the expiry of its
\* license has the community's limit and does not pass the lock.
THEOREM ExpiryIsFinal == ConnectSpec => NoRightsAfterExpiry
<1>. SUFFICES ASSUME NEW i \in Instance, NEW l \in License
              PROVE  ConnectSpec =>
                       [](l \in expired /\ stage[i] = "idle" =>
                            [](Up(i) /\ license[i] = l =>
                                 rateLimit[i] = CommunityLimit /\ ~Skipped(i)))
  BY DEF NoRightsAfterExpiry
<1>1. l \in expired /\ stage[i] = "idle" => Lapsed(i, l)
  BY DEF Lapsed
<1>2. ConnectInv /\ Lapsed(i, l) /\ [ConnectNext]_connectVars => Lapsed(i, l)'
  BY LapsedStep
<1>3. ConnectInv /\ Lapsed(i, l) =>
        (Up(i) /\ license[i] = l => rateLimit[i] = CommunityLimit /\ ~Skipped(i))
  BY DEF ConnectInv, Lapsed, UpIsLocked, SkippedByRight
<1>. QED
  BY <1>1, <1>2, <1>3, ConnectInvAlways, PTL DEF ConnectSpec

=============================================================================
