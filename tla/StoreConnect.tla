----------------------------- MODULE StoreConnect -----------------------------
(***************************************************************************)
(* How a store is opened: SkialithStore::connect and the start of the      *)
(* sidecar around it, composed with the instance lock.  connect loads the  *)
(* license of its process, reads the rate limit and the HA right from it   *)
(* at two moments, connects to NATS, claims the lock unless HA is allowed, *)
(* and connects to TiDB; main then opens a second NATS connection and      *)
(* binds its port.  Any of these fails with `?`, which drops what was      *)
(* opened so far, and the process ends.                                    *)
(*                                                                         *)
(* Assumed of the wall clock: an expired license stays expired.            *)
(***************************************************************************)
EXTENDS InstanceLock

CONSTANTS
  License,      \* the licenses a process may be given, that verify
  None,         \* Option::None
  U32Max,       \* u32::MAX: no limit
  CommunityLimit,   \* COMMUNITY_RATE_LIMIT
  MaxFailures   \* bound: failures, exits and lost answers in a behaviour

ASSUME StoreConnectAssumption ==
  /\ U32Max \in Nat /\ CommunityLimit \in 0..U32Max /\ MaxFailures \in Nat
  /\ License \subseteq [max_events_per_second : (0..U32Max) \cup {None},
                        allow_ha : BOOLEAN]
  /\ None \notin License

VARIABLES
  expired,      \* the licenses whose expires_at has passed
  stage,        \* how far a starting process is; "serving" once its port is bound
  license,      \* enterprise_license of connect
  rateLimit,    \* rate_limit of connect, then of the store
  haAllowed,    \* ha_allowed of connect
  failures      \* history: failures so far

rightsVars == <<license, rateLimit, haAllowed>>
connectVars == <<vars, expired, stage, rightsVars, failures>>

ConnectInit ==
  /\ Init
  /\ expired \in SUBSET License
  /\ stage = [i \in Instance |-> "idle"]
  /\ license = [i \in Instance |-> None]
  /\ rateLimit = [i \in Instance |-> CommunityLimit]
  /\ haAllowed = [i \in Instance |-> FALSE]
  /\ failures = 0

-----------------------------------------------------------------------------
(* license.rs                                                              *)

\* License::effective_rate_limit before the expiry.
LicensedLimit(l) ==
  IF l.max_events_per_second = None THEN U32Max ELSE l.max_events_per_second

\* A license that is there, verifies and is not expired.
Live(l) == l # None /\ l \notin expired

\* Mutation: the ceiling of the license, expired or not.
LimitOfExpired(l) == IF l # None THEN LicensedLimit(l) ELSE CommunityLimit

EffectiveRateLimit(l) == IF Live(l) THEN LicensedLimit(l) ELSE CommunityLimit

\* Mutation: the HA right without a look at the clock.
HaOfExpired(l) == l # None /\ l.allow_ha

AllowsHa(l) == Live(l) /\ l.allow_ha

-----------------------------------------------------------------------------
\* load(), on the SKIALITH_LICENSE_KEY of this process: None if it is absent
\* or does not verify.  The clock is read for the rate limit.
LoadLicense(i) ==
  /\ stage[i] = "idle" /\ ~Up(i)
  /\ \E l \in License \cup {None} :
       /\ license' = [license EXCEPT ![i] = l]
       /\ rateLimit' = [rateLimit EXCEPT ![i] = EffectiveRateLimit(l)]
  /\ stage' = [stage EXCEPT ![i] = "limit"]
  /\ UNCHANGED <<vars, expired, haAllowed, failures>>

\* The clock is read again, for the HA right.
CheckHa(i) ==
  /\ stage[i] = "limit"
  /\ haAllowed' = [haAllowed EXCEPT ![i] = AllowsHa(license[i])]
  /\ stage' = [stage EXCEPT ![i] = "rights"]
  /\ UNCHANGED <<vars, expired, license, rateLimit, failures>>

Fail == failures < MaxFailures /\ failures' = failures + 1

\* main returns the error, or the process dies, and its variables with it.
Ended(i) ==
  /\ stage' = [stage EXCEPT ![i] = "idle"]
  /\ license' = [license EXCEPT ![i] = None]
  /\ rateLimit' = [rateLimit EXCEPT ![i] = CommunityLimit]
  /\ haAllowed' = [haAllowed EXCEPT ![i] = FALSE]

\* InstanceLock::acquire(&js, ha_allowed)
Claim(i) ==
  /\ stage[i] = "rights"
  /\ IF haAllowed[i] THEN AcquireSkip(i) ELSE Acquire(i)
  /\ stage' = [stage EXCEPT ![i] = "locked"]
  /\ UNCHANGED <<expired, rightsVars, failures>>

\* AlreadyRunning.
ClaimRefused(i) ==
  /\ stage[i] = "rights" /\ ~haAllowed[i]
  /\ keyRev # 0
  /\ Ended(i)
  /\ UNCHANGED <<vars, expired, failures>>

\* The connection to NATS or to the bucket fails, or the answer of the claim
\* is lost.
ConnectFails(i) ==
  /\ Fail
  /\ stage[i] = "rights"
  /\ \/ UNCHANGED vars
     \/ ~haAllowed[i] /\ AcquireAckLost(i)
  /\ Ended(i)
  /\ UNCHANGED expired

\* The pool connects to TiDB and connect returns the store.
Opened(i) ==
  /\ Connected(i)
  /\ UNCHANGED <<expired, stage, rightsVars, failures>>

\* main has its second NATS connection, and its port.
Serve(i) ==
  /\ stage[i] = "locked" /\ status[i] = "running"
  /\ stage' = [stage EXCEPT ![i] = "serving"]
  /\ UNCHANGED <<vars, expired, rightsVars, failures>>

\* TiDB, the second connection or the port fails, or the process dies: the
\* store is dropped and the key of its claim stays.
Shut(i) ==
  /\ Fail
  /\ Exit(i)
  /\ Ended(i)
  /\ UNCHANGED expired

HeartbeatStep(i) ==
  /\ \/ Beat(i) \/ BeatRejected(i)
     \/ BeatError(i)
  /\ UNCHANGED <<expired, stage, rightsVars, failures>>

Expire(l) ==
  /\ l \notin expired
  /\ expired' = expired \cup {l}
  /\ UNCHANGED <<vars, stage, rightsVars, failures>>

Time ==
  /\ Tick
  /\ UNCHANGED <<expired, stage, rightsVars, failures>>

-----------------------------------------------------------------------------
StartStep(i) ==
  \/ LoadLicense(i) \/ CheckHa(i)
  \/ Claim(i) \/ ClaimRefused(i)
  \/ Opened(i) \/ Serve(i)

ConnectNext ==
  \/ Time
  \/ \E l \in License : Expire(l)
  \/ \E i \in Instance :
       StartStep(i) \/ ConnectFails(i) \/ Shut(i) \/ HeartbeatStep(i)

ConnectSpec == ConnectInit /\ [][ConnectNext]_connectVars

\* Time passes, heartbeats are answered, a process that ended is started
\* again, and its start goes on.
FairConnectSpec ==
  /\ ConnectSpec
  /\ WF_connectVars(Time)
  /\ \A i \in Instance :
       WF_connectVars(StartStep(i)) /\ WF_connectVars(HeartbeatStep(i))

-----------------------------------------------------------------------------
ConnectTypeOK ==
  /\ TypeOK
  /\ expired \subseteq License
  /\ stage \in [Instance -> {"idle", "limit", "rights", "locked", "serving"}]
  /\ license \in [Instance -> License \cup {None}]
  /\ rateLimit \in [Instance -> 0..U32Max]
  /\ haAllowed \in [Instance -> BOOLEAN]
  /\ failures \in 0..MaxFailures

\* "N instances = N x 1,000 events/sec" (instance_lock.rs:4) does not happen
\* as long as a heartbeat is in step: every other store that is up passed the
\* lock by a license that allows HA, and runs at the limit of that license,
\* although the limit and the right are read from the clock one after the
\* other, and whatever expires in between.
OthersAreLicensed ==
  \A i, j \in Instance :
    Synced(i) /\ i # j /\ Up(j) =>
      /\ license[j] # None /\ license[j].allow_ha
      /\ rateLimit[j] = LicensedLimit(license[j])

\* Expiry is looked at only in connect (license.rs:64).  A store keeps the
\* rights it was opened with, but a process that starts once its license has
\* expired never again gets the license's rate limit or passes the lock.
NoRightsAfterExpiry ==
  \A i \in Instance : \A l \in License :
    [](l \in expired /\ stage[i] = "idle" =>
         [](Up(i) /\ license[i] = l =>
              rateLimit[i] = CommunityLimit /\ ~Skipped(i)))

\* A claim orphaned by a failed connection to TiDB, a port in use or a lost
\* answer (durable_event_store.rs:188, server.rs:174), and instances that
\* refuse to start because of it, delay the service but never end it.
ServiceReturns ==
  []<>(lastSeq = MaxSeq \/ \E i \in Instance : stage[i] = "serving")

=============================================================================
