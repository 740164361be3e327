----------------------------- MODULE InstanceLock -----------------------------
(***************************************************************************)
(* Single-instance enforcement of the Community Edition, instance_lock.rs. *)
(* A starting process claims one key of a NATS KV bucket by an update that *)
(* expects revision 0 (no such key), and a heartbeat task refreshes it by  *)
(* updates that expect the revision it wrote last.  The bucket's max_age   *)
(* drops a key that is not refreshed; nothing else ever deletes it.        *)
(*                                                                         *)
(* Time is discrete.  A heartbeat that is due is answered at most MaxLate  *)
(* units late (or fails): the delay of the timer, the network and NATS.    *)
(***************************************************************************)
EXTENDS Integers

CONSTANTS
  Instance,     \* the calls of connect, at most one of each instance at a time
  Ttl,          \* LOCK_TTL
  Interval,     \* HEARTBEAT_INTERVAL
  NatsFails,    \* whether the answer of an update may be lost
  MaxLate,      \* assumed: lateness of an answered heartbeat
  MaxSeq        \* bound: updates of the bucket in a behaviour

ASSUME InstanceLockAssumption ==
  /\ Ttl \in Nat /\ Interval \in Nat \ {0} /\ MaxLate \in Nat /\ MaxSeq \in Nat
  /\ Interval + MaxLate < Ttl
  /\ NatsFails \in BOOLEAN

VARIABLES
  status,       \* where SkialithStore::connect, or the store, is
  hb,           \* the heartbeat task: "pending" is HA's future that never ends
  revision,     \* the task's variable of that name
  timer,        \* time until the task's next tick; negative: it is late
  keyRev,       \* revision of the key; 0: there is no key
  age,          \* time since the key was written
  lastSeq,      \* last sequence number of the bucket's stream
  owner,        \* history: the instance that claimed the key
  wrote         \* history: the revision each instance last wrote

vars == <<status, hb, revision, timer, keyRev, age, lastSeq, owner, wrote>>

Init ==
  /\ status = [i \in Instance |-> "down"]
  /\ hb = [i \in Instance |-> "none"]
  /\ revision = [i \in Instance |-> 0]
  /\ timer = [i \in Instance |-> 0]
  /\ keyRev = 0
  /\ age = 0
  /\ lastSeq = 0
  /\ owner \in Instance
  /\ wrote = [i \in Instance |-> 0]

-----------------------------------------------------------------------------
\* NATS: an update is stored if the key's revision is the expected one, under
\* the next sequence number of the stream.
Update(expected, i) ==
  /\ keyRev = expected /\ lastSeq < MaxSeq
  /\ keyRev' = lastSeq + 1
  /\ lastSeq' = lastSeq + 1
  /\ age' = 0
  /\ owner' = i
  /\ wrote' = [wrote EXCEPT ![i] = lastSeq + 1]

keyVars == <<keyRev, age, lastSeq, owner, wrote>>

\* acquire(js, skip = true), for a license that allows HA.
AcquireSkip(i) ==
  /\ status[i] = "down"
  /\ status' = [status EXCEPT ![i] = "connecting"]
  /\ hb' = [hb EXCEPT ![i] = "pending"]
  /\ UNCHANGED <<revision, timer, keyVars>>

\* Mutation: the key is put, not claimed by an update that expects revision 0.
AcquirePuts(i) ==
  /\ status[i] = "down"
  /\ Update(keyRev, i)
  /\ status' = [status EXCEPT ![i] = "connecting"]
  /\ hb' = [hb EXCEPT ![i] = "beating"]
  /\ revision' = [revision EXCEPT ![i] = 1]
  /\ timer' = [timer EXCEPT ![i] = 0]

\* Mutation: the first tick comes after a whole LOCK_TTL.
AcquireSlow(i) ==
  /\ status[i] = "down"
  /\ Update(0, i)
  /\ status' = [status EXCEPT ![i] = "connecting"]
  /\ hb' = [hb EXCEPT ![i] = "beating"]
  /\ revision' = [revision EXCEPT ![i] = 1]
  /\ timer' = [timer EXCEPT ![i] = Ttl]

\* Mutation: the error of a rejected claim is not returned.
AcquireUnchecked(i) ==
  /\ status[i] = "down"
  /\ Update(0, i) \/ (keyRev # 0 /\ UNCHANGED keyVars)
  /\ status' = [status EXCEPT ![i] = "connecting"]
  /\ hb' = [hb EXCEPT ![i] = "beating"]
  /\ revision' = [revision EXCEPT ![i] = 1]
  /\ timer' = [timer EXCEPT ![i] = 0]

\* acquire(js, skip = false); the key did not exist.  The heartbeat starts with
\* revision = 1, its first tick is immediate.
Acquire(i) ==
  /\ status[i] = "down"
  /\ Update(0, i)
  /\ status' = [status EXCEPT ![i] = "connecting"]
  /\ hb' = [hb EXCEPT ![i] = "beating"]
  /\ revision' = [revision EXCEPT ![i] = 1]
  /\ timer' = [timer EXCEPT ![i] = 0]

\* The update was stored and its answer lost: AlreadyRunning, the process ends.
AcquireAckLost(i) ==
  /\ NatsFails
  /\ status[i] = "down"
  /\ Update(0, i)
  /\ UNCHANGED <<status, hb, revision, timer>>

\* MySqlPoolOptions::connect succeeds.
Connected(i) ==
  /\ status[i] = "connecting"
  /\ status' = [status EXCEPT ![i] = "running"]
  /\ UNCHANGED <<hb, revision, timer, keyVars>>

\* It fails, the store is dropped, or the process dies: the heartbeat and its
\* variables are gone and the key stays.
Exit(i) ==
  /\ status[i] # "down"
  /\ status' = [status EXCEPT ![i] = "down"]
  /\ hb' = [hb EXCEPT ![i] = "none"]
  /\ revision' = [revision EXCEPT ![i] = 0]
  /\ timer' = [timer EXCEPT ![i] = 0]
  /\ UNCHANGED keyVars

-----------------------------------------------------------------------------
(* The heartbeat task.  MissedTickBehavior::Skip keeps the ticks on the     *)
(* multiples of the interval after a late one.                              *)

Due(i) == hb[i] = "beating" /\ timer[i] <= 0

\* Mutation: each refresh waits two intervals.
BeatBacksOff(i) ==
  /\ Due(i)
  /\ Update(revision[i], i)
  /\ revision' = [revision EXCEPT ![i] = lastSeq + 1]
  /\ timer' = [timer EXCEPT ![i] = 2 * Interval]
  /\ UNCHANGED <<status, hb>>

Beat(i) ==
  /\ Due(i)
  /\ Update(revision[i], i)
  /\ revision' = [revision EXCEPT ![i] = lastSeq + 1]
  /\ timer' = [timer EXCEPT ![i] = Interval - ((-@) % Interval)]
  /\ UNCHANGED <<status, hb>>

\* The key is at another revision, or gone: the loop ends, and with it every
\* later refresh; the store is not told.
BeatRejected(i) ==
  /\ Due(i) /\ keyRev # revision[i]
  /\ hb' = [hb EXCEPT ![i] = "broken"]
  /\ UNCHANGED <<status, revision, timer, keyVars>>

\* The update times out, stored or not: the loop ends all the same.
BeatError(i) ==
  /\ NatsFails
  /\ Due(i)
  /\ Update(revision[i], i) \/ UNCHANGED keyVars
  /\ hb' = [hb EXCEPT ![i] = "broken"]
  /\ UNCHANGED <<status, revision, timer>>

\* Mutation: a bucket without max_age.
TickForEver ==
  /\ \A i \in Instance : hb[i] = "beating" => timer[i] > -MaxLate
  /\ timer' = [i \in Instance |-> IF hb[i] = "beating" THEN timer[i] - 1 ELSE timer[i]]
  /\ UNCHANGED <<status, hb, revision, keyVars>>

\* Time passes, no heartbeat gets later than MaxLate, and the bucket drops a
\* key of age Ttl.
Tick ==
  /\ \A i \in Instance : hb[i] = "beating" => timer[i] > -MaxLate
  /\ timer' = [i \in Instance |-> IF hb[i] = "beating" THEN timer[i] - 1 ELSE timer[i]]
  /\ IF keyRev # 0 /\ age + 1 < Ttl
       THEN age' = age + 1 /\ UNCHANGED keyRev
       ELSE age' = 0 /\ keyRev' = 0
  /\ UNCHANGED <<status, hb, revision, lastSeq, owner, wrote>>

-----------------------------------------------------------------------------
InstanceStep(i) ==
  \/ AcquireSkip(i) \/ Acquire(i) \/ AcquireAckLost(i)
  \/ Connected(i) \/ Exit(i)
  \/ Beat(i) \/ BeatRejected(i) \/ BeatError(i)

Next == Tick \/ \E i \in Instance : InstanceStep(i)

Spec == Init /\ [][Next]_vars

-----------------------------------------------------------------------------
Up(i) == status[i] # "down"

\* acquire was told to bypass the lock.
Skipped(i) == hb[i] = "pending"

\* The heartbeat runs and its revision is that of its instance's last write:
\* so far the guess of 1 was right.
Synced(i) == hb[i] = "beating" /\ revision[i] = wrote[i]

TypeOK ==
  /\ status \in [Instance -> {"down", "connecting", "running"}]
  /\ hb \in [Instance -> {"none", "pending", "beating", "broken"}]
  /\ revision \in [Instance -> 0..(MaxSeq + 1)]
  /\ timer \in [Instance -> (-MaxLate)..Interval]
  /\ keyRev \in 0..lastSeq
  /\ age \in 0..Ttl
  /\ lastSeq \in 0..MaxSeq
  /\ owner \in Instance
  /\ wrote \in [Instance -> 0..MaxSeq]

\* A heartbeat can refresh only the claim of its own instance, although every
\* task starts from the same guess, revision 1 (instance_lock.rs:81).
RefreshesOwnClaim ==
  \A i \in Instance : hb[i] = "beating" /\ keyRev = revision[i] => owner = i

\* While its heartbeat is in step, an instance's claim does not expire: 10 s
\* of interval and the lateness stay below the 30 s of max_age, also across
\* skipped ticks.
ClaimOutlivesInterval ==
  \A i \in Instance :
    Synced(i) => keyRev = revision[i] /\ age <= Interval - timer[i]

\* While the heartbeat of one instance is in step, no other one that did not
\* skip the lock is up: the exclusion the lock does provide.
ExclusiveWhileSynced ==
  \A i, j \in Instance : Synced(i) /\ i # j /\ Up(j) => Skipped(j)

\* A key no heartbeat can refresh (a crash, a failed connect, a lost answer)
\* is gone in the end: the instance can be started again.
RecoveryIsPossible ==
  (keyRev # 0 /\ \A i \in Instance : hb[i] = "beating" => revision[i] # keyRev)
    ~> keyRev = 0

\* "Community Edition allows only one instance." (instance_lock.rs:31),
\* "The lock has a 30-second TTL; the holder refreshes it every 10 seconds"
\* (instance_lock.rs:11): no two instances that need the lock are up.
AtMostOneInstance ==
  \A i, j \in Instance :
    Up(i) /\ Up(j) /\ ~Skipped(i) /\ ~Skipped(j) => i = j

=============================================================================
