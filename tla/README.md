# Skialith in TLA+

A model of the durability layer in this repository: TLA+ modules of its event
pipeline, its instance lock and the start of a store around it, its rate
limiter, its trace ingestion, the HTTP sidecar with the SDKs in front of it, and
its benchmark; the TLC configurations that check them on small instances; and
TLAPS proofs of the theorems that hold for every instance. Source positions are relative to the
repository's root.

Run a check with `tlc -config <run>.cfg <module>` and a proof with
`tlapm <module>.tla`, from this directory.

## 1. The system

An agent process talks to an HTTP sidecar (`src/bin/server.rs`), directly or
through the Python and TypeScript SDKs. The sidecar owns one `SkialithStore`.

| Component | State | Operations | Talks to |
|---|---|---|---|
| Event pipeline, `src/durable_event_store.rs` | an mpsc channel and a `Vec` per batch writer, the table `agent_events` | `new`, `with_dead_letter`, `connect`, `save_event`, the writer task (`run_tidb_batch_writer`, `flush_batch_with_retry`, `flush_batch`) | JetStream (publish), TiDB (batch INSERT), the dead-letter channel of the embedding program |
| Instance lock, `src/instance_lock.rs` | one key of a NATS KV bucket, a heartbeat task with its `revision` | `acquire`, heartbeat, `drop` | NATS KV; `connect` calls it |
| Rate limiter, `src/limits.rs` | two atomics: the window's second, the slots taken | `wait` | `save_event` calls it first |
| License, `src/license.rs` | none after `connect` | `load`, `effective_rate_limit`, `allows_ha` | gives the limit to the limiter and the HA right to the lock |
| Checkpoints, `src/agent_manager.rs` | none | `checkpoint_state` | JetStream, subject `agent.checkpoint.<agent>` |
| Trace ingestion, `src/trace_ingest.rs` | a durable pull consumer on `agent.trace.*`, a buffer of fetched messages | `ingest_agent_trace_stream` | JetStream (fetch, ack), `AgentTrace::insert` |
| Trace table, `src/agent_trace.rs` | `agent_traces` | `insert` | TiDB |
| Resurrection, `src/resurrection.rs` | none | `resume_agent` | reads `agent_traces` |
| Sidecar, `src/bin/server.rs` | the store, the manager, a pool | `save_event`, `checkpoint`, `get_state`, `health` | all of the above |
| SDKs, `sdks/python`, `sdks/typescript` | one awaited request at a time | `resume`, `save_event`, `checkpoint` | the sidecar |
| Benchmark, `src/bin/benchmark.rs` | up to two stores, their rows | five scenarios, `clear_bench_data` | the store, TiDB |
| Demo, managed stubs | none | a program, trait declarations | the store |

What is hard in it, and what makes each part correct:

- **Event pipeline.** Callers, up to two writer tasks, a dead-letter consumer
  and the database act concurrently through two bounded channels; a caller can
  disappear between publish and enqueue; a commit can take effect and be
  reported as failed; the process can die at any point. Correct means: no event
  the channel took disappears or is settled twice, order is kept, a writer that
  ends is empty, nobody waits for ever, the log is ahead of the table.
- **Instance lock.** The lock is a lease without a fencing token: what a
  heartbeat believes (`revision`) and what the bucket holds drift apart when
  answers are lost, timers are late or the key expires. Correct means: one
  instance that needs the lock at a time, no heartbeat keeps another's claim
  alive, a lease in step does not lapse, an orphaned key goes away.
- **Rate limiter.** Threads race on two atomics without a lock; a task can hold
  a clock value from an earlier second. Correct means: no slot is given twice,
  the cap is exceeded only by what the documented reset race allows, and every
  caller gets through.
- **Ingestion and resurrection.** At-least-once delivery, acks that may be lost,
  ack waits that end while a message is being processed, several workers on one
  consumer. Correct means: acknowledged implies persisted, one row a message,
  everything is ingested in the end, a resumed agent gets its last state.

- **Start of a store.** The license is looked at twice, the claim comes before
  the connection to TiDB and before the port, and each `?` in between leaves the
  key behind. Correct means: an expired license gives no rights to a process
  that starts, only licensed stores run beside one that holds the lock, and no
  orphaned key ends the service.
- **Sidecar and SDKs.** A client gives up while its handler works on: the
  handler may publish, or answer, after later calls of the same agent. Correct
  means: `resume()` never goes back, and what reached the stream can be resumed
  from in the end.
- **Benchmark.** A poll loop with a deadline races a writer whose delays grow by
  powers, all profiles share one `agent_id`, and a store that was dropped goes on
  writing. Correct means: the loop ends, a timeout means what it says, and a
  profile is reported for its own rows.

`PROJECT.json` lists every component with its status, and every hazard with the
line where it bites and the properties that watch it.

## 2. The modules

| Module | Models | Proofs |
|---|---|---|
| `DurableQueue` | what a caller may rely on: a logged event enters a FIFO lane once, and the oldest events of a lane leave it together with one fate | `DurableQueueProofs` |
| `EventStore` | the event pipeline | `EventStoreProofs`, `EventStoreRefinement` |
| `InstanceLock` | `acquire`, heartbeat, `drop`, and the KV bucket | `StoreConnectProofs` |
| `StoreConnect` | licenses, `connect` and the start of the sidecar; composed with `InstanceLock` | `StoreConnectProofs` |
| `RateLimiter` | `RateLimiter::wait`, called again and again | `RateLimiterProofs` |
| `BenchmarkLoad` | the two load scenarios of the benchmark; composed with `RateLimiter` | `RateLimiterProofs` |
| `TraceIngest` | publishers, the durable consumer, the ingest loop, `insert`, `resume_agent` | `TraceIngestProofs` |
| `Sidecar` | SDK clients and the handlers of the sidecar; composed with `TraceIngest` | `SidecarProofs` |
| `Benchmark` | the persistence scenario of the benchmark and its writers, against the clock | `BenchmarkProofs` |
| `MC...` | values of the constants for TLC | |

Operators marked "Mutation:" in a comment are not part of a specification. They
are plausible bugs of the definition that follows them; a property that does
not fail when one of them takes its place would say nothing about the code.

### EventStore

| Variable | In the code |
|---|---|
| `cfg` | the `SkialithConfig` given to `new`, any of `Configs` |
| `pc` | where each `save_event` call is; `idle` includes the rate limiter's wait |
| `wal` | the calls whose message is in the stream |
| `cur` | the writer `enqueue_tx` feeds: `plain` (spawned by `new`), `dead_letter` (spawned by `with_dead_letter`), or `none` once the store is dropped |
| `chan`, `batch` | per writer, the mpsc channel and the `Vec` |
| `mode`, `attempt`, `last` | per writer, the await it is at (`spawned` before its first poll, `select`, `flush`, `park` at the dead-letter send), the insert attempt, and whether this flush precedes `break` |
| `rows`, `dlq`, `dlOpen` | `agent_events`, the dead-letter channel (which another store of the embedding program may have filled before), its receiver |
| `log`, `settled`, `fate` | history only |

One step of `Recv`, `RecvNone` or `Tick` is one arm of the `select!` up to the
first await of a flush. One step of `FlushOk`, `FlushDuplicate`, `FlushFault` or
`FlushCommitLost` is one whole `flush_batch` with what the retry loop then does:
the transaction is atomic for everyone else, and the sleep between attempts has
no effect the other tasks can see. A batch is insertable only if no row repeats
a key of the batch or of the table, since it is one INSERT under
`UNIQUE KEY uq_agent_event`. An error of the database either has no effect or,
when the answer of the commit is lost, all of it. `Crash` ends the process and
starts a new one, which finds the stream and the tables as they were; nothing
reads the stream back into `agent_events`.

A channel takes events from the moment its writer is spawned. `FirstPoll` is the
writer's first poll, which makes the ticker; with a zero linger `interval` panics
there (`FirstPollPanics`), and the events sent until then, whose `save_event`
returned `Ok`, are dropped with the receiver: their `fate` is `dropped`. Later
saves find the channel closed.

`with_dead_letter` and dropping the store take the store by value, so both wait
until no call borrows it (`NoCallInFlight`).

### InstanceLock

Time is discrete. `Update` is the bucket's update with an expected revision; a
revision is the sequence number of the bucket's stream, which grows with every
write and outlives the key. `Tick` lets a unit pass and drops a key of age
`Ttl`. `MaxLate` bounds how late an answered heartbeat is (timer, network and
NATS together); a heartbeat that gets no answer takes `BeatError` and ends. An
update that NATS applies later than that is not modelled. The proofs need
`Interval + MaxLate < Ttl` only: with 10 s and 30 s, any lateness below 20 s.
`owner` and `wrote` are history. An instance with a license for HA passes the
lock by (`AcquireSkip`); who has one is decided in `StoreConnect`.

### StoreConnect

It extends `InstanceLock`: each of its steps is a step of the lock or leaves the
lock alone, which `ConnectImplementsLock` proves. `stage` is how far a process
is: it has read its license and with it the rate limit, then the HA right from a
second reading of the clock, then it claims, connects to TiDB (`Opened`) and
binds its port (`Serve`). `license`, `rateLimit` and `haAllowed` are the locals
of `connect`. `Expire` may happen between any two steps; the wall clock is
assumed not to go back over an expiry. `Shut` is every end of a process that has
a claim: TiDB, the second connection to NATS or the port failed, or it died.

### RateLimiter

Each load, store, compare-and-exchange and clock read is a step. The stores of a
reset are relaxed, so either may be seen first. `Tick` begins a second; sleepers
wake. `limit` is the store's `rate_limit`, fixed in `connect`. `Call` is
`save_event` calling `wait`.

`BenchmarkLoad` puts the tasks of scenarios 3 and 4 around it: the barrier, the
saves one after the other, the `expect` that panics a task, and `join_all`.

### TraceIngest

The stream holds events and checkpoints of this repository and, if `Foreign` is
not empty, messages of other publishers on `agent.trace.*`: the consumer
accepts any payload and reads `step_index` and `event_type` from it. `Deliver`,
`Pass`, `AckWait` and `Redeliver` are the server's side of the durable consumer.
`IngestFails` covers every error of the insert, with and without an effect, and
ends the loop as `?` does; `Start` is whatever runs the loop again. `Half` stands
for 2^31: `as i32` maps to `-Half .. Half - 1`. Delivery attempts are unlimited,
as in the default consumer configuration.

### Sidecar

It extends `TraceIngest`. `awaited` is the connection on which an agent awaits an
answer, `handlers` are the requests in the server, `given` is what the last
`resume()` of an agent returned. A request is published or read in one step and
answered in a later one, so that a call may be given up (`GiveUp`: the 10 s of
the Python client, or the agent's restart), the connection closed (`Dropped`) or
the process lost (`SidecarCrash`) before, between and after. A handler whose
call was given up may still publish.

### Benchmark

Time is discrete, and passes only where the program waits: in the sleep of the
poll loop, and for a bounded time in the saves of a profile and in the scenarios
that follow. Writers and statements take no time of their own, so a TIMEOUT in
the model is never the fault of a slow database. `store`, `sent`, `received`,
`settled`, `attempt`, `wait` and `ticker` are one batch writer for each profile:
its batch are the events `settled + 1 .. received`. Its ticker counts from the
end of the last tick (`MissedTickBehavior::Delay`), and `Delay` is
`retry_strategy`, whose n-th delay is a power of its base. `rows` starts with
any number of rows of an earlier run. `twice`, `twiceLate`, `blind` and
`foreign` are history.

## 3. The runs

| Run | Question | Instance |
|---|---|---|
| `store_safety` | Can any path lose, reorder or settle an event twice? Does the pipeline implement `DurableQueue`? | 3 calls, two of one key; configured batch 0, 1 or 3 against a cap of 2, channels of 1 and 2; 2 attempts; 3 database errors; 1 crash |
| `store_live` | Is every accepted event disposed of, every blocked caller answered? | 3 calls of one key and a dead-letter channel of 1, empty or full at the start; batches of 2 for the first writer and of 1 for the second, channels of 1; a linger of zero or not; 1 database error; 1 crash |
| `lock` | Which exclusion does the lock give, does a lease in step hold, do orphans and expiries end well? | 2 processes, a license for HA or none, which may expire at any moment; `Ttl` 6, `Interval` 2 and lateness 1, in units of 5 s; 5 updates; 2 failures |
| `ingest_safety` | Is what is acknowledged persisted, and once? | 2 workers, 2 agents, 3 messages (events, checkpoints, a colliding and an overflowing step, a payload that is not JSON), fetches of 2, 1 failure, any number of lapsed ack waits |
| `ingest_events` | Does every event get in, in a row of its own, does resuming return the last one and never go back? | 1 agent with 2 connections, 3 messages, 1 worker, 1 failure or crash anywhere, any number of calls given up |
| `limiter` | By how much can racing resets exceed the cap, does every caller get through, does `join_all` return? | 3 tasks with 2 saves each; limits 0, 2 and `u32::MAX`; 1 second that begins while somebody could go on; 1 panic |
| `benchmark` | What do the delays of the retries mean for a deadline, whose rows are counted, does it end? | 2 profiles (batches of 2 and 3) with 3 events each; delays 4, 16, 64 around a deadline of 14; 4 statements that fail |

Why the bounds are enough: batches of two over three events have a full, a
partial and a blocked one at the same time in each writer; two attempts have a
first, a last and a retried one, and three errors exhaust both attempts of one
batch and hit the next. In `store_live` the dead-letter channel may be full from
the start, so three calls reach the whole jam: a batch that is parked, an event
in the writer's full channel behind it, and a caller that waits for room. In the
lock, five updates are two whole claims with a refresh each and one more; a key
expires and is claimed again several times, and two failures are a failed start
beside a lost heartbeat. Two workers with a redelivery are the smallest instance
of a message in two hands; `ingest_events` has one worker, whose messages are
still redelivered out of order after a lapsed wait or a crash, and two
connections, so that one given-up request runs beside the present one. Three
tasks for two slots fill a window, leave one that sleeps, and race at the reset
of the next. `MaxBusyTicks` bounds only seconds that begin while somebody could
go on; seconds in which all others sleep are free. In `benchmark` four failures
lose a batch, and the ratios that matter are those of the code: the deadline (15
s) lies between the first delay (0.2 s), with room for one failure of each of
three batches, and the second (20 s). Symmetry is used in `store_safety` (the
two calls of one key) and `ingest_safety` (workers): neither checks liveness.

Deadlock is not checked in any run, because each instance comes to rest: calls,
messages, updates and errors are finite, a writer with an empty batch waits for
the next event, and a limiter whose callers have all returned has nothing to do.
`NoStrandedEvents` and the liveness properties say that what rests is finished.

### Disagreements with the documentation

Each of these runs checks one statement of a comment or of the README and ends
with a counterexample.

| Run | Statement | What the code does |
|---|---|---|
| `dup_poisons_batch` | `README.md:22`: duplicates "are safely ignored at the database layer" | a repeated key fails the whole multi-row INSERT, four times, and the batch is lost or dead-lettered with its innocent events |
| `dead_letter_unclamped` | `src/limits.rs:22`: "Max rows per TiDB batch INSERT" | `with_dead_letter` starts its writer with `SkialithConfig::default()`, 256 rows a batch against a cap of 64 |
| `lock_restart` | `src/instance_lock.rs:31`: "Community Edition allows only one instance." | the heartbeat starts from revision 1; once the bucket has had an earlier write its first refresh fails, the task ends silently, the key expires and another instance starts. The run has no failing NATS and no late heartbeat |
| `checkpoint_not_resumed` | `src/bin/server.rs:113`: "Returns the last checkpointed state for this agent." | checkpoints go to `agent.checkpoint.*`, which no consumer reads |
| `benchmark_community` | `src/bin/benchmark.rs:5`: `cargo run --bin benchmark` is the "Community Edition (limits active)" run | scenario 2 connects a second store while `main` holds the first: the claim is refused, `expect` panics, and the scenarios after it and the last clean-up never run |

One more is without a run, because it takes 2^32 messages: `src/trace_ingest.rs:82`
says that the sequence "is guaranteed unique per stream" and prevents
collisions, but `as i32` repeats it. `EventHasOwnRow` and `ResumesLastEvent` are
checked and proved for shorter streams; with `Half` at 1 both fail.

## 4. Fairness

- `EventStore`: tokio polls a task it has spawned and a ready one, so the first
  poll of a writer (or the panic in it), a pending send, each arm of the
  `select!` (its choice is random, so no arm is starved), each flush and a
  pending dead-letter send are weakly fair. The dead-letter consumer is not in
  this repository; it is assumed to read. Callers, crashes, errors and the
  owner's operations are not fair.
- `StoreConnect`: time passes; a due heartbeat gets an answer or an error (NATS
  requests time out); a process that ended is started again by its supervisor,
  and a start goes on. Failures are not fair, and bounded.
- `BenchmarkLoad`: threads run and time passes.
- `Sidecar`: the server delivers and its ack waits end; a message is redelivered
  when some worker is able to take it again and again (strong fairness, since a
  worker's buffer fills and empties); a loop that ended is started again; a
  running one goes on. The restart is the deployment's: the repository has no
  caller of `ingest_agent_trace_stream`. Handlers go on, or are dropped. Agents
  need not call anything.
- `Benchmark`: `main` and the writers are scheduled, and time passes.

## 5. What is proved

All theorems are for every value of the constants the named assumptions allow:
any number of calls, instances, tasks and workers, any configuration and any
bound.

| Module | Theorem | Establishes |
|---|---|---|
| `EventStoreProofs` | `TypeCorrect` | `TypeOK` |
| | `Conservation` | `NoEventVanishes`: what a channel accepted is, in order, what its writer has disposed of and still holds |
| | `WriteAhead` | `LoggedBeforeTable`: the stream is ahead of the table |
| | `Drained` | `NoStrandedEvents`: a writer that ended holds no event |
| | `StoredIsInTable` | `StoredHasRow`: a batch cleared as written is in the table |
| | `OrderedRows` | `RowsInAcceptanceOrder`: the table keeps the order in which a writer accepted its events |
| | `BoundedExposure` | `ExposureBounded`: at most a channel and a batch of accepted events are outside the table |
| | `LossIsEarned` | `LossNeedsExhaustedRetries`: where no key repeats, an event without a row is given up only once the database has failed as often as a batch is tried; and it is dropped only where a linger is zero |
| `DurableQueueProofs` | `FateFinal` | the abstract queue gives an event one fate |
| `EventStoreRefinement` | `Refinement` | `ImplementsQueue`: the pipeline implements `DurableQueue` |
| | `OneFate` | `FateIsFinal`: so an event of the pipeline has one fate |
| `StoreConnectProofs` | `TypeCorrect` | `TypeOK` of `InstanceLock` |
| | `RefreshSafe` | `RefreshesOwnClaim`: no heartbeat keeps the claim of another instance |
| | `ClaimKept` | `ClaimOutlivesInterval`: a claim whose heartbeat is in step does not expire |
| | `Exclusion` | `ExclusiveWhileSynced`: no second instance beside one whose heartbeat is in step |
| | `ConnectImplementsLock` | opening stores makes only the steps of `InstanceLock` |
| | `LockInConnect` | so the three properties of the lock hold with licenses, failing starts and restarts |
| | `ConnectTypeCorrect` | `ConnectTypeOK` |
| | `UnlicensedAreAlone` | `OthersAreLicensed`: beside a heartbeat in step only stores with a license for HA, at its limit |
| | `ExpiryIsFinal` | `NoRightsAfterExpiry`: a process started after the expiry gets nothing from the license |
| `RateLimiterProofs` | `TypeCorrect` | `TypeOK` |
| | `SingleClaim` | `NoDoubleClaim`: no slot of a window goes out twice |
| | `CapIsSoft` | `SoftCap`: at most one window of calls for each reset |
| | `LoadUsesLimiter` | the load scenarios make only steps of `RateLimiter` |
| | `LoadWithinCap` | so `NoDoubleClaim` and `SoftCap` hold under the load |
| | `LoadTypeCorrect` | `LoadTypeOK` |
| `TraceIngestProofs` | `TypeCorrect` | `TypeOK`; in particular `as i32` fits the column |
| | `AckAfterInsert` | `AckedIsPersisted`: acknowledged implies persisted |
| | `InsertOnce` | `PersistedOnce`: one row a message |
| `SidecarProofs` | `SidecarTypeCorrect` | `SidecarTypeOK` |
| | `SidecarKeepsIngestion` | `AckedIsPersisted` and `PersistedOnce` hold with the sidecar as the publisher |
| | `EventsDoNotCollide` | `EventHasOwnRow`, when `NoWrap`: an acknowledged event has its own row |
| | `LastEventIsResumed` | `ResumesLastEvent`, when `NoWrap`: with everything ingested, the last event |
| | `ResumeGoesForward` | `ResumeNeverBack`, when `NoWrap`: no agent is given an older state than before |
| `BenchmarkProofs` | `BenchmarkTypeCorrect` | `TypeOK` |
| | `PersistedIsTrue` | `PersistedIsOwn`: "persisted" is said of the profile's own rows |
| | `TwoFailuresAreTooLate` | `TwoFailuresTimeOut`, when the second delay is longer than the deadline |
| | `TimeoutIsEarned` | `TimeoutNeedsTwoFailures`, when the first delays fit in the deadline |

The assumptions are those a module names on its constants. One of them is there
for the provers alone: to them a power is an opaque operator, so that
`DelayAssumption` says of the delays of `Benchmark` that they are numbers. Two
theorems about the benchmark and three about the sidecar have a hypothesis of
their own, given below.

Each proof shows that an invariant `IInv` holds initially and is kept by every
action, one step of the proof for each, and that it implies the property. What
`IInv` adds to the properties, and why:

- `EventStore`: `NoEventVanishes` is inductive given the types. The work is in
  the sequences: `PassHead` (receiving moves the head of the channel to the end
  of the batch), `AppendRight` (accepting) and `SettleConserves`, used by every
  end of a flush. `LoggedBeforeTable` needs that whatever a writer holds is
  logged too (`LoggedInv`). `NoStrandedEvents` needs that the flush before a
  writer's end finds its channel empty and closed (`LastIsClosed`), and that
  callers feed a writer that was started (`CurIsStarted`): `DrainInv`.
  `ExposureBounded` needs that a batch is flushed, or its writer parked, before
  the next event is taken (`HeldWithinBounds`). `RowsInAcceptanceOrder` compares
  positions in the table with positions in the history of a writer. It rests on
  a call being accepted once (`AcceptedOnce`) and on three facts about the table
  (`WrittenInv`): a row is of an accepted call, what waits in a channel has no
  row, and of a batch either every event has a row or none, so that a commit
  nobody noticed does not let the batch in a second time.
  `LossNeedsExhaustedRetries` needs the count that ties a batch to the faults
  before it (`FaultsCounted`): where no key repeats, an attempt fails because of a
  fault, or because the batch is in the table already. That events are dropped at a
  zero linger only is an invariant of its own (`DroppedAtZero`).
- `DurableQueue`: a fate is final only if disposing of some calls leaves no
  other occurrence of them behind: a call is pending at one place
  (`PendingOnce`) and has no fate there (`PendingHasNoFate`).
- `EventStoreRefinement`: the lane of a writer is its batch followed by its
  channel. Receiving is invisible to the queue, the end of a flush disposes of
  as many events as the batch has, a crash is `Fail`. The queue accepts only
  logged calls that it does not have: `LoggedBeforeTable` and `NotYetAccepted`;
  and a call in flight has a writer to send to: `StoreIsBorrowed`. `OneFate`
  then follows from `FateFinal` without another look at the code.
- `InstanceLock`: a new claim has revision `lastSeq + 1`, and must not be what
  an old heartbeat expects: `BeatingInPast`. A refresh compares revisions, not
  owners, so the two have to be tied: `OwnerWrote`. `LockedInPast` says that an
  instance that has the lock has written. `OneMatch` shows that two heartbeats never expect the same
  existing revision. That a claim outlives its interval rests on
  `Interval + MaxLate < Ttl`.
- `StoreConnect`: `OthersAreLicensed` is `ExclusiveWhileSynced` of the lock, for
  the stores that did not pass it by, and an invariant about those that did:
  a right that was still there at the second reading of the clock was there at
  the first, because an expired license stays expired. `NoRightsAfterExpiry` is
  proved as an invariant of a suffix: once a license is expired and a process is
  not started, every later state of that process has the community limit.
- `RateLimiter`: `SoftCap` forgets how many slots of the present window are
  taken; `GrantedWithinWindows` counts them. `count` stays within the slots
  because a task about to claim saw fewer than the limit: `ClaimsBelowLimit`.
  Each step of `BenchmarkLoad` is a step of the limiter or leaves it alone
  (`LoadStep`), so its theorems hold under the load without another proof.
- `TraceIngest`: `PersistedBeforeAck` says that a worker about to acknowledge
  has the row of the head of its buffer, also after other workers, lapsed waits
  and redeliveries. `RowsAreFromMessages` ties a row's key to its message, so
  that the unique key keeps out a second row of the same message.
- `Sidecar`: a step is a step of `TraceIngest` or only counts a fault
  (`IngestionPart`), so `IInv` of the ingestion carries over. That an awaited call
  has its request at the server, on a connection of its own (`Connected`), is how
  HTTP works and only a part of the invariant. The theorems about
  events assume `NoWrap`, `MaxMessages < Half`: the stream is shorter than 2^31.
  Then the sequence of an event is its `step_index` (`EventStepIndex`), whatever
  the consumer hands out is an event (`HandedOver`), and `resume_agent` returns
  the greatest sequence in the table (`ResumedIsMax`, from the fact that a
  bounded set of integers has a maximum). `ResumeNeverBack` needs one step more:
  a read that is finished and awaited is not older than what its agent was given
  before (`NotBehind`). It stays so because no other request of that agent is
  awaited, and because the table only grows.

- `Benchmark`: `PersistedIsOwn` is about one COUNT over rows of all profiles. While
  no DELETE failed and no writer was left at work, earlier writers are through
  (`OwnInv`), later ones have nothing yet (`UnstartedInv`), and only a batch that
  holds something is flushed (`BatchInv`); so the table holds rows of the present
  profile alone, and as many as there are events means all of them.
- `TwoFailuresTimeOut` has the hypothesis `Delay(2) > Deadline + 1` (if there is a
  second retry at all): with powers of 100 ms the second delay is 20 s, the
  deadline 15 s. The invariant, `LateInv`, follows the batch: it is lost, and the
  COUNT never becomes full (`Missing`), or its wait and the time that has passed
  add up to more than the deadline, a sum that a tick does not change.
- `TimeoutNeedsTwoFailures` has the hypothesis `FirstDelays * Delay(1) + Linger <=
  Deadline`, where `FirstDelays` is the smaller one of `EventCount` and
  `MaxErrors`, and at least one retry. With the benchmark's first delay of 0.2 s
  and lingers of at most 0.1 s it holds as long as at most 74 statements fail;
  1000 events alone would not satisfy it, which is why errors count too. The
  argument is a potential: `Need` is the time a profile may still have to wait,
  and `TimeInv` says that it fits in what is left of the deadline. A tick lowers
  it, and no writer step raises it: a batch that fails for the first time turns
  one of the delays that may still come (`Left`) into the one it waits for
  (`WriterNeed`). That needs that a first attempt fails only of an error
  (`FreshInv`), that nothing but a first delay is ever waited for without a
  second failure (`FirstInv`), and that nothing is given up then (`StoredInv`).

Only model-checked is liveness (`AcceptedSettles`, `EnqueueReturns`,
`RecoveryIsPossible`, `ServiceReturns`, `EventuallyResumed`, `EveryCallReturns`,
`JoinAllReturns`, `BenchmarkEnds`), which needs fairness and is outside TLAPS as
installed. Every other property of a passing run is a theorem.

## 6. What is not modelled

- Time in `EventStore`: the delays between attempts and the linger are steps
  that happen. `Benchmark` has them against a clock, for its own workload.
- The rate limiter inside `EventStore`: it only delays the first step of a call.
- Decoding and signature of the license: a process is given one that verifies,
  or none.
- A wall clock that goes back, over an expiry or within a window of the limiter.
- A `channel_capacity` of 0, with which `mpsc::channel` panics in `new`, before
  there is a store; a second `with_dead_letter` on the same store.
- Routing, JSON, headers and `health` of the sidecar; `ensure_stream`, which
  nothing calls; agent names with a dot, which the filter `agent.trace.*` leaves
  out. Nothing in the repository creates a stream for `agent.checkpoint.*`; the
  models assume that the deployment has one.
- The LangGraph adapter: `aget` and `aput` are the two endpoints of `resume` and
  `checkpoint`, but `aput` does not look at the status of its POST, so a failed
  checkpoint passes for a stored one.
- Of the benchmark scenarios 1 and 5, plain loops that measure, and everything
  that is printed but the verdict of scenario 2. "zero loss" in the totals of
  scenarios 3 and 4 is printed also when tasks have panicked.
- The managed stubs, which have no implementation.
- A message whose payload is not JSON ends the loop for its whole batch on every
  delivery. Whether the rest gets through depends on the order in which NATS
  delivers again; no liveness property is stated for that case.

## 7. Plan

Order of work: the pipeline, which is the heart of the system, then the lock,
then ingestion and resurrection, then the limiter, each with its runs and
proofs; then the programs around them, composed with the modules they use: the
start of a store, the sidecar with its clients, and the benchmark. All of these
are done, and so are the proofs of every safety property. To come:

1. A sharper bound on losses in `EventStore`: that each batch that is lost has
   used up attempts of its own.
2. What the liveness runs rest on, as far as it needs no fairness: that every step
   of a writer brings the batch it holds nearer to its end, by a measure that falls.
