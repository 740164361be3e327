------------------------------- MODULE Benchmark -------------------------------
(***************************************************************************)
(* Scenario 2 of bin/benchmark.rs against the clock: for each profile it   *)
(* connects a store, saves event_count events and polls COUNT( * ) until   *)
(* all are there or the deadline is over, deletes the rows and drops the   *)
(* store, whose batch writer (durable_event_store.rs) goes on in the       *)
(* background with the delays of retry_strategy.  All profiles write under *)
(* one agent_id.  A statement and a save take no time of their own; time   *)
(* passes only while the program sleeps, while it saves or in scenarios 3  *)
(* to 5.                                                                   *)
(***************************************************************************)
EXTENDS Naturals, FiniteSets

CONSTANTS
  BatchSize,     \* per profile: max_batch_size, as clamped by the build
  Linger,        \* max_batch_linger
  EventCount,    \* events of a profile
  Base, Factor,  \* ExponentialBackoff::from_millis(Base).factor(Factor)
  Retries,       \* take(Retries)
  Deadline,      \* of the poll loop
  Ha,            \* what allows_ha may answer when a profile connects
  MaxSaving,     \* bound: time the saves of a profile or scenarios 3 to 5 take
  MaxErrors      \* bound: statements that fail, or whose answer is lost

Profile == DOMAIN BatchSize

ASSUME BenchmarkAssumption ==
  /\ EventCount \in Nat \ {0} /\ Linger \in Nat \ {0} /\ Retries \in Nat
  /\ Base \in Nat \ {0} /\ Factor \in Nat \ {0} /\ Deadline \in Nat
  /\ Ha \subseteq BOOLEAN /\ MaxErrors \in Nat /\ MaxSaving \in Nat
  /\ IsFiniteSet(Profile) /\ Profile = 1..Cardinality(Profile) /\ 1 \in Profile
  /\ \A p \in Profile : BatchSize[p] \in Nat \ {0}

VARIABLES
  main,       \* where main is
  profile,    \* the profile it is at
  elapsed,    \* time since its phase began, up to just past the deadline
  report,     \* per profile: what was printed
  store,      \* per profile: "none", "open" or "dropped"
  sent,       \* per profile: events saved, 1..sent, in this order
  received,   \* per profile: events its writer took from the channel
  settled,    \* per profile: events no longer in its batch
  attempt,    \* per profile: the attempt its batch is at; 0: it is not flushed
  wait,       \* per profile: time until that attempt
  ticker,     \* per profile: time until the linger ticker fires
  rows,       \* agent_events of bench-batch; those of profile 0 are older
  errors,     \* statements that failed so far
  twice,      \* history: profiles with a batch that failed twice
  twiceLate,  \* history: those where it did while being polled, unstored
  blind,      \* history: profiles given up at a COUNT that failed
  foreign     \* history: rows of an earlier profile may be there, or come yet

writerVars == <<received, settled, attempt, wait, ticker>>
historyVars == <<twice, twiceLate, blind, foreign>>
vars == <<main, profile, elapsed, report, store, sent, writerVars, rows, errors, historyVars>>

All(p) == {<<p, i>> : i \in 1..EventCount}
Batch(p) == {<<p, i>> : i \in (settled[p] + 1)..received[p]}

Init ==
  /\ main = "clear"
  /\ profile = 1
  /\ elapsed = 0
  /\ report = [p \in Profile |-> "none"]
  /\ store = [p \in Profile |-> "none"]
  /\ sent = [p \in Profile |-> 0]
  /\ received = [p \in Profile |-> 0]
  /\ settled = [p \in Profile |-> 0]
  /\ attempt = [p \in Profile |-> 0]
  /\ wait = [p \in Profile |-> 0]
  /\ ticker = [p \in Profile |-> 0]
  /\ \E n \in 0..EventCount : rows = {<<0, i>> : i \in 1..n}
  /\ errors = 0
  /\ twice = {} /\ twiceLate = {} /\ blind = {} /\ foreign = FALSE

\* The whole process ends with main, its writers with it.
Running == main \notin {"done", "panicked"}

Fault == errors < MaxErrors /\ errors' = errors + 1

Goto(m) == main' = m /\ elapsed' = 0

-----------------------------------------------------------------------------
(* main *)

\* clear_bench_data, on entry and at the end: a failed DELETE is passed over.
Clear ==
  /\ main \in {"clear", "final"}
  /\ Goto(IF main = "clear" THEN "connect" ELSE "done")
  /\ \/ rows' = {} /\ UNCHANGED <<errors, foreign>>
     \/ Fault /\ foreign' = TRUE /\ UNCHANGED rows
  /\ UNCHANGED <<profile, report, store, sent, writerVars, twice, twiceLate, blind>>

\* SkialithStore::connect(..).expect(..): main's own store holds the instance
\* lock, so that without a license for HA the second claim is refused.
Connect ==
  /\ main = "connect"
  /\ \/ /\ TRUE \in Ha
        /\ Goto("save")
        /\ store' = [store EXCEPT ![profile] = "open"]
        /\ UNCHANGED errors
     \/ /\ FALSE \in Ha
        /\ Goto("panicked")
        /\ UNCHANGED <<store, errors>>
     \/ /\ Fault
        /\ Goto("panicked")
        /\ UNCHANGED store
  /\ UNCHANGED <<profile, report, sent, writerVars, rows, historyVars>>

Save ==
  /\ main = "save" /\ sent[profile] < EventCount
  /\ \/ /\ sent' = [sent EXCEPT ![profile] = @ + 1]
        /\ IF sent'[profile] = EventCount THEN Goto("poll") ELSE UNCHANGED <<main, elapsed>>
        /\ UNCHANGED errors
     \/ /\ Fault
        /\ Goto("panicked")
        /\ UNCHANGED sent
  /\ UNCHANGED <<profile, report, store, writerVars, rows, historyVars>>

\* Mutation: the loop waits for the count alone.
JudgeForEver(n, failed) ==
  /\ IF n >= EventCount
       THEN /\ main' = "delete"
            /\ report' = [report EXCEPT ![profile] = "persisted"]
       ELSE main' = "sleep" /\ UNCHANGED report
  /\ UNCHANGED <<profile, elapsed, store, sent, writerVars, rows, historyVars>>

\* What the loop does with a count.
Judge(n, failed) ==
  /\ \/ /\ n >= EventCount
        /\ main' = "delete"
        /\ report' = [report EXCEPT ![profile] = "persisted"]
        /\ UNCHANGED blind
     \/ /\ n < EventCount /\ elapsed > Deadline
        /\ main' = "delete"
        /\ report' = [report EXCEPT ![profile] = "TIMEOUT"]
        /\ blind' = IF failed THEN blind \cup {profile} ELSE blind
     \/ /\ n < EventCount /\ elapsed <= Deadline
        /\ main' = "sleep"
        /\ UNCHANGED <<report, blind>>
  /\ UNCHANGED <<profile, elapsed, store, sent, writerVars, rows, twice, twiceLate, foreign>>

\* SELECT COUNT( * ) of the agent's rows, 0 when it fails (unwrap_or).
Poll ==
  /\ main = "poll"
  /\ \/ Judge(Cardinality(rows), FALSE) /\ UNCHANGED errors
     \/ Judge(0, TRUE) /\ Fault

\* Mutation: the rows are left to clear_bench_data.
DeleteNothing ==
  /\ main = "delete"
  /\ foreign' = (foreign \/ settled[profile] < sent[profile])
  /\ store' = [store EXCEPT ![profile] = "dropped"]
  /\ IF profile + 1 \in Profile
       THEN Goto("connect") /\ profile' = profile + 1
       ELSE Goto("others") /\ UNCHANGED profile
  /\ UNCHANGED <<report, sent, writerVars, rows, errors, twice, twiceLate, blind>>

\* The DELETE at the end of a profile, and the store leaves its scope.
Delete ==
  /\ main = "delete"
  /\ \/ rows' = {} /\ UNCHANGED errors
     \/ Fault /\ UNCHANGED rows
  /\ foreign' = (foreign \/ rows' # {} \/ settled[profile] < sent[profile])
  /\ store' = [store EXCEPT ![profile] = "dropped"]
  /\ IF profile + 1 \in Profile
       THEN Goto("connect") /\ profile' = profile + 1
       ELSE Goto("others") /\ UNCHANGED profile
  /\ UNCHANGED <<report, sent, writerVars, twice, twiceLate, blind>>

\* Scenarios 3 to 5, on other agents' rows.
Others ==
  /\ main = "others"
  /\ Goto("final")
  /\ UNCHANGED <<profile, report, store, sent, writerVars, rows, errors, historyVars>>

-----------------------------------------------------------------------------
(* run_tidb_batch_writer of a profile's store *)

Idle(p) == Running /\ store[p] # "none" /\ attempt[p] = 0
Drained(p) == store[p] = "dropped" /\ received[p] = sent[p]

StartFlush(p) ==
  /\ attempt' = [attempt EXCEPT ![p] = 1]
  /\ wait' = [wait EXCEPT ![p] = 0]

Recv(p) ==
  /\ Idle(p) /\ received[p] < sent[p]
  /\ received' = [received EXCEPT ![p] = @ + 1]
  /\ IF received'[p] - settled[p] >= BatchSize[p]
       THEN StartFlush(p)
       ELSE UNCHANGED <<attempt, wait>>
  /\ UNCHANGED <<main, profile, elapsed, report, store, sent, settled, ticker, rows, errors, historyVars>>

\* The channel is closed and empty: what is left of a batch is flushed.
RecvNone(p) ==
  /\ Idle(p) /\ Drained(p) /\ settled[p] < received[p]
  /\ StartFlush(p)
  /\ UNCHANGED <<main, profile, elapsed, report, store, sent, received, settled, ticker, rows, errors, historyVars>>

\* ticker.tick(), the first at once; MissedTickBehavior::Delay counts the next
\* from here.
TickerFires(p) ==
  /\ Idle(p) /\ ticker[p] = 0
  /\ ~(Drained(p) /\ settled[p] = received[p])
  /\ ticker' = [ticker EXCEPT ![p] = Linger]
  /\ IF settled[p] < received[p]
       THEN StartFlush(p)
       ELSE UNCHANGED <<attempt, wait>>
  /\ UNCHANGED <<main, profile, elapsed, report, store, sent, received, settled, rows, errors, historyVars>>

\* Mutation: the delays double.
DelayDoubles(n) == Factor * Base * 2 ^ (n - 1)

\* Mutation: the first delay is a power too far.
DelayLong(n) == Factor * Base ^ (n + 1)

\* ExponentialBackoff: the n-th delay is Factor times the n-th POWER of the base.
Delay(n) == Factor * Base ^ n

\* Arithmetic, for the provers, to which a power is opaque.
ASSUME DelayAssumption == \A n \in 1..Retries : Delay(n) \in Nat

\* Mutation: what is still in the channel goes with the batch.
SettleAll(p) ==
  /\ settled' = [settled EXCEPT ![p] = sent[p]]
  /\ attempt' = [attempt EXCEPT ![p] = 0]
  /\ wait' = [wait EXCEPT ![p] = 0]

\* The flush is over: written, or the batch is lost.
Settle(p) ==
  /\ settled' = [settled EXCEPT ![p] = received[p]]
  /\ attempt' = [attempt EXCEPT ![p] = 0]
  /\ wait' = [wait EXCEPT ![p] = 0]

Written(p) ==
  /\ Batch(p) \cap rows = {}
  /\ rows' = rows \cup Batch(p)
  /\ Settle(p)
  /\ UNCHANGED <<errors, twice, twiceLate>>

\* An error, one after a commit, or a duplicate key of such a commit.
Failed(p) ==
  /\ \/ Batch(p) \cap rows # {} /\ UNCHANGED <<rows, errors>>
     \/ Batch(p) \cap rows = {} /\ Fault /\ rows' \in {rows, rows \cup Batch(p)}
  /\ IF attempt[p] <= Retries
       THEN /\ attempt' = [attempt EXCEPT ![p] = @ + 1]
            /\ wait' = [wait EXCEPT ![p] = Delay(attempt[p])]
            /\ UNCHANGED settled
       ELSE Settle(p)
  /\ twice' = IF attempt[p] = 2 THEN twice \cup {p} ELSE twice
  /\ twiceLate' = IF /\ attempt[p] = 2 /\ Batch(p) \cap rows' = {}
                    /\ main \in {"poll", "sleep"} /\ p = profile
                  THEN twiceLate \cup {p} ELSE twiceLate

Attempt(p) ==
  /\ Running /\ attempt[p] > 0 /\ wait[p] = 0
  /\ Written(p) \/ Failed(p)
  /\ UNCHANGED <<main, profile, elapsed, report, store, sent, received, ticker, blind, foreign>>

WriterStep(p) == Recv(p) \/ RecvNone(p) \/ TickerFires(p) \/ Attempt(p)

\* WriterStep(p) is possible.
Due(p) ==
  \/ attempt[p] > 0 /\ wait[p] = 0
  \/ /\ store[p] # "none" /\ attempt[p] = 0
     /\ \/ received[p] < sent[p]
        \/ ~Drained(p) /\ ticker[p] = 0
        \/ Drained(p) /\ settled[p] < received[p]

-----------------------------------------------------------------------------
Less(f) == [p \in Profile |-> IF f[p] > 0 THEN f[p] - 1 ELSE 0]

\* Time passes once every writer is waiting: for the sleep of the poll loop, or
\* in the saves and the other scenarios.
Tick ==
  /\ Running
  /\ \A p \in Profile : ~Due(p)
  /\ main = "sleep" \/ (main \in {"save", "others"} /\ elapsed < MaxSaving)
  /\ main' = IF main = "sleep" THEN "poll" ELSE main
  /\ elapsed' = IF elapsed > Deadline THEN elapsed ELSE elapsed + 1
  /\ wait' = Less(wait)
  /\ ticker' = Less(ticker)
  /\ UNCHANGED <<profile, report, store, sent, received, settled, attempt, rows, errors, historyVars>>

MainStep == Clear \/ Connect \/ Save \/ Poll \/ Delete \/ Others

Next == MainStep \/ Tick \/ \E p \in Profile : WriterStep(p)

Spec == Init /\ [][Next]_vars

\* main and the writers are scheduled, and time passes.
FairSpec ==
  /\ Spec
  /\ WF_vars(MainStep)
  /\ WF_vars(Tick)
  /\ \A p \in Profile : WF_vars(WriterStep(p))

-----------------------------------------------------------------------------
TypeOK ==
  /\ main \in {"clear", "connect", "save", "poll", "sleep", "delete", "others", "final",
               "done", "panicked"}
  /\ profile \in Profile /\ elapsed \in Nat
  /\ report \in [Profile -> {"none", "persisted", "TIMEOUT"}]
  /\ store \in [Profile -> {"none", "open", "dropped"}]
  /\ sent \in [Profile -> 0..EventCount] /\ received \in [Profile -> 0..EventCount]
  /\ settled \in [Profile -> 0..EventCount]
  /\ \A p \in Profile : settled[p] <= received[p] /\ received[p] <= sent[p]
  /\ attempt \in [Profile -> 0..Retries + 1]
  /\ wait \in [Profile -> Nat] /\ ticker \in [Profile -> 0..Linger]
  /\ rows \subseteq UNION {All(p) : p \in Profile \cup {0}}
  /\ errors \in 0..MaxErrors
  /\ twice \subseteq Profile /\ twiceLate \subseteq Profile /\ blind \subseteq Profile
  /\ foreign \in BOOLEAN

\* All rows of a profile are in the table when it is reported as persisted,
\* although the COUNT does not tell profiles apart: only a DELETE that failed or
\* a writer that was still at work when its profile was deleted spoils it.
PersistedIsOwn ==
  [][\A p \in Profile :
       report'[p] = "persisted" /\ report[p] = "none" /\ ~foreign => All(p) \subseteq rows]_vars

\* The second delay is longer than the deadline: two errors in a row time out.
TwoFailuresTimeOut ==
  \A p \in Profile : report[p] = "persisted" /\ ~foreign => p \notin twiceLate

\* And nothing less does: one error of a batch is made up for in time.
TimeoutNeedsTwoFailures ==
  \A p \in Profile : report[p] = "TIMEOUT" => p \in twice \cup blind

\* Whatever is lost or fails, the poll loop ends and main with it.
BenchmarkEnds == <>(main \in {"done", "panicked"})

\* The benchmark gets past its second connect: "cargo run --bin benchmark
\* # Community Edition (limits active)" (bin/benchmark.rs:5).
ConnectsAgain == errors = 0 => main # "panicked"

=============================================================================
