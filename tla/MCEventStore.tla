---------------------------- MODULE MCEventStore ----------------------------
(* Small instances of EventStore for TLC.                                  *)
EXTENDS EventStore, TLC

CONSTANTS c1, c2, c3, k1, k2

SomeConfig(size, linger, capacity) ==
  [max_batch_size |-> size, max_batch_linger |-> linger, channel_capacity |-> capacity]

\* Batch sizes above the cap, of one and of zero; the lingers are below the
\* minimum.
Clamped == {SomeConfig(size, 0, 1) : size \in {0, 1, 3}}

\* Where nothing is clamped: a linger of zero, and another one.
Managed == {SomeConfig(2, 1, 1), SomeConfig(2, 0, 1)}

Roomy == SomeConfig(3, 2, 2)

\* With a dead-letter channel that is full: one event in each of the batch, the
\* channel and a caller that waits.
Tight == SomeConfig(1, 2, 1)

\* c1 and c2 save the same event: a client that retried, or a reused id.
RepeatedKey == (c1 :> k1) @@ (c2 :> k1) @@ (c3 :> k2)

\* One event saved three times: every batch after the first is a duplicate.
OneKey == (c1 :> k1) @@ (c2 :> k1) @@ (c3 :> k1)

\* The calls of one key are interchangeable.
RetrySymmetry == Permutations({c1, c2})
=============================================================================
