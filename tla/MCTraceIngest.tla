---------------------------- MODULE MCTraceIngest ----------------------------
(* Small instances of TraceIngest for TLC.                                 *)
EXTENDS TraceIngest, TLC

CONSTANTS a1, a2, w1, w2

Trace(a, s, k, v) ==
  [subject |-> "trace", agent |-> a, step |-> s, kind |-> k, valid |-> v]

NoForeign == {}

\* A step that a sequence number can equal, and a tool call.
ValidForeign == {Trace(a1, 2, "thought", TRUE), Trace(a1, 3, "other", TRUE)}

\* A step that a sequence number can equal, one beyond the width of the
\* column, a tool call, and a message that is not JSON.
SomeForeign ==
  {Trace(a1, 2, "thought", TRUE), Trace(a1, 5, "other", TRUE),
   Trace(a1, NoStep, "thought", FALSE)}

WorkerSymmetry == Permutations({w1, w2})
=============================================================================
