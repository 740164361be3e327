---------------------------- MODULE MCBenchmarkLoad ----------------------------
(* Small instances of BenchmarkLoad, and of the limiter in it, for TLC.     *)
EXTENDS BenchmarkLoad

CONSTANTS t1, t2, t3
=============================================================================
