------------------------------ MODULE MCBenchmark ------------------------------
(* Small instances of Benchmark for TLC.                                    *)
EXTENDS Benchmark

\* The profiles of the managed build, and of the community build, which clamps
\* both to the same batch.
Managed == <<2, 3>>
Clamped == <<2, 2>>
=============================================================================
