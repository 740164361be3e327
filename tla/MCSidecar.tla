------------------------------- MODULE MCSidecar -------------------------------
(* Small instances of Sidecar for TLC.                                      *)
EXTENDS Sidecar

CONSTANTS a1, a2, w1, w2

NoForeign == {}
=============================================================================
