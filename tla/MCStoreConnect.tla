---------------------------- MODULE MCStoreConnect ----------------------------
(* Small instances of StoreConnect, and of the lock in it, for TLC.         *)
EXTENDS StoreConnect

CONSTANTS i1, i2

\* An unlimited one for HA.
HaLicense == {[max_events_per_second |-> None, allow_ha |-> TRUE]}
=============================================================================
