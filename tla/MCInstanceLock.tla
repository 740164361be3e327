---------------------------- MODULE MCInstanceLock ----------------------------
(* Small instances of InstanceLock for TLC.                                *)
EXTENDS InstanceLock

CONSTANTS i1, i2
=============================================================================
