---------------------------- MODULE MCOrderLifecycle ----------------------------
(* Small instances of OrderLifecycle for TLC.                              *)
EXTENDS OrderLifecycle

CONSTANTS o1, s1, s2

NoDisturbances == [d \in Disturbances |-> 0]
Faults         == [cancel |-> 1, reprocess |-> 1, purge |-> 1, rollback |-> 2]
================================================================================
