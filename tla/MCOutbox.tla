------------------------------- MODULE MCOutbox -------------------------------
(* A small instance of Outbox for TLC.                                     *)
EXTENDS Outbox

CONSTANTS p1, p2

EveryKind == Disturbances
===============================================================================
