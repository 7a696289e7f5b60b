-------------------------------- MODULE MCInbox --------------------------------
(* Small instances of Inbox for TLC.                                       *)
EXTENDS Inbox

CONSTANTS w1, w2, e1, r1, r2, null

EveryKind == Disturbances
LeaseOnly == {"leaseExpiry", "rebalance"}

\* Of the retry topics 5s, 30s and 5m the last two outlast a lease of 30 s.
Outlasting == {2, 3}
================================================================================
