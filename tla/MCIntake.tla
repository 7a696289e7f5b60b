--------------------------------- MODULE MCIntake ---------------------------------
(* A small instance of Intake for TLC: two clients that use one key for     *)
(* different bodies and one without a key.                                  *)
EXTENDS Intake, TLC

CONSTANTS first, other, plain

KeyOfClient  == first :> "k" @@ other :> "k" @@ plain :> "none"
BodyOfClient == first :> "a" @@ other :> "b" @@ plain :> "a"

EveryCreateKind == Disturbances
EveryRiskKind   == {"handleError", "commitError", "crash", "rebalance"}
================================================================================
