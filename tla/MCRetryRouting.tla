----------------------------- MODULE MCRetryRouting -----------------------------
(* Small instances of RetryRouting for TLC.                                *)
EXTENDS RetryRouting

\* The four TypeScript services and the topics they subscribe to.
DeployedGroups == {"risk", "payment", "order", "notification"}

DeployedRegistered ==
  [g \in DeployedGroups |->
     CASE g = "risk"         -> {"order-events"}
       [] g = "payment"      -> {"risk-events"}
       [] g = "order"        -> {"risk-events", "payment-events", "dead-letter"}
       [] g = "notification" -> {"notification-commands", "order-events"}]

DeployedSources == <<"order-events", "risk-events", "payment-events">>
DeployedStages == <<"retry-5s", "retry-30s", "retry-5m">>

\* Three of the groups, two stages: one wrong group per hop doubles the copies.
ThreeGroups == {"risk", "payment", "order"}
TwoStages == <<"retry-5s", "retry-30s">>

EveryKind  == Disturbances
ErrorsOnly == {"handlerError"}
================================================================================
