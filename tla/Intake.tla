--------------------------------- MODULE Intake ---------------------------------
(***************************************************************************)
(* From POST /orders to the risk decision: CreateOrder makes orders with    *)
(* their OrderCreated rows, the outbox publishes the rows to the topic      *)
(* RiskGo reads. What module Outbox says of its copies is all that is left  *)
(* of the outbox here: at least one per row, in any order.                  *)
(***************************************************************************)
EXTENDS CreateOrder, FiniteSets

CONSTANTS
  Other, Members, Nobody, MaxLog, \* those of RiskGo
  MaxOrders,    \* bound: orders that are published
  RiskPossible  \* the disturbances of risk-service-go

VARIABLES log, committed, owner, stage, fetched, batch, scored, failed

Risk == INSTANCE RiskGo WITH Orders <- 1 .. MaxOrders, Possible <- RiskPossible

ASSUME IntakeAssumption == Risk!RiskGoAssumption

createVars == <<keys, orders, request, answer>>
riskVars   == <<log, committed, owner, stage, fetched, batch, scored, failed>>
intakeVars == <<createVars, riskVars, spent>>

-----------------------------------------------------------------------------
IntakeInit == Init /\ Risk!Init

Published == {log[o] : o \in DOMAIN log}

\* publishOutboxBatch: a row's event becomes a record of order.order-events.
PublishCreated(i) ==
  /\ i \in DOMAIN orders \ Published
  /\ Risk!Produce(i)
  /\ UNCHANGED createVars

\* A row published once more, or an event of an order's later life, while the
\* bound leaves room for the orders to come.
PublishMore(r) ==
  /\ r \in Published \cup {Other}
  /\ MaxLog - Len(log) > MaxOrders - Cardinality(Published \ {Other})
  /\ Risk!Produce(r)
  /\ UNCHANGED createVars

RiskStep(m) ==
  /\ \/ Risk!Assign(m) \/ Risk!Rebalance(m)
     \/ Risk!Poll(m) \/ Risk!Handle(m) \/ Risk!PassOver(m) \/ Risk!Commit(m)
     \/ Risk!HandleFails(m) \/ Risk!CommitFails(m) \/ Risk!Crash(m) \/ Risk!Start(m)
  /\ UNCHANGED createVars

IntakeNext ==
  \/ Next /\ UNCHANGED riskVars
  \/ \E i \in 1 .. MaxOrders : PublishCreated(i)
  \/ \E r \in 1 .. MaxOrders \cup {Other} : PublishMore(r)
  \/ \E m \in Members : RiskStep(m)

\* The outbox delivers every row (Outbox: EventuallyDelivered).
IntakeFairness ==
  /\ Fairness /\ Risk!Fairness
  /\ \A i \in 1 .. MaxOrders : WF_intakeVars(PublishCreated(i))

IntakeSpec == IntakeInit /\ [][IntakeNext]_intakeVars /\ IntakeFairness

-----------------------------------------------------------------------------
(* Properties                                                              *)

\* An order a client was told of, or will be told of when it asks again, gets its
\* risk decision or an error in the log, whatever fails on the way.
EveryOrderScored ==
  \A i \in 1 .. MaxOrders :
    i \in DOMAIN orders ~>
      \E o \in DOMAIN log : log[o] = i /\ o \in Risk!Scored \cup failed

\* Of RiskGo, fed by the orders that were made and disturbed with them.

\* No order is committed past without a risk event or an error in the log.
CommittedMeansHandled == Risk!CommittedMeansHandled

\* Orders are scored in the order in which the outbox published them.
ScoredInLogOrder == Risk!ScoredInLogOrder

\* Every further risk event for a record costs a disturbance.
ExtraScoresCost == Risk!ExtraScoresCost
================================================================================
