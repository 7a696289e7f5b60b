--------------------------------- MODULE MCDlq ---------------------------------
(* A small instance of Dlq for TLC: one letter that can be sent again and  *)
(* one whose event cannot be read.                                         *)
EXTENDS Dlq, TLC

CONSTANTS l1, l2, op1, op2

EveryKind  == Disturbances
OneEvent   == l1 :> "OrderCreated" @@ l2 :> "unreadable"
OneTopic   == [l \in Letters |-> "order.order-events"]
EventTopic == "OrderCreated" :> "order.order-events" @@ "DeadLetterEvent" :> "dead-letter.events"
================================================================================
