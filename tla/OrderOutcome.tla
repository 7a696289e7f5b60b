------------------------------ MODULE OrderOutcome ------------------------------
(***************************************************************************)
(* What order-service promises of an order, without transactions, sessions, *)
(* locks or markers: its life is a sequence of instants. At each of them a  *)
(* result of risk or payment is heard or a command is carried out, on the   *)
(* status the order has then, and the outbox announces what happened. A     *)
(* result that came before its order, or too early or too late for the      *)
(* status, changes nothing.                                                 *)
(***************************************************************************)
EXTENDS Naturals

CONSTANT Orders

VARIABLES
  status,  \* order -> its status, NONE before it is made
  outbox,  \* order -> type -> announcements
  heard    \* order -> types of the results that were heard

vars == <<status, outbox, heard>>

Results == {"OrderRiskApproved", "OrderRiskRejected", "PaymentAuthorized", "PaymentFailed"}

Announcements == {"OrderCreated", "OrderConfirmed", "OrderCancelled",
                  "OrderCancellationRequested", "OrderCancellationRejected"}

Init ==
  /\ status = [o \in Orders |-> "NONE"]
  /\ outbox = [o \in Orders |-> [t \in Announcements |-> 0]]
  /\ heard = [o \in Orders |-> {}]

Becomes(o, to, types) ==
  /\ status' = [status EXCEPT ![o] = to]
  /\ outbox' = [outbox EXCEPT ![o] =
       [t \in Announcements |-> @[t] + IF t \in types THEN 1 ELSE 0]]

Hears(o, type) == heard' = [heard EXCEPT ![o] = @ \cup {type}]

Create(o) ==
  /\ status[o] = "NONE"
  /\ Becomes(o, "PENDING", {"OrderCreated"}) /\ UNCHANGED heard

Approve(o) ==
  /\ status[o] = "PENDING"
  /\ Hears(o, "OrderRiskApproved") /\ Becomes(o, "RISK_APPROVED", {})

Confirm(o) ==
  /\ status[o] = "RISK_APPROVED"
  /\ Hears(o, "PaymentAuthorized") /\ Becomes(o, "CONFIRMED", {"OrderConfirmed"})

Reject(o) ==
  /\ \/ status[o] = "PENDING" /\ Hears(o, "OrderRiskRejected")
     \/ status[o] = "RISK_APPROVED" /\ Hears(o, "PaymentFailed")
  /\ Becomes(o, "CANCELLED", {"OrderCancelled"})

Cancel(o) ==
  /\ status[o] \in {"PENDING", "RISK_APPROVED"}
  /\ Becomes(o, "CANCELLED", {"OrderCancellationRequested", "OrderCancelled"})
  /\ UNCHANGED heard

Refuse(o) ==
  /\ status[o] \in {"CONFIRMED", "CANCELLED"}
  /\ Becomes(o, status[o], {"OrderCancellationRequested", "OrderCancellationRejected"})
  /\ UNCHANGED heard

Ignore(o) ==
  /\ \E type \in Results : Hears(o, type)
  /\ UNCHANGED <<status, outbox>>

Next ==
  \E o \in Orders :
    \/ Create(o) \/ Approve(o) \/ Confirm(o) \/ Reject(o)
    \/ Cancel(o) \/ Refuse(o) \/ Ignore(o)

Spec == Init /\ [][Next]_vars
=============================================================================
