---------------------------- MODULE OrderLifecycle ----------------------------
(***************************************************************************)
(* The life of an order in order-service: HTTP commands and lifecycle      *)
(* events run as PostgreSQL transactions of several sessions, serialised   *)
(* by the unique event id and the row lock on the order. risk-service and  *)
(* payment-service answer once per incoming event (ConsumeOnce), and Kafka *)
(* delivers what was published at least once. Risk results and payment     *)
(* results travel in different topics, so nothing orders them.             *)
(***************************************************************************)
EXTENDS Integers, FiniteSets

CONSTANTS
  Orders,    \* order ids
  Sessions,  \* database sessions of all order-service instances
  Limit      \* disturbance -> how many of them a behaviour may contain

\* A cancel command, a dead-letter record sent again under a new event id, a
\* marker deleted by technical retention, a transaction that does not commit.
Disturbances == {"cancel", "reprocess", "purge", "rollback"}

ASSUME OrderAssumption == Limit \in [Disturbances -> Nat]

RiskEvents     == {"OrderRiskApproved", "OrderRiskRejected"}
PaymentEvents  == {"PaymentAuthorized", "PaymentFailed"}
LifecycleTypes == RiskEvents \cup PaymentEvents
EventTypes     == LifecycleTypes \cup {"OrderCreated"}

Status == {"NONE", "PENDING", "RISK_APPROVED", "CONFIRMED", "CANCELLED"}
Final  == {"CONFIRMED", "CANCELLED"}

\* What order-service writes to its outbox.
OutboxTypes == {"OrderCreated", "OrderConfirmed", "OrderCancelled",
                "OrderCancellationRequested", "OrderCancellationRejected"}

\* copy 0 is what the services publish themselves, copy n the n-th record sent
\* again and what follows from it; the whole record stands for its eventId.
Event == [type : EventTypes, order : Orders, copy : Nat]

VARIABLES
  status,     \* orders.status; NONE: no such row
  outbox,     \* order -> type -> rows written
  published,  \* events in Kafka that drive the lifecycle
  processed,  \* events whose marker in processed_kafka_events was committed
  purged,     \* those of them whose marker is no longer there
  tx,         \* session -> its open transaction
  overtaken,  \* history: orders a result came too early for
  spent       \* disturbance -> how many have happened

vars == <<status, outbox, published, processed, purged, tx, overtaken, spent>>

-----------------------------------------------------------------------------
\* Idle, or open on order with the status it has locked ("unread": not yet).
Idle        == [kind |-> "none"]
OnEvent(e, seen)  == [kind |-> "event", event |-> e, order |-> e.order, seen |-> seen]
OnCancel(o, seen) == [kind |-> "cancel", order |-> o, seen |-> seen]

Tx == {Idle}
      \cup [kind : {"event"}, event : Event, order : Orders, seen : Status \cup {"unread"}]
      \cup [kind : {"cancel"}, order : Orders, seen : Status]

\* A row that does not exist cannot be locked.
Holding(s, o) ==
  tx[s].kind # "none" /\ tx[s].order = o /\ tx[s].seen \notin {"unread", "NONE"}

\* Mutant: findOne without lock: pessimistic_write.
NeverLocked(o) == FALSE

Locked(o) == \E s \in Sessions : Holding(s, o)

Disturb(d) == spent[d] < Limit[d] /\ spent' = [spent EXCEPT ![d] = @ + 1]

Write(o, types) ==
  outbox' = [outbox EXCEPT ![o] = [t \in OutboxTypes |-> @[t] + IF t \in types THEN 1 ELSE 0]]

Init ==
  /\ status = [o \in Orders |-> "NONE"]
  /\ outbox = [o \in Orders |-> [t \in OutboxTypes |-> 0]]
  /\ published = {}
  /\ processed = {}
  /\ purged = {}
  /\ tx = [s \in Sessions |-> Idle]
  /\ overtaken = {}
  /\ spent = [d \in Disturbances |-> 0]

-----------------------------------------------------------------------------
(* Commands and services around the lifecycle                              *)

\* The publisher will deliver the outbox row (Outbox); when is the consumer's
\* choice of a later step.
CreateOrder(o) ==
  /\ status[o] = "NONE"
  /\ status' = [status EXCEPT ![o] = "PENDING"]
  /\ Write(o, {"OrderCreated"})
  /\ published' = published \cup {[type |-> "OrderCreated", order |-> o, copy |-> 0]}
  /\ UNCHANGED <<processed, purged, tx, overtaken, spent>>

\* One result per incoming event, its id derived from that event's id.
Answer(e, types, type) ==
  /\ e \in published
  /\ \A t \in types : [e EXCEPT !.type = t] \notin published
  /\ published' = published \cup {[e EXCEPT !.type = type]}
  /\ UNCHANGED <<status, outbox, processed, purged, tx, overtaken, spent>>

\* risk-service scores an OrderCreated, payment-service authorises an approval.
RiskResult(e, type)    == e.type = "OrderCreated" /\ Answer(e, RiskEvents, type)
PaymentResult(e, type) == e.type = "OrderRiskApproved" /\ Answer(e, PaymentEvents, type)

\* DLQ reprocess: the payload, its orderId included, may be corrected and the
\* event gets a new id.
Reprocess(e, o) ==
  /\ e \in published
  /\ Disturb("reprocess")
  /\ published' = published \cup {[e EXCEPT !.order = o, !.copy = spent["reprocess"] + 1]}
  /\ UNCHANGED <<status, outbox, processed, purged, tx, overtaken>>

-----------------------------------------------------------------------------
(* decideOrderTransition, decideOrderCancellation                          *)

\* Mutant: an authorised payment confirms an order that was never approved.
TransitionsFast ==
  {<<"PENDING",       "OrderRiskApproved", "RISK_APPROVED">>,
   <<"PENDING",       "OrderRiskRejected", "CANCELLED">>,
   <<"PENDING",       "PaymentAuthorized", "CONFIRMED">>,
   <<"RISK_APPROVED", "PaymentAuthorized", "CONFIRMED">>,
   <<"RISK_APPROVED", "PaymentFailed",     "CANCELLED">>}

Transitions ==
  {<<"PENDING",       "OrderRiskApproved", "RISK_APPROVED">>,
   <<"PENDING",       "OrderRiskRejected", "CANCELLED">>,
   <<"RISK_APPROVED", "PaymentAuthorized", "CONFIRMED">>,
   <<"RISK_APPROVED", "PaymentFailed",     "CANCELLED">>}

FinalEvents(to) ==
  CASE to = "CONFIRMED" -> {"OrderConfirmed"}
    [] to = "CANCELLED" -> {"OrderCancelled"}
    [] OTHER            -> {}

\* Mutant: cancelling is refused only for what is already cancelled.
CancellableUnlessCancelled(seen) == seen # "CANCELLED"

Cancellable(seen) == seen \in {"PENDING", "RISK_APPROVED"}

-----------------------------------------------------------------------------
(* processLifecycleEvent                                                   *)

\* The insert of the event id. A committed one makes the event a duplicate (no
\* step), an uncommitted one is waited for.
BeginEvent(s, e) ==
  /\ tx[s] = Idle
  /\ e \in published \ (processed \ purged)
  /\ e.type \in LifecycleTypes
  /\ \A r \in Sessions : tx[r].kind = "event" => tx[r].event # e
  /\ tx' = [tx EXCEPT ![s] = OnEvent(e, "unread")]
  /\ UNCHANGED <<status, outbox, published, processed, purged, overtaken, spent>>

\* findOne ... for update.
LockOrder(s) ==
  /\ tx[s].kind = "event" /\ tx[s].seen = "unread"
  /\ ~Locked(tx[s].order)
  /\ tx' = [tx EXCEPT ![s] = OnEvent(@.event, status[@.order])]
  /\ UNCHANGED <<status, outbox, published, processed, purged, overtaken, spent>>

\* APPLIED.
Apply(s, to) ==
  LET t == tx[s]
  IN  /\ t.kind = "event"
      /\ <<t.seen, t.event.type, to>> \in Transitions
      /\ status' = [status EXCEPT ![t.order] = to]
      /\ Write(t.order, FinalEvents(to))
      /\ processed' = processed \cup {t.event}
      /\ purged' = purged \ {t.event}
      /\ tx' = [tx EXCEPT ![s] = Idle]
      /\ UNCHANGED <<published, overtaken, spent>>

\* UNKNOWN_ORDER and INVALID_TRANSITION return normally: the marker commits and
\* the event is never applied.
Swallow(s) ==
  LET t == tx[s]
  IN  /\ t.kind = "event" /\ t.seen # "unread"
      /\ \A to \in Status : <<t.seen, t.event.type, to>> \notin Transitions
      /\ processed' = processed \cup {t.event}
      /\ purged' = purged \ {t.event}
      /\ tx' = [tx EXCEPT ![s] = Idle]
      /\ overtaken' = IF t.seen \in {"NONE", "PENDING"} THEN overtaken \cup {t.order} ELSE overtaken
      /\ UNCHANGED <<status, outbox, published, spent>>

-----------------------------------------------------------------------------
(* cancelOrder                                                             *)

BeginCancel(s, o) ==
  /\ tx[s] = Idle
  /\ status[o] # "NONE"
  /\ ~Locked(o)
  /\ tx' = [tx EXCEPT ![s] = OnCancel(o, status[o])]
  /\ Disturb("cancel")
  /\ UNCHANGED <<status, outbox, published, processed, purged, overtaken>>

AcceptCancel(s) ==
  LET t == tx[s]
  IN  /\ t.kind = "cancel" /\ Cancellable(t.seen)
      /\ status' = [status EXCEPT ![t.order] = "CANCELLED"]
      /\ Write(t.order, {"OrderCancellationRequested", "OrderCancelled"})
      /\ tx' = [tx EXCEPT ![s] = Idle]
      /\ UNCHANGED <<published, processed, purged, overtaken, spent>>

RejectCancel(s) ==
  LET t == tx[s]
  IN  /\ t.kind = "cancel" /\ ~Cancellable(t.seen)
      /\ Write(t.order, {"OrderCancellationRequested", "OrderCancellationRejected"})
      /\ tx' = [tx EXCEPT ![s] = Idle]
      /\ UNCHANGED <<status, published, processed, purged, overtaken, spent>>

\* Mutant: the marker is written outside the transaction and survives it.
RollbackKeepingMarker(s) ==
  /\ tx[s] # Idle
  /\ tx' = [tx EXCEPT ![s] = Idle]
  /\ processed' = IF tx[s].kind = "event" THEN processed \cup {tx[s].event} ELSE processed
  /\ Disturb("rollback")
  /\ UNCHANGED <<status, outbox, published, purged, overtaken>>

\* Mutant: the outbox row of a cancel is written before its transaction begins.
RollbackKeepingOutbox(s) ==
  /\ tx[s].kind = "cancel"
  /\ tx' = [tx EXCEPT ![s] = Idle]
  /\ Write(tx[s].order, {"OrderCancellationRequested"})
  /\ Disturb("rollback")
  /\ UNCHANGED <<status, published, processed, purged, overtaken>>

\* A database error or a crash before the commit. The event is delivered again.
Rollback(s) ==
  /\ tx[s] # Idle
  /\ tx' = [tx EXCEPT ![s] = Idle]
  /\ Disturb("rollback")
  /\ UNCHANGED <<status, outbox, published, processed, purged, overtaken>>

\* deleteProcessedKafkaEventsBefore. An event read again is no duplicate then.
Purge(e) ==
  /\ e \in processed \ purged
  /\ purged' = purged \cup {e}
  /\ Disturb("purge")
  /\ UNCHANGED <<status, outbox, published, processed, tx, overtaken>>

-----------------------------------------------------------------------------
Commit(s) == (\E to \in Status : Apply(s, to)) \/ Swallow(s) \/ AcceptCancel(s) \/ RejectCancel(s)

Next ==
  \/ \E o \in Orders : CreateOrder(o)
  \/ \E e \in published :
       \/ \E type \in RiskEvents : RiskResult(e, type)
       \/ \E type \in PaymentEvents : PaymentResult(e, type)
       \/ \E o \in Orders : Reprocess(e, o)
       \/ \E s \in Sessions : BeginEvent(s, e)
       \/ Purge(e)
  \/ \E s \in Sessions :
       \/ LockOrder(s) \/ Commit(s) \/ Rollback(s)
       \/ \E o \in Orders : BeginCancel(s, o)

Spec == Init /\ [][Next]_vars

(* The services answer, Kafka delivers until the event is processed, and an *)
(* open transaction gets its lock and commits.                              *)
Fairness ==
  /\ \A o \in Orders, type \in EventTypes, n \in 0..Limit["reprocess"] :
       LET e == [type |-> type, order |-> o, copy |-> n]
       IN  /\ WF_vars(\E t \in RiskEvents : RiskResult(e, t))
           /\ WF_vars(\E t \in PaymentEvents : PaymentResult(e, t))
           /\ WF_vars(\E s \in Sessions : BeginEvent(s, e))
  /\ \A s \in Sessions : WF_vars(LockOrder(s)) /\ WF_vars(Commit(s))

FairSpec == Spec /\ Fairness

-----------------------------------------------------------------------------
(* Properties                                                              *)

\* Shape of the state; only published events are processed.
TypeOK ==
  /\ status \in [Orders -> Status]
  /\ outbox \in [Orders -> [OutboxTypes -> Nat]]
  /\ published \subseteq Event
  /\ processed \subseteq published /\ purged \subseteq processed
  /\ tx \in [Sessions -> Tx]
  /\ \A s \in Sessions : tx[s].kind = "event" =>
       tx[s].event \in published /\ tx[s].order = tx[s].event.order
  /\ overtaken \subseteq Orders
  /\ spent \in [Disturbances -> Nat]

\* The outbox announces the end of an order once, and the end it really had,
\* although events, duplicates and cancel commands of several sessions compete
\* for the row (the row lock and the state machine together).
OneFinalEvent ==
  \A o \in Orders :
    /\ outbox[o]["OrderConfirmed"] = IF status[o] = "CONFIRMED" THEN 1 ELSE 0
    /\ outbox[o]["OrderCancelled"] = IF status[o] = "CANCELLED" THEN 1 ELSE 0

\* An order is confirmed only after an approval and an authorisation for it
\* were both processed, in whatever order they arrived.
ConfirmedMeansAuthorized ==
  \A o \in Orders : status[o] = "CONFIRMED" =>
    \A type \in {"OrderRiskApproved", "PaymentAuthorized"} :
      \E e \in processed : e.type = type /\ e.order = o

\* A confirmed or cancelled order never changes again (decideOrderTransition's
\* promise about final states), and no order is ever removed.
FinalIsFinal ==
  [][\A o \in Orders :
       /\ status[o] \in Final => status'[o] = status[o]
       /\ status[o] # "NONE" => status'[o] # "NONE"]_vars

\* Every pending order is decided, whatever rolls back and is delivered again,
\* except one whose payment result overtook its approval: that one still gets
\* its approval.
EventuallyDecided ==
  \A o \in Orders :
    status[o] = "PENDING"
      ~> status[o] \in Final \/ (status[o] = "RISK_APPROVED" /\ o \in overtaken)

\* Commands and results take effect one at a time, each on the status the order
\* has at that instant and with the announcements that go with it, however
\* sessions overlap, roll back and read a row before they write it.
Heard == [o \in Orders |-> {e.type : e \in {p \in processed : p.order = o}}]
Outcome == INSTANCE OrderOutcome WITH heard <- Heard
ImplementsOrderOutcome == Outcome!Spec

-----------------------------------------------------------------------------
(* What the documentation says of the program                              *)

\* docs/adr/003: with the order id as key, consumers get an ordered stream per
\* order. So the risk result is applied before the payment result it caused,
\* and every order is decided.
OrderedStream == \A o \in Orders : status[o] = "PENDING" ~> status[o] \in Final
=============================================================================
