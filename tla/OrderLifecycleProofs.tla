------------------------- MODULE OrderLifecycleProofs -------------------------
(***************************************************************************)
(* Proofs about OrderLifecycle for any orders, sessions and number of      *)
(* disturbances. What the transactions rely on is Locking: the status a    *)
(* session has read under its row lock is still the status of the row, and *)
(* no other session holds the lock. Approved links a status to the events  *)
(* whose markers were committed with it.                                   *)
(***************************************************************************)
EXTENDS OrderLifecycle, TLAPS

Locking ==
  /\ \A s \in Sessions, o \in Orders : Holding(s, o) => tx[s].seen = status[o]
  /\ \A r, s \in Sessions, o \in Orders : Holding(r, o) /\ Holding(s, o) => r = s

Approved ==
  \A o \in Orders : status[o] \in {"RISK_APPROVED", "CONFIRMED"} =>
    \E e \in processed : e.type = "OrderRiskApproved" /\ e.order = o

\* The parts that speak of orders and the events processed.
Decided == OneFinalEvent /\ Approved /\ ConfirmedMeansAuthorized

IInv == TypeOK /\ Locking /\ Decided

-----------------------------------------------------------------------------
(* Operators                                                               *)

\* What an open transaction looks like.
LEMMA Shapes ==
  /\ Idle \in Tx /\ Idle.kind = "none"
  /\ \A e \in Event, seen \in Status \cup {"unread"} :
       /\ OnEvent(e, seen) \in Tx /\ OnEvent(e, seen).kind = "event"
       /\ OnEvent(e, seen).event = e /\ OnEvent(e, seen).order = e.order
       /\ OnEvent(e, seen).seen = seen
  /\ \A o \in Orders, seen \in Status :
       /\ OnCancel(o, seen) \in Tx /\ OnCancel(o, seen).kind = "cancel"
       /\ OnCancel(o, seen).order = o /\ OnCancel(o, seen).seen = seen
  /\ \A t \in Tx :
       /\ t.kind \in {"none", "event", "cancel"}
       /\ t.kind = "event" => t.event \in Event /\ t.order \in Orders
                              /\ t.seen \in Status \cup {"unread"}
       /\ t.kind = "cancel" => t.order \in Orders /\ t.seen \in Status
<1>1. Idle \in Tx /\ Idle.kind = "none"
  BY DEF Idle, Tx
<1>2. ASSUME NEW e \in Event, NEW seen \in Status \cup {"unread"}
      PROVE  /\ OnEvent(e, seen) \in Tx /\ OnEvent(e, seen).kind = "event"
             /\ OnEvent(e, seen).event = e /\ OnEvent(e, seen).order = e.order
             /\ OnEvent(e, seen).seen = seen
  <2>1. e.order \in Orders
    BY DEF Event
  <2>2. QED
    BY <2>1 DEF OnEvent, Tx
<1>3. ASSUME NEW o \in Orders, NEW seen \in Status
      PROVE  /\ OnCancel(o, seen) \in Tx /\ OnCancel(o, seen).kind = "cancel"
             /\ OnCancel(o, seen).order = o /\ OnCancel(o, seen).seen = seen
  BY DEF OnCancel, Tx
<1>4. ASSUME NEW t \in Tx
      PROVE  /\ t.kind \in {"none", "event", "cancel"}
             /\ t.kind = "event" => t.event \in Event /\ t.order \in Orders
                                    /\ t.seen \in Status \cup {"unread"}
             /\ t.kind = "cancel" => t.order \in Orders /\ t.seen \in Status
  <2>1. CASE t = Idle
    BY <2>1 DEF Idle
  <2>2. CASE t \in [kind : {"event"}, event : Event, order : Orders, seen : Status \cup {"unread"}]
    BY <2>2
  <2>3. CASE t \in [kind : {"cancel"}, order : Orders, seen : Status]
    BY <2>3
  <2>4. QED
    BY <2>1, <2>2, <2>3 DEF Tx
<1>5. QED
  BY <1>1, <1>2, <1>3, <1>4

\* Changing the type of an event, or its order and copy, gives an event.
LEMMA EventEdits ==
  ASSUME NEW e \in Event, NEW type \in EventTypes, NEW o \in Orders, NEW n \in Nat
  PROVE  /\ [e EXCEPT !.type = type] \in Event
         /\ [e EXCEPT !.order = o, !.copy = n] \in Event
BY DEF Event

\* Write adds one row of each named type for its order, nothing else.
LEMMA Writes ==
  ASSUME TypeOK, NEW o \in Orders, NEW types, Write(o, types)
  PROVE  /\ outbox' \in [Orders -> [OutboxTypes -> Nat]]
         /\ \A p \in Orders, t \in OutboxTypes :
              outbox'[p][t] = outbox[p][t] + IF p = o /\ t \in types THEN 1 ELSE 0
<1> DEFINE row == [t \in OutboxTypes |-> outbox[o][t] + IF t \in types THEN 1 ELSE 0]
<1>1. outbox \in [Orders -> [OutboxTypes -> Nat]] /\ outbox' = [outbox EXCEPT ![o] = row]
  BY DEF TypeOK, Write
<1>2. row \in [OutboxTypes -> Nat]
  BY <1>1
<1>3. /\ \A t \in OutboxTypes : row[t] = outbox[o][t] + IF t \in types THEN 1 ELSE 0
  BY DEF row
<1> HIDE DEF row
<1>4. outbox' \in [Orders -> [OutboxTypes -> Nat]]
  BY <1>1, <1>2
<1>5. ASSUME NEW p \in Orders, NEW t \in OutboxTypes
      PROVE  outbox'[p][t] = outbox[p][t] + IF p = o /\ t \in types THEN 1 ELSE 0
  <2>1. outbox[p][t] \in Nat
    BY <1>1
  <2>2. CASE p = o
    BY <1>1, <1>3, <2>2
  <2>3. CASE p # o
    BY <1>1, <2>1, <2>3
  <2>4. QED
    BY <2>2, <2>3
<1>6. QED
  BY <1>4, <1>5

\* A session moves to transaction v: the others keep theirs.
LEMMA OneMoves ==
  ASSUME tx \in [Sessions -> Tx], NEW s \in Sessions, NEW v \in Tx, tx' = [tx EXCEPT ![s] = v]
  PROVE  /\ tx' \in [Sessions -> Tx] /\ tx'[s] = v
         /\ \A r \in Sessions : r # s => tx'[r] = tx[r]
         /\ \A r \in Sessions, o \in Orders : r # s => Holding(r, o)' = Holding(r, o)
<1>1. tx' \in [Sessions -> Tx] /\ tx'[s] = v /\ \A r \in Sessions : r # s => tx'[r] = tx[r]
  OBVIOUS
<1>2. QED
  BY <1>1 DEF Holding

\* What a new transaction holds.
LEMMA Held ==
  ASSUME NEW s \in Sessions, NEW o \in Orders
  PROVE  /\ tx'[s] = Idle => ~Holding(s, o)'
         /\ tx'[s].seen \in {"unread", "NONE"} => ~Holding(s, o)'
         /\ Holding(s, o)' => tx'[s].order = o
BY Shapes DEF Holding

-----------------------------------------------------------------------------
(* What a step does to the transactions and the row locks                  *)

\* After a transaction ends, what is held is held by the others.
LEMMA Ends ==
  ASSUME TypeOK, NEW s \in Sessions, tx' = [tx EXCEPT ![s] = Idle]
  PROVE  /\ tx' \in [Sessions -> Tx] /\ tx'[s] = Idle
         /\ \A r \in Sessions : r # s => tx'[r] = tx[r]
         /\ \A r \in Sessions, o \in Orders :
              Holding(r, o)' => r # s /\ Holding(r, o) /\ tx'[r] = tx[r]
<1>1. Idle \in Tx /\ tx \in [Sessions -> Tx]
  BY Shapes DEF TypeOK
<1>2. /\ tx' \in [Sessions -> Tx] /\ tx'[s] = Idle
      /\ \A r \in Sessions : r # s => tx'[r] = tx[r]
      /\ \A r \in Sessions, o \in Orders : r # s => Holding(r, o)' = Holding(r, o)
  BY <1>1, OneMoves
<1>3. \A o \in Orders : ~Holding(s, o)'
  BY <1>2, Held
<1>4. QED
  BY <1>2, <1>3

\* A transaction that ends without touching a row.
LEMMA EndKeepsLocks ==
  ASSUME TypeOK, Locking, NEW s \in Sessions, tx' = [tx EXCEPT ![s] = Idle], status' = status
  PROVE  Locking'
BY Ends DEF Locking

\* A transaction that writes the row it has locked and ends: nobody else holds it.
LEMMA WriteKeepsLocks ==
  ASSUME TypeOK, Locking, NEW s \in Sessions, NEW o \in Orders, Holding(s, o),
         tx' = [tx EXCEPT ![s] = Idle],
         \A p \in Orders : p # o => status'[p] = status[p]
  PROVE  Locking'
<1>1. \A r \in Sessions, p \in Orders :
        Holding(r, p)' => r # s /\ Holding(r, p) /\ tx'[r] = tx[r]
  BY Ends
<1>2. \A r \in Sessions, p \in Orders : Holding(r, p)' => p # o
  BY <1>1 DEF Locking
<1>3. QED
  BY <1>1, <1>2 DEF Locking

\* A transaction that takes the lock of a row it reads, when nobody has it.
LEMMA ReadKeepsLocks ==
  ASSUME TypeOK, Locking, NEW s \in Sessions, NEW v \in Tx, tx' = [tx EXCEPT ![s] = v],
         status' = status,
         \/ v.seen = "unread"
         \/ v.seen = status[v.order] /\ ~Locked(v.order)
  PROVE  Locking'
<1>1. /\ tx'[s] = v
      /\ \A r \in Sessions : r # s => tx'[r] = tx[r]
      /\ \A r \in Sessions, o \in Orders : r # s => Holding(r, o)' = Holding(r, o)
  BY OneMoves DEF TypeOK
<1>2. \A o \in Orders : Holding(s, o)' =>
        v.order = o /\ v.seen = status[o] /\ \A r \in Sessions : ~Holding(r, o)
  BY <1>1, Held DEF Locked
<1>3. QED
  BY <1>1, <1>2 DEF Locking

-----------------------------------------------------------------------------
(* What a step does to the orders                                          *)

\* Markers may be added while the orders stay as they are.
LEMMA SameOrders ==
  ASSUME Decided, UNCHANGED <<status, outbox>>, processed \subseteq processed'
  PROVE  Decided'
<1>1. OneFinalEvent'
  BY DEF Decided, OneFinalEvent
<1>2. Approved'
  BY DEF Decided, Approved
<1>3. ConfirmedMeansAuthorized'
  BY DEF Decided, ConfirmedMeansAuthorized
<1>4. QED
  BY <1>1, <1>2, <1>3 DEF Decided

\* An order that is not final moves to status to, with the outbox rows of that
\* status and the markers it needs.
LEMMA OrderMoves ==
  ASSUME TypeOK, Decided, NEW o \in Orders, NEW to \in Status, NEW types,
         status[o] \notin Final, status' = [status EXCEPT ![o] = to], Write(o, types),
         types \cap {"OrderConfirmed", "OrderCancelled"} = FinalEvents(to),
         processed \subseteq processed',
         to \in {"RISK_APPROVED", "CONFIRMED"} =>
           \E e \in processed' : e.type = "OrderRiskApproved" /\ e.order = o,
         to = "CONFIRMED" =>
           \E e \in processed' : e.type = "PaymentAuthorized" /\ e.order = o
  PROVE  /\ status' \in [Orders -> Status]
         /\ outbox' \in [Orders -> [OutboxTypes -> Nat]]
         /\ Decided'
<1>1. /\ outbox' \in [Orders -> [OutboxTypes -> Nat]]
      /\ \A p \in Orders, t \in OutboxTypes :
           outbox'[p][t] = outbox[p][t] + IF p = o /\ t \in types THEN 1 ELSE 0
  BY Writes
<1>2. /\ status' \in [Orders -> Status] /\ status'[o] = to
      /\ \A p \in Orders : p # o => status'[p] = status[p]
  BY DEF TypeOK
<1>3. OneFinalEvent'
  <2>1. SUFFICES ASSUME NEW p \in Orders
                 PROVE  /\ outbox'[p]["OrderConfirmed"] = IF status'[p] = "CONFIRMED" THEN 1 ELSE 0
                        /\ outbox'[p]["OrderCancelled"] = IF status'[p] = "CANCELLED" THEN 1 ELSE 0
    BY DEF OneFinalEvent
  <2>2. /\ outbox[p]["OrderConfirmed"] = IF status[p] = "CONFIRMED" THEN 1 ELSE 0
        /\ outbox[p]["OrderCancelled"] = IF status[p] = "CANCELLED" THEN 1 ELSE 0
    BY DEF Decided, OneFinalEvent
  <2>3. /\ outbox'[p]["OrderConfirmed"]
             = outbox[p]["OrderConfirmed"] + IF p = o /\ "OrderConfirmed" \in types THEN 1 ELSE 0
        /\ outbox'[p]["OrderCancelled"]
             = outbox[p]["OrderCancelled"] + IF p = o /\ "OrderCancelled" \in types THEN 1 ELSE 0
    BY <1>1 DEF OutboxTypes
  <2>4. /\ "OrderConfirmed" \in types <=> to = "CONFIRMED"
        /\ "OrderCancelled" \in types <=> to = "CANCELLED"
    BY DEF FinalEvents
  <2>5. CASE p = o
    BY <1>2, <2>2, <2>3, <2>4, <2>5 DEF Final
  <2>6. CASE p # o
    BY <1>2, <2>2, <2>3, <2>6
  <2>7. QED
    BY <2>5, <2>6
<1>4. Approved'
  BY <1>2 DEF Decided, Approved
<1>5. ConfirmedMeansAuthorized'
  <2>1. SUFFICES ASSUME NEW p \in Orders, status'[p] = "CONFIRMED",
                        NEW type \in {"OrderRiskApproved", "PaymentAuthorized"}
                 PROVE  \E e \in processed' : e.type = type /\ e.order = p
    BY DEF ConfirmedMeansAuthorized
  <2>2. CASE p = o
    BY <1>2, <2>1, <2>2
  <2>3. CASE p # o
    BY <1>2, <2>1, <2>3 DEF Decided, ConfirmedMeansAuthorized
  <2>4. QED
    BY <2>2, <2>3
<1>6. QED
  BY <1>1, <1>2, <1>3, <1>4, <1>5 DEF Decided

-----------------------------------------------------------------------------
(* The type invariant                                                      *)

\* A disturbance keeps its counter a number.
LEMMA Counts == ASSUME TypeOK, NEW d \in Disturbances, Disturb(d)
                PROVE  spent' \in [Disturbances -> Nat]
BY DEF TypeOK, Disturb

\* A committed marker is that of a published event.
LEMMA MarkerTypes ==
  ASSUME TypeOK, NEW s \in Sessions, tx[s].kind = "event", processed' = processed \cup {tx[s].event}
  PROVE  processed' \subseteq published
BY DEF TypeOK

\* Transactions keep their type when Kafka gains events.
LEMMA TxTypes ==
  ASSUME TypeOK, published \subseteq published', published' \subseteq Event,
         \/ tx' = tx
         \/ \E s \in Sessions, v \in Tx :
              /\ tx' = [tx EXCEPT ![s] = v]
              /\ v.kind = "event" => v.event \in published /\ v.order = v.event.order
  PROVE  /\ tx' \in [Sessions -> Tx]
         /\ \A r \in Sessions : tx'[r].kind = "event" =>
              tx'[r].event \in published' /\ tx'[r].order = tx'[r].event.order
<1>1. CASE tx' = tx
  BY <1>1 DEF TypeOK
<1>2. ASSUME NEW s \in Sessions, NEW v \in Tx, tx' = [tx EXCEPT ![s] = v],
             v.kind = "event" => v.event \in published /\ v.order = v.event.order
      PROVE  /\ tx' \in [Sessions -> Tx]
             /\ \A r \in Sessions : tx'[r].kind = "event" =>
                  tx'[r].event \in published' /\ tx'[r].order = tx'[r].event.order
  <2>1. /\ tx' \in [Sessions -> Tx] /\ tx'[s] = v
        /\ \A r \in Sessions : r # s => tx'[r] = tx[r]
    BY <1>2, OneMoves DEF TypeOK
  <2>2. QED
    BY <1>2, <2>1 DEF TypeOK
<1>3. QED
  BY <1>1, <1>2

\* An order that ends a transaction satisfies the hypotheses of TxTypes.
LEMMA IdleTypes ==
  ASSUME TypeOK, NEW s \in Sessions, tx' = [tx EXCEPT ![s] = Idle], published' = published
  PROVE  /\ tx' \in [Sessions -> Tx]
         /\ \A r \in Sessions : tx'[r].kind = "event" =>
              tx'[r].event \in published' /\ tx'[r].order = tx'[r].event.order
<1>1. Idle \in Tx /\ Idle.kind # "event"
  BY Shapes
<1>2. published' \subseteq Event
  BY DEF TypeOK
<1>3. QED
  BY <1>1, <1>2, TxTypes

-----------------------------------------------------------------------------
(* One lemma per action                                                    *)

LEMMA CreateOrderKeeps == ASSUME IInv, NEW o \in Orders, CreateOrder(o) PROVE IInv'
<1> DEFINE e == [type |-> "OrderCreated", order |-> o, copy |-> 0]
<1>1. e \in Event
  BY DEF Event, EventTypes
<1>2. /\ status[o] = "NONE" /\ status' = [status EXCEPT ![o] = "PENDING"]
      /\ Write(o, {"OrderCreated"}) /\ published' = published \cup {e}
      /\ UNCHANGED <<processed, purged, tx, overtaken, spent>>
  BY DEF CreateOrder
<1> HIDE DEF e
<1>3. /\ status' \in [Orders -> Status]
      /\ outbox' \in [Orders -> [OutboxTypes -> Nat]]
      /\ Decided'
  <2>1. /\ "PENDING" \in Status /\ status[o] \notin Final
        /\ {"OrderCreated"} \cap {"OrderConfirmed", "OrderCancelled"} = FinalEvents("PENDING")
    BY <1>2 DEF Status, Final, FinalEvents
  <2>2. QED
    BY <1>2, <2>1, OrderMoves DEF IInv
<1>4. TypeOK'
  <2>1. published \subseteq published' /\ published' \subseteq Event
    BY <1>1, <1>2 DEF IInv, TypeOK
  <2>2. /\ tx' \in [Sessions -> Tx]
        /\ \A r \in Sessions : tx'[r].kind = "event" =>
             tx'[r].event \in published' /\ tx'[r].order = tx'[r].event.order
    BY <1>2, <2>1, TxTypes DEF IInv
  <2>3. QED
    BY <1>2, <1>3, <2>1, <2>2 DEF IInv, TypeOK
<1>5. Locking'
  <2>1. \A r \in Sessions : ~Holding(r, o)
    BY <1>2 DEF IInv, Locking, Holding
  <2>2. \A r \in Sessions, p \in Orders : Holding(r, p)' = Holding(r, p)
    BY <1>2 DEF Holding
  <2>3. \A p \in Orders : p # o => status'[p] = status[p]
    BY <1>2 DEF IInv, TypeOK
  <2>4. QED
    BY <1>2, <2>1, <2>2, <2>3 DEF IInv, Locking
<1>6. QED
  BY <1>3, <1>4, <1>5 DEF IInv

\* An event is published and nothing else happens.
LEMMA PublishKeeps ==
  ASSUME IInv, NEW e \in Event, published' = published \cup {e},
         UNCHANGED <<status, outbox, processed, purged, tx, overtaken>>, spent' \in [Disturbances -> Nat]
  PROVE  IInv'
<1>1. published \subseteq published' /\ published' \subseteq Event
  BY DEF IInv, TypeOK
<1>2. /\ tx' \in [Sessions -> Tx]
      /\ \A r \in Sessions : tx'[r].kind = "event" =>
           tx'[r].event \in published' /\ tx'[r].order = tx'[r].event.order
  BY <1>1, TxTypes DEF IInv
<1>3. TypeOK'
  BY <1>1, <1>2 DEF IInv, TypeOK
<1>4. Locking'
  BY DEF IInv, Locking, Holding
<1>5. Decided'
  BY SameOrders DEF IInv
<1>6. QED
  BY <1>3, <1>4, <1>5 DEF IInv

LEMMA AnswerKeeps ==
  ASSUME IInv, NEW e, NEW types, NEW type \in EventTypes, Answer(e, types, type)
  PROVE  IInv'
<1>1. /\ e \in Event /\ published' = published \cup {[e EXCEPT !.type = type]}
      /\ UNCHANGED <<status, outbox, processed, purged, tx, overtaken>>
      /\ spent' \in [Disturbances -> Nat]
  BY DEF Answer, IInv, TypeOK
<1>2. [e EXCEPT !.type = type] \in Event
  <2>1. PICK o \in Orders : TRUE
    BY <1>1 DEF Event
  <2>2. QED
    BY <1>1, <2>1, EventEdits, 0 \in Nat
<1>3. QED
  BY <1>1, <1>2, PublishKeeps

LEMMA ReprocessKeeps ==
  ASSUME IInv, NEW e \in published, NEW o \in Orders, Reprocess(e, o)
  PROVE  IInv'
<1>1. /\ published' = published \cup {[e EXCEPT !.order = o, !.copy = spent["reprocess"] + 1]}
      /\ UNCHANGED <<status, outbox, processed, purged, tx, overtaken>>
      /\ Disturb("reprocess") /\ "reprocess" \in Disturbances
  BY DEF Reprocess, Disturbances
<1>2. e \in Event /\ spent["reprocess"] + 1 \in Nat
  BY <1>1 DEF IInv, TypeOK
<1>3. [e EXCEPT !.order = o, !.copy = spent["reprocess"] + 1] \in Event
  <2>1. "OrderCreated" \in EventTypes
    BY DEF EventTypes
  <2>2. QED
    BY <1>2, <2>1, EventEdits
<1>4. spent' \in [Disturbances -> Nat]
  BY <1>1, Counts DEF IInv
<1>5. QED
  BY <1>1, <1>3, <1>4, PublishKeeps

LEMMA BeginEventKeeps ==
  ASSUME IInv, NEW s \in Sessions, NEW e \in published, BeginEvent(s, e)
  PROVE  IInv'
<1> DEFINE v == OnEvent(e, "unread")
<1>1. /\ tx' = [tx EXCEPT ![s] = v]
      /\ UNCHANGED <<status, outbox, published, processed, purged, overtaken, spent>>
  BY DEF BeginEvent
<1>2. e \in Event /\ published \subseteq Event
  BY DEF IInv, TypeOK
<1>3. v \in Tx /\ v.kind = "event" /\ v.event = e /\ v.order = e.order /\ v.seen = "unread"
  BY <1>2, Shapes
<1> HIDE DEF v
<1>4. /\ tx' \in [Sessions -> Tx]
      /\ \A r \in Sessions : tx'[r].kind = "event" =>
           tx'[r].event \in published' /\ tx'[r].order = tx'[r].event.order
  BY <1>1, <1>2, <1>3, TxTypes DEF IInv
<1>5. TypeOK'
  BY <1>1, <1>4 DEF IInv, TypeOK
<1>6. Locking'
  BY <1>1, <1>3, ReadKeepsLocks DEF IInv
<1>7. Decided'
  BY <1>1, SameOrders DEF IInv
<1>8. QED
  BY <1>5, <1>6, <1>7 DEF IInv

LEMMA LockOrderKeeps == ASSUME IInv, NEW s \in Sessions, LockOrder(s) PROVE IInv'
<1> DEFINE e == tx[s].event
           v == OnEvent(e, status[tx[s].order])
<1>1. /\ tx[s].kind = "event" /\ ~Locked(tx[s].order)
      /\ tx' = [tx EXCEPT ![s] = v]
      /\ UNCHANGED <<status, outbox, published, processed, purged, overtaken, spent>>
  BY DEF LockOrder
<1>2. e \in published /\ e \in Event /\ published \subseteq Event /\ tx[s].order = e.order
  BY <1>1 DEF IInv, TypeOK
<1>3. status[tx[s].order] \in Status
  <2>1. tx[s].order \in Orders
    BY <1>2 DEF Event
  <2>2. QED
    BY <2>1 DEF IInv, TypeOK
<1>4. /\ v \in Tx /\ v.kind = "event" /\ v.event = e /\ v.order = e.order
      /\ v.seen = status[v.order]
  BY <1>2, <1>3, Shapes
<1>5. tx[s].order = v.order
  BY <1>2, <1>4
<1> HIDE DEF v, e
<1>6. /\ tx' \in [Sessions -> Tx]
      /\ \A r \in Sessions : tx'[r].kind = "event" =>
           tx'[r].event \in published' /\ tx'[r].order = tx'[r].event.order
  BY <1>1, <1>2, <1>4, TxTypes DEF IInv
<1>7. TypeOK'
  BY <1>1, <1>6 DEF IInv, TypeOK
<1>8. Locking'
  BY <1>1, <1>4, <1>5, ReadKeepsLocks DEF IInv
<1>9. Decided'
  BY <1>1, SameOrders DEF IInv
<1>10. QED
  BY <1>7, <1>8, <1>9 DEF IInv

LEMMA ApplyKeeps ==
  ASSUME IInv, NEW s \in Sessions, NEW to \in Status, Apply(s, to)
  PROVE  IInv' /\ status[tx[s].order] \notin Final /\ to # "NONE"
<1> DEFINE o == tx[s].order
           e == tx[s].event
<1>1. /\ tx[s].kind = "event" /\ <<tx[s].seen, e.type, to>> \in Transitions
      /\ status' = [status EXCEPT ![o] = to] /\ Write(o, FinalEvents(to))
      /\ processed' = processed \cup {e} /\ tx' = [tx EXCEPT ![s] = Idle]
      /\ UNCHANGED <<published, overtaken, spent>>
  BY DEF Apply
<1>2. e \in published /\ e \in Event /\ o = e.order /\ o \in Orders
  BY <1>1 DEF IInv, TypeOK, Event
<1>3. Holding(s, o)
  BY <1>1 DEF Holding, Transitions
<1>4. tx[s].seen = status[o]
  BY <1>2, <1>3 DEF IInv, Locking
<1>5. /\ status[o] \notin Final /\ to # "NONE"
      /\ to = "RISK_APPROVED" => e.type = "OrderRiskApproved"
      /\ to = "CONFIRMED" => status[o] = "RISK_APPROVED" /\ e.type = "PaymentAuthorized"
  BY <1>1, <1>4 DEF Transitions, Final
<1>6. e \in processed' /\ processed \subseteq processed'
  BY <1>1
<1>7. to \in {"RISK_APPROVED", "CONFIRMED"} =>
        \E f \in processed' : f.type = "OrderRiskApproved" /\ f.order = o
  <2>1. CASE to = "RISK_APPROVED"
    BY <1>2, <1>5, <1>6, <2>1
  <2>2. CASE to = "CONFIRMED"
    BY <1>2, <1>5, <1>6, <2>2 DEF IInv, Decided, Approved
  <2>3. QED
    BY <2>1, <2>2
<1>8. to = "CONFIRMED" => \E f \in processed' : f.type = "PaymentAuthorized" /\ f.order = o
  BY <1>2, <1>5, <1>6
<1>9. FinalEvents(to) \cap {"OrderConfirmed", "OrderCancelled"} = FinalEvents(to)
  BY DEF FinalEvents, Status
<1> HIDE DEF o, e
<1>10. /\ status' \in [Orders -> Status]
       /\ outbox' \in [Orders -> [OutboxTypes -> Nat]]
       /\ Decided'
  BY <1>1, <1>2, <1>5, <1>6, <1>7, <1>8, <1>9, OrderMoves DEF IInv
<1>11. Locking'
  <2>1. \A p \in Orders : p # o => status'[p] = status[p]
    BY <1>1, <1>2 DEF IInv, TypeOK
  <2>2. QED
    BY <1>1, <1>2, <1>3, <2>1, WriteKeepsLocks DEF IInv
<1>12. TypeOK'
  <2>1. processed' \subseteq published /\ purged' \subseteq processed'
    <3>1. purged' = purged \ {e}
      BY DEF Apply, e
    <3>2. QED
      BY <1>1, <1>2, <3>1 DEF IInv, TypeOK
  <2>2. /\ tx' \in [Sessions -> Tx]
        /\ \A r \in Sessions : tx'[r].kind = "event" =>
             tx'[r].event \in published' /\ tx'[r].order = tx'[r].event.order
    BY <1>1, IdleTypes DEF IInv
  <2>3. QED
    BY <1>1, <1>10, <2>1, <2>2 DEF IInv, TypeOK
<1>13. QED
  BY <1>5, <1>10, <1>11, <1>12 DEF IInv, o

\* A transaction ends without changing its order: Swallow and Rollback.
LEMMA EndKeeps ==
  ASSUME IInv, NEW s \in Sessions, tx' = [tx EXCEPT ![s] = Idle],
         UNCHANGED <<status, outbox, published>>,
         processed \subseteq processed', processed' \subseteq published, purged' \subseteq processed',
         overtaken' \subseteq Orders, spent' \in [Disturbances -> Nat]
  PROVE  IInv'
<1>1. /\ tx' \in [Sessions -> Tx]
      /\ \A r \in Sessions : tx'[r].kind = "event" =>
           tx'[r].event \in published' /\ tx'[r].order = tx'[r].event.order
  BY IdleTypes DEF IInv
<1>2. TypeOK'
  BY <1>1 DEF IInv, TypeOK
<1>3. Locking'
  BY EndKeepsLocks DEF IInv
<1>4. Decided'
  BY SameOrders DEF IInv
<1>5. QED
  BY <1>2, <1>3, <1>4 DEF IInv

LEMMA SwallowKeeps == ASSUME IInv, NEW s \in Sessions, Swallow(s) PROVE IInv'
<1>1. /\ tx[s].kind = "event" /\ tx' = [tx EXCEPT ![s] = Idle]
      /\ processed' = processed \cup {tx[s].event}
      /\ overtaken' \subseteq overtaken \cup {tx[s].order}
      /\ UNCHANGED <<status, outbox, published, spent>>
  BY DEF Swallow
<1>2. processed' \subseteq published /\ purged' \subseteq processed'
  <2>1. purged' = purged \ {tx[s].event}
    BY DEF Swallow
  <2>2. QED
    BY <1>1, <2>1, MarkerTypes DEF IInv, TypeOK
<1>3. overtaken' \subseteq Orders
  BY <1>1, Shapes DEF IInv, TypeOK
<1>4. spent' \in [Disturbances -> Nat]
  BY <1>1 DEF IInv, TypeOK
<1>5. QED
  BY <1>1, <1>2, <1>3, <1>4, EndKeeps

LEMMA RollbackKeeps == ASSUME IInv, NEW s \in Sessions, Rollback(s) PROVE IInv'
<1>1. /\ tx' = [tx EXCEPT ![s] = Idle] /\ Disturb("rollback") /\ "rollback" \in Disturbances
      /\ UNCHANGED <<status, outbox, published, processed, purged, overtaken>>
  BY DEF Rollback, Disturbances
<1>2. spent' \in [Disturbances -> Nat]
  BY <1>1, Counts DEF IInv
<1>3. /\ processed' \subseteq published /\ purged' \subseteq processed'
      /\ overtaken' \subseteq Orders
  BY <1>1 DEF IInv, TypeOK
<1>4. QED
  BY <1>1, <1>2, <1>3, EndKeeps

LEMMA BeginCancelKeeps ==
  ASSUME IInv, NEW s \in Sessions, NEW o \in Orders, BeginCancel(s, o)
  PROVE  IInv'
<1> DEFINE v == OnCancel(o, status[o])
<1>1. /\ tx' = [tx EXCEPT ![s] = v] /\ ~Locked(o)
      /\ Disturb("cancel") /\ "cancel" \in Disturbances
      /\ UNCHANGED <<status, outbox, published, processed, purged, overtaken>>
  BY DEF BeginCancel, Disturbances
<1>2. status[o] \in Status /\ published \subseteq Event
  BY DEF IInv, TypeOK
<1>3. v \in Tx /\ v.kind = "cancel" /\ v.order = o /\ v.seen = status[o]
  BY <1>2, Shapes
<1> HIDE DEF v
<1>4. /\ tx' \in [Sessions -> Tx]
      /\ \A r \in Sessions : tx'[r].kind = "event" =>
           tx'[r].event \in published' /\ tx'[r].order = tx'[r].event.order
  BY <1>1, <1>2, <1>3, TxTypes DEF IInv
<1>5. spent' \in [Disturbances -> Nat]
  BY <1>1, Counts DEF IInv
<1>6. TypeOK'
  BY <1>1, <1>4, <1>5 DEF IInv, TypeOK
<1>7. Locking'
  BY <1>1, <1>3, ReadKeepsLocks DEF IInv
<1>8. Decided'
  BY <1>1, SameOrders DEF IInv
<1>9. QED
  BY <1>6, <1>7, <1>8 DEF IInv

LEMMA AcceptCancelKeeps ==
  ASSUME IInv, NEW s \in Sessions, AcceptCancel(s)
  PROVE  IInv' /\ status[tx[s].order] \notin Final
<1> DEFINE o == tx[s].order
           types == {"OrderCancellationRequested", "OrderCancelled"}
<1>1. /\ tx[s].kind = "cancel" /\ Cancellable(tx[s].seen)
      /\ status' = [status EXCEPT ![o] = "CANCELLED"] /\ Write(o, types)
      /\ tx' = [tx EXCEPT ![s] = Idle]
      /\ UNCHANGED <<published, processed, purged, overtaken, spent>>
  BY DEF AcceptCancel
<1>2. o \in Orders
  BY <1>1, Shapes DEF IInv, TypeOK
<1>3. Holding(s, o)
  BY <1>1 DEF Holding, Cancellable
<1>4. tx[s].seen = status[o]
  BY <1>2, <1>3 DEF IInv, Locking
<1>5. status[o] \notin Final
  BY <1>1, <1>4 DEF Cancellable, Final
<1>6. /\ "CANCELLED" \in Status /\ "CANCELLED" \notin {"RISK_APPROVED", "CONFIRMED"}
      /\ types \cap {"OrderConfirmed", "OrderCancelled"} = FinalEvents("CANCELLED")
  BY DEF Status, FinalEvents
<1> HIDE DEF o, types
<1>7. /\ status' \in [Orders -> Status]
      /\ outbox' \in [Orders -> [OutboxTypes -> Nat]]
      /\ Decided'
  BY <1>1, <1>2, <1>5, <1>6, OrderMoves DEF IInv
<1>8. Locking'
  <2>1. \A p \in Orders : p # o => status'[p] = status[p]
    BY <1>1, <1>2 DEF IInv, TypeOK
  <2>2. QED
    BY <1>1, <1>2, <1>3, <2>1, WriteKeepsLocks DEF IInv
<1>9. TypeOK'
  <2>1. /\ tx' \in [Sessions -> Tx]
        /\ \A r \in Sessions : tx'[r].kind = "event" =>
             tx'[r].event \in published' /\ tx'[r].order = tx'[r].event.order
    BY <1>1, IdleTypes DEF IInv
  <2>2. QED
    BY <1>1, <1>7, <2>1 DEF IInv, TypeOK
<1>10. QED
  BY <1>5, <1>7, <1>8, <1>9 DEF IInv, o

LEMMA RejectCancelKeeps == ASSUME IInv, NEW s \in Sessions, RejectCancel(s) PROVE IInv'
<1> DEFINE o == tx[s].order
           types == {"OrderCancellationRequested", "OrderCancellationRejected"}
<1>1. /\ tx[s].kind = "cancel" /\ Write(o, types) /\ tx' = [tx EXCEPT ![s] = Idle]
      /\ UNCHANGED <<status, published, processed, purged, overtaken, spent>>
  BY DEF RejectCancel
<1>2. o \in Orders
  BY <1>1, Shapes DEF IInv, TypeOK
<1>3. "OrderConfirmed" \notin types /\ "OrderCancelled" \notin types
  OBVIOUS
<1> HIDE DEF o, types
<1>4. /\ outbox' \in [Orders -> [OutboxTypes -> Nat]]
      /\ \A p \in Orders, t \in OutboxTypes :
           outbox'[p][t] = outbox[p][t] + IF p = o /\ t \in types THEN 1 ELSE 0
  BY <1>1, <1>2, Writes DEF IInv
<1>5. \A p \in Orders : /\ outbox'[p]["OrderConfirmed"] = outbox[p]["OrderConfirmed"]
                        /\ outbox'[p]["OrderCancelled"] = outbox[p]["OrderCancelled"]
  <2>1. \A p \in Orders : /\ outbox[p]["OrderConfirmed"] \in Nat
                          /\ outbox[p]["OrderCancelled"] \in Nat
    BY DEF IInv, TypeOK, OutboxTypes
  <2>2. QED
    BY <1>3, <1>4, <2>1 DEF OutboxTypes
<1>6. Decided'
  <2>1. OneFinalEvent'
    BY <1>1, <1>5 DEF IInv, Decided, OneFinalEvent
  <2>2. Approved' /\ ConfirmedMeansAuthorized'
    BY <1>1 DEF IInv, Decided, Approved, ConfirmedMeansAuthorized
  <2>3. QED
    BY <2>1, <2>2 DEF Decided
<1>7. Locking'
  BY <1>1, EndKeepsLocks DEF IInv
<1>8. TypeOK'
  <2>1. /\ tx' \in [Sessions -> Tx]
        /\ \A r \in Sessions : tx'[r].kind = "event" =>
             tx'[r].event \in published' /\ tx'[r].order = tx'[r].event.order
    BY <1>1, IdleTypes DEF IInv
  <2>2. QED
    BY <1>1, <1>4, <2>1 DEF IInv, TypeOK
<1>9. QED
  BY <1>6, <1>7, <1>8 DEF IInv

LEMMA PurgeKeeps == ASSUME IInv, NEW e, Purge(e) PROVE IInv'
<1>1. /\ e \in processed /\ purged' = purged \cup {e}
      /\ Disturb("purge") /\ "purge" \in Disturbances
      /\ UNCHANGED <<status, outbox, published, processed, tx, overtaken>>
  BY DEF Purge, Disturbances
<1>2. spent' \in [Disturbances -> Nat]
  BY <1>1, Counts DEF IInv
<1>3. TypeOK'
  BY <1>1, <1>2 DEF IInv, TypeOK
<1>4. Locking'
  BY <1>1 DEF IInv, Locking, Holding
<1>5. Decided'
  BY <1>1, SameOrders DEF IInv
<1>6. QED
  BY <1>3, <1>4, <1>5 DEF IInv

-----------------------------------------------------------------------------
(* OrderLifecycle implements OrderOutcome                                  *)

\* A cancel is about an order that is there, and only results begin an event.
OpenFits ==
  \A s \in Sessions :
    /\ tx[s].kind = "cancel" => tx[s].seen # "NONE"
    /\ tx[s].kind = "event" => tx[s].event.type \in LifecycleTypes

LEMMA OpenFitsKept ==
  ASSUME IInv, OpenFits, [Next]_vars PROVE OpenFits'
<1>1. CASE UNCHANGED tx
  BY <1>1 DEF OpenFits
<1>2. ASSUME NEW s \in Sessions, NEW v \in Tx, tx' = [tx EXCEPT ![s] = v],
             v.kind = "cancel" => v.seen # "NONE",
             v.kind = "event" => v.event.type \in LifecycleTypes
      PROVE  OpenFits'
  BY <1>2 DEF OpenFits, IInv, TypeOK
<1>3. ASSUME NEW s \in Sessions, tx' = [tx EXCEPT ![s] = Idle] PROVE OpenFits'
  BY <1>2, <1>3, Shapes
<1>4. ASSUME NEW s \in Sessions, NEW e \in published, BeginEvent(s, e) PROVE OpenFits'
  <2>1. /\ OnEvent(e, "unread") \in Tx /\ OnEvent(e, "unread").kind = "event"
        /\ OnEvent(e, "unread").event = e
    BY Shapes DEF IInv, TypeOK
  <2> QED
    BY <1>2, <1>4, <2>1 DEF BeginEvent
<1>5. ASSUME NEW s \in Sessions, LockOrder(s) PROVE OpenFits'
  <2> DEFINE v == OnEvent(tx[s].event, status[tx[s].order])
  <2>1. tx' = [tx EXCEPT ![s] = v] /\ tx[s].kind = "event"
    BY <1>5 DEF LockOrder, IInv, TypeOK
  <2>2. tx[s].event \in Event /\ status[tx[s].order] \in Status
    BY <2>1, Shapes DEF IInv, TypeOK
  <2>3. v \in Tx /\ v.kind = "event" /\ v.event = tx[s].event
    BY <2>2, Shapes
  <2>4. v.event.type \in LifecycleTypes
    BY <2>1, <2>3 DEF OpenFits
  <2> HIDE DEF v
  <2> QED
    BY <1>2, <2>1, <2>3, <2>4
<1>6. ASSUME NEW s \in Sessions, NEW o \in Orders, BeginCancel(s, o) PROVE OpenFits'
  <2>1. status[o] \in Status /\ status[o] # "NONE"
    BY <1>6 DEF BeginCancel, IInv, TypeOK
  <2>2. /\ OnCancel(o, status[o]) \in Tx /\ OnCancel(o, status[o]).kind = "cancel"
        /\ OnCancel(o, status[o]).seen # "NONE"
    BY <2>1, Shapes
  <2> QED
    BY <1>2, <1>6, <2>2 DEF BeginCancel
<1> QED
  BY <1>1, <1>3, <1>4, <1>5, <1>6
     DEF Next, vars, Commit, CreateOrder, RiskResult, PaymentResult, Answer, Reprocess, Purge,
         Apply, Swallow, AcceptCancel, RejectCancel, Rollback

\* The commit of an event's marker is the instant at which it is heard.
LEMMA MarkerHeard ==
  ASSUME TypeOK, NEW e \in Event, processed' = processed \cup {e}
  PROVE  Outcome!Hears(e.order, e.type)
<1>1. e.order \in Orders
  BY DEF Event
<1>2. \A o \in Orders : Heard'[o] = IF o = e.order THEN Heard[o] \cup {e.type} ELSE Heard[o]
  BY DEF Heard
<1>3. /\ Heard = [o \in Orders |-> Heard[o]]
      /\ Heard' = [o \in Orders |-> Heard'[o]]
  BY DEF Heard
<1>4. Heard' = [Heard EXCEPT ![e.order] = Heard[e.order] \cup {e.type}]
  BY <1>1, <1>2, <1>3
<1> QED
  BY <1>4 DEF Outcome!Hears

LEMMA NothingHeard == ASSUME processed' = processed PROVE Heard' = Heard
  BY DEF Heard

\* The rows a transaction writes are what the outcome announces.
LEMMA RowsAnnounce ==
  ASSUME NEW o \in Orders, NEW to, NEW types,
         status' = [status EXCEPT ![o] = to], Write(o, types)
  PROVE  Outcome!Becomes(o, to, types)
  BY DEF Write, Outcome!Becomes, OutboxTypes, Outcome!Announcements

LEMMA InitOutcome == Init => Outcome!Init
<1> SUFFICES ASSUME Init PROVE Outcome!Init
  OBVIOUS
<1>1. Heard = [o \in Orders |-> {}]
  BY DEF Init, Heard
<1> QED
  BY <1>1 DEF Init, Outcome!Init, OutboxTypes, Outcome!Announcements

LEMMA CreateOutcome == ASSUME NEW o \in Orders, CreateOrder(o) PROVE Outcome!Create(o)
  BY RowsAnnounce, NothingHeard DEF CreateOrder, Outcome!Create

\* By the row lock the status that was read is the status of this instant.
LEMMA ApplyOutcome ==
  ASSUME IInv, NEW s \in Sessions, NEW to \in Status, Apply(s, to)
  PROVE  LET o == tx[s].order
         IN  Outcome!Approve(o) \/ Outcome!Confirm(o) \/ Outcome!Reject(o)
<1> DEFINE o == tx[s].order
           e == tx[s].event
<1>1. /\ tx[s].kind = "event" /\ <<tx[s].seen, e.type, to>> \in Transitions
      /\ status' = [status EXCEPT ![o] = to] /\ Write(o, FinalEvents(to))
      /\ processed' = processed \cup {e}
  BY DEF Apply
<1>2. e \in Event /\ o = e.order /\ o \in Orders
  BY <1>1, Shapes DEF IInv, TypeOK
<1>3. tx[s].seen = status[o]
  <2>1. Holding(s, o)
    BY <1>1 DEF Holding, Transitions
  <2> QED
    BY <1>2, <2>1 DEF IInv, Locking
<1>4. Outcome!Hears(o, e.type)
  BY <1>1, <1>2, MarkerHeard DEF IInv
<1>5. Outcome!Becomes(o, to, FinalEvents(to))
  BY <1>1, <1>2, RowsAnnounce
<1>6. \/ status[o] = "PENDING" /\ e.type = "OrderRiskApproved" /\ to = "RISK_APPROVED"
      \/ status[o] = "RISK_APPROVED" /\ e.type = "PaymentAuthorized" /\ to = "CONFIRMED"
      \/ status[o] = "PENDING" /\ e.type = "OrderRiskRejected" /\ to = "CANCELLED"
      \/ status[o] = "RISK_APPROVED" /\ e.type = "PaymentFailed" /\ to = "CANCELLED"
  BY <1>1, <1>3 DEF Transitions
<1>7. /\ FinalEvents("RISK_APPROVED") = {}
      /\ FinalEvents("CONFIRMED") = {"OrderConfirmed"}
      /\ FinalEvents("CANCELLED") = {"OrderCancelled"}
  BY DEF FinalEvents
<1> HIDE DEF o, e
<1> QED
  BY <1>4, <1>5, <1>6, <1>7 DEF Outcome!Approve, Outcome!Confirm, Outcome!Reject, o

LEMMA SwallowOutcome ==
  ASSUME IInv, OpenFits, NEW s \in Sessions, Swallow(s) PROVE Outcome!Ignore(tx[s].order)
<1>1. /\ tx[s].kind = "event" /\ processed' = processed \cup {tx[s].event}
      /\ UNCHANGED <<status, outbox>>
  BY DEF Swallow
<1>2. tx[s].event \in Event /\ tx[s].order = tx[s].event.order
  BY <1>1, Shapes DEF IInv, TypeOK
<1>3. tx[s].event.type \in Outcome!Results
  BY <1>1 DEF OpenFits, LifecycleTypes, RiskEvents, PaymentEvents, Outcome!Results
<1>4. Outcome!Hears(tx[s].order, tx[s].event.type)
  BY <1>1, <1>2, MarkerHeard DEF IInv
<1> QED
  BY <1>1, <1>3, <1>4 DEF Outcome!Ignore

LEMMA AcceptOutcome ==
  ASSUME IInv, NEW s \in Sessions, AcceptCancel(s) PROVE Outcome!Cancel(tx[s].order)
<1> DEFINE o == tx[s].order
<1>1. /\ tx[s].kind = "cancel" /\ Cancellable(tx[s].seen)
      /\ status' = [status EXCEPT ![o] = "CANCELLED"]
      /\ Write(o, {"OrderCancellationRequested", "OrderCancelled"})
      /\ UNCHANGED processed
  BY DEF AcceptCancel
<1>2. o \in Orders
  BY <1>1, Shapes DEF IInv, TypeOK
<1>3. tx[s].seen = status[o]
  <2>1. Holding(s, o)
    BY <1>1 DEF Holding, Cancellable
  <2> QED
    BY <1>2, <2>1 DEF IInv, Locking
<1> HIDE DEF o
<1>4. Outcome!Becomes(o, "CANCELLED", {"OrderCancellationRequested", "OrderCancelled"})
  BY <1>1, <1>2, RowsAnnounce
<1>5. Outcome!Cancel(o)
  BY <1>1, <1>3, <1>4, NothingHeard DEF Cancellable, Outcome!Cancel
<1> QED
  BY <1>5 DEF o

LEMMA RefuseOutcome ==
  ASSUME IInv, OpenFits, NEW s \in Sessions, RejectCancel(s) PROVE Outcome!Refuse(tx[s].order)
<1> DEFINE o == tx[s].order
           types == {"OrderCancellationRequested", "OrderCancellationRejected"}
<1>1. /\ tx[s].kind = "cancel" /\ ~Cancellable(tx[s].seen)
      /\ Write(o, types) /\ UNCHANGED <<status, processed>>
  BY DEF RejectCancel
<1>2. o \in Orders /\ tx[s].seen \in Status /\ tx[s].seen # "NONE"
  BY <1>1, Shapes DEF IInv, TypeOK, OpenFits
<1>3. tx[s].seen = status[o]
  <2>1. Holding(s, o)
    BY <1>1, <1>2 DEF Holding, Status
  <2> QED
    BY <1>2, <2>1 DEF IInv, Locking
<1>4. status[o] \in {"CONFIRMED", "CANCELLED"}
  BY <1>1, <1>2, <1>3 DEF Cancellable, Status
<1> HIDE DEF o, types
<1>5. status' = [status EXCEPT ![o] = status[o]]
  BY <1>1, <1>2 DEF IInv, TypeOK
<1>6. Outcome!Becomes(o, status[o], types)
  BY <1>1, <1>2, <1>5, RowsAnnounce
<1>7. Outcome!Refuse(o)
  BY <1>1, <1>4, <1>6, NothingHeard DEF types, Outcome!Refuse
<1> QED
  BY <1>7 DEF o

LEMMA NextOutcome ==
  ASSUME IInv, OpenFits, [Next]_vars PROVE [Outcome!Next]_(Outcome!vars)
<1>1. ASSUME UNCHANGED <<status, outbox, processed>> PROVE UNCHANGED Outcome!vars
  BY <1>1, NothingHeard DEF Outcome!vars
<1>2. ASSUME NEW o \in Orders, CreateOrder(o) PROVE Outcome!Next
  BY <1>2, CreateOutcome DEF Outcome!Next
<1>3. ASSUME NEW s \in Sessions, Commit(s) PROVE Outcome!Next
  <2>1. tx[s].kind # "none" => tx[s].order \in Orders
    BY Shapes DEF IInv, TypeOK
  <2>2. tx[s].kind # "none"
    BY <1>3 DEF Commit, Apply, Swallow, AcceptCancel, RejectCancel
  <2> QED
    BY <1>3, <2>1, <2>2, ApplyOutcome, SwallowOutcome, AcceptOutcome, RefuseOutcome
       DEF Commit, Outcome!Next
<1> QED
  BY <1>1, <1>2, <1>3
     DEF Next, vars, RiskResult, PaymentResult, Answer, Reprocess, BeginEvent, Purge,
         LockOrder, Rollback, BeginCancel

-----------------------------------------------------------------------------
(* Theorems                                                                *)

\* Every initial state satisfies the inductive invariant.
LEMMA Initially == Init => IInv
<1> SUFFICES ASSUME Init PROVE IInv
  OBVIOUS
<1>1. TypeOK
  BY Shapes DEF Init, TypeOK, Status
<1>2. Locking
  BY Shapes DEF Init, Locking, Holding
<1>3. Decided
  BY DEF Init, Decided, OneFinalEvent, Approved, ConfirmedMeansAuthorized, OutboxTypes
<1>4. QED
  BY <1>1, <1>2, <1>3 DEF IInv

\* A status changes only in a way FinalIsFinal allows.
StepOfOrders ==
  \A o \in Orders :
    /\ status[o] \in Final => status'[o] = status[o]
    /\ status[o] # "NONE" => status'[o] # "NONE"

\* Every step keeps the invariant and ends no final state.
LEMMA Step == IInv /\ [Next]_vars => IInv' /\ StepOfOrders
<1> SUFFICES ASSUME IInv, [Next]_vars PROVE IInv' /\ StepOfOrders
  OBVIOUS
<1> USE DEF StepOfOrders
<1>1. ASSUME NEW o \in Orders, CreateOrder(o) PROVE IInv' /\ StepOfOrders
  <2>1. status[o] = "NONE" /\ status' = [status EXCEPT ![o] = "PENDING"]
    BY <1>1 DEF CreateOrder
  <2>2. StepOfOrders
    BY <2>1 DEF Final, IInv, TypeOK
  <2>3. QED
    BY <1>1, <2>2, CreateOrderKeeps
<1>2. ASSUME NEW e \in published, NEW type \in RiskEvents, RiskResult(e, type)
      PROVE  IInv' /\ StepOfOrders
  <2>1. Answer(e, RiskEvents, type) /\ type \in EventTypes
    BY <1>2 DEF RiskResult, EventTypes, LifecycleTypes
  <2>2. status' = status
    BY <2>1 DEF Answer
  <2>3. QED
    BY <2>1, <2>2, AnswerKeeps
<1>3. ASSUME NEW e \in published, NEW type \in PaymentEvents, PaymentResult(e, type)
      PROVE  IInv' /\ StepOfOrders
  <2>1. Answer(e, PaymentEvents, type) /\ type \in EventTypes
    BY <1>3 DEF PaymentResult, EventTypes, LifecycleTypes
  <2>2. status' = status
    BY <2>1 DEF Answer
  <2>3. QED
    BY <2>1, <2>2, AnswerKeeps
<1>4. ASSUME NEW e \in published, NEW o \in Orders, Reprocess(e, o) PROVE IInv' /\ StepOfOrders
  <2>1. status' = status
    BY <1>4 DEF Reprocess
  <2>2. QED
    BY <1>4, <2>1, ReprocessKeeps
<1>5. ASSUME NEW s \in Sessions, NEW e \in published, BeginEvent(s, e)
      PROVE  IInv' /\ StepOfOrders
  <2>1. status' = status
    BY <1>5 DEF BeginEvent
  <2>2. QED
    BY <1>5, <2>1, BeginEventKeeps
<1>6. ASSUME NEW s \in Sessions, LockOrder(s) PROVE IInv' /\ StepOfOrders
  <2>1. status' = status
    BY <1>6 DEF LockOrder
  <2>2. QED
    BY <1>6, <2>1, LockOrderKeeps
<1>7. ASSUME NEW s \in Sessions, NEW to \in Status, Apply(s, to) PROVE IInv' /\ StepOfOrders
  <2>1. status' = [status EXCEPT ![tx[s].order] = to]
    BY <1>7 DEF Apply
  <2>2. IInv' /\ status[tx[s].order] \notin Final /\ to # "NONE"
    BY <1>7, ApplyKeeps
  <2>3. QED
    BY <2>1, <2>2 DEF IInv, TypeOK
<1>8. ASSUME NEW s \in Sessions, Swallow(s) PROVE IInv' /\ StepOfOrders
  <2>1. status' = status
    BY <1>8 DEF Swallow
  <2>2. QED
    BY <1>8, <2>1, SwallowKeeps
<1>9. ASSUME NEW s \in Sessions, NEW o \in Orders, BeginCancel(s, o) PROVE IInv' /\ StepOfOrders
  <2>1. status' = status
    BY <1>9 DEF BeginCancel
  <2>2. QED
    BY <1>9, <2>1, BeginCancelKeeps
<1>10. ASSUME NEW s \in Sessions, AcceptCancel(s) PROVE IInv' /\ StepOfOrders
  <2>1. status' = [status EXCEPT ![tx[s].order] = "CANCELLED"]
    BY <1>10 DEF AcceptCancel
  <2>2. IInv' /\ status[tx[s].order] \notin Final
    BY <1>10, AcceptCancelKeeps
  <2>3. QED
    BY <2>1, <2>2 DEF IInv, TypeOK
<1>11. ASSUME NEW s \in Sessions, RejectCancel(s) PROVE IInv' /\ StepOfOrders
  <2>1. status' = status
    BY <1>11 DEF RejectCancel
  <2>2. QED
    BY <1>11, <2>1, RejectCancelKeeps
<1>12. ASSUME NEW s \in Sessions, Rollback(s) PROVE IInv' /\ StepOfOrders
  <2>1. status' = status
    BY <1>12 DEF Rollback
  <2>2. QED
    BY <1>12, <2>1, RollbackKeeps
<1>13. ASSUME NEW e \in published, Purge(e) PROVE IInv' /\ StepOfOrders
  <2>1. status' = status
    BY <1>13 DEF Purge
  <2>2. QED
    BY <1>13, <2>1, PurgeKeeps
<1>14. CASE UNCHANGED vars
  <2>1. IInv'
    BY <1>14 DEF vars, IInv, TypeOK, Locking, Holding, Decided, OneFinalEvent, Approved,
                 ConfirmedMeansAuthorized
  <2>2. QED
    BY <1>14, <2>1 DEF vars
<1>15. QED
  BY <1>1, <1>2, <1>3, <1>4, <1>5, <1>6, <1>7, <1>8, <1>9, <1>10, <1>11, <1>12, <1>13, <1>14
     DEF Next, Commit

\* The inductive invariant holds in every reachable state.
THEOREM Invariance == Spec => []IInv
<1>1. QED
  BY Initially, Step, PTL DEF Spec

\* The state keeps its shape: only published events are processed, and an open
\* event transaction is about a published event and that event's order.
THEOREM TypeCorrect == Spec => []TypeOK
<1>1. IInv => TypeOK
  BY DEF IInv
<1>2. QED
  BY <1>1, Invariance, PTL

\* However commands and events of many sessions compete for the row, the outbox
\* announces exactly one end per ended order, and the right one.
THEOREM OneAnnouncement == Spec => []OneFinalEvent
<1>1. IInv => OneFinalEvent
  BY DEF IInv, Decided
<1>2. QED
  BY <1>1, Invariance, PTL

\* No order is confirmed without a processed approval and authorisation.
THEOREM NoFreeConfirmation == Spec => []ConfirmedMeansAuthorized
<1>1. IInv => ConfirmedMeansAuthorized
  BY DEF IInv, Decided
<1>2. QED
  BY <1>1, Invariance, PTL

\* Confirmed and cancelled are final for every interleaving of sessions.
THEOREM FinalStatesStay == Spec => FinalIsFinal
<1>1. StepOfOrders =>
        \A o \in Orders :
          /\ status[o] \in Final => status'[o] = status[o]
          /\ status[o] # "NONE" => status'[o] # "NONE"
  BY DEF StepOfOrders
<1>2. IInv /\ [Next]_vars =>
        [\A o \in Orders :
           /\ status[o] \in Final => status'[o] = status[o]
           /\ status[o] # "NONE" => status'[o] # "NONE"]_vars
  BY <1>1, Step
<1>3. QED
  BY <1>2, Invariance, PTL DEF Spec, FinalIsFinal

\* Seen through the status, the announcements and the results heard, transactions
\* that overlap, wait, read before they write and roll back are instants in the
\* life of an order.
THEOREM Implementation == Spec => ImplementsOrderOutcome
<1>1. Init => OpenFits
  BY Shapes DEF Init, OpenFits
<1>2. IInv /\ OpenFits /\ [Next]_vars => OpenFits'
  BY OpenFitsKept
<1>3. IInv /\ OpenFits /\ [Next]_vars => [Outcome!Next]_(Outcome!vars)
  BY NextOutcome
<1>4. QED
  BY <1>1, <1>2, <1>3, InitOutcome, Invariance, PTL
     DEF Spec, ImplementsOrderOutcome, Outcome!Spec

=============================================================================
