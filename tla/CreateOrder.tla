------------------------------ MODULE CreateOrder ------------------------------
(***************************************************************************)
(* POST /orders. The gateway passes the client's Idempotency-Key and a     *)
(* hash of the body to order-service, whose transaction inserts the key,   *)
(* the order, its OrderCreated row and the response to keep. The unique    *)
(* index makes a second transaction with the key wait for the first one.   *)
(*                                                                         *)
(* A client that got no answer sends the same request again. Keys are      *)
(* never deleted: technical retention does not know their table.           *)
(***************************************************************************)
EXTENDS Integers, Sequences

CONSTANTS
  Clients,   \* callers of POST /orders, one request each, sent until answered
  KeyOf,     \* client -> its Idempotency-Key, trimmed, or NoKey
  BodyOf,    \* client -> the hash of its request body
  NoKey,     \* a request without the header
  Possible,  \* the disturbances of this instance
  Limit      \* how many of them, of whatever kinds, a behaviour may contain

Disturbances == {"rollback", "lostAnswer"}

Keys   == {KeyOf[c] : c \in Clients} \ {NoKey}
Bodies == {BodyOf[c] : c \in Clients}

ASSUME CreateAssumption == Possible \subseteq Disturbances /\ Limit \in Nat

\* A row of order_create_idempotency_keys; order is orders.id, 0 for no response.
Row    == [hash : Bodies, order : Nat]
Absent == [order |-> 0]

\* What a client may be told: a response with the order's id, or 409.
Answer   == [kind : {"order"}, id : Nat] \cup {[kind |-> "conflict"]}
NoAnswer == [kind |-> "none"]

VARIABLES
  keys,     \* order_create_idempotency_keys, committed
  orders,   \* orders and their OrderCreated rows: the client that made each
  request,  \* client -> where its request is
  answer,   \* client -> what it was told
  spent     \* disturbances so far

vars == <<keys, orders, request, answer, spent>>

-----------------------------------------------------------------------------
Disturb(d) == d \in Possible /\ spent < Limit /\ spent' = spent + 1

Order(id) == [kind |-> "order", id |-> id]
Conflict  == [kind |-> "conflict"]

Init ==
  /\ keys = [k \in Keys |-> Absent]
  /\ orders = <<>>
  /\ request = [c \in Clients |-> "new"]
  /\ answer = [c \in Clients |-> NoAnswer]
  /\ spent = 0

\* Mutant: the key is looked up and inserted without a unique index.
NeverTaken(k) == FALSE

\* An uncommitted row with the key: an insert of it waits.
Taken(k) == \E c \in Clients : request[c] = "inserted" /\ KeyOf[c] = k

\* insert ... on conflict do nothing returning idempotency_key, inserted.
InsertKey(c) ==
  /\ request[c] = "new"
  /\ KeyOf[c] # NoKey
  /\ ~Taken(KeyOf[c])
  /\ keys[KeyOf[c]] = Absent
  /\ request' = [request EXCEPT ![c] = "inserted"]
  /\ UNCHANGED <<keys, orders, answer, spent>>

\* The row as the transaction leaves it.
Kept(c) == [hash |-> BodyOf[c], order |-> Len(orders) + 1]

\* persistPendingOrderWithOutbox, the update with the response, commit.
Commit(c) ==
  /\ request[c] = "inserted"
  /\ orders' = Append(orders, c)
  /\ keys' = [keys EXCEPT ![KeyOf[c]] = Kept(c)]
  /\ request' = [request EXCEPT ![c] = "done"]
  /\ answer' = [answer EXCEPT ![c] = Order(Len(orders) + 1)]
  /\ UNCHANGED spent

\* Mutant: the outcome of the first request with the key, whatever the body.
ReplayForAnyBody(row, c) == Order(row.order)

\* What a request is told whose key has a committed row.
Replay(row, c) == IF row.hash = BodyOf[c] THEN Order(row.order) ELSE Conflict

\* Mutant: the row is looked up by key and hash, and not finding it is an error.
ReadKeySameBody(c) ==
  /\ request[c] = "new"
  /\ KeyOf[c] # NoKey
  /\ ~Taken(KeyOf[c])
  /\ keys[KeyOf[c]] # Absent
  /\ keys[KeyOf[c]].hash = BodyOf[c]
  /\ answer' = [answer EXCEPT ![c] = Order(keys[KeyOf[c]].order)]
  /\ request' = [request EXCEPT ![c] = "done"]
  /\ UNCHANGED <<keys, orders, spent>>

\* The insert returned nothing: readIdempotencyRow. A row without a response
\* would be answered 409 too, but no transaction commits one.
ReadKey(c) ==
  /\ request[c] = "new"
  /\ KeyOf[c] # NoKey
  /\ ~Taken(KeyOf[c])
  /\ keys[KeyOf[c]] # Absent
  /\ answer' = [answer EXCEPT ![c] = Replay(keys[KeyOf[c]], c)]
  /\ request' = [request EXCEPT ![c] = "done"]
  /\ UNCHANGED <<keys, orders, spent>>

\* createPendingOrderWithOutbox.
CreateUnkeyed(c) ==
  /\ request[c] = "new"
  /\ KeyOf[c] = NoKey
  /\ orders' = Append(orders, c)
  /\ request' = [request EXCEPT ![c] = "done"]
  /\ answer' = [answer EXCEPT ![c] = Order(Len(orders) + 1)]
  /\ UNCHANGED <<keys, spent>>

\* Mutant: the key was inserted in a transaction of its own, and stays.
RollbackKeepingKey(c) ==
  /\ request[c] = "inserted"
  /\ request' = [request EXCEPT ![c] = "new"]
  /\ keys' = [keys EXCEPT ![KeyOf[c]] = [hash |-> BodyOf[c], order |-> 0]]
  /\ Disturb("rollback")
  /\ UNCHANGED <<orders, answer>>

\* Mutant: the order is not part of the transaction and survives it.
RollbackKeepingOrder(c) ==
  /\ request[c] = "inserted"
  /\ request' = [request EXCEPT ![c] = "new"]
  /\ orders' = Append(orders, c)
  /\ Disturb("rollback")
  /\ UNCHANGED <<keys, answer>>

\* A failed statement or a crash: nothing of the transaction stays, and the
\* client, told so or not, tries again.
Rollback(c) ==
  /\ request[c] = "inserted"
  /\ request' = [request EXCEPT ![c] = "new"]
  /\ Disturb("rollback")
  /\ UNCHANGED <<keys, orders, answer>>

\* Committed, but the answer never reached the client, which sends again.
Resend(c) ==
  /\ request[c] = "done"
  /\ request' = [request EXCEPT ![c] = "new"]
  /\ answer' = [answer EXCEPT ![c] = NoAnswer]
  /\ Disturb("lostAnswer")
  /\ UNCHANGED <<keys, orders>>

Next ==
  \E c \in Clients :
    \/ InsertKey(c) \/ Commit(c) \/ ReadKey(c) \/ CreateUnkeyed(c)
    \/ Rollback(c) \/ Resend(c)

Spec == Init /\ [][Next]_vars

\* A statement that does not wait returns. A waiting insert is granted the key
\* or finds its row.
Fairness ==
  \A c \in Clients :
    WF_vars(Commit(c)) /\ WF_vars(CreateUnkeyed(c)) /\ WF_vars(InsertKey(c) \/ ReadKey(c))

FairSpec == Spec /\ Fairness

-----------------------------------------------------------------------------
(* Properties                                                              *)

\* Shape of the state. A committed row has its response: 409 "still being
\* processed" is never the answer, however a first attempt ended.
TypeOK ==
  /\ keys \in [Keys -> {row \in Row : row.order > 0} \cup {Absent}]
  /\ orders \in Seq(Clients)
  /\ request \in [Clients -> {"new", "inserted", "done"}]
  /\ answer \in [Clients -> Answer \cup {NoAnswer}]
  /\ spent \in Nat
  /\ \A c \in Clients : answer[c] = NoAnswer <=> request[c] # "done"

\* One order, and with it one OrderCreated, for all the requests that carry a
\* key, however many there are at a time and however often they are sent again.
OneOrderPerKey ==
  \A i, j \in DOMAIN orders :
    KeyOf[orders[i]] = KeyOf[orders[j]] /\ KeyOf[orders[i]] # NoKey => i = j

\* A key is there exactly if its order is: a transaction that failed leaves
\* neither a key that blocks the next attempt nor an order without its key.
KeyWithItsOrder ==
  \A k \in Keys :
    IF keys[k] = Absent
    THEN \A i \in DOMAIN orders : KeyOf[orders[i]] # k
    ELSE LET row == keys[k]
         IN  /\ row.order \in DOMAIN orders
             /\ KeyOf[orders[row.order]] = k /\ BodyOf[orders[row.order]] = row.hash

\* A client is told an order made from its own key and body; 409 is told only
\* when the key's order has another body. So clients that share a key and a
\* body are told the same order.
AnswersTrue ==
  \A c \in Clients :
    /\ answer[c].kind = "order" =>
         /\ answer[c].id \in DOMAIN orders
         /\ LET maker == orders[answer[c].id]
            IN  IF KeyOf[c] = NoKey THEN maker = c
                ELSE KeyOf[maker] = KeyOf[c] /\ BodyOf[maker] = BodyOf[c]
    /\ answer[c].kind = "conflict" =>
         \E i \in DOMAIN orders : KeyOf[orders[i]] = KeyOf[c] /\ BodyOf[orders[i]] # BodyOf[c]

\* What a key stands for never changes, nor does an order disappear: an answer
\* given once is given again.
KeptForGood ==
  [][/\ \A k \in Keys : keys[k] # Absent => keys'[k] = keys[k]
     /\ \A i \in DOMAIN orders : i \in DOMAIN orders' /\ orders'[i] = orders[i]]_vars

\* Every client gets an answer in the end: nobody waits for ever for a key whose
\* transaction failed.
EveryoneAnswered == \A c \in Clients : <>[](answer[c] # NoAnswer)

\* Requests take effect one at a time, whatever transactions overlap, fail or are
\* waited for: the orders made and the answers given are those of CreateOnce.
Once == INSTANCE CreateOnce
ImplementsCreateOnce == Once!Spec
================================================================================
