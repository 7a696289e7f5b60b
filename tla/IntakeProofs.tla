------------------------------ MODULE IntakeProofs ------------------------------
(***************************************************************************)
(* Proofs about CreateOrder and about Intake, its composition with RiskGo,  *)
(* for any clients, keys, bodies, members and number of disturbances. What  *)
(* the unique index gives is that at most one open transaction has inserted *)
(* a key, and only while no row of it is committed (Exclusive): the one     *)
(* that commits finds the key without an order, and leaves it with one.     *)
(* A step of the composition is one of CreateOrder or one of RiskGo, and     *)
(* leaves the other's state alone, but for the disturbances they share.     *)
(***************************************************************************)
EXTENDS Intake, TLAPS

RiskProofs == INSTANCE RiskGoProofs WITH Orders <- 1 .. MaxOrders, Possible <- RiskPossible

Exclusive ==
  \A c \in Clients :
    request[c] = "inserted" =>
      /\ KeyOf[c] # NoKey
      /\ keys[KeyOf[c]] = Absent
      /\ \A d \in Clients : request[d] = "inserted" /\ KeyOf[d] = KeyOf[c] => d = c

IInv == TypeOK /\ Exclusive /\ KeyWithItsOrder /\ OneOrderPerKey /\ AnswersTrue

-----------------------------------------------------------------------------
(* Rows, answers and the list of orders                                    *)

\* A committed row is never taken for an absent one.
LEMMA RowShapes ==
  /\ Absent.order = 0
  /\ \A c \in Clients, n \in Nat : [hash |-> BodyOf[c], order |-> n] \in Row
  /\ \A row \in Row : row.order \in Nat /\ (row.order > 0 => row # Absent)
<1>1. Absent.order = 0
  BY DEF Absent
<1>2. \A c \in Clients, n \in Nat : [hash |-> BodyOf[c], order |-> n] \in Row
  BY DEF Row, Bodies
<1>3. \A row \in Row : row.order \in Nat /\ (row.order > 0 => row # Absent)
  BY <1>1 DEF Row
<1> QED
  BY <1>1, <1>2, <1>3

\* An answer is an order, a conflict or none, and says which.
LEMMA AnswerShapes ==
  /\ \A n \in Nat :
       /\ Order(n) \in Answer
       /\ Order(n) # NoAnswer
       /\ Order(n).kind = "order"
       /\ Order(n).id = n
  /\ Conflict \in Answer
  /\ Conflict # NoAnswer
  /\ Conflict.kind = "conflict"
  /\ NoAnswer.kind = "none"
  BY DEF Order, Conflict, Answer, NoAnswer

LEMMA Appended ==
  ASSUME NEW S, NEW s \in Seq(S), NEW e \in S
  PROVE  /\ Append(s, e) \in Seq(S)
         /\ Len(s) \in Nat
         /\ Len(s) + 1 \in DOMAIN Append(s, e)
         /\ DOMAIN s = 1 .. Len(s)
         /\ DOMAIN Append(s, e) = DOMAIN s \cup {Len(s) + 1}
         /\ Append(s, e)[Len(s) + 1] = e
         /\ \A i \in DOMAIN s : Append(s, e)[i] = s[i] /\ i # Len(s) + 1
  OBVIOUS

LEMMA KeyedClient ==
  ASSUME NEW c \in Clients, KeyOf[c] # NoKey PROVE KeyOf[c] \in Keys
  BY DEF Keys

LEMMA CommittedRow ==
  ASSUME TypeOK, NEW k \in Keys, keys[k] # Absent
  PROVE  keys[k] \in Row /\ keys[k].order \in Nat /\ keys[k].order > 0
  BY RowShapes DEF TypeOK

LEMMA DisturbNat == ASSUME TypeOK, NEW d, Disturb(d) PROVE spent' \in Nat
  BY DEF TypeOK, Disturb

-----------------------------------------------------------------------------
(* The invariant holds at the start, and each action keeps it               *)

LEMMA InitIInv == Init => IInv
<1> SUFFICES ASSUME Init PROVE IInv
  OBVIOUS
<1>1. TypeOK
  BY DEF Init, TypeOK
<1>2. Exclusive
  BY DEF Init, Exclusive
<1>3. KeyWithItsOrder
  BY DEF Init, KeyWithItsOrder
<1>4. OneOrderPerKey
  BY DEF Init, OneOrderPerKey
<1>5. AnswersTrue
  BY AnswerShapes DEF Init, AnswersTrue
<1> QED
  BY <1>1, <1>2, <1>3, <1>4, <1>5 DEF IInv

LEMMA InsertKeyIInv == ASSUME IInv, NEW c \in Clients, InsertKey(c) PROVE IInv'
<1>1. TypeOK'
  BY DEF IInv, TypeOK, InsertKey
<1>2. Exclusive'
  <2> SUFFICES ASSUME NEW a \in Clients, request'[a] = "inserted"
               PROVE  /\ KeyOf[a] # NoKey
                      /\ keys'[KeyOf[a]] = Absent
                      /\ \A d \in Clients : request'[d] = "inserted" /\ KeyOf[d] = KeyOf[a] => d = a
    BY DEF Exclusive
  <2>1. request' = [request EXCEPT ![c] = "inserted"] /\ UNCHANGED keys
    BY DEF InsertKey
  <2>2. \A d \in Clients : d # c => request'[d] = request[d]
    BY <2>1 DEF IInv, TypeOK
  <2>3. \A d \in Clients : request[d] = "inserted" => KeyOf[d] # KeyOf[c]
    BY DEF InsertKey, Taken
  <2>4. CASE a = c
    BY <2>1, <2>2, <2>3, <2>4 DEF InsertKey
  <2>5. CASE a # c
    BY <2>1, <2>2, <2>3, <2>5 DEF IInv, Exclusive
  <2> QED
    BY <2>4, <2>5
<1>3. UNCHANGED <<keys, orders, answer>>
  BY DEF InsertKey
<1> QED
  BY <1>1, <1>2, <1>3 DEF IInv, KeyWithItsOrder, OneOrderPerKey, AnswersTrue

LEMMA RollbackIInv == ASSUME IInv, NEW c \in Clients, Rollback(c) PROVE IInv'
<1>1. UNCHANGED <<keys, orders, answer>> /\ request' = [request EXCEPT ![c] = "new"]
  BY DEF Rollback
<1>2. TypeOK'
  <2>1. spent' \in Nat
    BY DisturbNat DEF IInv, Rollback
  <2> QED
    BY <1>1, <2>1 DEF IInv, TypeOK, Rollback
<1>3. Exclusive'
  BY <1>1 DEF IInv, TypeOK, Exclusive
<1> QED
  BY <1>1, <1>2, <1>3 DEF IInv, KeyWithItsOrder, OneOrderPerKey, AnswersTrue

LEMMA ResendIInv == ASSUME IInv, NEW c \in Clients, Resend(c) PROVE IInv'
<1>1. /\ UNCHANGED <<keys, orders>>
      /\ request' = [request EXCEPT ![c] = "new"]
      /\ answer' = [answer EXCEPT ![c] = NoAnswer]
  BY DEF Resend
<1>2. TypeOK'
  <2>1. spent' \in Nat
    BY DisturbNat DEF IInv, Resend
  <2> QED
    BY <1>1, <2>1 DEF IInv, TypeOK, Resend
<1>3. Exclusive'
  BY <1>1 DEF IInv, TypeOK, Exclusive
<1>4. AnswersTrue'
  <2>1. \A a \in Clients : answer'[a] = answer[a] \/ answer'[a] = NoAnswer
    BY <1>1 DEF IInv, TypeOK
  <2>2. NoAnswer.kind = "none"
    BY AnswerShapes
  <2> QED
    BY <1>1, <2>1, <2>2 DEF IInv, AnswersTrue
<1> QED
  BY <1>1, <1>2, <1>3, <1>4 DEF IInv, KeyWithItsOrder, OneOrderPerKey

\* A request is told what was made from its key: the row's order is there.
LEMMA ReplayTrue ==
  ASSUME IInv, NEW c \in Clients, KeyOf[c] # NoKey, keys[KeyOf[c]] # Absent
  PROVE  LET r == Replay(keys[KeyOf[c]], c)
         IN  /\ r \in Answer /\ r # NoAnswer
             /\ r.kind = "order" =>
                  /\ r.id \in DOMAIN orders
                  /\ KeyOf[orders[r.id]] = KeyOf[c] /\ BodyOf[orders[r.id]] = BodyOf[c]
             /\ r.kind = "conflict" =>
                  \E i \in DOMAIN orders : KeyOf[orders[i]] = KeyOf[c] /\ BodyOf[orders[i]] # BodyOf[c]
<1> DEFINE row == keys[KeyOf[c]]
           r == Replay(row, c)
<1>1. KeyOf[c] \in Keys
  BY KeyedClient
<1>2. /\ row.order \in DOMAIN orders
      /\ KeyOf[orders[row.order]] = KeyOf[c]
      /\ BodyOf[orders[row.order]] = row.hash
  BY <1>1 DEF IInv, KeyWithItsOrder
<1>3. row.order \in Nat
  BY <1>1, CommittedRow DEF IInv
<1>4. CASE row.hash = BodyOf[c]
  <2>1. r = Order(row.order)
    BY <1>4 DEF Replay
  <2>2. r.kind = "order" /\ r.id = row.order /\ r \in Answer /\ r # NoAnswer
    BY <1>3, <2>1, AnswerShapes
  <2> QED
    BY <1>2, <1>4, <2>2
<1>5. CASE row.hash # BodyOf[c]
  <2>1. r = Conflict
    BY <1>5 DEF Replay
  <2>2. r.kind = "conflict" /\ r \in Answer /\ r # NoAnswer
    BY <2>1, AnswerShapes
  <2> QED
    BY <1>2, <1>5, <2>2
<1> QED
  BY <1>4, <1>5

LEMMA ReadKeyIInv == ASSUME IInv, NEW c \in Clients, ReadKey(c) PROVE IInv'
<1> DEFINE r == Replay(keys[KeyOf[c]], c)
<1>1. /\ UNCHANGED <<keys, orders, spent>>
      /\ request' = [request EXCEPT ![c] = "done"]
      /\ answer' = [answer EXCEPT ![c] = r]
  BY DEF ReadKey
<1>2. /\ r \in Answer /\ r # NoAnswer
      /\ r.kind = "order" =>
           /\ r.id \in DOMAIN orders
           /\ KeyOf[orders[r.id]] = KeyOf[c] /\ BodyOf[orders[r.id]] = BodyOf[c]
      /\ r.kind = "conflict" =>
           \E i \in DOMAIN orders : KeyOf[orders[i]] = KeyOf[c] /\ BodyOf[orders[i]] # BodyOf[c]
  BY ReplayTrue DEF ReadKey
<1>3. KeyOf[c] # NoKey
  BY DEF ReadKey
<1> HIDE DEF r
<1>4. TypeOK'
  BY <1>1, <1>2 DEF IInv, TypeOK
<1>5. Exclusive'
  BY <1>1 DEF IInv, TypeOK, Exclusive
<1>6. AnswersTrue'
  BY <1>1, <1>2, <1>3 DEF IInv, TypeOK, AnswersTrue
<1> QED
  BY <1>1, <1>4, <1>5, <1>6 DEF IInv, KeyWithItsOrder, OneOrderPerKey

-----------------------------------------------------------------------------
(* A new order                                                             *)

\* What an order at the end of the list leaves true of the answers, if the
\* client that made it is told its id.
LEMMA NewAnswer ==
  ASSUME IInv, NEW c \in Clients,
         orders' = Append(orders, c),
         answer' = [answer EXCEPT ![c] = Order(Len(orders) + 1)]
  PROVE  AnswersTrue'
<1>1. /\ Len(orders) + 1 \in DOMAIN orders'
      /\ orders'[Len(orders) + 1] = c
      /\ \A i \in DOMAIN orders : i \in DOMAIN orders' /\ orders'[i] = orders[i]
  BY Appended DEF IInv, TypeOK
<1>2. Len(orders) + 1 \in Nat
  BY DEF IInv, TypeOK
<1> SUFFICES ASSUME NEW a \in Clients
             PROVE  /\ answer'[a].kind = "order" =>
                         /\ answer'[a].id \in DOMAIN orders'
                         /\ LET maker == orders'[answer'[a].id]
                            IN  IF KeyOf[a] = NoKey THEN maker = a
                                ELSE KeyOf[maker] = KeyOf[a] /\ BodyOf[maker] = BodyOf[a]
                    /\ answer'[a].kind = "conflict" =>
                         \E i \in DOMAIN orders' :
                           KeyOf[orders'[i]] = KeyOf[a] /\ BodyOf[orders'[i]] # BodyOf[a]
  BY DEF AnswersTrue
<1>3. CASE a = c
  <2>1. answer'[a] = Order(Len(orders) + 1)
    BY <1>3 DEF IInv, TypeOK
  <2>2. answer'[a].kind = "order" /\ answer'[a].id = Len(orders) + 1
    BY <1>2, <2>1, AnswerShapes
  <2> QED
    BY <1>1, <1>3, <2>2
<1>4. CASE a # c
  <2>1. answer'[a] = answer[a]
    BY <1>4 DEF IInv, TypeOK
  <2> QED
    BY <1>1, <2>1 DEF IInv, AnswersTrue
<1> QED
  BY <1>3, <1>4

LEMMA NewOrderTypes ==
  ASSUME IInv, NEW c \in Clients,
         orders' = Append(orders, c),
         request' = [request EXCEPT ![c] = "done"],
         answer' = [answer EXCEPT ![c] = Order(Len(orders) + 1)],
         keys' \in [Keys -> {row \in Row : row.order > 0} \cup {Absent}],
         UNCHANGED spent
  PROVE  TypeOK'
<1>1. orders' \in Seq(Clients) /\ Len(orders) + 1 \in Nat
  BY DEF IInv, TypeOK
<1>2. Order(Len(orders) + 1) \in Answer /\ Order(Len(orders) + 1) # NoAnswer
  BY <1>1, AnswerShapes
<1> QED
  BY <1>1, <1>2 DEF IInv, TypeOK

LEMMA CreateUnkeyedIInv == ASSUME IInv, NEW c \in Clients, CreateUnkeyed(c) PROVE IInv'
<1>1. /\ KeyOf[c] = NoKey
      /\ orders' = Append(orders, c)
      /\ request' = [request EXCEPT ![c] = "done"]
      /\ answer' = [answer EXCEPT ![c] = Order(Len(orders) + 1)]
      /\ UNCHANGED <<keys, spent>>
  BY DEF CreateUnkeyed
<1>2. /\ DOMAIN orders' = DOMAIN orders \cup {Len(orders) + 1}
      /\ orders'[Len(orders) + 1] = c
      /\ \A i \in DOMAIN orders : orders'[i] = orders[i] /\ i # Len(orders) + 1
  BY <1>1, Appended DEF IInv, TypeOK
<1>3. TypeOK'
  BY <1>1, NewOrderTypes DEF IInv, TypeOK
<1>4. Exclusive'
  BY <1>1 DEF IInv, TypeOK, Exclusive
<1>5. KeyWithItsOrder'
  <2>1. NoKey \notin Keys
    BY DEF Keys
  <2> QED
    BY <1>1, <1>2, <2>1 DEF IInv, KeyWithItsOrder
<1>6. OneOrderPerKey'
  BY <1>1, <1>2 DEF IInv, OneOrderPerKey
<1>7. AnswersTrue'
  BY <1>1, NewAnswer
<1> QED
  BY <1>3, <1>4, <1>5, <1>6, <1>7 DEF IInv

LEMMA CommitIInv == ASSUME IInv, NEW c \in Clients, Commit(c) PROVE IInv'
<1> DEFINE k == KeyOf[c]
           n == Len(orders) + 1
           row == [hash |-> BodyOf[c], order |-> n]
<1>1. /\ orders' = Append(orders, c)
      /\ keys' = [keys EXCEPT ![k] = row]
      /\ request' = [request EXCEPT ![c] = "done"]
      /\ answer' = [answer EXCEPT ![c] = Order(n)]
      /\ UNCHANGED spent
  BY DEF Commit, Kept
<1>2. /\ n \in Nat /\ n > 0
      /\ DOMAIN orders' = DOMAIN orders \cup {n}
      /\ orders'[n] = c
      /\ \A i \in DOMAIN orders : orders'[i] = orders[i] /\ i # n
  BY <1>1, Appended DEF IInv, TypeOK
<1>3. k \in Keys /\ k # NoKey /\ keys[k] = Absent
  BY KeyedClient DEF IInv, Exclusive, Commit
<1>4. \A i \in DOMAIN orders : KeyOf[orders[i]] # k
  BY <1>3 DEF IInv, KeyWithItsOrder
<1>5. row \in Row /\ row.order = n /\ row.hash = BodyOf[c] /\ row # Absent
  BY <1>2, RowShapes
<1>6. AnswersTrue'
  BY <1>1, NewAnswer
<1> HIDE DEF row
<1>7. TypeOK'
  <2>1. keys' \in [Keys -> {r \in Row : r.order > 0} \cup {Absent}]
    BY <1>1, <1>2, <1>3, <1>5 DEF IInv, TypeOK
  <2> QED
    BY <1>1, <2>1, NewOrderTypes
<1>8. keys'[k] = row /\ \A j \in Keys : j # k => keys'[j] = keys[j]
  BY <1>1, <1>3 DEF IInv, TypeOK
<1>9. Exclusive'
  <2>1. \A d \in Clients : request'[d] = "inserted" => request[d] = "inserted" /\ d # c
    BY <1>1 DEF IInv, TypeOK
  <2>2. \A d \in Clients : request'[d] = "inserted" => KeyOf[d] # k
    BY <2>1 DEF IInv, Exclusive, Commit
  <2>3. \A d \in Clients : request'[d] = "inserted" => keys'[KeyOf[d]] = Absent
    <3> SUFFICES ASSUME NEW d \in Clients, request'[d] = "inserted" PROVE keys'[KeyOf[d]] = Absent
      OBVIOUS
    <3>1. KeyOf[d] # NoKey /\ keys[KeyOf[d]] = Absent
      BY <2>1 DEF IInv, Exclusive
    <3>2. KeyOf[d] \in Keys
      BY <3>1, KeyedClient
    <3> QED
      BY <1>8, <2>2, <3>1, <3>2
  <2> QED
    BY <2>1, <2>3 DEF IInv, Exclusive
<1>10. KeyWithItsOrder'
  BY <1>2, <1>4, <1>5, <1>8 DEF IInv, KeyWithItsOrder
<1>11. OneOrderPerKey'
  BY <1>2, <1>4 DEF IInv, OneOrderPerKey
<1> QED
  BY <1>6, <1>7, <1>9, <1>10, <1>11 DEF IInv

LEMMA NextIInv == ASSUME IInv, [Next]_vars PROVE IInv'
<1>1. CASE UNCHANGED vars
  BY <1>1 DEF vars, IInv, TypeOK, Exclusive, KeyWithItsOrder, OneOrderPerKey, AnswersTrue
<1>2. CASE Next
  BY <1>2, InsertKeyIInv, CommitIInv, ReadKeyIInv, CreateUnkeyedIInv, RollbackIInv, ResendIInv
     DEF Next
<1> QED
  BY <1>1, <1>2

-----------------------------------------------------------------------------
(* CreateOrder implements CreateOnce                                       *)

LEMMA InitOnce == Init => Once!Init
  BY DEF Init, Once!Init, NoAnswer, Once!NoAnswer

\* A commit, and a request without a key, is the instant at which an order is made.
LEMMA MakeOnce ==
  ASSUME IInv, NEW c \in Clients, Commit(c) \/ CreateUnkeyed(c) PROVE Once!Make(c)
<1>1. /\ request[c] # "done"
      /\ orders' = Append(orders, c)
      /\ answer' = [answer EXCEPT ![c] = Order(Len(orders) + 1)]
  BY DEF Commit, CreateUnkeyed
<1>2. answer[c] = Once!NoAnswer
  BY <1>1 DEF IInv, TypeOK, NoAnswer, Once!NoAnswer
<1>3. Once!OfKey(c) = {}
  <2>1. CASE CreateUnkeyed(c)
    BY <2>1 DEF CreateUnkeyed, Once!OfKey
  <2>2. CASE Commit(c)
    <3>1. KeyOf[c] \in Keys /\ keys[KeyOf[c]] = Absent
      BY <2>2, KeyedClient DEF IInv, Exclusive, Commit
    <3>2. \A i \in DOMAIN orders : KeyOf[orders[i]] # KeyOf[c]
      BY <3>1 DEF IInv, KeyWithItsOrder
    <3> QED
      BY <3>2 DEF Once!OfKey
  <2> QED
    BY <2>1, <2>2
<1> QED
  BY <1>1, <1>2, <1>3 DEF Once!Make, Once!Tell, Order

\* A request that finds its key's row is answered from the order behind the row.
LEMMA ReadOnce ==
  ASSUME IInv, NEW c \in Clients, ReadKey(c) PROVE Once!Repeat(c) \/ Once!Refuse(c)
<1> DEFINE row == keys[KeyOf[c]]
           i == row.order
<1>1. /\ KeyOf[c] # NoKey /\ row # Absent /\ request[c] # "done"
      /\ answer' = [answer EXCEPT ![c] = Replay(row, c)]
      /\ UNCHANGED orders
  BY DEF ReadKey
<1>2. answer[c] = Once!NoAnswer
  BY <1>1 DEF IInv, TypeOK, NoAnswer, Once!NoAnswer
<1>3. /\ i \in DOMAIN orders
      /\ KeyOf[orders[i]] = KeyOf[c] /\ BodyOf[orders[i]] = row.hash
  BY <1>1, KeyedClient DEF IInv, KeyWithItsOrder
<1>4. i \in Once!OfKey(c)
  BY <1>1, <1>3 DEF Once!OfKey
<1> HIDE DEF i
<1>5. CASE row.hash = BodyOf[c]
  <2>1. answer' = [answer EXCEPT ![c] = [kind |-> "order", id |-> i]]
    BY <1>1, <1>5 DEF Replay, Order, i
  <2>2. Once!Tell(c, [kind |-> "order", id |-> i])
    BY <1>2, <2>1 DEF Once!Tell
  <2> QED
    BY <1>1, <1>3, <1>4, <1>5, <2>2 DEF Once!Repeat
<1>6. CASE row.hash # BodyOf[c]
  <2>1. answer' = [answer EXCEPT ![c] = [kind |-> "conflict"]]
    BY <1>1, <1>6 DEF Replay, Conflict
  <2>2. Once!Tell(c, [kind |-> "conflict"])
    BY <1>2, <2>1 DEF Once!Tell
  <2> QED
    BY <1>1, <1>3, <1>4, <1>6, <2>2 DEF Once!Refuse
<1> QED
  BY <1>5, <1>6

LEMMA LoseOnce == ASSUME IInv, NEW c \in Clients, Resend(c) PROVE Once!Lose(c)
<1>1. answer[c] # NoAnswer
  BY DEF Resend, IInv, TypeOK
<1> QED
  BY <1>1 DEF Resend, Once!Lose, NoAnswer, Once!NoAnswer

LEMMA NextOnce == ASSUME IInv, [Next]_vars PROVE [Once!Next]_(Once!vars)
<1>1. CASE UNCHANGED <<orders, answer>>
  BY <1>1 DEF Once!vars
<1>2. ASSUME NEW c \in Clients, InsertKey(c) \/ Rollback(c) PROVE UNCHANGED <<orders, answer>>
  BY <1>2 DEF InsertKey, Rollback
<1>3. ASSUME NEW c \in Clients,
             Commit(c) \/ CreateUnkeyed(c) \/ ReadKey(c) \/ Resend(c)
      PROVE  Once!Next
  BY <1>3, MakeOnce, ReadOnce, LoseOnce DEF Once!Next
<1> QED
  BY <1>1, <1>2, <1>3 DEF Next, vars

-----------------------------------------------------------------------------
(* The composition                                                         *)

RiskInv == RiskProofs!IInv /\ RiskProofs!Chances /\ RiskProofs!OnlyOrders

\* What the two components count together only grows, by whichever of them.
LEMMA CreateSpends ==
  ASSUME IInv, [Next]_vars
  PROVE  spent \in Nat /\ spent' \in Nat /\ spent <= spent'
  BY DEF IInv, TypeOK, Next, vars, InsertKey, Commit, ReadKey, CreateUnkeyed, Rollback,
     Resend, Disturb

LEMMA OthersSpend ==
  ASSUME IInv, UNCHANGED createVars, spent' \in Nat PROVE IInv'
  BY DEF createVars, IInv, TypeOK, Exclusive, KeyWithItsOrder, OneOrderPerKey, AnswersTrue

\* RiskGo and the module its proofs are instanced from say the same of a member.
LEMMA SameMember ==
  ASSUME NEW m \in Members
  PROVE  /\ Risk!Assign(m) => RiskProofs!Assign(m)
         /\ Risk!Rebalance(m) => RiskProofs!Rebalance(m)
         /\ Risk!Poll(m) => RiskProofs!Poll(m)
         /\ Risk!Handle(m) => RiskProofs!Handle(m)
         /\ Risk!PassOver(m) => RiskProofs!PassOver(m)
         /\ Risk!Commit(m) => RiskProofs!Commit(m)
         /\ Risk!HandleFails(m) => RiskProofs!HandleFails(m)
         /\ Risk!CommitFails(m) => RiskProofs!CommitFails(m)
         /\ Risk!Crash(m) => RiskProofs!Crash(m)
         /\ Risk!Start(m) => RiskProofs!Start(m)
<1>1. Risk!NextRecord(m) <=> RiskProofs!NextRecord(m)
  BY DEF Risk!NextRecord, RiskProofs!NextRecord, Risk!NoBatch, RiskProofs!NoBatch
<1>2. Risk!Exit(m) <=> RiskProofs!Exit(m)
  BY DEF Risk!Exit, RiskProofs!Exit, Risk!NoBatch, RiskProofs!NoBatch
<1>3. Risk!TakeOver(m) <=> RiskProofs!TakeOver(m)
  BY DEF Risk!TakeOver, RiskProofs!TakeOver, Risk!Resume, RiskProofs!Resume
<1>4. \A d : Risk!Disturb(d) <=> RiskProofs!Disturb(d)
  BY DEF Risk!Disturb, RiskProofs!Disturb
<1>5. \A o : Risk!IsOrder(o) <=> RiskProofs!IsOrder(o)
  BY DEF Risk!IsOrder, RiskProofs!IsOrder
<1>6. Risk!CommitOffset(m) = RiskProofs!CommitOffset(m)
  BY DEF Risk!CommitOffset, RiskProofs!CommitOffset
<1>7. /\ Risk!Assign(m) => RiskProofs!Assign(m)
      /\ Risk!Rebalance(m) => RiskProofs!Rebalance(m)
  BY <1>3, <1>4 DEF Risk!Assign, RiskProofs!Assign, Risk!Rebalance, RiskProofs!Rebalance
<1>8. /\ Risk!Poll(m) => RiskProofs!Poll(m)
      /\ Risk!Start(m) => RiskProofs!Start(m)
  BY DEF Risk!Poll, RiskProofs!Poll, Risk!Start, RiskProofs!Start
<1>9. /\ Risk!Handle(m) => RiskProofs!Handle(m)
      /\ Risk!PassOver(m) => RiskProofs!PassOver(m)
  BY <1>1, <1>5 DEF Risk!Handle, RiskProofs!Handle, Risk!PassOver, RiskProofs!PassOver
<1>10. Risk!HandleFails(m) => RiskProofs!HandleFails(m)
  BY <1>1, <1>4, <1>5 DEF Risk!HandleFails, RiskProofs!HandleFails
<1>11. Risk!Commit(m) => RiskProofs!Commit(m)
  BY <1>1, <1>6 DEF Risk!Commit, RiskProofs!Commit
<1>12. /\ Risk!CommitFails(m) => RiskProofs!CommitFails(m)
       /\ Risk!Crash(m) => RiskProofs!Crash(m)
  BY <1>2, <1>4, <1>6 DEF Risk!CommitFails, RiskProofs!CommitFails, Risk!Crash, RiskProofs!Crash
<1> QED
  BY <1>7, <1>8, <1>9, <1>10, <1>11, <1>12

\* A step of the composition is a step of one component; the other's is a stutter
\* but for the disturbances.
LEMMA OneOfTheTwo ==
  ASSUME [IntakeNext]_intakeVars
  PROVE  \/ [Next]_vars /\ UNCHANGED riskVars
         \/ [RiskProofs!Next]_(RiskProofs!vars) /\ UNCHANGED createVars
<1>1. CASE UNCHANGED intakeVars
  BY <1>1 DEF intakeVars, createVars, riskVars, vars
<1>2. CASE Next /\ UNCHANGED riskVars
  BY <1>2
<1>3. ASSUME NEW r \in 1 .. MaxOrders \cup {Other}, Risk!Produce(r) PROVE RiskProofs!Next
  BY <1>3 DEF Risk!Produce, RiskProofs!Produce, RiskProofs!Next
<1>4. ASSUME NEW m \in Members, RiskStep(m) PROVE RiskProofs!Next
  BY <1>4, SameMember DEF RiskStep, RiskProofs!Next, RiskProofs!Work
<1> QED
  BY <1>1, <1>2, <1>3, <1>4 DEF IntakeNext, PublishCreated, PublishMore, RiskStep

LEMMA IntakeInitInv == IntakeInit => IInv /\ RiskInv
<1> SUFFICES ASSUME IntakeInit PROVE IInv /\ RiskInv
  OBVIOUS
<1>1. RiskProofs!Init
  BY DEF IntakeInit, Risk!Init, RiskProofs!Init, Risk!NoBatch, RiskProofs!NoBatch
<1> QED
  BY <1>1, InitIInv, RiskProofs!InitIInv, RiskProofs!InitChances DEF IntakeInit, RiskInv

LEMMA IntakeNextInv == ASSUME IInv, RiskInv, [IntakeNext]_intakeVars PROVE IInv' /\ RiskInv'
<1>1. CASE [Next]_vars /\ UNCHANGED riskVars
  <2>1. IInv'
    BY <1>1, NextIInv
  <2>2. RiskInv'
    BY <1>1, CreateSpends, RiskProofs!OthersSpend DEF RiskInv, riskVars
  <2> QED
    BY <2>1, <2>2
<1>2. CASE [RiskProofs!Next]_(RiskProofs!vars) /\ UNCHANGED createVars
  <2>1. Nobody \notin Members
    BY IntakeAssumption DEF Risk!RiskGoAssumption
  <2>2. RiskInv'
    BY <1>2, <2>1, RiskProofs!NextIInv, RiskProofs!NextChances DEF RiskInv
  <2>3. spent' \in Nat
    BY <2>2 DEF RiskInv, RiskProofs!IInv, RiskProofs!TypeOK
  <2> QED
    BY <1>2, <2>2, <2>3, OthersSpend
<1> QED
  BY <1>1, <1>2, OneOfTheTwo

-----------------------------------------------------------------------------
(* The theorems                                                            *)

\* The invariant of CreateOrder, for any number of clients.
THEOREM Invariance == Spec => []IInv
<1>1. Init => IInv
  BY InitIInv
<1>2. IInv /\ [Next]_vars => IInv'
  BY NextIInv
<1> QED
  BY <1>1, <1>2, PTL DEF Spec

\* The invariants of both components hold in the composition.
THEOREM IntakeInvariance == IntakeSpec => [](IInv /\ RiskInv)
<1>1. IntakeInit => IInv /\ RiskInv
  BY IntakeInitInv
<1>2. (IInv /\ RiskInv) /\ [IntakeNext]_intakeVars => (IInv /\ RiskInv)'
  BY IntakeNextInv
<1> QED
  BY <1>1, <1>2, PTL DEF IntakeSpec

\* A committed idempotency row always has its response (TypeOK): 409 "still being
\* processed" is never answered.
THEOREM TypeCorrect == Spec \/ IntakeSpec => []TypeOK
<1>1. IInv => TypeOK
  BY DEF IInv
<1> QED
  BY <1>1, Invariance, IntakeInvariance, PTL

\* One order for all the requests that carry a key.
THEOREM OneOrderPerKeyHolds == Spec \/ IntakeSpec => []OneOrderPerKey
<1>1. IInv => OneOrderPerKey
  BY DEF IInv
<1> QED
  BY <1>1, Invariance, IntakeInvariance, PTL

\* A key is there exactly if its order is.
THEOREM KeyWithItsOrderHolds == Spec \/ IntakeSpec => []KeyWithItsOrder
<1>1. IInv => KeyWithItsOrder
  BY DEF IInv
<1> QED
  BY <1>1, Invariance, IntakeInvariance, PTL

\* A client is told an order made from its own key and body, or of a real conflict.
THEOREM AnswersTrueHolds == Spec \/ IntakeSpec => []AnswersTrue
<1>1. IInv => AnswersTrue
  BY DEF IInv
<1> QED
  BY <1>1, Invariance, IntakeInvariance, PTL

\* Keys and orders are kept for good.
THEOREM KeptForGoodHolds == Spec => KeptForGood
<1> DEFINE Keeps ==
      /\ \A k \in Keys : keys[k] # Absent => keys'[k] = keys[k]
      /\ \A i \in DOMAIN orders : i \in DOMAIN orders' /\ orders'[i] = orders[i]
<1>1. ASSUME IInv, [Next]_vars PROVE [Keeps]_vars
  <2>1. CASE UNCHANGED <<keys, orders>>
    BY <2>1
  <2>2. ASSUME NEW c \in Clients, CreateUnkeyed(c) PROVE Keeps
    BY <1>1, <2>2, Appended DEF CreateUnkeyed, IInv, TypeOK
  <2>3. ASSUME NEW c \in Clients, Commit(c) PROVE Keeps
    <3>1. \A i \in DOMAIN orders : i \in DOMAIN orders' /\ orders'[i] = orders[i]
      BY <1>1, <2>3, Appended DEF Commit, IInv, TypeOK
    <3>2. keys[KeyOf[c]] = Absent
      BY <1>1, <2>3 DEF IInv, Exclusive, Commit
    <3>3. \A k \in Keys : k # KeyOf[c] => keys'[k] = keys[k]
      BY <1>1, <2>3 DEF IInv, TypeOK, Commit
    <3> QED
      BY <3>1, <3>2, <3>3
  <2> QED
    BY <1>1, <2>1, <2>2, <2>3
       DEF Next, vars, InsertKey, ReadKey, Rollback, Resend
<1> QED
  BY <1>1, Invariance, PTL DEF Spec, KeptForGood

\* Seen through the orders made and the answers given, overlapping transactions
\* are requests that take effect one at a time, alone and in the composition.
THEOREM Implementation == Spec \/ IntakeSpec => ImplementsCreateOnce
<1>1. IInv /\ [Next]_vars => [Once!Next]_(Once!vars)
  BY NextOnce
<1>2. UNCHANGED createVars => UNCHANGED Once!vars
  BY DEF createVars, Once!vars
<1>3. IInv /\ [IntakeNext]_intakeVars => [Once!Next]_(Once!vars)
  BY <1>1, <1>2, OneOfTheTwo
<1>4. Spec => ImplementsCreateOnce
  BY <1>1, InitOnce, Invariance, PTL DEF Spec, ImplementsCreateOnce, Once!Spec
<1>5. IntakeInit => Once!Init
  BY InitOnce DEF IntakeInit
<1>6. IntakeSpec => ImplementsCreateOnce
  BY <1>3, <1>5, IntakeInvariance, PTL DEF IntakeSpec, ImplementsCreateOnce, Once!Spec
<1> QED
  BY <1>4, <1>6

\* What the group commits past was handled, also for the orders of CreateOrder.
THEOREM CommittedMeansHandledHolds == IntakeSpec => []CommittedMeansHandled
<1>1. RiskInv => CommittedMeansHandled
  BY DEF RiskInv, RiskProofs!IInv, CommittedMeansHandled,
     Risk!CommittedMeansHandled, Risk!IsOrder, Risk!Scored,
     RiskProofs!CommittedMeansHandled, RiskProofs!IsOrder, RiskProofs!Scored
<1> QED
  BY <1>1, IntakeInvariance, PTL

\* Risk events for orders start to appear in the order of the log.
THEOREM ScoredInLogOrderHolds == IntakeSpec => []ScoredInLogOrder
<1>1. RiskInv => ScoredInLogOrder
  BY DEF RiskInv, RiskProofs!IInv, ScoredInLogOrder, Risk!ScoredInLogOrder, Risk!IsOrder,
     RiskProofs!ScoredInLogOrder, RiskProofs!IsOrder
<1> QED
  BY <1>1, IntakeInvariance, PTL

\* A record's second and every further risk event costs a disturbance, of either part.
THEOREM ExtraScoresCostHolds == IntakeSpec => []ExtraScoresCost
<1>1. RiskInv => RiskProofs!ExtraScoresCost
  BY RiskProofs!ChancesSuffice DEF RiskInv
<1>2. RiskProofs!ExtraScoresCost => ExtraScoresCost
  BY DEF ExtraScoresCost, Risk!ExtraScoresCost, Risk!IsOrder, Risk!Cardinality,
     RiskProofs!ExtraScoresCost, RiskProofs!IsOrder, RiskProofs!Cardinality
<1> QED
  BY <1>1, <1>2, IntakeInvariance, PTL
================================================================================
