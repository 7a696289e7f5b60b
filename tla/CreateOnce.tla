------------------------------- MODULE CreateOnce -------------------------------
(***************************************************************************)
(* What POST /orders promises under an Idempotency-Key, without            *)
(* transactions, rows or locks: a request takes effect at one instant. It  *)
(* makes the order of its key, or is answered from the order that is there, *)
(* and if its answer is lost it is answered from the same order again.     *)
(***************************************************************************)
EXTENDS Naturals, Sequences

CONSTANTS Clients, KeyOf, BodyOf, NoKey

VARIABLES
  orders,  \* the client that made each order
  answer   \* client -> what it was told

vars == <<orders, answer>>

NoAnswer == [kind |-> "none"]

\* Orders made under the client's key.
OfKey(c) == {i \in DOMAIN orders : KeyOf[c] # NoKey /\ KeyOf[orders[i]] = KeyOf[c]}

Init == orders = <<>> /\ answer = [c \in Clients |-> NoAnswer]

Tell(c, a) == answer[c] = NoAnswer /\ answer' = [answer EXCEPT ![c] = a]

Make(c) ==
  /\ OfKey(c) = {}
  /\ orders' = Append(orders, c)
  /\ Tell(c, [kind |-> "order", id |-> Len(orders) + 1])

Repeat(c) ==
  /\ \E i \in OfKey(c) :
       BodyOf[orders[i]] = BodyOf[c] /\ Tell(c, [kind |-> "order", id |-> i])
  /\ UNCHANGED orders

Refuse(c) ==
  /\ \E i \in OfKey(c) : BodyOf[orders[i]] # BodyOf[c]
  /\ Tell(c, [kind |-> "conflict"])
  /\ UNCHANGED orders

Lose(c) ==
  /\ answer[c] # NoAnswer
  /\ answer' = [answer EXCEPT ![c] = NoAnswer]
  /\ UNCHANGED orders

Next == \E c \in Clients : Make(c) \/ Repeat(c) \/ Refuse(c) \/ Lose(c)

Spec == Init /\ [][Next]_vars
================================================================================
