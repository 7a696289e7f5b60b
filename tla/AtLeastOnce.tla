------------------------------ MODULE AtLeastOnce ------------------------------
(***************************************************************************)
(* What the outbox promises, without rows, leases, retries or clocks. An   *)
(* event is due from the moment its transaction commits. A replica takes   *)
(* only events that are due and delivers only what it took; an event is    *)
(* settled only by a replica that was told of its delivery, forgotten only *)
(* when settled, and due again only because who took it reports a failure, *)
(* which may be late.                                                      *)
(***************************************************************************)
EXTENDS Naturals

CONSTANTS Events, Publishers

VARIABLES
  stage,  \* event -> how far it is
  taken,  \* replica -> events it took and has not reported on
  acked,  \* replica -> the event of its last delivery, if it was acknowledged
  sent    \* event -> times it was delivered

vars == <<stage, taken, acked, sent>>

Init ==
  /\ stage = [e \in Events |-> "none"]
  /\ taken = [p \in Publishers |-> {}]
  /\ acked = [p \in Publishers |-> {}]
  /\ sent = [e \in Events |-> 0]

Moves(e, from, to) ==
  /\ stage[e] = from
  /\ stage' = [stage EXCEPT ![e] = to]
  /\ UNCHANGED <<taken, acked, sent>>

Create(e)   == Moves(e, "none", "due")
Withdraw(e) == Moves(e, "due", "withdrawn")
Forget(e)   == Moves(e, "settled", "forgotten")

Take(p, es) ==
  /\ taken[p] = {} /\ \A e \in es : stage[e] = "due"
  /\ taken' = [taken EXCEPT ![p] = es]
  /\ UNCHANGED <<stage, acked, sent>>

\* The acknowledgement may be lost.
Deliver(p, e) ==
  /\ e \in taken[p] /\ acked[p] = {}
  /\ sent' = [sent EXCEPT ![e] = @ + 1]
  /\ \E known \in {{}, {e}} : acked' = [acked EXCEPT ![p] = known]
  /\ UNCHANGED <<stage, taken>>

\* A report on an event that is not there any more, or that gets lost, changes nothing.
Report(e, to) ==
  \/ stage' = [stage EXCEPT ![e] = IF @ \in {"none", "forgotten"} THEN @ ELSE to]
  \/ UNCHANGED stage

LetGo(p, e) == taken' = [taken EXCEPT ![p] = @ \ {e}]

\* Who could not report the delivery may report a failure next.
Settle(p, e) ==
  /\ e \in acked[p]
  /\ acked' = [acked EXCEPT ![p] = {}]
  /\ Report(e, "settled")
  /\ LetGo(p, e) \/ UNCHANGED taken
  /\ UNCHANGED sent

Fail(p, e) ==
  /\ e \in taken[p] /\ acked[p] = {}
  /\ Report(e, "due") /\ LetGo(p, e)
  /\ UNCHANGED <<acked, sent>>

Stop(p) ==
  /\ taken' = [taken EXCEPT ![p] = {}] /\ acked' = [acked EXCEPT ![p] = {}]
  /\ UNCHANGED <<stage, sent>>

Next ==
  \/ \E e \in Events : Create(e) \/ Withdraw(e) \/ Forget(e)
  \/ \E p \in Publishers :
       \/ \E es \in SUBSET Events : Take(p, es)
       \/ \E e \in Events : Deliver(p, e) \/ Settle(p, e) \/ Fail(p, e)
       \/ Stop(p)

Spec == Init /\ [][Next]_vars
================================================================================
