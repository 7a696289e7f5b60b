------------------------------ MODULE ConsumeOnce ------------------------------
(***************************************************************************)
(* What the durable inbox promises (docs/adr/002-durable-consumer-inbox.md *)
(* and packages/kafka/src/inbox/README.md), without leases or processes:   *)
(* for every event one result is decided, every side effect carries that   *)
(* result however often it is repeated, and the event is closed only after *)
(* an effect. A closed event may be forgotten when its deduplication       *)
(* window is over, and then starts again.                                  *)
(***************************************************************************)
CONSTANTS Events, Results, NoResult

VARIABLES
  decided,  \* event -> its result, or NoResult
  emitted,  \* event -> results its side effects carried
  closed    \* event -> whether it counts as done

vars == <<decided, emitted, closed>>

Init ==
  /\ decided = [e \in Events |-> NoResult]
  /\ emitted = [e \in Events |-> {}]
  /\ closed = [e \in Events |-> FALSE]

Decide(e, r) ==
  /\ decided[e] = NoResult
  /\ decided' = [decided EXCEPT ![e] = r]
  /\ UNCHANGED <<emitted, closed>>

Emit(e) ==
  /\ decided[e] # NoResult
  /\ emitted' = [emitted EXCEPT ![e] = {decided[e]}]
  /\ UNCHANGED <<decided, closed>>

Close(e) ==
  /\ emitted[e] # {}
  /\ closed' = [closed EXCEPT ![e] = TRUE]
  /\ UNCHANGED <<decided, emitted>>

Forget(e) ==
  /\ closed[e]
  /\ decided' = [decided EXCEPT ![e] = NoResult]
  /\ emitted' = [emitted EXCEPT ![e] = {}]
  /\ closed' = [closed EXCEPT ![e] = FALSE]

Next ==
  \E e \in Events :
    \/ \E r \in Results : Decide(e, r)
    \/ Emit(e) \/ Close(e) \/ Forget(e)

Spec == Init /\ [][Next]_vars
=============================================================================
