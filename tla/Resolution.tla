------------------------------- MODULE Resolution -------------------------------
(***************************************************************************)
(* What the dead-letter queue promises its operators, without              *)
(* transactions, locks, versions or redelivery: a decision takes effect at *)
(* one instant, on a record that is still NEW and is the one its operator  *)
(* saw, not one stored later for the same letter. Status, audit and copy    *)
(* change together, and only decided records are deleted.                  *)
(***************************************************************************)
EXTENDS Naturals

CONSTANTS
  Letters, Operators,
  Reprocessable(_)  \* letters that can be sent again

VARIABLES
  record,  \* letter -> its record: status, and which of its records it is
  seen,    \* operator -> the record it looked at last
  audit,   \* history: letter -> action -> times it was taken
  copies   \* letter -> copies sent again

vars == <<record, seen, audit, copies>>

Nothing == [life |-> 0]

Init ==
  /\ record = [l \in Letters |-> [status |-> "ABSENT", life |-> 0]]
  /\ seen = [op \in Operators |-> Nothing]
  /\ audit = [l \in Letters |-> [a \in {"REPROCESS", "IGNORE"} |-> 0]]
  /\ copies = [l \in Letters |-> 0]

Store(l) ==
  /\ record[l].status = "ABSENT"
  /\ record' = [record EXCEPT ![l] = [status |-> "NEW", life |-> @.life + 1]]
  /\ UNCHANGED <<seen, audit, copies>>

Look(op, l) ==
  /\ record[l].status # "ABSENT"
  /\ seen' = [seen EXCEPT ![op] = [letter |-> l, life |-> record[l].life]]
  /\ UNCHANGED <<record, audit, copies>>

Decide(op, l, action, status) ==
  /\ record[l].status = "NEW"
  /\ seen[op] = [letter |-> l, life |-> record[l].life]
  /\ record' = [record EXCEPT ![l] = [status |-> status, life |-> @.life]]
  /\ audit' = [audit EXCEPT ![l][action] = @ + 1]
  /\ UNCHANGED seen

Reprocess(op, l) ==
  /\ Reprocessable(l)
  /\ Decide(op, l, "REPROCESS", "REPROCESSED")
  /\ copies' = [copies EXCEPT ![l] = @ + 1]

Ignore(op, l) == Decide(op, l, "IGNORE", "IGNORED") /\ UNCHANGED copies

Delete(l) ==
  /\ record[l].status \in {"REPROCESSED", "IGNORED"}
  /\ record' = [record EXCEPT ![l] = [status |-> "ABSENT", life |-> @.life]]
  /\ UNCHANGED <<seen, audit, copies>>

Next ==
  \E l \in Letters :
    \/ Store(l) \/ Delete(l)
    \/ \E op \in Operators : Look(op, l) \/ Reprocess(op, l) \/ Ignore(op, l)

Spec == Init /\ [][Next]_vars
================================================================================
