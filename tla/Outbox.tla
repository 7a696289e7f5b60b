-------------------------------- MODULE Outbox --------------------------------
(***************************************************************************)
(* The transactional outbox of packages/outbox: the table outbox_events,   *)
(* the publisher replicas that drain it into Kafka, the operator commands  *)
(* of order-service that edit it and the retention job that trims it.      *)
(*                                                                         *)
(* Clocks are abstracted to what the SQL compares: a timestamp column is   *)
(* NONE (null), in the FUTURE or in the PAST of now(), and time passing is *)
(* the step that moves one from FUTURE to PAST.                            *)
(***************************************************************************)
EXTENDS Integers, FiniteSets

CONSTANTS
  NumEvents,   \* rows are 1..NumEvents, numbered in created_at order
  Publishers,  \* OutboxPublisherService instances, one per replica
  BatchSize,   \* rows claimed by one findPublishable
  Possible,    \* the disturbances of this instance
  Limit        \* how many of them, of whatever kinds, a behaviour may contain

Events == 1..NumEvents

\* What the environment may inflict on a run, bounded by Limit.
Disturbances == {"sendError", "ackLost", "dbError", "crash", "leaseExpiry",
                 "operator", "retention"}

ASSUME OutboxAssumption ==
  /\ NumEvents \in Nat
  /\ BatchSize \in Nat \ {0}
  /\ Possible \subseteq Disturbances /\ Limit \in Nat

NONE   == "NONE"
FUTURE == "FUTURE"
PAST   == "PAST"
Instant == {NONE, FUTURE, PAST}

\* ABSENT: not committed yet. DELETED: removed by the retention job.
Status == {"ABSENT", "PENDING", "FAILED", "PUBLISHED", "IGNORED", "DELETED"}
Stored == {"PENDING", "FAILED", "PUBLISHED", "IGNORED"}

Row == [status: Status, attempts: Nat, nextAttemptAt: Instant,
        lockedBy: Publishers \cup {NONE}, lockedUntil: Instant]

\* What findPublishable returned for a row and the loop later uses.
Snapshot == [id: Events, attempts: Nat]
NoSnapshot == [id |-> 0, attempts |-> 0]

VARIABLES
  table,    \* outbox_events
  pc,       \* publisher -> where publishOutboxBatch is
  batch,    \* publisher -> snapshots the loop has not finished
  current,  \* publisher -> the snapshot the loop body works on
  sent,     \* history: row -> times Kafka appended its event
  cause,    \* history: row -> disturbances that hit it while in use
  spent     \* disturbances so far

vars == <<table, pc, batch, current, sent, cause, spent>>
replicaVars == <<pc, batch, current>>

-----------------------------------------------------------------------------
EmptyRow == [status |-> "ABSENT", attempts |-> 0, nextAttemptAt |-> NONE,
             lockedBy |-> NONE, lockedUntil |-> NONE]

Holds(p, e) == \E m \in batch[p] : m.id = e
Held(e) == \E p \in Publishers : Holds(p, e)

\* One more disturbance of kind d; the rows in hit were in use.
Disturb(d, hit) ==
  /\ d \in Possible /\ spent < Limit
  /\ spent' = spent + 1
  /\ cause' = [e \in Events |-> IF e \in hit THEN cause[e] \cup {d} ELSE cause[e]]

Undisturbed == UNCHANGED <<cause, spent>>

Init ==
  /\ table = [e \in Events |-> EmptyRow]
  /\ pc = [p \in Publishers |-> "idle"]
  /\ batch = [p \in Publishers |-> {}]
  /\ current = [p \in Publishers |-> NoSnapshot]
  /\ sent = [e \in Events |-> 0]
  /\ cause = [e \in Events |-> {}]
  /\ spent = 0

-----------------------------------------------------------------------------
(* The business transaction                                                *)

\* createOutboxEventEntity, committed together with the business change.
CreatePending(e) ==
  /\ table[e].status = "ABSENT"
  /\ \A f \in Events : f < e => table[f].status # "ABSENT"
  /\ table' = [table EXCEPT ![e].status = "PENDING"]
  /\ UNCHANGED <<replicaVars, sent>>
  /\ Undisturbed

-----------------------------------------------------------------------------
(* publishOutboxBatch, one replica                                         *)

\* Mutant: the query forgets locked_until.
PublishableIgnoringLease(r) ==
  \/ r.status = "PENDING"
  \/ r.status = "FAILED" /\ r.nextAttemptAt # FUTURE

\* Mutant: only unlocked rows, so an expired lease is never reclaimed.
PublishableOnlyUnlocked(r) ==
  /\ \/ r.status = "PENDING"
     \/ r.status = "FAILED" /\ r.nextAttemptAt # FUTURE
  /\ r.lockedUntil = NONE

\* Mutant: whatever is not published, withdrawn rows included.
PublishableUnpublished(r) ==
  r.status \in Stored \ {"PUBLISHED"} /\ r.nextAttemptAt # FUTURE /\ r.lockedUntil # FUTURE

\* The WHERE clause of findPublishable.
Publishable(r) ==
  /\ \/ r.status = "PENDING"
     \/ r.status = "FAILED" /\ r.nextAttemptAt # FUTURE
  /\ r.lockedUntil # FUTURE

Candidates == {e \in Events : Publishable(table[e])}

\* order by created_at limit BatchSize, over the rows no transaction locks.
FirstOf(S) == {e \in S : Cardinality({f \in S : f < e}) < BatchSize}

\* isPublishing keeps a second pass of the same replica out. The rows in
\* skipped are row-locked by another transaction at this moment (SKIP LOCKED).
FindPublishable(p, skipped) ==
  LET claimed == FirstOf(Candidates \ skipped)
  IN  /\ pc[p] = "idle"
      /\ claimed # {}
      /\ pc' = [pc EXCEPT ![p] = "loop"]
      /\ batch' = [batch EXCEPT ![p] =
                     {[id |-> e, attempts |-> table[e].attempts] : e \in claimed}]
      /\ table' = [e \in Events |->
                     IF e \in claimed
                     THEN [table[e] EXCEPT !.lockedBy = p, !.lockedUntil = FUTURE]
                     ELSE table[e]]
      /\ UNCHANGED <<current, sent>>
      /\ Undisturbed

\* kafkaProducer.publish resolves: the broker has the event.
Publish(p, m) ==
  /\ pc[p] = "loop"
  /\ m \in batch[p]
  /\ pc' = [pc EXCEPT ![p] = "sent"]
  /\ current' = [current EXCEPT ![p] = m]
  /\ sent' = [sent EXCEPT ![m.id] = @ + 1]
  /\ UNCHANGED <<table, batch>>
  /\ Undisturbed

\* Mutant: the producer's error is swallowed and the row marked all the same.
PublishFailsSilently(p, m) ==
  /\ pc[p] = "loop"
  /\ m \in batch[p]
  /\ pc' = [pc EXCEPT ![p] = "sent"]
  /\ current' = [current EXCEPT ![p] = m]
  /\ Disturb("sendError", {})
  /\ UNCHANGED <<table, batch, sent>>

\* kafkaProducer.publish rejects: the event did not reach the log, or it did
\* and the acknowledgement was lost.
PublishFails(p, m) ==
  /\ pc[p] = "loop"
  /\ m \in batch[p]
  /\ pc' = [pc EXCEPT ![p] = "caught"]
  /\ current' = [current EXCEPT ![p] = m]
  /\ \/ /\ sent' = sent
        /\ Disturb("sendError", {})
     \/ /\ sent' = [sent EXCEPT ![m.id] = @ + 1]
        /\ Disturb("ackLost", {m.id})
  /\ UNCHANGED <<table, batch>>

\* The loop is done with its current row.
NextRow(p) ==
  /\ pc' = [pc EXCEPT ![p] = "loop"]
  /\ batch' = [batch EXCEPT ![p] = @ \ {current[p]}]
  /\ current' = [current EXCEPT ![p] = NoSnapshot]

\* Mutant: the mark clears the lease and forgets the status.
AsUnlocked(r) ==
  IF r.status \in Stored THEN [r EXCEPT !.lockedBy = NONE, !.lockedUntil = NONE] ELSE r

\* repository.update({ id }, ...): by id only, and a no-op on a deleted row.
AsPublished(r) ==
  IF r.status \in Stored
  THEN [r EXCEPT !.status = "PUBLISHED", !.lockedBy = NONE, !.lockedUntil = NONE]
  ELSE r

AsFailed(r, n) ==
  IF r.status \in Stored
  THEN [r EXCEPT !.status = "FAILED", !.attempts = n, !.nextAttemptAt = FUTURE,
                 !.lockedBy = NONE, !.lockedUntil = NONE]
  ELSE r

MarkPublished(p) ==
  /\ pc[p] = "sent"
  /\ table' = [table EXCEPT ![current[p].id] = AsPublished(@)]
  /\ NextRow(p)
  /\ UNCHANGED sent
  /\ Undisturbed

\* markPublished throws, before or after its UPDATE took effect, and the same
\* catch block as for a failed publish takes over.
MarkPublishedFails(p) ==
  /\ pc[p] = "sent"
  /\ pc' = [pc EXCEPT ![p] = "caught"]
  /\ \/ table' = table
     \/ table' = [table EXCEPT ![current[p].id] = AsPublished(@)]
  /\ Disturb("dbError", {current[p].id})
  /\ UNCHANGED <<batch, current, sent>>

\* attempts comes from the snapshot, not from the row.
MarkFailed(p) ==
  /\ pc[p] = "caught"
  /\ table' = [table EXCEPT ![current[p].id] = AsFailed(@, current[p].attempts + 1)]
  /\ NextRow(p)
  /\ UNCHANGED sent
  /\ Undisturbed

\* markFailed throws; runInTraceSpan(...).catch swallows it, the loop goes on
\* and the row stays leased.
MarkFailedFails(p) ==
  /\ pc[p] = "caught"
  /\ NextRow(p)
  /\ Disturb("dbError", {})
  /\ UNCHANGED <<table, sent>>

\* The finally block.
EndBatch(p) ==
  /\ pc[p] = "loop"
  /\ batch[p] = {}
  /\ pc' = [pc EXCEPT ![p] = "idle"]
  /\ UNCHANGED <<table, batch, current, sent>>
  /\ Undisturbed

\* The process dies and is restarted; the row it had sent stays unmarked.
Crash(p) ==
  /\ pc[p] # "idle"
  /\ pc' = [pc EXCEPT ![p] = "idle"]
  /\ batch' = [batch EXCEPT ![p] = {}]
  /\ current' = [current EXCEPT ![p] = NoSnapshot]
  /\ Disturb("crash", IF pc[p] = "sent" THEN {current[p].id} ELSE {})
  /\ UNCHANGED <<table, sent>>

-----------------------------------------------------------------------------
(* Time                                                                    *)

\* locked_until passes. With a live holder this is a batch slower than the
\* lease, which is counted; without one it is how a crash heals.
LeaseExpires(e) ==
  /\ table[e].lockedUntil = FUTURE
  /\ table' = [table EXCEPT ![e].lockedUntil = PAST]
  /\ IF Held(e) THEN Disturb("leaseExpiry", {e}) ELSE Undisturbed
  /\ UNCHANGED <<replicaVars, sent>>

BackoffElapses(e) ==
  /\ table[e].nextAttemptAt = FUTURE
  /\ table' = [table EXCEPT ![e].nextAttemptAt = PAST]
  /\ UNCHANGED <<replicaVars, sent>>
  /\ Undisturbed

-----------------------------------------------------------------------------
(* Operator commands and retention                                         *)

Released(r) ==
  [r EXCEPT !.nextAttemptAt = NONE, !.lockedBy = NONE, !.lockedUntil = NONE]

\* retryOne is the case of one row, retryFailed that of a page of them; both
\* accept only FAILED rows and clear the lease whoever holds it.
Retry(S) ==
  /\ S # {}
  /\ \A e \in S : table[e].status = "FAILED"
  /\ table' = [e \in Events |-> IF e \in S THEN Released(table[e]) ELSE table[e]]
  /\ Disturb("operator", {e \in S : Held(e)})
  /\ UNCHANGED <<replicaVars, sent>>

Ignore(e) ==
  /\ table[e].status \in {"PENDING", "FAILED"}
  /\ table' = [table EXCEPT ![e] = [Released(@) EXCEPT !.status = "IGNORED"]]
  /\ Disturb("operator", IF Held(e) THEN {e} ELSE {})
  /\ UNCHANGED <<replicaVars, sent>>

\* deletePublishedOutboxBefore: PUBLISHED rows only.
DeletePublished(e) ==
  /\ table[e].status = "PUBLISHED"
  /\ table' = [table EXCEPT ![e] = [EmptyRow EXCEPT !.status = "DELETED"]]
  /\ Disturb("retention", {})
  /\ UNCHANGED <<replicaVars, sent>>

-----------------------------------------------------------------------------
Replica(p) ==
  \/ \E skipped \in SUBSET Candidates : FindPublishable(p, skipped)
  \/ \E m \in batch[p] : Publish(p, m) \/ PublishFails(p, m)
  \/ MarkPublished(p) \/ MarkPublishedFails(p)
  \/ MarkFailed(p) \/ MarkFailedFails(p)
  \/ EndBatch(p)
  \/ Crash(p)

Time == \E e \in Events : LeaseExpires(e) \/ BackoffElapses(e)

Operator ==
  \/ \E S \in SUBSET Events : Retry(S)
  \/ \E e \in Events : Ignore(e)

Next ==
  \/ \E e \in Events : CreatePending(e)
  \/ \E p \in Publishers : Replica(p)
  \/ Time
  \/ Operator
  \/ \E e \in Events : DeletePublished(e)

Spec == Init /\ [][Next]_vars

(* The interval timer polls every second (with nothing row-locked between  *)
(* transactions), an await that is not disturbed returns, and clocks run.  *)
Fairness ==
  /\ \A p \in Publishers :
       /\ WF_vars(FindPublishable(p, {}))
       /\ WF_vars(\E m \in batch[p] : Publish(p, m))
       /\ WF_vars(MarkPublished(p))
       /\ WF_vars(MarkFailed(p))
       /\ WF_vars(EndBatch(p))
  /\ \A e \in Events :
       /\ WF_vars(BackoffElapses(e))
       /\ WF_vars(LeaseExpires(e))

FairSpec == Spec /\ Fairness

-----------------------------------------------------------------------------
(* Properties                                                              *)

\* Shape of the state, and that a replica's loop variables agree with where it
\* is: an idle replica remembers no row, a replica handling a row has it in its
\* batch (the flag isPublishing and the loop of publishOutboxBatch).
TypeOK ==
  /\ table \in [Events -> Row]
  /\ pc \in [Publishers -> {"idle", "loop", "sent", "caught"}]
  /\ batch \in [Publishers -> SUBSET Snapshot]
  /\ current \in [Publishers -> Snapshot \cup {NoSnapshot}]
  /\ sent \in [Events -> Nat]
  /\ cause \in [Events -> SUBSET Disturbances]
  /\ spent \in Nat
  /\ \A p \in Publishers :
       /\ pc[p] = "idle" => batch[p] = {}
       /\ pc[p] \in {"sent", "caught"} => current[p] \in batch[p]

AtMostOneHolder(e) ==
  \A p, q \in Publishers : Holds(p, e) /\ Holds(q, e) => p = q

\* Two replicas never work on the same row (findPublishable's lease with
\* SKIP LOCKED), unless its lease ran out under a slow batch, an operator took
\* the lease away, or an append went unrecorded.
SingleHolder == \A e \in Events : cause[e] = {} => AtMostOneHolder(e)

\* However replicas, failed attempts, retries and restarts interleave, Kafka
\* holds one copy of an event whose row met none of these disturbances.
NoDuplicate == \A e \in Events : cause[e] = {} => sent[e] <= 1

\* PUBLISHED is written only once the event is in Kafka, so neither a mark nor
\* the retention job (which trusts the mark) can lose an event.
DeliveredBeforeForgotten ==
  \A e \in Events : table[e].status \in {"PUBLISHED", "DELETED"} => sent[e] >= 1

\* A published row stays published until retention removes it: no retry,
\* ignore or late failure report reopens it, disturbed rows aside.
PublishedSettled ==
  [][\A e \in Events :
       table[e].status = "PUBLISHED" /\ cause[e] = {}
         => table'[e].status \in {"PUBLISHED", "DELETED"}]_vars

\* Every committed event reaches Kafka, whatever replica crashes or publish
\* failures come first, unless an operator withdraws it.
EventuallyDelivered ==
  \A e \in Events :
    table[e].status = "PENDING" ~> sent[e] > 0 \/ table[e].status = "IGNORED"

\* Leases, retries and late reports included, replicas together keep the promise
\* AtLeastOnce: they take what is due, settle what they know to be delivered, and
\* only their own failure reports make an event due again.
StageOf == [ABSENT |-> "none", PENDING |-> "due", FAILED |-> "due",
            IGNORED |-> "withdrawn", PUBLISHED |-> "settled", DELETED |-> "forgotten"]

Stage == [e \in Events |-> StageOf[table[e].status]]
Taken == [p \in Publishers |-> {m.id : m \in batch[p]}]
Acked == [p \in Publishers |-> IF pc[p] = "sent" THEN {current[p].id} ELSE {}]

Delivery == INSTANCE AtLeastOnce WITH stage <- Stage, taken <- Taken, acked <- Acked
ImplementsAtLeastOnce == Delivery!Spec
=============================================================================
