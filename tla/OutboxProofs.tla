----------------------------- MODULE OutboxProofs -----------------------------
(***************************************************************************)
(* Proofs about Outbox, for any number of rows, any set of replicas, any   *)
(* batch size and any number of disturbances, and that Outbox implements    *)
(* AtLeastOnce.                                                            *)
(***************************************************************************)
EXTENDS Outbox, FiniteSetTheorems, TLAPS

-----------------------------------------------------------------------------
(* The operators that edit a row                                           *)

LEMMA RowEdits ==
  ASSUME NEW r \in Row
  PROVE  /\ AsPublished(r) \in Row
         /\ Released(r) \in Row
         /\ [Released(r) EXCEPT !.status = "IGNORED"] \in Row
  BY DEF Row, Status, Stored, Instant, AsPublished, Released, NONE

LEMMA AsFailedRow ==
  ASSUME NEW r \in Row, NEW n \in Nat
  PROVE  AsFailed(r, n) \in Row
  BY DEF Row, Status, Stored, Instant, AsFailed, NONE, FUTURE

\* A disturbance only ever adds to cause, and blames the rows it hit.
LEMMA DisturbFacts ==
  ASSUME TypeOK, NEW d \in Disturbances, NEW hit, Disturb(d, hit)
  PROVE  /\ cause' \in [Events -> SUBSET Disturbances]
         /\ spent' \in Nat
         /\ \A e \in Events : cause'[e] = {} => cause[e] = {} /\ e \notin hit
  BY DEF TypeOK, Disturb

\* A replica that steps past its current row drops exactly that snapshot.
LEMMA NextRowFacts ==
  ASSUME TypeOK, NEW p \in Publishers, pc[p] \in {"sent", "caught"}, NextRow(p)
  PROVE  /\ pc' \in [Publishers -> {"idle", "loop", "sent", "caught"}]
         /\ batch' \in [Publishers -> SUBSET Snapshot]
         /\ current' \in [Publishers -> Snapshot \cup {NoSnapshot}]
         /\ pc'[p] = "loop"
         /\ batch'[p] = batch[p] \ {current[p]}
         /\ \A q \in Publishers \ {p} :
              pc'[q] = pc[q] /\ batch'[q] = batch[q] /\ current'[q] = current[q]
  BY DEF TypeOK, NextRow

-----------------------------------------------------------------------------
(* Type correctness                                                        *)

LEMMA InitTypeOK == Init => TypeOK
  BY OutboxAssumption
  DEF Init, TypeOK, Row, Status, Instant, EmptyRow, Snapshot, NoSnapshot, NONE

LEMMA NextTypeOK == TypeOK /\ [Next]_vars => TypeOK'
<1> SUFFICES ASSUME TypeOK, [Next]_vars PROVE TypeOK'
  OBVIOUS
<1>1. ASSUME NEW e \in Events, CreatePending(e) PROVE TypeOK'
  BY <1>1 DEF TypeOK, CreatePending, Row, Status, replicaVars, Undisturbed
<1>2. ASSUME NEW p \in Publishers, NEW skipped \in SUBSET Candidates,
             FindPublishable(p, skipped)
      PROVE TypeOK'
  <2> DEFINE claimed == FirstOf(Candidates \ skipped)
             snaps == {[id |-> e, attempts |-> table[e].attempts] : e \in claimed}
  <2>1. claimed \subseteq Events
    BY DEF FirstOf, Candidates
  <2>2. snaps \in SUBSET Snapshot
    <3>1. \A e \in claimed : [id |-> e, attempts |-> table[e].attempts] \in Snapshot
      BY <2>1 DEF TypeOK, Row, Snapshot
    <3> QED
      BY <3>1
  <2>3. table' \in [Events -> Row]
    <3>1. table \in [Events -> Row]
      BY DEF TypeOK
    <3>2. \A e \in Events : [table[e] EXCEPT !.lockedBy = p, !.lockedUntil = FUTURE] \in Row
      BY <3>1 DEF Row, Instant, FUTURE
    <3>3. table' = [e \in Events |->
                      IF e \in claimed
                      THEN [table[e] EXCEPT !.lockedBy = p, !.lockedUntil = FUTURE]
                      ELSE table[e]]
      BY <1>2 DEF FindPublishable
    <3> QED
      BY <3>1, <3>2, <3>3
  <2>4. batch' \in [Publishers -> SUBSET Snapshot]
    BY <1>2, <2>2 DEF FindPublishable, TypeOK
  <2>5. pc' \in [Publishers -> {"idle", "loop", "sent", "caught"}] /\ pc'[p] = "loop"
    BY <1>2 DEF FindPublishable, TypeOK
  <2>6. \A q \in Publishers \ {p} : pc'[q] = pc[q] /\ batch'[q] = batch[q]
    BY <1>2 DEF FindPublishable, TypeOK
  <2>7. UNCHANGED <<current, sent, cause, spent>>
    BY <1>2 DEF FindPublishable, Undisturbed
  <2> QED
    BY <2>3, <2>4, <2>5, <2>6, <2>7 DEF TypeOK
<1>3. ASSUME NEW p \in Publishers, NEW m \in batch[p], Publish(p, m) PROVE TypeOK'
  <2>1. m \in Snapshot /\ m.id \in Events
    BY DEF TypeOK, Snapshot
  <2> QED
    BY <1>3, <2>1 DEF TypeOK, Publish, Undisturbed
<1>4. ASSUME NEW p \in Publishers, NEW m \in batch[p], PublishFails(p, m) PROVE TypeOK'
  <2>1. m \in Snapshot /\ m.id \in Events
    BY DEF TypeOK, Snapshot
  <2>2. cause' \in [Events -> SUBSET Disturbances] /\ spent' \in Nat
    BY <1>4, DisturbFacts DEF PublishFails, Disturbances
  <2>3. sent' \in [Events -> Nat]
    BY <1>4, <2>1 DEF TypeOK, PublishFails
  <2> QED
    BY <1>4, <2>1, <2>2, <2>3 DEF TypeOK, PublishFails
<1>5. ASSUME NEW p \in Publishers, MarkPublished(p) PROVE TypeOK'
  <2>1. current[p] \in batch[p] /\ current[p].id \in Events
    BY <1>5 DEF TypeOK, MarkPublished, Snapshot
  <2>2. table' \in [Events -> Row]
    <3>1. AsPublished(table[current[p].id]) \in Row
      BY <2>1, RowEdits DEF TypeOK
    <3> QED
      BY <1>5, <2>1, <3>1 DEF TypeOK, MarkPublished
  <2> QED
    BY <1>5, <2>2, NextRowFacts DEF TypeOK, MarkPublished, Undisturbed
<1>6. ASSUME NEW p \in Publishers, MarkPublishedFails(p) PROVE TypeOK'
  <2>1. current[p] \in batch[p] /\ current[p].id \in Events
    BY <1>6 DEF TypeOK, MarkPublishedFails, Snapshot
  <2>2. table' \in [Events -> Row]
    <3>1. AsPublished(table[current[p].id]) \in Row
      BY <2>1, RowEdits DEF TypeOK
    <3> QED
      BY <1>6, <2>1, <3>1 DEF TypeOK, MarkPublishedFails
  <2>3. cause' \in [Events -> SUBSET Disturbances] /\ spent' \in Nat
    BY <1>6, DisturbFacts DEF MarkPublishedFails, Disturbances
  <2> QED
    BY <1>6, <2>1, <2>2, <2>3 DEF TypeOK, MarkPublishedFails
<1>7. ASSUME NEW p \in Publishers, MarkFailed(p) PROVE TypeOK'
  <2>1. current[p].id \in Events /\ current[p].attempts + 1 \in Nat
    BY <1>7 DEF TypeOK, MarkFailed, Snapshot
  <2>2. table' \in [Events -> Row]
    <3>1. AsFailed(table[current[p].id], current[p].attempts + 1) \in Row
      BY <2>1, AsFailedRow DEF TypeOK
    <3> QED
      BY <1>7, <2>1, <3>1 DEF TypeOK, MarkFailed
  <2> QED
    BY <1>7, <2>2, NextRowFacts DEF TypeOK, MarkFailed, Undisturbed
<1>8. ASSUME NEW p \in Publishers, MarkFailedFails(p) PROVE TypeOK'
  <2>1. cause' \in [Events -> SUBSET Disturbances] /\ spent' \in Nat
    BY <1>8, DisturbFacts DEF MarkFailedFails, Disturbances
  <2> QED
    BY <1>8, <2>1, NextRowFacts DEF TypeOK, MarkFailedFails
<1>9. ASSUME NEW p \in Publishers, EndBatch(p) PROVE TypeOK'
  BY <1>9 DEF TypeOK, EndBatch, Undisturbed
<1>10. ASSUME NEW p \in Publishers, Crash(p) PROVE TypeOK'
  <2>1. cause' \in [Events -> SUBSET Disturbances] /\ spent' \in Nat
    BY <1>10, DisturbFacts DEF Crash, Disturbances
  <2> QED
    BY <1>10, <2>1 DEF TypeOK, Crash
<1>11. ASSUME NEW e \in Events, LeaseExpires(e) PROVE TypeOK'
  <2>1. cause' \in [Events -> SUBSET Disturbances] /\ spent' \in Nat
    BY <1>11, DisturbFacts DEF LeaseExpires, Undisturbed, Disturbances, TypeOK
  <2>2. [table[e] EXCEPT !.lockedUntil = PAST] \in Row
    BY DEF TypeOK, Row, Instant
  <2>3. table' = [table EXCEPT ![e].lockedUntil = PAST] /\ UNCHANGED <<pc, batch, current, sent>>
    BY <1>11 DEF LeaseExpires, replicaVars
  <2>4. table' \in [Events -> Row]
    BY <2>2, <2>3 DEF TypeOK
  <2> QED
    BY <2>1, <2>3, <2>4 DEF TypeOK
<1>12. ASSUME NEW e \in Events, BackoffElapses(e) PROVE TypeOK'
  BY <1>12 DEF TypeOK, BackoffElapses, Row, Instant, PAST, replicaVars, Undisturbed
<1>13. ASSUME NEW S \in SUBSET Events, Retry(S) PROVE TypeOK'
  <2>1. cause' \in [Events -> SUBSET Disturbances] /\ spent' \in Nat
    BY <1>13, DisturbFacts DEF Retry, Disturbances
  <2> QED
    BY <1>13, <2>1, RowEdits DEF TypeOK, Retry, replicaVars
<1>14. ASSUME NEW e \in Events, Ignore(e) PROVE TypeOK'
  <2>1. cause' \in [Events -> SUBSET Disturbances] /\ spent' \in Nat
    BY <1>14, DisturbFacts DEF Ignore, Disturbances
  <2> QED
    BY <1>14, <2>1, RowEdits DEF TypeOK, Ignore, replicaVars
<1>15. ASSUME NEW e \in Events, DeletePublished(e) PROVE TypeOK'
  <2>1. cause' \in [Events -> SUBSET Disturbances] /\ spent' \in Nat
    BY <1>15, DisturbFacts DEF DeletePublished, Disturbances
  <2>2. [EmptyRow EXCEPT !.status = "DELETED"] \in Row
    BY DEF Row, Status, Instant, EmptyRow, NONE
  <2> QED
    BY <1>15, <2>1, <2>2 DEF TypeOK, DeletePublished, replicaVars
<1>16. CASE UNCHANGED vars
  BY <1>16 DEF TypeOK, vars
<1> QED
  BY <1>1, <1>2, <1>3, <1>4, <1>5, <1>6, <1>7, <1>8, <1>9, <1>10, <1>11, <1>12,
     <1>13, <1>14, <1>15, <1>16
  DEF Next, Replica, Time, Operator

\* Every state of the outbox is well formed and every replica's loop variables
\* agree with where its loop is.
THEOREM TypeCorrect == Spec => []TypeOK
<1>1. Init => TypeOK
  BY InitTypeOK
<1>2. TypeOK /\ [Next]_vars => TypeOK'
  BY NextTypeOK
<1> QED
  BY <1>1, <1>2, PTL DEF Spec

-----------------------------------------------------------------------------
(* The size of a batch                                                     *)

Before(S, e) == {f \in S : f < e}

LEMMA BeforeFinite ==
  ASSUME NEW S \in SUBSET Events, NEW e
  PROVE  IsFiniteSet(Before(S, e)) /\ Cardinality(Before(S, e)) \in Nat
<1>1. IsFiniteSet(Events)
  BY OutboxAssumption, FS_Interval DEF Events
<1>2. Before(S, e) \in SUBSET Events
  BY DEF Before
<1> QED
  BY <1>1, <1>2, FS_Subset, FS_CardinalityType

\* A later row has more before it.
LEMMA BeforeGrows ==
  ASSUME NEW S \in SUBSET Events, NEW d \in S, NEW e \in S, d < e
  PROVE  Cardinality(Before(S, d)) < Cardinality(Before(S, e))
<1>0. S \subseteq Int
  BY DEF Events
<1>1. /\ Before(S, d) \in SUBSET Before(S, e) /\ d \in Before(S, e)
      /\ d \notin Before(S, d)
  <2>1. \A f \in S : f < d => f < e
    BY <1>0
  <2>2. ~(d < d)
    BY <1>0
  <2> QED
    BY <2>1, <2>2 DEF Before
<1>2. /\ Cardinality(Before(S, d)) <= Cardinality(Before(S, e))
      /\ Cardinality(Before(S, d)) # Cardinality(Before(S, e))
  BY <1>1, BeforeFinite, FS_Subset
<1> QED
  BY <1>2, BeforeFinite

\* "order by created_at limit n" returns at most n rows and passes over none
\* that is older than one it returns.
LEMMA FirstOfLimits ==
  ASSUME NEW S \in SUBSET Events
  PROVE  /\ IsFiniteSet(FirstOf(S)) /\ Cardinality(FirstOf(S)) <= BatchSize
         /\ \A e \in FirstOf(S), f \in S : f < e => f \in FirstOf(S)
<1> DEFINE n[e \in FirstOf(S)] == Cardinality(Before(S, e))
<1>1. FirstOf(S) = {e \in S : Cardinality(Before(S, e)) < BatchSize}
  BY DEF FirstOf, Before
<1>2. n \in [FirstOf(S) -> 0 .. BatchSize - 1]
  BY <1>1, BeforeFinite, OutboxAssumption
<1>3. ASSUME NEW d \in FirstOf(S), NEW e \in FirstOf(S), n[d] = n[e] PROVE d = e
  <2>1. d \in S /\ e \in S /\ d \in Int /\ e \in Int
    <3>1. d \in S /\ e \in S
      BY DEF FirstOf
    <3> QED
      BY <3>1 DEF Events
  <2>2. Cardinality(Before(S, d)) = Cardinality(Before(S, e))
    BY <1>3
  <2> QED
    BY <2>1, <2>2, BeforeGrows, BeforeFinite
<1>4. n \in Injection(FirstOf(S), 0 .. BatchSize - 1)
  BY <1>2, <1>3 DEF Injection, IsInjective
<1>5. IsFiniteSet(0 .. BatchSize - 1) /\ Cardinality(0 .. BatchSize - 1) = BatchSize
  BY OutboxAssumption, FS_Interval
<1>6. IsFiniteSet(FirstOf(S)) /\ Cardinality(FirstOf(S)) <= BatchSize
  <2> HIDE DEF n
  <2> QED
    BY <1>4, <1>5, FS_Injection
<1>7. ASSUME NEW e \in FirstOf(S), NEW f \in S, f < e PROVE f \in FirstOf(S)
  BY <1>1, <1>7, BeforeGrows, BeforeFinite, OutboxAssumption
<1> QED
  BY <1>6, <1>7

\* No replica holds more rows than one findPublishable may lease: the loop only
\* takes from its batch, and a second pass starts with an empty one.
BatchBounded ==
  \A p \in Publishers : IsFiniteSet(batch[p]) /\ Cardinality(batch[p]) <= BatchSize

LEMMA BatchStep ==
  ASSUME BatchBounded, NEW p \in Publishers,
         \A q \in Publishers \ {p} : batch'[q] = batch[q],
         batch'[p] \in SUBSET batch[p]
  PROVE  BatchBounded'
<1>1. IsFiniteSet(batch'[p]) /\ Cardinality(batch'[p]) <= Cardinality(batch[p])
  BY FS_Subset DEF BatchBounded
<1>2. Cardinality(batch'[p]) \in Nat /\ Cardinality(batch[p]) \in Nat /\ BatchSize \in Nat
  BY <1>1, FS_CardinalityType, OutboxAssumption DEF BatchBounded
<1> QED
  BY <1>1, <1>2 DEF BatchBounded

\* The snapshots of a batch are as many as the rows they are of.
LEMMA SnapshotsCounted ==
  ASSUME NEW claimed, IsFiniteSet(claimed)
  PROVE  LET snaps == {[id |-> e, attempts |-> table[e].attempts] : e \in claimed}
         IN  IsFiniteSet(snaps) /\ Cardinality(snaps) <= Cardinality(claimed)
<1> DEFINE snaps == {[id |-> e, attempts |-> table[e].attempts] : e \in claimed}
           f == [e \in claimed |-> [id |-> e, attempts |-> table[e].attempts]]
<1>1. f \in Surjection(claimed, snaps)
  BY DEF Surjection
<1> HIDE DEF snaps, f
<1> QED
  BY <1>1, FS_Surjection DEF snaps

THEOREM BatchNeverExceeds == Spec => []BatchBounded
<1>1. Init => BatchBounded
  <2>1. ASSUME Init, NEW p \in Publishers PROVE batch[p] = {}
    BY <2>1 DEF Init
  <2> QED
    BY <2>1, FS_EmptySet, OutboxAssumption DEF BatchBounded
<1>2. TypeOK /\ BatchBounded /\ [Next]_vars => BatchBounded'
  <2> SUFFICES ASSUME TypeOK, BatchBounded, [Next]_vars PROVE BatchBounded'
    OBVIOUS
  <2>1. CASE UNCHANGED batch
    BY <2>1 DEF BatchBounded
  <2>2. ASSUME NEW p \in Publishers, NEW skipped \in SUBSET Candidates,
               FindPublishable(p, skipped)
        PROVE  BatchBounded'
    <3> DEFINE claimed == FirstOf(Candidates \ skipped)
               snaps == {[id |-> e, attempts |-> table[e].attempts] : e \in claimed}
    <3>1. batch' = [batch EXCEPT ![p] = snaps] /\ batch \in [Publishers -> SUBSET Snapshot]
      BY <2>2 DEF FindPublishable, TypeOK
    <3>2. IsFiniteSet(claimed) /\ Cardinality(claimed) <= BatchSize
      BY FirstOfLimits DEF Candidates
    <3>3. IsFiniteSet(snaps) /\ Cardinality(snaps) <= Cardinality(claimed)
      BY <3>2, SnapshotsCounted
    <3> HIDE DEF claimed, snaps
    <3>4. Cardinality(snaps) <= BatchSize
      BY <3>2, <3>3, FS_CardinalityType, OutboxAssumption
    <3> QED
      BY <3>1, <3>3, <3>4 DEF BatchBounded
  <2>3. ASSUME NEW p \in Publishers,
               MarkPublished(p) \/ MarkFailed(p) \/ MarkFailedFails(p) \/ Crash(p)
        PROVE  BatchBounded'
    <3>1. batch'[p] \in SUBSET batch[p] /\ \A q \in Publishers \ {p} : batch'[q] = batch[q]
      BY <2>3 DEF MarkPublished, MarkFailed, MarkFailedFails, Crash, NextRow, TypeOK
    <3> QED
      BY <3>1, BatchStep
  <2>4. \/ UNCHANGED batch
        \/ \E p \in Publishers :
             \/ \E skipped \in SUBSET Candidates : FindPublishable(p, skipped)
             \/ MarkPublished(p) \/ MarkFailed(p) \/ MarkFailedFails(p) \/ Crash(p)
    BY DEF Next, vars, replicaVars, Replica, Publish, PublishFails, MarkPublishedFails, EndBatch,
           Operator, Time, CreatePending, LeaseExpires, BackoffElapses, Retry, Ignore,
           DeletePublished
  <2> QED
    BY <2>1, <2>2, <2>3, <2>4
<1> QED
  BY <1>1, <1>2, TypeCorrect, PTL DEF Spec

-----------------------------------------------------------------------------
(* The inductive invariant                                                 *)

\* p has appended e and not marked it yet.
Sending(p, e) == pc[p] = "sent" /\ current[p].id = e

\* What the lease means for a row no disturbance has hit: a holder owns a lease
\* that has not expired on a row that is still to be published, and Kafka has
\* the event exactly if its holder has sent it or the row is done.
Leased(e) ==
  /\ \A p \in Publishers :
       Holds(p, e) =>
         /\ table[e].lockedBy = p
         /\ table[e].lockedUntil = FUTURE
         /\ table[e].status \in {"PENDING", "FAILED"}
         /\ sent[e] = IF Sending(p, e) THEN 1 ELSE 0
  /\ ~Held(e) => sent[e] = IF table[e].status \in {"PUBLISHED", "DELETED"} THEN 1 ELSE 0

UniqueSnapshots ==
  \A p \in Publishers : \A m, n \in batch[p] : m.id = n.id => m = n

SentBeforeMark ==
  \A p \in Publishers : pc[p] = "sent" => sent[current[p].id] >= 1

IInv ==
  /\ TypeOK
  /\ UniqueSnapshots
  /\ SentBeforeMark
  /\ DeliveredBeforeForgotten
  /\ \A e \in Events : cause[e] = {} => Leased(e)

LEMMA InitIInv == Init => IInv
<1> SUFFICES ASSUME Init PROVE IInv
  OBVIOUS
<1>1. TypeOK
  BY InitTypeOK
<1> QED
  BY <1>1 DEF Init, IInv, UniqueSnapshots, SentBeforeMark, DeliveredBeforeForgotten,
              Leased, Holds, Held, EmptyRow

\* A step that touches neither a row, nor who holds it, nor whether its holder
\* is past the send, keeps what the lease means for it.
LEMMA LeasedFrame ==
  ASSUME NEW e \in Events, Leased(e), table'[e] = table[e], sent'[e] = sent[e],
         \A p \in Publishers :
           /\ Holds(p, e)' <=> Holds(p, e)
           /\ Holds(p, e) => (Sending(p, e)' <=> Sending(p, e))
  PROVE  Leased(e)'
  BY DEF Leased, Held

\* One holder at a time: two holders would both be locked_by.
LEMMA OneHolder ==
  ASSUME NEW e \in Events, Leased(e), NEW p \in Publishers, Holds(p, e)
  PROVE  \A q \in Publishers \ {p} : ~Holds(q, e)
  BY DEF Leased

LEMMA SendingHolds ==
  ASSUME TypeOK, NEW p \in Publishers, pc[p] \in {"sent", "caught"}
  PROVE  /\ current[p] \in batch[p]
         /\ current[p] \in Snapshot
         /\ current[p].id \in Events
         /\ Holds(p, current[p].id)
  BY DEF TypeOK, Holds, Snapshot

\* After NextRow the replica holds every row it held but the current one.
LEMMA NextRowHolds ==
  ASSUME TypeOK, UniqueSnapshots, NEW p \in Publishers, pc[p] \in {"sent", "caught"},
         NextRow(p), NEW e \in Events
  PROVE  /\ Holds(p, e)' <=> Holds(p, e) /\ e # current[p].id
         /\ \A q \in Publishers \ {p} :
              /\ Holds(q, e)' <=> Holds(q, e)
              /\ Sending(q, e)' <=> Sending(q, e)
         /\ ~Sending(p, e)'
  BY NextRowFacts, SendingHolds DEF Holds, Sending, UniqueSnapshots

\* No step takes a blame back.
LEMMA CauseGrows ==
  ASSUME TypeOK, [Next]_vars, NEW e \in Events, cause'[e] = {}
  PROVE  cause[e] = {}
<1>1. ASSUME NEW d \in Disturbances, NEW hit, Disturb(d, hit) PROVE cause[e] = {}
  BY <1>1, DisturbFacts
<1>2. CASE cause' = cause
  BY <1>2
<1>3. ASSUME NEW f \in Events,
             CreatePending(f) \/ LeaseExpires(f) \/ BackoffElapses(f) \/ Ignore(f)
               \/ DeletePublished(f)
      PROVE  cause[e] = {}
  BY <1>1, <1>2, <1>3
  DEF CreatePending, LeaseExpires, BackoffElapses, Ignore, DeletePublished,
      Undisturbed, Disturbances
<1>4. ASSUME NEW p \in Publishers, Replica(p) PROVE cause[e] = {}
  <2>1. CASE \E skipped \in SUBSET Candidates : FindPublishable(p, skipped)
    BY <1>2, <2>1 DEF FindPublishable, Undisturbed
  <2>2. ASSUME NEW m \in batch[p], Publish(p, m) \/ PublishFails(p, m) PROVE cause[e] = {}
    BY <1>1, <1>2, <2>2 DEF Publish, PublishFails, Undisturbed, Disturbances
  <2>3. CASE MarkPublished(p) \/ MarkFailed(p) \/ EndBatch(p)
    BY <1>2, <2>3 DEF MarkPublished, MarkFailed, EndBatch, Undisturbed
  <2>4. CASE MarkPublishedFails(p) \/ MarkFailedFails(p) \/ Crash(p)
    BY <1>1, <2>4 DEF MarkPublishedFails, MarkFailedFails, Crash, Disturbances
  <2> QED
    BY <1>4, <2>1, <2>2, <2>3, <2>4 DEF Replica
<1>5. ASSUME NEW S \in SUBSET Events, Retry(S) PROVE cause[e] = {}
  BY <1>1, <1>5 DEF Retry, Disturbances
<1>6. CASE UNCHANGED vars
  BY <1>2, <1>6 DEF vars
<1> QED
  BY <1>3, <1>4, <1>5, <1>6 DEF Next, Time, Operator

LEMMA NextLeased ==
  ASSUME IInv, [Next]_vars, NEW e \in Events, cause'[e] = {}
  PROVE  Leased(e)'
<1>1. TypeOK /\ UniqueSnapshots /\ Leased(e)
  BY CauseGrows DEF IInv
<1> USE <1>1
<1>2. ASSUME NEW f \in Events, CreatePending(f) PROVE Leased(e)'
  <2>1. CASE f = e
    <3>1. ~Held(e) /\ sent[e] = 0
      BY <1>2, <2>1 DEF CreatePending, Leased, Held
    <3> QED
      BY <1>2, <2>1, <3>1 DEF CreatePending, Leased, Held, Holds, TypeOK, Row, replicaVars
  <2>2. CASE f # e
    BY <1>2, <2>2, LeasedFrame DEF CreatePending, Holds, Sending, TypeOK, replicaVars
  <2> QED
    BY <2>1, <2>2
<1>3. ASSUME NEW p \in Publishers, NEW skipped \in SUBSET Candidates,
             FindPublishable(p, skipped)
      PROVE Leased(e)'
  <2> DEFINE claimed == FirstOf(Candidates \ skipped)
  <2>1. /\ pc[p] = "idle" /\ batch[p] = {}
        /\ pc' = [pc EXCEPT ![p] = "loop"]
        /\ batch' = [batch EXCEPT ![p] =
                       {[id |-> f, attempts |-> table[f].attempts] : f \in claimed}]
        /\ UNCHANGED <<current, sent>>
    BY <1>3 DEF FindPublishable, TypeOK
  <2>2. \A q \in Publishers \ {p} :
          (Holds(q, e)' <=> Holds(q, e)) /\ (Sending(q, e)' <=> Sending(q, e))
    BY <2>1 DEF Holds, Sending, TypeOK
  <2>3. (Holds(p, e)' <=> e \in claimed) /\ ~Holds(p, e) /\ ~Sending(p, e)'
    <3>1. batch'[p] = {[id |-> f, attempts |-> table[f].attempts] : f \in claimed}
      BY <2>1 DEF TypeOK
    <3>2. Holds(p, e)' <=> e \in claimed
      <4> DEFINE snap(f) == [id |-> f, attempts |-> table[f].attempts]
      <4>1. \A f : snap(f).id = f
        OBVIOUS
      <4>2. \A m \in batch'[p] : m.id \in claimed
        BY <3>1, <4>1
      <4>3. e \in claimed => snap(e) \in batch'[p] /\ snap(e).id = e
        BY <3>1, <4>1
      <4> HIDE DEF snap
      <4> QED
        BY <4>2, <4>3 DEF Holds
    <3>3. ~Holds(p, e)
      BY <2>1 DEF Holds
    <3>4. ~Sending(p, e)'
      BY <2>1 DEF Sending, TypeOK
    <3> QED
      BY <3>2, <3>3, <3>4
  <2>4. CASE e \in claimed
    <3>1. Publishable(table[e])
      BY <2>4 DEF FirstOf, Candidates
    <3>2. ~Held(e) /\ sent[e] = 0
      BY <3>1 DEF Publishable, Leased, Held
    <3>3. /\ table'[e].lockedBy = p
          /\ table'[e].lockedUntil = FUTURE
          /\ table'[e].status = table[e].status
      BY <1>3, <2>4 DEF FindPublishable, TypeOK, Row
    <3> QED
      BY <2>1, <2>2, <2>3, <2>4, <3>1, <3>2, <3>3 DEF Leased, Held, Publishable
  <2>5. CASE e \notin claimed
    <3>1. table'[e] = table[e]
      BY <1>3, <2>5 DEF FindPublishable
    <3> QED
      BY <2>1, <2>2, <2>3, <2>5, <3>1, LeasedFrame
  <2> QED
    BY <2>4, <2>5
<1>4. ASSUME NEW p \in Publishers, NEW m \in batch[p], Publish(p, m) PROVE Leased(e)'
  <2>1. m \in Snapshot /\ Holds(p, m.id)
    BY DEF TypeOK, Holds
  <2>2. /\ \A q \in Publishers : Holds(q, e)' <=> Holds(q, e)
        /\ \A q \in Publishers \ {p} : Sending(q, e)' <=> Sending(q, e)
        /\ ~Sending(p, e)
        /\ Sending(p, e)' <=> m.id = e
        /\ table' = table
    BY <1>4, <2>1 DEF Publish, Holds, Sending, TypeOK
  <2>3. CASE m.id = e
    <3>1. sent[e] = 0 /\ sent'[e] = 1
      BY <1>4, <2>1, <2>2, <2>3 DEF Publish, Leased, TypeOK
    <3>2. \A q \in Publishers \ {p} : ~Holds(q, e)
      BY <2>1, <2>3, OneHolder
    <3> QED
      BY <2>1, <2>2, <2>3, <3>1, <3>2 DEF Leased, Held
  <2>4. CASE m.id # e
    <3>1. sent'[e] = sent[e]
      BY <1>4, <2>1, <2>4 DEF Publish, TypeOK
    <3> QED
      BY <2>2, <2>4, <3>1, LeasedFrame
  <2> QED
    BY <2>3, <2>4
<1>5. ASSUME NEW p \in Publishers, NEW m \in batch[p], PublishFails(p, m) PROVE Leased(e)'
  <2>1. m \in Snapshot
    BY DEF TypeOK
  <2>2. /\ \A q \in Publishers : Holds(q, e)' <=> Holds(q, e)
        /\ \A q \in Publishers : Sending(q, e)' <=> Sending(q, e)
        /\ table' = table
    BY <1>5 DEF PublishFails, Holds, Sending, TypeOK
  <2>3. sent'[e] = sent[e]
    <3>1. CASE sent' = sent
      BY <3>1
    <3>2. CASE sent' = [sent EXCEPT ![m.id] = @ + 1] /\ Disturb("ackLost", {m.id})
      <4>1. e # m.id
        BY <3>2, DisturbFacts DEF Disturbances
      <4> QED
        BY <2>1, <3>2, <4>1 DEF TypeOK, Snapshot
    <3> QED
      BY <1>5, <3>1, <3>2 DEF PublishFails
  <2> QED
    BY <2>2, <2>3, LeasedFrame
<1>6. ASSUME NEW p \in Publishers, MarkPublished(p) PROVE Leased(e)'
  <2>1. NextRow(p) /\ pc[p] = "sent" /\ sent' = sent
        /\ table' = [table EXCEPT ![current[p].id] = AsPublished(@)]
    BY <1>6 DEF MarkPublished
  <2>2. CASE current[p].id = e
    <3>1. Holds(p, e) /\ Sending(p, e)
      BY <2>1, <2>2, SendingHolds DEF Sending
    <3>2. sent[e] = 1 /\ table[e].status \in {"PENDING", "FAILED"}
      BY <3>1 DEF Leased
    <3>3. \A q \in Publishers : ~Holds(q, e)'
      BY <2>1, <2>2, <3>1, OneHolder, NextRowHolds
    <3>4. table'[e].status = "PUBLISHED"
      BY <2>1, <2>2, <3>2 DEF AsPublished, Stored, TypeOK, Row
    <3> QED
      BY <2>1, <3>2, <3>3, <3>4 DEF Leased, Held
  <2>3. CASE current[p].id # e
    <3>1. table'[e] = table[e]
      BY <2>1, <2>3 DEF TypeOK
    <3>2. ~Sending(p, e)
      BY <2>3 DEF Sending
    <3> QED
      BY <2>1, <2>3, <3>1, <3>2, NextRowHolds, LeasedFrame
  <2> QED
    BY <2>2, <2>3
<1>7. ASSUME NEW p \in Publishers, MarkPublishedFails(p) PROVE Leased(e)'
  <2>1. e # current[p].id
    BY <1>7, DisturbFacts DEF MarkPublishedFails, Disturbances
  <2>2. table'[e] = table[e]
    BY <1>7, <2>1 DEF MarkPublishedFails, TypeOK
  <2>3. \A q \in Publishers :
          (Holds(q, e)' <=> Holds(q, e)) /\ (Sending(q, e)' <=> Sending(q, e))
    BY <1>7, <2>1 DEF MarkPublishedFails, Holds, Sending, TypeOK
  <2> QED
    BY <1>7, <2>2, <2>3, LeasedFrame DEF MarkPublishedFails
<1>8. ASSUME NEW p \in Publishers, MarkFailed(p) PROVE Leased(e)'
  <2>1. NextRow(p) /\ pc[p] = "caught" /\ sent' = sent
        /\ table' = [table EXCEPT ![current[p].id] = AsFailed(@, current[p].attempts + 1)]
    BY <1>8 DEF MarkFailed
  <2>2. CASE current[p].id = e
    <3>1. Holds(p, e) /\ ~Sending(p, e)
      BY <2>1, <2>2, SendingHolds DEF Sending
    <3>2. sent[e] = 0 /\ table[e].status \in {"PENDING", "FAILED"}
      BY <3>1 DEF Leased
    <3>3. \A q \in Publishers : ~Holds(q, e)'
      BY <2>1, <2>2, <3>1, OneHolder, NextRowHolds
    <3>4. table'[e].status = "FAILED"
      BY <2>1, <2>2, <3>2 DEF AsFailed, Stored, TypeOK, Row
    <3> QED
      BY <2>1, <3>2, <3>3, <3>4 DEF Leased, Held
  <2>3. CASE current[p].id # e
    <3>1. table'[e] = table[e]
      BY <2>1, <2>3 DEF TypeOK
    <3>2. ~Sending(p, e)
      BY <2>3 DEF Sending
    <3> QED
      BY <2>1, <2>3, <3>1, <3>2, NextRowHolds, LeasedFrame
  <2> QED
    BY <2>2, <2>3
<1>9. ASSUME NEW p \in Publishers, MarkFailedFails(p) PROVE Leased(e)'
  <2>1. NextRow(p) /\ pc[p] = "caught" /\ sent' = sent /\ table' = table
    BY <1>9 DEF MarkFailedFails
  <2>2. CASE current[p].id = e
    <3>1. Holds(p, e) /\ ~Sending(p, e)
      BY <2>1, <2>2, SendingHolds DEF Sending
    <3>2. sent[e] = 0 /\ table[e].status \in {"PENDING", "FAILED"}
      BY <3>1 DEF Leased
    <3>3. \A q \in Publishers : ~Holds(q, e)'
      BY <2>1, <2>2, <3>1, OneHolder, NextRowHolds
    <3> QED
      BY <2>1, <3>2, <3>3 DEF Leased, Held
  <2>3. CASE current[p].id # e
    <3>1. ~Sending(p, e)
      BY <2>3 DEF Sending
    <3> QED
      BY <2>1, <2>3, <3>1, NextRowHolds, LeasedFrame
  <2> QED
    BY <2>2, <2>3
<1>10. ASSUME NEW p \in Publishers, EndBatch(p) PROVE Leased(e)'
  BY <1>10, LeasedFrame DEF EndBatch, Holds, Sending, TypeOK
<1>11. ASSUME NEW p \in Publishers, Crash(p) PROVE Leased(e)'
  <2>1. /\ \A q \in Publishers \ {p} :
             (Holds(q, e)' <=> Holds(q, e)) /\ (Sending(q, e)' <=> Sending(q, e))
        /\ ~Holds(p, e)'
        /\ table' = table /\ sent' = sent
    BY <1>11 DEF Crash, Holds, Sending, TypeOK
  <2>2. ~Sending(p, e)
    BY <1>11, DisturbFacts DEF Crash, Sending, Disturbances
  <2>3. CASE Holds(p, e)
    <3>1. sent[e] = 0 /\ table[e].status \in {"PENDING", "FAILED"}
      BY <2>2, <2>3 DEF Leased
    <3>2. ~Held(e)'
      BY <2>1, <2>3, OneHolder DEF Held
    <3> QED
      BY <2>1, <3>1, <3>2 DEF Leased, Held
  <2>4. CASE ~Holds(p, e)
    BY <2>1, <2>4, LeasedFrame
  <2> QED
    BY <2>3, <2>4
<1>12. ASSUME NEW f \in Events, LeaseExpires(f) PROVE Leased(e)'
  <2>1. /\ UNCHANGED <<pc, batch, current, sent>>
        /\ table' = [table EXCEPT ![f].lockedUntil = PAST]
    BY <1>12 DEF LeaseExpires, replicaVars
  <2>2. CASE f = e
    <3>1. ~Held(e)
      BY <1>12, <2>2, DisturbFacts DEF LeaseExpires, Disturbances
    <3>2. table'[e].status = table[e].status
      BY <2>1, <2>2 DEF TypeOK, Row
    <3> QED
      BY <2>1, <3>1, <3>2 DEF Leased, Held, Holds
  <2>3. CASE f # e
    BY <2>1, <2>3, LeasedFrame DEF Holds, Sending, TypeOK
  <2> QED
    BY <2>2, <2>3
<1>13. ASSUME NEW f \in Events, BackoffElapses(f) PROVE Leased(e)'
  BY <1>13 DEF BackoffElapses, Leased, Held, Holds, Sending, TypeOK, Row, replicaVars
<1>14. ASSUME NEW S \in SUBSET Events, Retry(S) PROVE Leased(e)'
  <2>1. /\ UNCHANGED <<pc, batch, current, sent>>
        /\ table' = [f \in Events |-> IF f \in S THEN Released(table[f]) ELSE table[f]]
    BY <1>14 DEF Retry, replicaVars
  <2>2. CASE e \in S
    <3>1. ~Held(e)
      BY <1>14, <2>2, DisturbFacts DEF Retry, Disturbances
    <3>2. table'[e].status = table[e].status
      BY <2>1, <2>2 DEF TypeOK, Row, Released
    <3> QED
      BY <2>1, <3>1, <3>2 DEF Leased, Held, Holds
  <2>3. CASE e \notin S
    BY <2>1, <2>3, LeasedFrame DEF Holds, Sending
  <2> QED
    BY <2>2, <2>3
<1>15. ASSUME NEW f \in Events, Ignore(f) PROVE Leased(e)'
  <2>1. /\ UNCHANGED <<pc, batch, current, sent>>
        /\ table' = [table EXCEPT ![f] = [Released(@) EXCEPT !.status = "IGNORED"]]
        /\ table[f].status \in {"PENDING", "FAILED"}
    BY <1>15 DEF Ignore, replicaVars
  <2>2. CASE f = e
    <3>1. ~Held(e)
      BY <1>15, <2>2, DisturbFacts DEF Ignore, Disturbances
    <3>2. table'[e].status = "IGNORED"
      BY <2>1, <2>2 DEF TypeOK, Row, Released
    <3> QED
      BY <2>1, <2>2, <3>1, <3>2 DEF Leased, Held, Holds
  <2>3. CASE f # e
    BY <2>1, <2>3, LeasedFrame DEF Holds, Sending, TypeOK
  <2> QED
    BY <2>2, <2>3
<1>16. ASSUME NEW f \in Events, DeletePublished(f) PROVE Leased(e)'
  <2>1. /\ UNCHANGED <<pc, batch, current, sent>>
        /\ table' = [table EXCEPT ![f] = [EmptyRow EXCEPT !.status = "DELETED"]]
        /\ table[f].status = "PUBLISHED"
    BY <1>16 DEF DeletePublished, replicaVars
  <2>2. CASE f = e
    <3>1. ~Held(e) /\ sent[e] = 1
      BY <2>1, <2>2 DEF Leased, Held
    <3>2. table'[e].status = "DELETED"
      BY <2>1, <2>2 DEF TypeOK, EmptyRow
    <3> QED
      BY <2>1, <3>1, <3>2 DEF Leased, Held, Holds
  <2>3. CASE f # e
    BY <2>1, <2>3, LeasedFrame DEF Holds, Sending, TypeOK
  <2> QED
    BY <2>2, <2>3
<1>17. CASE UNCHANGED vars
  BY <1>17 DEF vars, Leased, Held, Holds, Sending
<1> QED
  BY <1>2, <1>3, <1>4, <1>5, <1>6, <1>7, <1>8, <1>9, <1>10, <1>11, <1>12, <1>13,
     <1>14, <1>15, <1>16, <1>17
  DEF Next, Replica, Time, Operator

LEMMA NextUnique ==
  ASSUME TypeOK, UniqueSnapshots, [Next]_vars
  PROVE  UniqueSnapshots'
<1>1. ASSUME NEW p \in Publishers, NEW skipped \in SUBSET Candidates,
             FindPublishable(p, skipped)
      PROVE UniqueSnapshots'
  <2> DEFINE snap(f) == [id |-> f, attempts |-> table[f].attempts]
             claimed == FirstOf(Candidates \ skipped)
  <2>1. \A m, n \in batch'[p] : m.id = n.id => m = n
    <3>1. batch'[p] = {snap(f) : f \in claimed}
      BY <1>1 DEF FindPublishable, TypeOK
    <3>2. \A f : snap(f).id = f
      OBVIOUS
    <3>3. \A m \in batch'[p] : m = snap(m.id)
      BY <3>1, <3>2
    <3> HIDE DEF snap
    <3> QED
      BY <3>3
  <2>2. \A q \in Publishers \ {p} : batch'[q] = batch[q]
    BY <1>1 DEF FindPublishable, TypeOK
  <2> QED
    BY <2>1, <2>2 DEF UniqueSnapshots
<1>2. CASE \A p \in Publishers : batch'[p] \subseteq batch[p]
  BY <1>2 DEF UniqueSnapshots
<1>3. ASSUME NEW p \in Publishers, NextRow(p) \/ Crash(p)
      PROVE  \A q \in Publishers : batch'[q] \subseteq batch[q]
  BY <1>3 DEF NextRow, Crash, TypeOK
<1>4. CASE batch' = batch
  BY <1>2, <1>4
<1> QED
  BY <1>1, <1>2, <1>3, <1>4
  DEF Next, vars, replicaVars, CreatePending, Replica, Publish, PublishFails,
      MarkPublished, MarkPublishedFails, MarkFailed, MarkFailedFails, EndBatch,
      Time, LeaseExpires, BackoffElapses, Operator, Retry, Ignore, DeletePublished

\* Kafka never forgets, and a replica is past the send only of an event it sent.
LEMMA NextSent ==
  ASSUME TypeOK, SentBeforeMark, [Next]_vars
  PROVE  SentBeforeMark' /\ \A e \in Events : sent'[e] >= sent[e]
<1>1. CASE sent' = sent /\ \A p \in Publishers : pc'[p] = "sent" => pc[p] = "sent" /\ current'[p] = current[p]
  BY <1>1 DEF SentBeforeMark, TypeOK
<1>2. ASSUME NEW p \in Publishers, NEW m \in batch[p], Publish(p, m) \/ PublishFails(p, m)
      PROVE  SentBeforeMark' /\ \A e \in Events : sent'[e] >= sent[e]
  <2>1. m \in Snapshot /\ m.id \in Events
    BY DEF TypeOK, Snapshot
  <2>2. \A e \in Events : sent'[e] >= sent[e] /\ sent'[e] \in Nat
    BY <1>2, <2>1 DEF Publish, PublishFails, TypeOK
  <2>3. \A q \in Publishers \ {p} : pc'[q] = pc[q] /\ current'[q] = current[q]
    BY <1>2 DEF Publish, PublishFails, TypeOK
  <2>4. pc'[p] = "sent" => current'[p] = m /\ sent'[m.id] >= 1
    BY <1>2, <2>1 DEF Publish, PublishFails, TypeOK
  <2>5. \A q \in Publishers : pc[q] = "sent" => current[q].id \in Events
    BY SendingHolds
  <2> QED
    BY <2>1, <2>2, <2>3, <2>4, <2>5 DEF SentBeforeMark, TypeOK
<1>3. ASSUME NEW p \in Publishers, Replica(p)
      PROVE  SentBeforeMark' /\ \A e \in Events : sent'[e] >= sent[e]
  <2>1. CASE MarkPublished(p) \/ MarkFailed(p) \/ MarkFailedFails(p)
    <3>1. /\ sent' = sent
          /\ \A q \in Publishers : pc'[q] = "sent" => pc[q] = "sent" /\ current'[q] = current[q]
      BY <2>1, NextRowFacts DEF MarkPublished, MarkFailed, MarkFailedFails
    <3> QED
      BY <1>1, <3>1
  <2>2. CASE MarkPublishedFails(p) \/ EndBatch(p) \/ Crash(p)
    <3>1. /\ sent' = sent
          /\ \A q \in Publishers : pc'[q] = "sent" => pc[q] = "sent" /\ current'[q] = current[q]
      BY <2>2 DEF MarkPublishedFails, EndBatch, Crash, TypeOK
    <3> QED
      BY <1>1, <3>1
  <2>3. ASSUME NEW skipped \in SUBSET Candidates, FindPublishable(p, skipped)
        PROVE  SentBeforeMark' /\ \A e \in Events : sent'[e] >= sent[e]
    BY <1>1, <2>3 DEF FindPublishable, TypeOK
  <2> QED
    BY <1>2, <1>3, <2>1, <2>2, <2>3 DEF Replica
<1>4. CASE UNCHANGED <<pc, current, sent>>
  BY <1>1, <1>4
<1> QED
  BY <1>3, <1>4
  DEF Next, vars, replicaVars, CreatePending, Time, LeaseExpires, BackoffElapses,
      Operator, Retry, Ignore, DeletePublished

LEMMA NextDelivered ==
  ASSUME TypeOK, SentBeforeMark, DeliveredBeforeForgotten, [Next]_vars
  PROVE  DeliveredBeforeForgotten'
<1> DEFINE Done(e) == table[e].status \in {"PUBLISHED", "DELETED"}
<1> SUFFICES ASSUME NEW e \in Events, Done(e)' PROVE sent'[e] >= 1
  BY DEF DeliveredBeforeForgotten
<1>1. CASE Done(e)
  <2>1. sent[e] >= 1 /\ sent'[e] >= sent[e]
    BY <1>1, NextSent DEF DeliveredBeforeForgotten
  <2>2. sent[e] \in Nat /\ sent'[e] \in Nat
    BY NextTypeOK DEF TypeOK
  <2> QED
    BY <2>1, <2>2
<1>2. CASE ~Done(e)
  <2>1. ASSUME NEW p \in Publishers, MarkPublished(p) \/ MarkPublishedFails(p)
        PROVE  sent'[e] >= 1
    <3>1. sent' = sent /\ pc[p] = "sent" /\ current[p].id \in Events
      BY <2>1, SendingHolds DEF MarkPublished, MarkPublishedFails
    <3>2. e = current[p].id
      BY <1>2, <2>1, <3>1 DEF MarkPublished, MarkPublishedFails, TypeOK
    <3> QED
      BY <3>1, <3>2 DEF SentBeforeMark
  <2>2. ASSUME NEW p \in Publishers, MarkFailed(p) PROVE FALSE
    <3>1. current[p].id \in Events
      BY <2>2, SendingHolds DEF MarkFailed
    <3> QED
      BY <1>2, <2>2, <3>1 DEF MarkFailed, AsFailed, Stored, TypeOK, Row
  <2>3. ASSUME NEW p \in Publishers, NEW skipped \in SUBSET Candidates,
               FindPublishable(p, skipped)
        PROVE  FALSE
    BY <1>2, <2>3 DEF FindPublishable, TypeOK, Row
  <2>4. CASE table' = table
    BY <1>2, <2>4
  <2>5. ASSUME NEW f \in Events,
               CreatePending(f) \/ LeaseExpires(f) \/ BackoffElapses(f)
        PROVE  FALSE
    BY <1>2, <2>5 DEF CreatePending, LeaseExpires, BackoffElapses, TypeOK, Row
  <2>6. ASSUME NEW f \in Events, Ignore(f) PROVE FALSE
    BY <1>2, <2>6 DEF Ignore, Released, TypeOK, Row
  <2>7. ASSUME NEW f \in Events, DeletePublished(f) PROVE FALSE
    BY <1>2, <2>7 DEF DeletePublished, TypeOK, Row
  <2>8. ASSUME NEW S \in SUBSET Events, Retry(S) PROVE FALSE
    <3>1. table'[e] = IF e \in S THEN Released(table[e]) ELSE table[e]
      BY <2>8 DEF Retry
    <3>2. Released(table[e]).status = table[e].status
      BY DEF Released, TypeOK, Row
    <3> QED
      BY <1>2, <3>1, <3>2
  <2> QED
    BY <2>1, <2>2, <2>3, <2>4, <2>5, <2>6, <2>7, <2>8
    DEF Next, vars, Replica, Publish, PublishFails, MarkFailedFails, EndBatch, Crash,
        Time, Operator
<1> QED
  BY <1>1, <1>2

LEMMA NextIInv == IInv /\ [Next]_vars => IInv'
<1> SUFFICES ASSUME IInv, [Next]_vars PROVE IInv'
  OBVIOUS
<1>1. TypeOK'
  BY NextTypeOK DEF IInv
<1>2. UniqueSnapshots' /\ SentBeforeMark' /\ DeliveredBeforeForgotten'
  BY NextUnique, NextSent, NextDelivered DEF IInv
<1>3. \A e \in Events : cause'[e] = {} => Leased(e)'
  BY NextLeased
<1> QED
  BY <1>1, <1>2, <1>3 DEF IInv

LEMMA Invariance == Spec => []IInv
<1>1. Init => IInv
  BY InitIInv
<1>2. IInv /\ [Next]_vars => IInv'
  BY NextIInv
<1> QED
  BY <1>1, <1>2, PTL DEF Spec

-----------------------------------------------------------------------------
(* The theorems                                                            *)

\* The lease: no two replicas ever work on one row, short of a disturbance
\* of that row.
THEOREM LeaseExclusion == Spec => []SingleHolder
<1>1. IInv => SingleHolder
  BY DEF IInv, SingleHolder, AtMostOneHolder, Leased
<1> QED
  BY <1>1, Invariance, PTL

\* One copy in Kafka of every event whose row was never disturbed, for any
\* number of replicas, failures and retries.
THEOREM ExactlyOnceUndisturbed == Spec => []NoDuplicate
<1>1. IInv => NoDuplicate
  <2> SUFFICES ASSUME IInv, NEW e \in Events, cause[e] = {} PROVE sent[e] <= 1
    BY DEF NoDuplicate
  <2>1. Leased(e)
    BY DEF IInv
  <2>2. CASE Held(e)
    BY <2>1, <2>2 DEF Leased, Held
  <2>3. CASE ~Held(e)
    BY <2>1, <2>3 DEF Leased
  <2> QED
    BY <2>2, <2>3
<1> QED
  BY <1>1, Invariance, PTL

\* The outbox loses nothing: a row is marked published, or removed by
\* retention, only when Kafka has its event.
THEOREM NothingLost == Spec => []DeliveredBeforeForgotten
<1>1. IInv => DeliveredBeforeForgotten
  BY DEF IInv
<1> QED
  BY <1>1, Invariance, PTL

\* An undisturbed published row is never reopened.
THEOREM PublishedStays == Spec => PublishedSettled
<1>1. IInv /\ [Next]_vars =>
        [\A e \in Events :
           table[e].status = "PUBLISHED" /\ cause[e] = {}
             => table'[e].status \in {"PUBLISHED", "DELETED"}]_vars
  <2> SUFFICES ASSUME IInv, Next, NEW e \in Events, table[e].status = "PUBLISHED", cause[e] = {}
               PROVE  table'[e].status \in {"PUBLISHED", "DELETED"}
    OBVIOUS
  <2>1. TypeOK /\ ~Held(e)
    BY DEF IInv, Leased, Held
  <2>2. ASSUME NEW p \in Publishers, Replica(p)
        PROVE  table'[e].status \in {"PUBLISHED", "DELETED"}
    <3>1. CASE MarkPublished(p) \/ MarkPublishedFails(p) \/ MarkFailed(p)
      <4>1. current[p].id \in Events /\ current[p].id # e
        BY <2>1, <3>1, SendingHolds DEF MarkPublished, MarkPublishedFails, MarkFailed, Held
      <4> QED
        BY <2>1, <3>1, <4>1 DEF MarkPublished, MarkPublishedFails, MarkFailed, TypeOK
    <3>2. ASSUME NEW skipped \in SUBSET Candidates, FindPublishable(p, skipped)
          PROVE  table'[e].status \in {"PUBLISHED", "DELETED"}
      BY <2>1, <3>2 DEF FindPublishable, TypeOK, Row
    <3>3. CASE table' = table
      BY <3>3
    <3> QED
      BY <2>2, <3>1, <3>2, <3>3 DEF Replica, Publish, PublishFails, MarkFailedFails, EndBatch, Crash
  <2>3. ASSUME NEW f \in Events,
               \/ CreatePending(f) \/ LeaseExpires(f) \/ BackoffElapses(f)
               \/ Ignore(f) \/ DeletePublished(f)
        PROVE  table'[e].status \in {"PUBLISHED", "DELETED"}
    <3>1. CASE CreatePending(f) \/ Ignore(f)
      BY <2>1, <3>1 DEF CreatePending, Ignore, TypeOK
    <3>2. CASE LeaseExpires(f)
      BY <2>1, <3>2 DEF LeaseExpires, TypeOK, Row
    <3>3. CASE BackoffElapses(f)
      BY <2>1, <3>3 DEF BackoffElapses, TypeOK, Row
    <3>4. CASE DeletePublished(f)
      BY <2>1, <3>4 DEF DeletePublished, TypeOK, EmptyRow
    <3> QED
      BY <2>3, <3>1, <3>2, <3>3, <3>4
  <2>4. ASSUME NEW S \in SUBSET Events, Retry(S)
        PROVE  table'[e].status \in {"PUBLISHED", "DELETED"}
    BY <2>1, <2>4 DEF Retry, TypeOK
  <2> QED
    BY <2>2, <2>3, <2>4 DEF Next, Time, Operator
<1> QED
  BY <1>1, Invariance, PTL DEF Spec, PublishedSettled

-----------------------------------------------------------------------------
(* Outbox implements AtLeastOnce                                           *)

\* What is in a batch, seen from outside.
Ids(snapshots) == {m.id : m \in snapshots}

LEMMA StageStep ==
  ASSUME NEW e \in Events, \A f \in Events \ {e} : table'[f].status = table[f].status
  PROVE  Stage' = [Stage EXCEPT ![e] = StageOf[table'[e].status]]
  BY DEF Stage

LEMMA StageStays ==
  ASSUME \A e \in Events : table'[e].status = table[e].status
  PROVE  Stage' = Stage
  BY DEF Stage

LEMMA TakenStep ==
  ASSUME NEW p \in Publishers, \A q \in Publishers \ {p} : batch'[q] = batch[q]
  PROVE  Taken' = [Taken EXCEPT ![p] = Ids(batch'[p])]
  BY DEF Taken, Ids

LEMMA AckedStep ==
  ASSUME NEW p \in Publishers,
         \A q \in Publishers \ {p} : pc'[q] = pc[q] /\ current'[q] = current[q]
  PROVE  /\ pc'[p] # "sent" => Acked' = [Acked EXCEPT ![p] = {}]
         /\ pc'[p] = "sent" => Acked' = [Acked EXCEPT ![p] = {current'[p].id}]
  BY DEF Acked

LEMMA Seen ==
  /\ \A p \in Publishers :
       /\ Taken[p] = Ids(batch[p])
       /\ Acked[p] = IF pc[p] = "sent" THEN {current[p].id} ELSE {}
  /\ \A e \in Events : Stage[e] = StageOf[table[e].status]
  BY DEF Taken, Acked, Stage, Ids

LEMMA StageNames ==
  /\ StageOf["ABSENT"] = "none" /\ StageOf["PENDING"] = "due" /\ StageOf["FAILED"] = "due"
  /\ StageOf["IGNORED"] = "withdrawn" /\ StageOf["PUBLISHED"] = "settled"
  /\ StageOf["DELETED"] = "forgotten"
  BY DEF StageOf

\* A mark by id is a report: it changes what is stored, and that only.
LEMMA MarkReports ==
  ASSUME TypeOK, NEW e \in Events,
         \/ table' = [table EXCEPT ![e] = AsPublished(@)]
         \/ table' = table
  PROVE  Delivery!Report(e, "settled")
<1>1. CASE table' = table
  BY <1>1 DEF Stage, Delivery!Report
<1>2. CASE table' = [table EXCEPT ![e] = AsPublished(@)]
  <2>1. table'[e].status = IF table[e].status \in Stored THEN "PUBLISHED" ELSE table[e].status
    BY <1>2 DEF AsPublished, TypeOK, Row
  <2>2. Stage' = [Stage EXCEPT ![e] = StageOf[table'[e].status]]
    BY <1>2, StageStep DEF TypeOK
  <2>3. table[e].status \in Status
    BY DEF TypeOK, Row
  <2>4. StageOf[table'[e].status]
          = IF Stage[e] \in {"none", "forgotten"} THEN Stage[e] ELSE "settled"
    BY <2>1, <2>3, Seen, StageNames DEF Status, Stored
  <2> QED
    BY <2>2, <2>4 DEF Delivery!Report
<1> QED
  BY <1>1, <1>2

LEMMA FailureReports ==
  ASSUME TypeOK, NEW e \in Events, NEW n \in Nat, table' = [table EXCEPT ![e] = AsFailed(@, n)]
  PROVE  Delivery!Report(e, "due")
<1>1. table'[e].status = IF table[e].status \in Stored THEN "FAILED" ELSE table[e].status
  BY DEF AsFailed, TypeOK, Row
<1>2. Stage' = [Stage EXCEPT ![e] = StageOf[table'[e].status]]
  BY StageStep DEF TypeOK
<1>3. table[e].status \in Status
  BY DEF TypeOK, Row
<1>4. StageOf[table'[e].status]
        = IF Stage[e] \in {"none", "forgotten"} THEN Stage[e] ELSE "due"
  BY <1>1, <1>3, Seen, StageNames DEF Status, Stored
<1> QED
  BY <1>2, <1>4 DEF Delivery!Report

\* Going on to the next row lets go of the current one.
LEMMA NextRowLetsGo ==
  ASSUME TypeOK, UniqueSnapshots, NEW p \in Publishers, pc[p] \in {"sent", "caught"}, NextRow(p)
  PROVE  /\ Delivery!LetGo(p, current[p].id)
         /\ Acked' = [Acked EXCEPT ![p] = {}]
<1>1. /\ pc'[p] = "loop" /\ batch'[p] = batch[p] \ {current[p]}
      /\ \A q \in Publishers \ {p} :
           pc'[q] = pc[q] /\ batch'[q] = batch[q] /\ current'[q] = current[q]
  BY NextRowFacts
<1>2. Ids(batch'[p]) = Ids(batch[p]) \ {current[p].id}
  BY <1>1, SendingHolds DEF Ids, UniqueSnapshots
<1>3. Taken' = [Taken EXCEPT ![p] = Ids(batch[p]) \ {current[p].id}]
  BY <1>1, <1>2, TakenStep
<1>4. Taken[p] = Ids(batch[p])
  BY Seen
<1> QED
  BY <1>1, <1>3, <1>4, AckedStep DEF Delivery!LetGo

\* Every step of a replica is a step of AtLeastOnce or changes nothing it shows.
LEMMA ReplicaDelivers ==
  ASSUME IInv, NEW p \in Publishers, Replica(p)
  PROVE  Delivery!Next \/ UNCHANGED Delivery!vars
<1>0. TypeOK /\ UniqueSnapshots
  BY DEF IInv
<1>1. ASSUME NEW skipped \in SUBSET Candidates, FindPublishable(p, skipped)
      PROVE  \E es \in SUBSET Events : Delivery!Take(p, es)
  <2> DEFINE claimed == FirstOf(Candidates \ skipped)
  <2>1. claimed \subseteq Candidates /\ Candidates \subseteq Events
    BY DEF FirstOf, Candidates
  <2>2. \A e \in claimed : Stage[e] = "due"
    BY <2>1, Seen, StageNames DEF Candidates, Publishable
  <2>3. Taken[p] = {}
    BY <1>0, <1>1, Seen DEF FindPublishable, TypeOK, Ids
  <2>4. /\ batch' = [batch EXCEPT ![p] =
                       {[id |-> e, attempts |-> table[e].attempts] : e \in claimed}]
        /\ table' = [e \in Events |->
                       IF e \in claimed
                       THEN [table[e] EXCEPT !.lockedBy = p, !.lockedUntil = FUTURE]
                       ELSE table[e]]
        /\ pc' = [pc EXCEPT ![p] = "loop"] /\ pc[p] = "idle" /\ UNCHANGED <<current, sent>>
    BY <1>1 DEF FindPublishable
  <2> HIDE DEF claimed
  <2>5. Ids(batch'[p]) = claimed
    <3>1. batch'[p] = {[id |-> e, attempts |-> table[e].attempts] : e \in claimed}
      BY <1>0, <2>4 DEF TypeOK
    <3>2. \A m \in batch'[p] : m.id \in claimed
      BY <3>1
    <3>3. \A e \in claimed : \E m \in batch'[p] : m.id = e
      <4> TAKE e \in claimed
      <4>1. [id |-> e, attempts |-> table[e].attempts] \in batch'[p]
        BY <3>1
      <4> QED
        BY <4>1
    <3> QED
      BY <3>2, <3>3 DEF Ids
  <2>6. Taken' = [Taken EXCEPT ![p] = claimed]
    BY <1>0, <2>4, <2>5, TakenStep DEF TypeOK
  <2>7. Stage' = Stage
    BY <1>0, <2>4, StageStays DEF TypeOK, Row
  <2>8. Acked' = Acked
    BY <1>0, <2>4 DEF Acked, TypeOK
  <2> QED
    BY <2>1, <2>2, <2>3, <2>4, <2>6, <2>7, <2>8 DEF Delivery!Take
<1>2. ASSUME NEW m \in batch[p], Publish(p, m) \/ PublishFails(p, m)
      PROVE  (\E e \in Events : Delivery!Deliver(p, e)) \/ UNCHANGED Delivery!vars
  <2>1. m.id \in Events /\ m.id \in Taken[p] /\ Acked[p] = {}
    <3>1. m \in Snapshot /\ pc[p] = "loop"
      BY <1>0, <1>2 DEF Publish, PublishFails, TypeOK
    <3>2. m.id \in Ids(batch[p])
      BY DEF Ids
    <3> QED
      BY <3>1, <3>2, Seen DEF Snapshot
  <2>2. Stage' = Stage /\ Taken' = Taken
    BY <1>2 DEF Publish, PublishFails, Stage, Taken
  <2>3. \A q \in Publishers \ {p} : pc'[q] = pc[q] /\ current'[q] = current[q]
    BY <1>0, <1>2 DEF Publish, PublishFails, TypeOK
  <2>4. CASE Publish(p, m)
    <3>1. pc'[p] = "sent" /\ current'[p] = m /\ sent' = [sent EXCEPT ![m.id] = @ + 1]
      BY <1>0, <2>4 DEF Publish, TypeOK
    <3>2. Acked' = [Acked EXCEPT ![p] = {m.id}]
      BY <2>3, <3>1, AckedStep
    <3> QED
      BY <2>1, <2>2, <3>1, <3>2 DEF Delivery!Deliver
  <2>5. CASE PublishFails(p, m)
    <3>1. pc'[p] = "caught" /\ (sent' = sent \/ sent' = [sent EXCEPT ![m.id] = @ + 1])
      BY <1>0, <2>5 DEF PublishFails, TypeOK
    <3>2. Acked' = [Acked EXCEPT ![p] = {}]
      BY <2>3, <3>1, AckedStep
    <3>3. Acked' = Acked
      BY <2>1, <3>2 DEF Acked
    <3> QED
      BY <2>1, <2>2, <3>1, <3>2, <3>3 DEF Delivery!Deliver, Delivery!vars
  <2> QED
    BY <1>2, <2>4, <2>5
<1>3. ASSUME MarkPublished(p) \/ MarkPublishedFails(p)
      PROVE  \E e \in Events : Delivery!Settle(p, e)
  <2> DEFINE e == current[p].id
  <2>1. pc[p] = "sent" /\ e \in Events /\ e \in Acked[p] /\ UNCHANGED sent
    BY <1>0, <1>3, SendingHolds, Seen DEF MarkPublished, MarkPublishedFails
  <2>2. Delivery!Report(e, "settled")
    BY <1>0, <1>3, <2>1, MarkReports DEF MarkPublished, MarkPublishedFails
  <2>3. CASE MarkPublished(p)
    <3>1. Delivery!LetGo(p, e) /\ Acked' = [Acked EXCEPT ![p] = {}]
      BY <1>0, <2>1, <2>3, NextRowLetsGo DEF MarkPublished
    <3> QED
      BY <2>1, <2>2, <3>1 DEF Delivery!Settle
  <2>4. CASE MarkPublishedFails(p)
    <3>1. /\ pc'[p] = "caught" /\ UNCHANGED <<batch, current>>
          /\ \A q \in Publishers \ {p} : pc'[q] = pc[q]
      BY <1>0, <2>4 DEF MarkPublishedFails, TypeOK
    <3>2. Acked' = [Acked EXCEPT ![p] = {}]
      BY <3>1, AckedStep
    <3>3. UNCHANGED Taken
      BY <3>1 DEF Taken
    <3> QED
      BY <2>1, <2>2, <3>2, <3>3 DEF Delivery!Settle
  <2> QED
    BY <1>3, <2>3, <2>4
<1>4. ASSUME MarkFailed(p) \/ MarkFailedFails(p)
      PROVE  \E e \in Events : Delivery!Fail(p, e)
  <2> DEFINE e == current[p].id
  <2>1. /\ pc[p] = "caught" /\ e \in Events /\ e \in Taken[p] /\ Acked[p] = {}
        /\ UNCHANGED sent /\ NextRow(p) /\ current[p].attempts + 1 \in Nat
    <3>1. pc[p] = "caught" /\ UNCHANGED sent /\ NextRow(p)
      BY <1>4 DEF MarkFailed, MarkFailedFails
    <3>2. current[p] \in batch[p] /\ current[p] \in Snapshot
      BY <1>0, <3>1, SendingHolds
    <3>3. e \in Ids(batch[p])
      BY <3>2 DEF Ids
    <3>4. Taken[p] = Ids(batch[p]) /\ Acked[p] = {}
      BY <3>1, Seen
    <3>5. e \in Events /\ current[p].attempts \in Nat
      BY <3>2 DEF Snapshot
    <3> QED
      BY <3>1, <3>3, <3>4, <3>5
  <2>2. Delivery!Report(e, "due")
    <3>1. CASE MarkFailed(p)
      BY <1>0, <2>1, <3>1, FailureReports DEF MarkFailed
    <3>2. CASE MarkFailedFails(p)
      BY <3>2 DEF MarkFailedFails, Delivery!Report, Stage
    <3> QED
      BY <1>4, <3>1, <3>2
  <2>3. Delivery!LetGo(p, e) /\ Acked' = [Acked EXCEPT ![p] = {}]
    BY <1>0, <2>1, NextRowLetsGo
  <2>4. Acked' = Acked
    BY <2>1, <2>3 DEF Acked
  <2> QED
    BY <2>1, <2>2, <2>3, <2>4 DEF Delivery!Fail
<1>5. ASSUME EndBatch(p) PROVE UNCHANGED Delivery!vars
  <2>1. /\ UNCHANGED <<table, batch, current, sent>>
        /\ pc[p] = "loop" /\ pc'[p] = "idle" /\ \A q \in Publishers \ {p} : pc'[q] = pc[q]
    BY <1>0, <1>5 DEF EndBatch, TypeOK
  <2>2. Acked' = Acked
    BY <2>1 DEF Acked
  <2> QED
    BY <2>1, <2>2 DEF Delivery!vars, Stage, Taken
<1>6. ASSUME Crash(p) PROVE Delivery!Stop(p)
  <2>1. /\ UNCHANGED <<table, sent>> /\ pc'[p] = "idle" /\ batch'[p] = {}
        /\ \A q \in Publishers \ {p} :
             pc'[q] = pc[q] /\ batch'[q] = batch[q] /\ current'[q] = current[q]
    BY <1>0, <1>6 DEF Crash, TypeOK
  <2>2. Taken' = [Taken EXCEPT ![p] = {}]
    BY <2>1, TakenStep DEF Ids
  <2>3. Acked' = [Acked EXCEPT ![p] = {}]
    BY <2>1, AckedStep
  <2>4. UNCHANGED Stage
    BY <2>1 DEF Stage
  <2> QED
    BY <2>1, <2>2, <2>3, <2>4 DEF Delivery!Stop
<1> QED
  BY <1>1, <1>2, <1>3, <1>4, <1>5, <1>6 DEF Replica, Delivery!Next

\* So is what is done to a row by others.
LEMMA RowMoves ==
  ASSUME TypeOK, NEW e \in Events,
         UNCHANGED <<pc, batch, current, sent>>,
         \A f \in Events \ {e} : table'[f].status = table[f].status,
         \/ table[e].status = "ABSENT" /\ table'[e].status = "PENDING"
         \/ table[e].status \in {"PENDING", "FAILED"} /\ table'[e].status = "IGNORED"
         \/ table[e].status = "PUBLISHED" /\ table'[e].status = "DELETED"
  PROVE  Delivery!Next
<1>1. Stage' = [Stage EXCEPT ![e] = StageOf[table'[e].status]]
  BY StageStep
<1>2. UNCHANGED <<Taken, Acked, sent>>
  BY DEF Taken, Acked
<1>3. Delivery!Create(e) \/ Delivery!Withdraw(e) \/ Delivery!Forget(e)
  BY <1>1, <1>2, Seen, StageNames
  DEF Delivery!Create, Delivery!Withdraw, Delivery!Forget, Delivery!Moves
<1> QED
  BY <1>3 DEF Delivery!Next

LEMMA NextDelivers == ASSUME IInv, [Next]_vars PROVE [Delivery!Next]_(Delivery!vars)
<1>0. TypeOK
  BY DEF IInv
<1>1. ASSUME NEW p \in Publishers, Replica(p) PROVE Delivery!Next \/ UNCHANGED Delivery!vars
  BY <1>1, ReplicaDelivers
<1>2. ASSUME NEW e \in Events, CreatePending(e) \/ Ignore(e) \/ DeletePublished(e)
      PROVE  Delivery!Next
  <2>1. UNCHANGED <<pc, batch, current, sent>>
    BY <1>2 DEF CreatePending, Ignore, DeletePublished, replicaVars
  <2>2. \A f \in Events \ {e} : table'[f].status = table[f].status
    BY <1>0, <1>2 DEF CreatePending, Ignore, DeletePublished, TypeOK
  <2>3. \/ table[e].status = "ABSENT" /\ table'[e].status = "PENDING"
        \/ table[e].status \in {"PENDING", "FAILED"} /\ table'[e].status = "IGNORED"
        \/ table[e].status = "PUBLISHED" /\ table'[e].status = "DELETED"
    <3>1. CASE CreatePending(e)
      BY <1>0, <3>1 DEF CreatePending, TypeOK, Row
    <3>2. CASE Ignore(e)
      BY <1>0, <3>2 DEF Ignore, TypeOK
    <3>3. CASE DeletePublished(e)
      BY <1>0, <3>3 DEF DeletePublished, EmptyRow, TypeOK
    <3> QED
      BY <1>2, <3>1, <3>2, <3>3
  <2> QED
    BY <1>0, <2>1, <2>2, <2>3, RowMoves
<1>3. ASSUME \/ \E e \in Events : LeaseExpires(e) \/ BackoffElapses(e)
             \/ \E S \in SUBSET Events : Retry(S)
             \/ UNCHANGED vars
      PROVE  UNCHANGED Delivery!vars
  <2>1. \A f \in Events : table'[f].status = table[f].status
    <3>1. ASSUME NEW e \in Events, LeaseExpires(e) \/ BackoffElapses(e)
          PROVE  \A f \in Events : table'[f].status = table[f].status
      <4>1. table \in [Events -> Row]
        BY <1>0 DEF TypeOK
      <4>2. /\ [table[e] EXCEPT !.lockedUntil = PAST].status = table[e].status
            /\ [table[e] EXCEPT !.nextAttemptAt = PAST].status = table[e].status
        <5>1. table[e] \in Row
          BY <4>1
        <5> QED
          BY <5>1 DEF Row
      <4>3. ASSUME NEW r, r.status = table[e].status, table' = [table EXCEPT ![e] = r]
            PROVE  \A f \in Events : table'[f].status = table[f].status
        <5>1. \A f \in Events : table'[f] = IF f = e THEN r ELSE table[f]
          BY <4>1, <4>3
        <5> QED
          BY <4>3, <5>1
      <4>4. CASE table' = [table EXCEPT ![e] = [table[e] EXCEPT !.lockedUntil = PAST]]
        BY <4>2, <4>3, <4>4
      <4>5. CASE table' = [table EXCEPT ![e] = [table[e] EXCEPT !.nextAttemptAt = PAST]]
        BY <4>2, <4>3, <4>5
      <4> QED
        BY <3>1, <4>4, <4>5 DEF LeaseExpires, BackoffElapses
    <3>2. ASSUME NEW S \in SUBSET Events, Retry(S)
          PROVE  \A f \in Events : table'[f].status = table[f].status
      BY <1>0, <3>2 DEF Retry, Released, TypeOK, Row
    <3> QED
      BY <1>3, <3>1, <3>2 DEF vars
  <2>2. UNCHANGED <<pc, batch, current, sent>>
    BY <1>3 DEF LeaseExpires, BackoffElapses, Retry, replicaVars, vars
  <2> QED
    BY <2>1, <2>2, StageStays DEF Delivery!vars, Taken, Acked
<1> QED
  BY <1>1, <1>2, <1>3 DEF Next, Time, Operator

\* The replicas keep the promise of AtLeastOnce, for any rows, replicas and faults:
\* what they take is due, what they settle was delivered.
THEOREM Implementation == Spec => ImplementsAtLeastOnce
<1>1. Init => Delivery!Init
  <2> SUFFICES ASSUME Init PROVE Delivery!Init
    OBVIOUS
  <2>1. Stage = [e \in Events |-> "none"]
    BY StageNames DEF Init, Stage, EmptyRow
  <2> QED
    BY <2>1 DEF Init, Delivery!Init, Taken, Acked
<1>2. IInv /\ [Next]_vars => [Delivery!Next]_(Delivery!vars)
  BY NextDelivers
<1> QED
  BY <1>1, <1>2, Invariance, PTL DEF Spec, ImplementsAtLeastOnce, Delivery!Spec
=============================================================================
