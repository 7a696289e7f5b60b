------------------------------ MODULE InboxProofs ------------------------------
(***************************************************************************)
(* Proofs about Inbox, for any set of events, instances and results and    *)
(* any number of disturbances.                                             *)
(***************************************************************************)
EXTENDS Inbox, TLAPS

-----------------------------------------------------------------------------
(* The operators that edit a row                                           *)

LEMMA EmptyRowIsRow == EmptyRow \in Row
  BY DEF EmptyRow, Row, Instant, NONE

LEMMA RowEdits ==
  ASSUME NEW r \in Row, NEW w \in Workers
  PROVE  /\ Leased(r, w) \in Row
         /\ Completed(r) \in Row
         /\ Released(r, w) \in Row
         /\ [r EXCEPT !.lockedUntil = PAST] \in Row
<1>1. Leased(r, w) \in Row
  BY DEF Row, Instant, Leased
<1>2. Completed(r) \in Row
  BY DEF Row, Instant, Completed
<1>3. Released(r, w) \in Row
  BY DEF Row, Instant, Released
<1>4. [r EXCEPT !.lockedUntil = PAST] \in Row
  BY DEF Row, Instant
<1> QED
  BY <1>1, <1>2, <1>3, <1>4

LEMMA SavedRow ==
  ASSUME NEW r \in Row, NEW v \in Results
  PROVE  Saved(r, v) \in Row
  BY DEF Row, Saved

\* A claim leaves the row leased to the claiming call.
LEMMA LeasedFields ==
  ASSUME NEW r \in Row, NEW w \in Workers
  PROVE  Leased(r, w).token = w /\ Leased(r, w).lockedUntil = FUTURE
  BY DEF Row, Leased

\* A disturbance only ever adds to cause, and blames the events it hit.
LEMMA DisturbFacts ==
  ASSUME RowsOK, NEW d \in Disturbances, NEW hit, Disturb(d, hit)
  PROVE  /\ cause' \in [Events -> SUBSET Disturbances]
         /\ spent' \in Nat
         /\ \A e \in Events : cause[e] \subseteq cause'[e]
         /\ \A e \in Events : cause'[e] = {} => cause[e] = {} /\ e \notin hit
<1>1. cause \in [Events -> SUBSET Disturbances] /\ spent \in Nat
  BY DEF RowsOK
<1> QED
  BY <1>1 DEF Disturb

-----------------------------------------------------------------------------
(* The inductive invariant                                                 *)

\* A row and its effects fit: a result is there from savePrepared on, every
\* effect so far carried it, a completed row has had one and has no lease.
RowFits(e) ==
  /\ inbox[e].result = NoResult <=> inbox[e].status \in {"ABSENT", "PROCESSING"}
  /\ inbox[e].result = NoResult => emitted[e] = {}
  /\ emitted[e] \subseteq {inbox[e].result}
  /\ inbox[e].status = "COMPLETED" => inbox[e].lockedUntil = NONE /\ emitted[e] # {}

\* A call past savePrepared has the row's result in hand, whoever leases the
\* row by now, and a call past effect() can prove its effect.
InHand(w) ==
  /\ pc[w] \in {"ready", "effected"} => result[w] = inbox[event[w]].result
  /\ pc[w] = "effected" => emitted[event[w]] # {}

\* What the lease means for an event no disturbance has hit: a call on it owns
\* a lease that has not expired, and the effect was carried out exactly if the
\* row is completed or its owner is about to complete it.
Exclusive(e) ==
  /\ \A w \in Workers : Works(w, e) => inbox[e].token = w /\ inbox[e].lockedUntil = FUTURE
  /\ \/ times[e] = 0
     \/ /\ times[e] = 1
        /\ \/ inbox[e].status = "COMPLETED"
           \/ \E w \in Workers : pc[w] = "effected" /\ event[w] = e

DataFits ==
  /\ \A e \in Events : RowFits(e)
  /\ \A w \in Workers : InHand(w)

IInv ==
  /\ RowsOK
  /\ DeliveriesOK
  /\ DataFits
  /\ \A e \in Events : cause[e] = {} => Exclusive(e)

LEMMA InitIInv == Init => IInv
<1> SUFFICES ASSUME Init PROVE IInv
  OBVIOUS
<1>1. RowsOK
  BY InboxAssumption, EmptyRowIsRow DEF Init, RowsOK
<1>2. DataFits
  BY DEF Init, DataFits, RowFits, InHand, EmptyRow
<1>3. \A e \in Events : Exclusive(e)
  BY DEF Init, Exclusive, Works
<1>4. DeliveriesOK
  BY InboxAssumption DEF Init, DeliveriesOK, NoRecord, Topics, ReadTopics, DeadLetter
<1> QED
  BY <1>1, <1>2, <1>3, <1>4 DEF IInv

-----------------------------------------------------------------------------
(* Deliveries                                                              *)

\* The steps of the runner around process().
RunnerStep ==
  \/ \E w \in Workers : Dispatch(w) \/ DispatchFails(w) \/ Rebalance(w)
  \/ \E w \in Workers, e \in Events, t \in ReadTopics : Duplicate(w, e, t) \/ Busy(w, e, t)
  \/ \E e \in Events, t \in ReadTopics : Redeliver(e, t)

\* They leave rows, effects and the calls in progress alone.
LEMMA RunnerFrame ==
  ASSUME RowsOK, RunnerStep
  PROVE  /\ UNCHANGED <<inbox, emitted, times>>
         /\ \A u \in Workers :
              \/ pc'[u] = pc[u] /\ event'[u] = event[u] /\ result'[u] = result[u]
              \/ pc[u] \in {"idle", "thrown"} /\ pc'[u] \in {"idle", "thrown"}
         /\ event' \in [Workers -> Events] /\ result' \in [Workers -> Results \cup {NoResult}]
         /\ pc' \in [Workers -> {"idle", "claimed", "ready", "effected", "caught", "thrown"}]
<1> DEFINE Goal == /\ UNCHANGED <<inbox, emitted, times>>
                   /\ \A u \in Workers :
                        \/ pc'[u] = pc[u] /\ event'[u] = event[u] /\ result'[u] = result[u]
                        \/ pc[u] \in {"idle", "thrown"} /\ pc'[u] \in {"idle", "thrown"}
                   /\ event' \in [Workers -> Events]
                   /\ result' \in [Workers -> Results \cup {NoResult}]
                   /\ pc' \in [Workers -> {"idle", "claimed", "ready", "effected", "caught",
                                            "thrown"}]
<1>1. ASSUME NEW w \in Workers, Dispatch(w) \/ DispatchFails(w) PROVE Goal
  BY <1>1 DEF Dispatch, DispatchFails, Leave, Goto, RowsOK, effectVars
<1>2. ASSUME NEW w \in Workers, Rebalance(w) PROVE Goal
  BY <1>2 DEF Rebalance, RowsOK, effectVars
<1>3. ASSUME NEW w \in Workers, NEW e \in Events, NEW t \in ReadTopics, Duplicate(w, e, t)
      PROVE Goal
  BY <1>3 DEF Duplicate, RowsOK, callVars, effectVars
<1>4. ASSUME NEW w \in Workers, NEW e \in Events, NEW t \in ReadTopics, Busy(w, e, t)
      PROVE Goal
  BY <1>4 DEF Busy, Delivered, Take, Goto, RowsOK, effectVars
<1>5. ASSUME NEW e \in Events, NEW t \in ReadTopics, Redeliver(e, t) PROVE Goal
  BY <1>5 DEF Redeliver, RowsOK, callVars, effectVars
<1> QED
  BY <1>1, <1>2, <1>3, <1>4, <1>5 DEF RunnerStep

LEMMA RunnerBlames ==
  ASSUME RowsOK, RunnerStep
  PROVE  /\ cause' \in [Events -> SUBSET Disturbances] /\ spent' \in Nat
         /\ \A e \in Events : cause[e] \subseteq cause'[e]
<1>1. CASE Undisturbed
  BY <1>1 DEF Undisturbed, RowsOK
<1>2. ASSUME NEW d \in Disturbances, Disturb(d, {})
      PROVE  /\ cause' \in [Events -> SUBSET Disturbances] /\ spent' \in Nat
             /\ \A e \in Events : cause[e] \subseteq cause'[e]
  BY <1>2, DisturbFacts
<1>3. Undisturbed \/ \E d \in Disturbances : Disturb(d, {})
  BY DEF RunnerStep, Dispatch, DispatchFails, Rebalance, Duplicate, Busy, Redeliver,
         Disturbances
<1> QED
  BY <1>1, <1>2, <1>3

\* Records are counted, and a call knows which it has in hand.
LEMMA NextDeliveriesOK == RowsOK /\ DeliveriesOK /\ [Next]_vars => DeliveriesOK'
<1> SUFFICES ASSUME RowsOK, DeliveriesOK, [Next]_vars PROVE DeliveriesOK'
  OBVIOUS
<1> DEFINE CopiesOK == copies' \in [Events -> [Topics -> Nat]]
           SettledOK == settled' \in [Events -> [ReadTopics -> Nat]]
           RipeOK == ripe' \in [Events -> [Long -> Nat]]
           RecordOK == record' \in [Workers -> [topic: ReadTopics, owned: BOOLEAN]]
<1>0. /\ copies \in [Events -> [Topics -> Nat]] /\ settled \in [Events -> [ReadTopics -> Nat]]
      /\ ripe \in [Events -> [Long -> Nat]]
      /\ record \in [Workers -> [topic: ReadTopics, owned: BOOLEAN]]
      /\ event \in [Workers -> Events]
  BY DEF DeliveriesOK, RowsOK
<1>1. Long \subseteq Topics /\ Stages \in Nat
  BY InboxAssumption DEF Topics, DeadLetter
<1>2. ASSUME NEW w \in Workers, SendCopy(w) PROVE CopiesOK
  <2>1. record[w].topic + 1 \in Topics
    BY <1>0, <1>1 DEF Topics, ReadTopics, DeadLetter
  <2> QED
    BY <1>0, <1>2, <2>1 DEF SendCopy
<1>3. ASSUME NEW w \in Workers, Settle(w) PROVE SettledOK
  BY <1>0, <1>3 DEF Settle
<1>4. ASSUME CopiesOK, DelaysElapse PROVE RipeOK
  BY <1>0, <1>1, <1>4 DEF DelaysElapse
<1>5. ASSUME NEW w \in Workers, Leave(w) PROVE RecordOK
  BY <1>0, <1>1, <1>5 DEF Leave, NoRecord, ReadTopics
<1>6. ASSUME NEW w \in Workers, NEW e \in Events, NEW t \in ReadTopics, Take(w, e, t)
      PROVE RecordOK
  BY <1>0, <1>6 DEF Take
<1>7. ASSUME NEW e \in Events, NEW t \in ReadTopics,
             settled' = [settled EXCEPT ![e][t] = @ + 1]
      PROVE SettledOK
  BY <1>0, <1>7
<1>8. ASSUME CopiesOK, SettledOK, RipeOK, RecordOK PROVE DeliveriesOK'
  BY <1>8 DEF DeliveriesOK
<1>9. /\ UNCHANGED copies => CopiesOK
      /\ UNCHANGED settled => SettledOK
      /\ UNCHANGED ripe => RipeOK
      /\ UNCHANGED record => RecordOK
  BY <1>0
<1>10. ASSUME NEW w \in Workers, NEW e \in Events, NEW t \in ReadTopics,
              \/ Claim(w, e, t) \/ Duplicate(w, e, t) \/ Busy(w, e, t) \/ ClaimFails(w, e, t)
       PROVE DeliveriesOK'
  <2>1. CopiesOK /\ RipeOK
    BY <1>9, <1>10 DEF Claim, Duplicate, Busy, ClaimFails, kafkaVars
  <2>2. SettledOK
    BY <1>7, <1>9, <1>10 DEF Claim, Duplicate, Busy, ClaimFails, kafkaVars
  <2>3. RecordOK
    BY <1>6, <1>9, <1>10 DEF Claim, Duplicate, Busy, ClaimFails, callVars
  <2> QED
    BY <1>8, <2>1, <2>2, <2>3
<1>11. ASSUME NEW w \in Workers, NEW v \in Results, SavePrepared(w, v) \/ SaveFails(w, v)
       PROVE DeliveriesOK'
  BY <1>8, <1>9, <1>11 DEF SavePrepared, SaveFails, kafkaVars
<1>12. ASSUME NEW w \in Workers,
              \/ SaveLosesLease(w) \/ PrepareFails(w) \/ Effect(w) \/ EffectFails(w)
              \/ CompleteLosesLease(w) \/ ReleaseFails(w)
       PROVE DeliveriesOK'
  BY <1>8, <1>9, <1>12 DEF SaveLosesLease, PrepareFails, Effect, EffectFails,
                           CompleteLosesLease, ReleaseFails, kafkaVars
<1>13. ASSUME NEW w \in Workers, Dispatch(w) PROVE DeliveriesOK'
  <2>1. CopiesOK /\ SettledOK /\ RecordOK
    BY <1>2, <1>3, <1>5, <1>13 DEF Dispatch
  <2> QED
    BY <1>4, <1>8, <1>13, <2>1 DEF Dispatch
<1>14. ASSUME NEW w \in Workers, DispatchFails(w) PROVE DeliveriesOK'
  <2>1. CopiesOK /\ SettledOK /\ RecordOK
    BY <1>2, <1>5, <1>9, <1>14 DEF DispatchFails
  <2> QED
    BY <1>4, <1>8, <1>14, <2>1 DEF DispatchFails
<1>15. ASSUME NEW w \in Workers, MarkCompleted(w) PROVE DeliveriesOK'
  <2>1. CopiesOK /\ SettledOK /\ RecordOK
    BY <1>3, <1>5, <1>9, <1>15 DEF MarkCompleted
  <2> QED
    BY <1>4, <1>8, <1>15, <2>1 DEF MarkCompleted
<1>16. ASSUME NEW w \in Workers, CompleteFails(w) \/ Release(w) PROVE DeliveriesOK'
  <2>1. CopiesOK /\ SettledOK /\ RecordOK
    BY <1>9, <1>16 DEF CompleteFails, Release
  <2> QED
    BY <1>4, <1>8, <1>16, <2>1 DEF CompleteFails, Release
<1>17. ASSUME NEW w \in Workers, Crash(w) PROVE DeliveriesOK'
  BY <1>5, <1>8, <1>9, <1>17 DEF Crash, kafkaVars
<1>18. ASSUME NEW w \in Workers, Rebalance(w) PROVE DeliveriesOK'
  <2>1. RecordOK
    BY <1>0, <1>18 DEF Rebalance
  <2> QED
    BY <1>8, <1>9, <1>18, <2>1 DEF Rebalance, kafkaVars
<1>19. ASSUME NEW e \in Events, LeaseExpires(e) PROVE DeliveriesOK'
  <2>1. CopiesOK /\ SettledOK /\ RecordOK
    BY <1>9, <1>19 DEF LeaseExpires, callVars
  <2> QED
    BY <1>4, <1>8, <1>19, <2>1 DEF LeaseExpires
<1>20. ASSUME NEW e \in Events, DeleteCompleted(e) PROVE DeliveriesOK'
  BY <1>8, <1>9, <1>20 DEF DeleteCompleted, kafkaVars, callVars
<1>21. ASSUME NEW e \in Events, NEW t \in ReadTopics, Redeliver(e, t) PROVE DeliveriesOK'
  <2>1. SettledOK
    BY <1>0, <1>21 DEF Redeliver
  <2> QED
    BY <1>8, <1>9, <1>21, <2>1 DEF Redeliver, callVars
<1>22. CASE UNCHANGED vars
  BY <1>8, <1>9, <1>22 DEF vars
<1> QED
  BY <1>10, <1>11, <1>12, <1>13, <1>14, <1>15, <1>16, <1>17, <1>18, <1>19, <1>20, <1>21,
     <1>22
  DEF Next, Call

-----------------------------------------------------------------------------
(* Type correctness                                                        *)

LEMMA NextRowsOK == RowsOK /\ DataFits /\ [Next]_vars => RowsOK'
<1> SUFFICES ASSUME RowsOK, DataFits, [Next]_vars PROVE RowsOK'
  OBVIOUS
<1> DEFINE Blamed == cause' \in [Events -> SUBSET Disturbances]
                     /\ spent' \in Nat
<1>1. ASSUME NEW w \in Workers, NEW e \in Events, NEW t \in ReadTopics, Claim(w, e, t)
      PROVE RowsOK'
  <2>1. inbox' \in [Events -> Row]
    BY <1>1, RowEdits DEF Claim, RowsOK
  <2>2. /\ result' \in [Workers -> Results \cup {NoResult}]
        /\ result'[w] = inbox[e].result
        /\ \A u \in Workers \ {w} : result'[u] = result[u]
    BY <1>1 DEF Claim, RowsOK, Row
  <2>3. pc'[w] = "ready" => inbox[e].result \in Results
    <3>1. pc'[w] = "ready" => inbox[e].status = "PREPARED"
      BY <1>1 DEF Claim, Delivered, Take, Goto, RowsOK
    <3> QED
      BY <3>1 DEF DataFits, RowFits, RowsOK, Row
  <2>4. /\ pc' \in [Workers -> {"idle", "claimed", "ready", "effected", "caught", "thrown"}]
        /\ pc'[w] \in {"claimed", "ready"}
        /\ \A u \in Workers \ {w} : pc'[u] = pc[u]
    BY <1>1 DEF Claim, Delivered, Take, Goto, RowsOK
  <2>5. event' \in [Workers -> Events] /\ UNCHANGED <<emitted, times, cause, spent>>
    BY <1>1 DEF Claim, Take, RowsOK, effectVars, Undisturbed
  <2> QED
    BY <2>1, <2>2, <2>3, <2>4, <2>5 DEF RowsOK
<1>2. ASSUME NEW w \in Workers, NEW e \in Events, NEW t \in ReadTopics, ClaimFails(w, e, t)
      PROVE RowsOK'
  <2>1. inbox' \in [Events -> Row]
    <3>1. Leased(inbox[e], w) \in Row
      BY RowEdits DEF RowsOK
    <3> QED
      BY <1>2, <3>1 DEF ClaimFails, RowsOK
  <2>2. Blamed
    BY <1>2, DisturbFacts DEF ClaimFails, Disturbances
  <2> QED
    BY <1>2, <2>1, <2>2 DEF ClaimFails, Take, Goto, RowsOK, effectVars
<1>3. ASSUME NEW w \in Workers, NEW v \in Results, SavePrepared(w, v) PROVE RowsOK'
  <2>1. inbox' \in [Events -> Row]
    BY <1>3, SavedRow DEF SavePrepared, RowsOK
  <2> QED
    BY <1>3, <2>1 DEF SavePrepared, Goto, RowsOK, effectVars, Undisturbed
<1>4. ASSUME NEW w \in Workers, NEW v \in Results, SaveFails(w, v) PROVE RowsOK'
  <2>1. inbox' \in [Events -> Row]
    BY <1>4, SavedRow DEF SaveFails, RowsOK
  <2>2. Blamed
    BY <1>4, DisturbFacts DEF SaveFails, Disturbances
  <2> QED
    BY <1>4, <2>1, <2>2 DEF SaveFails, Goto, RowsOK, effectVars
<1>5. ASSUME NEW w \in Workers, SaveLosesLease(w) \/ CompleteLosesLease(w) PROVE RowsOK'
  BY <1>5 DEF SaveLosesLease, CompleteLosesLease, Goto, RowsOK, effectVars, Undisturbed
<1>6. ASSUME NEW w \in Workers, PrepareFails(w) PROVE RowsOK'
  <2>1. Blamed
    BY <1>6, DisturbFacts DEF PrepareFails, Disturbances
  <2> QED
    BY <1>6, <2>1 DEF PrepareFails, Goto, RowsOK, effectVars
<1>7. ASSUME NEW w \in Workers, Effect(w) PROVE RowsOK'
  BY <1>7 DEF Effect, CarryOut, Goto, RowsOK, Undisturbed
<1>8. ASSUME NEW w \in Workers, EffectFails(w) PROVE RowsOK'
  <2>1. Blamed
    BY <1>8, DisturbFacts DEF EffectFails, Disturbances
  <2>2. emitted' \in [Events -> SUBSET (Results \cup {NoResult})] /\ times' \in [Events -> Nat]
    BY <1>8 DEF EffectFails, CarryOut, RowsOK, effectVars
  <2> QED
    BY <1>8, <2>1, <2>2 DEF EffectFails, Goto, RowsOK
<1>9. ASSUME NEW w \in Workers, MarkCompleted(w) PROVE RowsOK'
  <2>1. inbox' \in [Events -> Row]
    BY <1>9, RowEdits DEF MarkCompleted, RowsOK
  <2> QED
    BY <1>9, <2>1 DEF MarkCompleted, Leave, Goto, RowsOK, effectVars, Undisturbed
<1>10. ASSUME NEW w \in Workers, CompleteFails(w) PROVE RowsOK'
  <2>1. inbox' \in [Events -> Row]
    <3>1. Completed(inbox[event[w]]) \in Row /\ event[w] \in Events
      BY RowEdits DEF RowsOK
    <3> QED
      BY <1>10, <3>1 DEF CompleteFails, RowsOK
  <2>2. Blamed
    BY <1>10, DisturbFacts DEF CompleteFails, Disturbances
  <2> QED
    BY <1>10, <2>1, <2>2 DEF CompleteFails, Goto, RowsOK, effectVars
<1>11. ASSUME NEW w \in Workers, Release(w) PROVE RowsOK'
  <2>1. inbox' \in [Events -> Row]
    BY <1>11, RowEdits DEF Release, RowsOK
  <2> QED
    BY <1>11, <2>1 DEF Release, Goto, RowsOK, effectVars, Undisturbed
<1>12. ASSUME NEW w \in Workers, ReleaseFails(w) PROVE RowsOK'
  <2>1. Blamed
    BY <1>12, DisturbFacts DEF ReleaseFails, Disturbances
  <2> QED
    BY <1>12, <2>1 DEF ReleaseFails, Goto, RowsOK, effectVars
<1>13. ASSUME NEW w \in Workers, Crash(w) PROVE RowsOK'
  <2>1. Blamed
    BY <1>13, DisturbFacts DEF Crash, Disturbances
  <2> QED
    BY <1>13, <2>1 DEF Crash, Leave, Goto, RowsOK, effectVars
<1>14. ASSUME NEW e \in Events, LeaseExpires(e) PROVE RowsOK'
  <2>1. inbox' \in [Events -> Row]
    <3>1. /\ inbox \in [Events -> Row]
          /\ inbox' = [inbox EXCEPT ![e] = [inbox[e] EXCEPT !.lockedUntil = PAST]]
      BY <1>14 DEF LeaseExpires, RowsOK
    <3>2. [inbox[e] EXCEPT !.lockedUntil = PAST] \in Row
      BY <3>1 DEF Row, Instant
    <3> QED
      BY <3>1, <3>2
  <2>2. Blamed
    BY <1>14, DisturbFacts DEF LeaseExpires, Undisturbed, Disturbances, RowsOK
  <2>3. UNCHANGED <<pc, event, result, emitted, times>>
    BY <1>14 DEF LeaseExpires, callVars, effectVars
  <2> QED
    BY <2>1, <2>2, <2>3 DEF RowsOK
<1>15. ASSUME NEW e \in Events, DeleteCompleted(e) PROVE RowsOK'
  <2>1. inbox' \in [Events -> Row]
    BY <1>15, EmptyRowIsRow DEF DeleteCompleted, RowsOK
  <2>2. Blamed
    BY <1>15, DisturbFacts DEF DeleteCompleted, Disturbances
  <2> QED
    BY <1>15, <2>1, <2>2 DEF DeleteCompleted, RowsOK, callVars
<1>16. CASE UNCHANGED vars
  BY <1>16 DEF RowsOK, vars
<1>17. ASSUME RunnerStep PROVE RowsOK'
  <2>1. \A u \in Workers : pc'[u] \in {"ready", "effected"} => result'[u] \in Results
    BY <1>17, RunnerFrame DEF RowsOK
  <2> QED
    BY <1>17, <2>1, RunnerFrame, RunnerBlames DEF RowsOK
<1> QED
  BY <1>1, <1>2, <1>3, <1>4, <1>5, <1>6, <1>7, <1>8, <1>9, <1>10, <1>11, <1>12,
     <1>13, <1>14, <1>15, <1>16, <1>17
  DEF Next, Call, RunnerStep

LEMMA CauseGrows ==
  ASSUME RowsOK, [Next]_vars, NEW e \in Events
  PROVE  cause[e] \subseteq cause'[e]
<1>1. ASSUME NEW d \in Disturbances, NEW hit, Disturb(d, hit) PROVE cause[e] \subseteq cause'[e]
  BY <1>1, DisturbFacts
<1>2. ASSUME UNCHANGED cause PROVE cause[e] \subseteq cause'[e]
  BY <1>2
<1>3. ASSUME NEW w \in Workers, NEW f \in Events, NEW t \in ReadTopics,
             Claim(w, f, t) \/ ClaimFails(w, f, t)
      PROVE cause[e] \subseteq cause'[e]
  BY <1>1, <1>2, <1>3 DEF Claim, ClaimFails, Undisturbed, Disturbances
<1>4. ASSUME NEW w \in Workers, NEW v \in Results, SavePrepared(w, v) \/ SaveFails(w, v)
      PROVE cause[e] \subseteq cause'[e]
  BY <1>1, <1>2, <1>4 DEF SavePrepared, SaveFails, Undisturbed, Disturbances
<1>5. ASSUME NEW w \in Workers,
             \/ SaveLosesLease(w) \/ PrepareFails(w) \/ Effect(w) \/ EffectFails(w)
      PROVE cause[e] \subseteq cause'[e]
  BY <1>1, <1>2, <1>5 DEF SaveLosesLease, PrepareFails, Effect, EffectFails, Undisturbed,
                          Disturbances
<1>6. ASSUME NEW w \in Workers,
             \/ MarkCompleted(w) \/ CompleteLosesLease(w) \/ CompleteFails(w)
             \/ Release(w) \/ ReleaseFails(w) \/ Crash(w)
      PROVE cause[e] \subseteq cause'[e]
  BY <1>1, <1>2, <1>6 DEF MarkCompleted, CompleteLosesLease, CompleteFails, Release,
                          ReleaseFails, Crash, Undisturbed, Disturbances
<1>7. ASSUME NEW f \in Events, LeaseExpires(f) \/ DeleteCompleted(f) PROVE cause[e] \subseteq cause'[e]
  BY <1>1, <1>2, <1>7 DEF LeaseExpires, DeleteCompleted, Undisturbed, Disturbances
<1>8. CASE UNCHANGED vars
  BY <1>2, <1>8 DEF vars
<1>9. CASE RunnerStep
  BY <1>9, RunnerBlames
<1> QED
  BY <1>3, <1>4, <1>5, <1>6, <1>7, <1>8, <1>9 DEF Next, Call, RunnerStep

-----------------------------------------------------------------------------
(* Rows and effects                                                        *)

\* Everything a step can do to the row of e.
RowStep(e) ==
  \/ inbox'[e] = inbox[e]
  \/ \E w \in Workers : Claimable(inbox[e]) /\ inbox'[e] = Leased(inbox[e], w)
  \/ \E v \in Results : inbox[e].status = "PROCESSING" /\ inbox'[e] = Saved(inbox[e], v)
  \/ /\ inbox[e].status = "PREPARED"
     /\ emitted[e] # {}
     /\ inbox'[e] = Completed(inbox[e])
  \/ \E w \in Workers : inbox'[e] = Released(inbox[e], w)
  \/ inbox[e].lockedUntil = FUTURE /\ inbox'[e] = [inbox[e] EXCEPT !.lockedUntil = PAST]

\* Everything a step can do to the effects of e.
EffectStep(e) ==
  \/ emitted'[e] = emitted[e]
  \/ /\ inbox[e].result # NoResult
     /\ inbox'[e] = inbox[e]
     /\ emitted'[e] = emitted[e] \cup {inbox[e].result}

Forgotten(e) ==
  /\ inbox[e].status = "COMPLETED"
  /\ \A w \in Workers : ~Works(w, e)
  /\ inbox'[e] = EmptyRow
  /\ emitted'[e] = {}
  /\ "retention" \in cause'[e]

LEMMA StepsOfARow ==
  ASSUME RowsOK, DataFits, [Next]_vars, NEW e \in Events
  PROVE  (RowStep(e) /\ EffectStep(e)) \/ Forgotten(e)
<1> DEFINE Goal == (RowStep(e) /\ EffectStep(e)) \/ Forgotten(e)
<1>1. ASSUME NEW w \in Workers, NEW f \in Events, NEW t \in ReadTopics,
             Claim(w, f, t) \/ ClaimFails(w, f, t)
      PROVE Goal
  BY <1>1 DEF Claim, ClaimFails, RowStep, EffectStep, RowsOK, effectVars
<1>2. ASSUME NEW w \in Workers, NEW v \in Results, SavePrepared(w, v) \/ SaveFails(w, v)
      PROVE Goal
  BY <1>2 DEF SavePrepared, SaveFails, SaveMatches, RowStep, EffectStep, RowsOK, effectVars
<1>3. ASSUME NEW w \in Workers,
             \/ SaveLosesLease(w) \/ PrepareFails(w) \/ CompleteLosesLease(w)
             \/ ReleaseFails(w) \/ Crash(w)
      PROVE Goal
  BY <1>3 DEF SaveLosesLease, PrepareFails, CompleteLosesLease, ReleaseFails, Crash,
              RowStep, EffectStep, effectVars
<1>4. ASSUME NEW w \in Workers, Effect(w) \/ EffectFails(w) PROVE Goal
  <2>1. /\ pc[w] = "ready"
        /\ inbox' = inbox
        /\ emitted' = emitted \/ CarryOut(w)
    BY <1>4 DEF Effect, EffectFails, effectVars
  <2>2. result[w] = inbox[event[w]].result /\ result[w] # NoResult
    BY <2>1, InboxAssumption DEF DataFits, InHand, RowsOK
  <2> QED
    BY <2>1, <2>2 DEF CarryOut, RowStep, EffectStep, RowsOK
<1>5. ASSUME NEW w \in Workers, MarkCompleted(w) \/ CompleteFails(w) PROVE Goal
  <2>1. pc[w] = "effected" /\ emitted[event[w]] # {} /\ emitted' = emitted
    BY <1>5 DEF MarkCompleted, CompleteFails, DataFits, InHand, effectVars
  <2>2. \/ inbox' = inbox
        \/ /\ inbox[event[w]].status = "PREPARED"
           /\ inbox' = [inbox EXCEPT ![event[w]] = Completed(@)]
    BY <1>5 DEF MarkCompleted, CompleteFails, CompleteMatches
  <2> QED
    BY <2>1, <2>2 DEF RowStep, EffectStep, RowsOK
<1>6. ASSUME NEW w \in Workers, Release(w) PROVE Goal
  BY <1>6 DEF Release, RowStep, EffectStep, RowsOK, effectVars
<1>7. ASSUME NEW f \in Events, LeaseExpires(f) PROVE Goal
  <2>1. /\ inbox[f].lockedUntil = FUTURE
        /\ inbox' = [inbox EXCEPT ![f] = [inbox[f] EXCEPT !.lockedUntil = PAST]]
        /\ emitted' = emitted
    BY <1>7 DEF LeaseExpires, effectVars
  <2> QED
    BY <2>1 DEF RowStep, EffectStep, RowsOK
<1>8. ASSUME NEW f \in Events, DeleteCompleted(f) PROVE Goal
  BY <1>8 DEF DeleteCompleted, Disturb, RowStep, EffectStep, Forgotten, RowsOK
<1>9. CASE UNCHANGED vars
  BY <1>9 DEF vars, RowStep, EffectStep
<1>10. CASE RunnerStep
  BY <1>10, RunnerFrame DEF RowStep, EffectStep
<1> QED
  BY <1>1, <1>2, <1>3, <1>4, <1>5, <1>6, <1>7, <1>8, <1>9, <1>10 DEF Next, Call, RunnerStep

LEMMA RowFitsKept ==
  ASSUME RowsOK, DataFits, [Next]_vars, NEW e \in Events
  PROVE  RowFits(e)'
<1>1. RowFits(e) /\ inbox[e] \in Row
  BY DEF DataFits, RowsOK
<1>2. CASE Forgotten(e)
  BY <1>2 DEF Forgotten, RowFits, EmptyRow
<1>3. CASE RowStep(e) /\ EffectStep(e)
  <2>1. CASE inbox'[e] = inbox[e]
    BY <1>1, <1>3, <2>1 DEF EffectStep, RowFits
  <2>2. CASE inbox'[e] # inbox[e]
    <3>1. emitted'[e] = emitted[e]
      BY <1>3, <2>2 DEF EffectStep
    <3>2. CASE \E w \in Workers : Claimable(inbox[e]) /\ inbox'[e] = Leased(inbox[e], w)
      <4> PICK w \in Workers : Claimable(inbox[e]) /\ inbox'[e] = Leased(inbox[e], w)
        BY <3>2
      <4>1. /\ inbox'[e].result = inbox[e].result
            /\ inbox'[e].status = IF inbox[e].status = "ABSENT" THEN "PROCESSING"
                                                               ELSE inbox[e].status
            /\ inbox[e].status # "COMPLETED"
        BY <1>1 DEF Leased, Row, Claimable
      <4> QED
        BY <1>1, <3>1, <4>1 DEF RowFits
    <3>3. CASE \E v \in Results : /\ inbox[e].status = "PROCESSING"
                                  /\ inbox'[e] = Saved(inbox[e], v)
      <4> PICK v \in Results : inbox[e].status = "PROCESSING" /\ inbox'[e] = Saved(inbox[e], v)
        BY <3>3
      <4>1. inbox'[e].status = "PREPARED" /\ inbox'[e].result = v /\ v # NoResult
        BY <1>1, InboxAssumption DEF Saved, Row
      <4> QED
        BY <1>1, <3>1, <4>1 DEF RowFits
    <3>4. CASE /\ inbox[e].status = "PREPARED"
               /\ emitted[e] # {}
               /\ inbox'[e] = Completed(inbox[e])
      <4>1. /\ inbox'[e].status = "COMPLETED" /\ inbox'[e].result = inbox[e].result
            /\ inbox'[e].lockedUntil = NONE
        BY <1>1, <3>4 DEF Completed, Row
      <4> QED
        BY <1>1, <3>1, <3>4, <4>1 DEF RowFits
    <3>5. CASE \E w \in Workers : inbox'[e] = Released(inbox[e], w)
      <4> PICK w \in Workers : inbox'[e] = Released(inbox[e], w)
        BY <3>5
      <4>1. /\ inbox'[e].status = inbox[e].status /\ inbox'[e].result = inbox[e].result
            /\ inbox[e].status # "COMPLETED"
        BY <1>1, <2>2 DEF Released, Row
      <4> QED
        BY <1>1, <3>1, <4>1 DEF RowFits
    <3>6. CASE /\ inbox[e].lockedUntil = FUTURE
               /\ inbox'[e] = [inbox[e] EXCEPT !.lockedUntil = PAST]
      <4>1. inbox'[e].status = inbox[e].status /\ inbox'[e].result = inbox[e].result
        BY <1>1, <3>6 DEF Row
      <4> QED
        BY <1>1, <3>1, <3>6, <4>1 DEF RowFits, NONE, FUTURE
    <3> QED
      BY <1>3, <2>2, <3>2, <3>3, <3>4, <3>5, <3>6 DEF RowStep
  <2> QED
    BY <2>1, <2>2
<1> QED
  BY <1>2, <1>3, StepsOfARow

\* A saved result outlives every step but the one that forgets the event.
LEMMA ResultKept ==
  ASSUME RowsOK, DataFits, [Next]_vars, NEW e \in Events, inbox[e].result # NoResult
  PROVE  \/ /\ inbox'[e].result = inbox[e].result
            /\ inbox'[e].status # "PROCESSING"
            /\ inbox[e].status = "COMPLETED" => inbox'[e].status = "COMPLETED"
            /\ emitted[e] \subseteq emitted'[e]
         \/ Forgotten(e)
<1>1. RowFits(e) /\ inbox[e] \in Row
  BY DEF DataFits, RowsOK
<1>2. inbox[e].status \in {"PREPARED", "COMPLETED"}
  BY <1>1 DEF RowFits, Row
<1>3. CASE RowStep(e) /\ EffectStep(e)
  <2>1. emitted[e] \subseteq emitted'[e]
    BY <1>3 DEF EffectStep
  <2>2. /\ inbox'[e].result = inbox[e].result
        /\ inbox'[e].status # "PROCESSING"
        /\ inbox[e].status = "COMPLETED" => inbox'[e].status = "COMPLETED"
    <3>1. ASSUME NEW w \in Workers, inbox'[e] = Leased(inbox[e], w), Claimable(inbox[e])
          PROVE inbox'[e].result = inbox[e].result /\ inbox'[e].status = inbox[e].status
      BY <1>1, <1>2, <3>1 DEF Leased, Row
    <3>2. ASSUME inbox'[e] = Completed(inbox[e])
          PROVE inbox'[e].result = inbox[e].result /\ inbox'[e].status = "COMPLETED"
      BY <1>1, <3>2 DEF Completed, Row
    <3>3. ASSUME NEW w \in Workers, inbox'[e] = Released(inbox[e], w)
          PROVE inbox'[e].result = inbox[e].result /\ inbox'[e].status = inbox[e].status
      BY <1>1, <3>3 DEF Released, Row
    <3>4. ASSUME inbox'[e] = [inbox[e] EXCEPT !.lockedUntil = PAST]
          PROVE inbox'[e].result = inbox[e].result /\ inbox'[e].status = inbox[e].status
      BY <1>1, <3>4 DEF Row
    <3> QED
      BY <1>2, <1>3, <3>1, <3>2, <3>3, <3>4 DEF RowStep
  <2> QED
    BY <2>1, <2>2
<1> QED
  BY <1>3, StepsOfARow

\* A call's knowledge of its row survives every step, its own and others'.
LEMMA InHandKept ==
  ASSUME RowsOK, DataFits, [Next]_vars, NEW u \in Workers
  PROVE  InHand(u)'
<1>1. InHand(u) /\ event[u] \in Events /\ inbox[event[u]] \in Row
  BY DEF DataFits, RowsOK
\* A call that does not move keeps its knowledge: its row has a result already.
<1>2. ASSUME pc'[u] = pc[u], event'[u] = event[u], result'[u] = result[u] PROVE InHand(u)'
  <2>1. CASE pc[u] \notin {"ready", "effected"}
    BY <1>2, <2>1 DEF InHand
  <2>2. CASE pc[u] \in {"ready", "effected"}
    <3>1. inbox[event[u]].result # NoResult
      BY <1>1, <2>2, InboxAssumption DEF InHand, RowsOK
    <3>2. ~Forgotten(event[u])
      BY <2>2 DEF Forgotten, Works
    <3>3. /\ inbox'[event[u]].result = inbox[event[u]].result
          /\ emitted[event[u]] \subseteq emitted'[event[u]]
      BY <1>1, <3>1, <3>2, ResultKept
    <3> QED
      BY <1>1, <1>2, <3>3 DEF InHand
  <2> QED
    BY <2>1, <2>2
<1>3. ASSUME pc'[u] \notin {"ready", "effected"} PROVE InHand(u)'
  BY <1>3 DEF InHand
<1>4. ASSUME NEW w \in Workers, NEW e \in Events, NEW t \in ReadTopics, Claim(w, e, t)
      PROVE InHand(u)'
  <2>1. CASE u # w
    BY <1>2, <1>4, <2>1 DEF Claim, Delivered, Take, Goto, RowsOK
  <2>2. CASE u = w
    <3>1. event'[u] = e /\ result'[u] = inbox[e].result /\ pc'[u] # "effected"
      BY <1>4, <2>2 DEF Claim, Delivered, Take, Goto, RowsOK
    <3>2. inbox'[e] = Leased(inbox[e], w) /\ inbox[e] \in Row
      BY <1>4 DEF Claim, RowsOK
    <3>3. inbox'[e].result = inbox[e].result
      BY <3>2 DEF Leased, Row
    <3> QED
      BY <3>1, <3>3 DEF InHand
  <2> QED
    BY <2>1, <2>2
<1>5. ASSUME NEW w \in Workers, NEW e \in Events, NEW t \in ReadTopics, ClaimFails(w, e, t)
      PROVE InHand(u)'
  BY <1>2, <1>3, <1>5 DEF ClaimFails, Take, Goto, RowsOK
<1>6. ASSUME NEW w \in Workers, NEW v \in Results, SavePrepared(w, v) PROVE InHand(u)'
  <2>1. CASE u # w
    BY <1>2, <1>6, <2>1 DEF SavePrepared, Goto, RowsOK
  <2>2. CASE u = w
    <3>1. event'[u] = event[u] /\ result'[u] = v /\ pc'[u] = "ready"
      BY <1>6, <2>2 DEF SavePrepared, Goto, RowsOK
    <3>2. inbox'[event[u]] = Saved(inbox[event[u]], v)
      BY <1>1, <1>6, <2>2 DEF SavePrepared, RowsOK
    <3>3. inbox'[event[u]].result = v
      BY <1>1, <3>2 DEF Saved, Row
    <3> QED
      BY <3>1, <3>3 DEF InHand
  <2> QED
    BY <2>1, <2>2
<1>7. ASSUME NEW w \in Workers, NEW v \in Results, SaveFails(w, v) PROVE InHand(u)'
  BY <1>2, <1>3, <1>7 DEF SaveFails, Goto, RowsOK
<1>8. ASSUME NEW w \in Workers,
             \/ SaveLosesLease(w) \/ PrepareFails(w) \/ EffectFails(w)
             \/ CompleteLosesLease(w) \/ CompleteFails(w) \/ MarkCompleted(w)
             \/ Release(w) \/ ReleaseFails(w) \/ Crash(w)
      PROVE InHand(u)'
  <2>1. /\ pc' = [pc EXCEPT ![w] = pc'[w]]
        /\ pc'[w] \in {"caught", "thrown", "idle"}
        /\ event' = event /\ \A x \in Workers \ {w} : result'[x] = result[x]
    BY <1>8 DEF SaveLosesLease, PrepareFails, EffectFails, CompleteLosesLease, CompleteFails,
                MarkCompleted, Release, ReleaseFails, Crash, Leave, Goto, RowsOK
  <2> QED
    BY <1>2, <1>3, <2>1 DEF RowsOK
<1>9. ASSUME NEW w \in Workers, Effect(w) PROVE InHand(u)'
  <2>1. CASE u # w
    BY <1>2, <1>9, <2>1 DEF Effect, Goto, RowsOK
  <2>2. CASE u = w
    BY <1>1, <1>9, <2>2 DEF Effect, CarryOut, Goto, RowsOK, InHand
  <2> QED
    BY <2>1, <2>2
<1>10. ASSUME NEW e \in Events, LeaseExpires(e) \/ DeleteCompleted(e) PROVE InHand(u)'
  BY <1>2, <1>10 DEF LeaseExpires, DeleteCompleted, callVars
<1>11. CASE UNCHANGED vars
  BY <1>2, <1>11 DEF vars
<1>12. CASE RunnerStep
  BY <1>2, <1>3, <1>12, RunnerFrame
<1> QED
  BY <1>4, <1>5, <1>6, <1>7, <1>8, <1>9, <1>10, <1>11, <1>12 DEF Next, Call, RunnerStep

LEMMA NextDataFits == RowsOK /\ DataFits /\ [Next]_vars => DataFits'
  BY RowFitsKept, InHandKept DEF DataFits

-----------------------------------------------------------------------------
(* The lease of an event no disturbance has hit                            *)

\* A step that leaves row, effects and calls of e alone keeps its lease.
LEMMA ExclusiveFrame ==
  ASSUME NEW e \in Events, Exclusive(e), inbox'[e] = inbox[e], times'[e] = times[e],
         \A w \in Workers :
           /\ Works(w, e)' => Works(w, e)
           /\ pc[w] = "effected" /\ event[w] = e => pc'[w] = "effected" /\ event'[w] = e
  PROVE  Exclusive(e)'
  BY DEF Exclusive

\* Two calls cannot both own it, and a claimable event has no call and, not
\* being completed, no effect.
LEMMA ExclusiveFacts ==
  ASSUME RowsOK, DataFits, NEW e \in Events, Exclusive(e)
  PROVE  /\ \A u, w \in Workers : Works(u, e) /\ Works(w, e) => u = w
         /\ Claimable(inbox[e]) => times[e] = 0 /\ \A w \in Workers : ~Works(w, e)
         /\ \A w \in Workers : Works(w, e) => inbox[e].status # "COMPLETED"
         /\ \A w \in Workers : Works(w, e) /\ pc[w] # "effected" => times[e] = 0
<1>1. \A w \in Workers : pc[w] = "effected" /\ event[w] = e => Works(w, e)
  BY DEF Works
<1>2. \A u, w \in Workers : Works(u, e) /\ Works(w, e) => u = w
  BY DEF Exclusive
<1>3. \A w \in Workers : Works(w, e) => inbox[e].status # "COMPLETED"
  BY DEF Exclusive, DataFits, RowFits, FUTURE, NONE
<1>4. Claimable(inbox[e]) => times[e] = 0 /\ \A w \in Workers : ~Works(w, e)
  BY <1>1 DEF Exclusive, Claimable
<1>5. \A w \in Workers : Works(w, e) /\ pc[w] # "effected" => times[e] = 0
  BY <1>1, <1>2, <1>3 DEF Exclusive
<1> QED
  BY <1>2, <1>3, <1>4, <1>5

LEMMA NextExclusive ==
  ASSUME RowsOK, DataFits, [Next]_vars, NEW e \in Events, Exclusive(e), cause'[e] = {}
  PROVE  Exclusive(e)'
<1>0. inbox[e] \in Row
  BY DEF RowsOK
\* One call of e, w's, goes on or stops, before its effect; the row is as it was
\* or stays leased to w.
<1>1. ASSUME NEW w \in Workers, pc[w] \in {"claimed", "ready", "caught"},
             pc' = [pc EXCEPT ![w] = pc'[w]], pc'[w] # "effected",
             UNCHANGED <<event, times>>,
             \/ inbox'[e] = inbox[e]
             \/ /\ event[w] = e
                /\ inbox'[e].token = inbox[e].token
                /\ inbox'[e].lockedUntil = inbox[e].lockedUntil
      PROVE Exclusive(e)'
  <2>1. CASE event[w] # e
    BY <1>1, <2>1, ExclusiveFrame DEF Works, RowsOK
  <2>2. CASE event[w] = e
    <3>1. Works(w, e) /\ times[e] = 0
      BY <1>1, <2>2, ExclusiveFacts DEF Works
    <3> QED
      BY <1>1, <2>2, <3>1 DEF Exclusive, Works, RowsOK
  <2> QED
    BY <2>1, <2>2
<1>2. ASSUME NEW w \in Workers, NEW f \in Events, NEW t \in ReadTopics, Claim(w, f, t)
      PROVE Exclusive(e)'
  <2>1. /\ \A u \in Workers \ {w} : pc'[u] = pc[u] /\ event'[u] = event[u]
        /\ pc'[w] \in {"claimed", "ready"} /\ event'[w] = f /\ pc[w] = "idle"
        /\ inbox' = [inbox EXCEPT ![f] = Leased(inbox[f], w)]
        /\ times' = times /\ Claimable(inbox[f])
    BY <1>2 DEF Claim, Delivered, Take, Goto, RowsOK, effectVars
  <2>2. CASE e # f
    BY <2>1, <2>2, ExclusiveFrame DEF Works, RowsOK
  <2>3. CASE e = f
    <3>1. inbox'[e] = Leased(inbox[e], w)
      BY <2>1, <2>3 DEF RowsOK
    <3>2. inbox'[e].token = w /\ inbox'[e].lockedUntil = FUTURE
      BY <1>0, <3>1, LeasedFields
    <3>3. times'[e] = 0 /\ \A u \in Workers : Works(u, e)' => u = w
      BY <2>1, <2>3, ExclusiveFacts DEF Works
    <3> QED
      BY <3>2, <3>3 DEF Exclusive
  <2> QED
    BY <2>2, <2>3
<1>3. ASSUME NEW w \in Workers, NEW f \in Events, NEW t \in ReadTopics, ClaimFails(w, f, t)
      PROVE Exclusive(e)'
  <2>1. /\ pc[w] = "idle" /\ pc' = [pc EXCEPT ![w] = "thrown"]
        /\ \A u \in Workers \ {w} : event'[u] = event[u]
        /\ times' = times
        /\ \/ inbox' = inbox
           \/ inbox' = [inbox EXCEPT ![f] = Leased(inbox[f], w)] /\ Claimable(inbox[f])
    BY <1>3 DEF ClaimFails, Delivered, Take, Goto, RowsOK, effectVars
  <2>2. CASE inbox'[e] = inbox[e]
    BY <2>1, <2>2, ExclusiveFrame DEF Works, RowsOK
  <2>3. CASE inbox'[e] # inbox[e]
    <3>1. Claimable(inbox[e])
      BY <2>1, <2>3 DEF RowsOK
    <3>2. times'[e] = 0 /\ \A u \in Workers : ~Works(u, e)'
      BY <2>1, <3>1, ExclusiveFacts DEF Works, RowsOK
    <3> QED
      BY <3>2 DEF Exclusive
  <2> QED
    BY <2>2, <2>3
<1>4. ASSUME NEW w \in Workers, NEW v \in Results, SavePrepared(w, v) \/ SaveFails(w, v)
      PROVE Exclusive(e)'
  <2>1. /\ pc[w] = "claimed"
        /\ pc' = [pc EXCEPT ![w] = pc'[w]] /\ pc'[w] # "effected"
        /\ UNCHANGED <<event, times>>
        /\ inbox' = inbox \/ inbox' = [inbox EXCEPT ![event[w]] = Saved(@, v)]
    BY <1>4 DEF SavePrepared, SaveFails, Goto, RowsOK, effectVars
  <2>2. /\ Saved(inbox[e], v).token = inbox[e].token
        /\ Saved(inbox[e], v).lockedUntil = inbox[e].lockedUntil
    BY <1>0 DEF Saved, Row
  <2>3. \/ inbox'[e] = inbox[e]
        \/ event[w] = e /\ inbox'[e] = Saved(inbox[e], v)
    BY <2>1 DEF RowsOK
  <2> QED
    BY <1>1, <2>1, <2>2, <2>3
<1>5. ASSUME NEW w \in Workers, SaveLosesLease(w) \/ PrepareFails(w) \/ ReleaseFails(w)
      PROVE Exclusive(e)'
  <2>1. /\ pc[w] \in {"claimed", "caught"}
        /\ pc' = [pc EXCEPT ![w] = pc'[w]] /\ pc'[w] # "effected"
        /\ UNCHANGED <<event, times, inbox>>
    BY <1>5 DEF SaveLosesLease, PrepareFails, ReleaseFails, Goto, RowsOK, effectVars
  <2> QED
    BY <1>1, <2>1
<1>6. ASSUME NEW w \in Workers, Effect(w) PROVE Exclusive(e)'
  <2>1. /\ pc[w] = "ready" /\ pc' = [pc EXCEPT ![w] = "effected"]
        /\ times' = [times EXCEPT ![event[w]] = @ + 1]
        /\ UNCHANGED <<event, inbox>>
    BY <1>6 DEF Effect, CarryOut, Goto
  <2>2. CASE event[w] # e
    BY <2>1, <2>2, ExclusiveFrame DEF Works, RowsOK
  <2>3. CASE event[w] = e
    <3>1. times[e] = 0
      BY <2>1, <2>3, ExclusiveFacts DEF Works
    <3>2. times'[e] = 1 /\ pc'[w] = "effected" /\ event'[w] = e
      BY <2>1, <2>3, <3>1 DEF RowsOK
    <3>3. \A u \in Workers : Works(u, e)' => Works(u, e)
      BY <2>1, <2>3 DEF Works, RowsOK
    <3> QED
      BY <2>1, <3>2, <3>3 DEF Exclusive
  <2> QED
    BY <2>2, <2>3
<1>7. ASSUME NEW w \in Workers, EffectFails(w) PROVE Exclusive(e)'
  <2>1. /\ pc[w] = "ready" /\ pc' = [pc EXCEPT ![w] = "caught"]
        /\ UNCHANGED <<event, inbox>>
    BY <1>7 DEF EffectFails, Goto
  <2>2. CASE UNCHANGED effectVars
    BY <1>1, <2>1, <2>2 DEF RowsOK, effectVars
  <2>3. CASE CarryOut(w) /\ Disturb("ackLost", {event[w]})
    <3>1. event[w] # e
      BY <2>3, DisturbFacts DEF Disturbances
    <3> QED
      BY <2>1, <2>3, <3>1, ExclusiveFrame DEF CarryOut, Works, RowsOK
  <2> QED
    BY <1>7, <2>2, <2>3 DEF EffectFails
<1>8. ASSUME NEW w \in Workers, MarkCompleted(w) PROVE Exclusive(e)'
  <2>1. /\ pc[w] = "effected" /\ pc' = [pc EXCEPT ![w] = "idle"]
        /\ inbox' = [inbox EXCEPT ![event[w]] = Completed(@)]
        /\ UNCHANGED <<event, times>>
    BY <1>8 DEF MarkCompleted, Leave, Goto, effectVars
  <2>2. CASE event[w] # e
    BY <2>1, <2>2, ExclusiveFrame DEF Works, RowsOK
  <2>3. CASE event[w] = e
    <3>1. inbox'[e] = Completed(inbox[e])
      BY <2>1, <2>3 DEF RowsOK
    <3>2. inbox'[e].status = "COMPLETED"
      BY <1>0, <3>1 DEF Completed, Row
    <3>3. \A u \in Workers : ~Works(u, e)'
      BY <2>1, <2>3, ExclusiveFacts DEF Works, RowsOK
    <3>4. times'[e] \in {0, 1}
      BY <2>1 DEF Exclusive
    <3> QED
      BY <3>2, <3>3, <3>4 DEF Exclusive
  <2> QED
    BY <2>2, <2>3
<1>9. ASSUME NEW w \in Workers, CompleteLosesLease(w) PROVE Exclusive(e)'
  <2>1. /\ pc[w] = "effected" /\ pc' = [pc EXCEPT ![w] = "caught"]
        /\ ~CompleteMatches(inbox[event[w]], w)
        /\ UNCHANGED <<event, inbox, times>>
    BY <1>9 DEF CompleteLosesLease, Goto, effectVars
  <2>2. event[w] # e
    <3> SUFFICES ASSUME event[w] = e PROVE FALSE
      OBVIOUS
    <3>1. inbox[e].token = w
      BY <2>1 DEF Exclusive, Works
    <3>2. inbox[e].status \notin {"ABSENT", "PROCESSING"}
      BY <2>1, InboxAssumption DEF DataFits, InHand, RowFits, RowsOK
    <3>3. inbox[e].status # "COMPLETED"
      BY <2>1, ExclusiveFacts DEF Works
    <3> QED
      BY <1>0, <2>1, <3>1, <3>2, <3>3 DEF CompleteMatches, Row
  <2> QED
    BY <2>1, <2>2, ExclusiveFrame DEF Works, RowsOK
<1>10. ASSUME NEW w \in Workers, CompleteFails(w) PROVE Exclusive(e)'
  <2>1. event[w] # e
    BY <1>10, DisturbFacts DEF CompleteFails, Disturbances
  <2>2. inbox'[e] = inbox[e]
    BY <1>10, <2>1 DEF CompleteFails, RowsOK
  <2> QED
    BY <1>10, <2>1, <2>2, ExclusiveFrame DEF CompleteFails, Goto, Works, RowsOK, effectVars
<1>11. ASSUME NEW w \in Workers, Release(w) PROVE Exclusive(e)'
  <2>1. /\ pc[w] = "caught" /\ pc' = [pc EXCEPT ![w] = "thrown"]
        /\ inbox' = [inbox EXCEPT ![event[w]] = Released(@, w)]
        /\ UNCHANGED <<event, times>>
    BY <1>11 DEF Release, Goto, effectVars
  <2>2. CASE event[w] # e
    BY <2>1, <2>2, ExclusiveFrame DEF Works, RowsOK
  <2>3. CASE event[w] = e
    <3>1. times'[e] = 0 /\ \A u \in Workers : ~Works(u, e)'
      BY <2>1, <2>3, ExclusiveFacts DEF Works, RowsOK
    <3> QED
      BY <3>1 DEF Exclusive
  <2> QED
    BY <2>2, <2>3
<1>12. ASSUME NEW w \in Workers, Crash(w) PROVE Exclusive(e)'
  <2>1. /\ pc' = [pc EXCEPT ![w] = "idle"]
        /\ UNCHANGED <<event, inbox, times>>
    BY <1>12 DEF Crash, Leave, Goto, effectVars
  <2>2. ~(pc[w] = "effected" /\ event[w] = e)
    BY <1>12, DisturbFacts DEF Crash, Disturbances
  <2> QED
    BY <2>1, <2>2, ExclusiveFrame DEF Works, RowsOK
<1>13. ASSUME NEW f \in Events, LeaseExpires(f) PROVE Exclusive(e)'
  <2>1. /\ UNCHANGED <<pc, event, times>>
        /\ inbox' = [inbox EXCEPT ![f].lockedUntil = PAST]
    BY <1>13 DEF LeaseExpires, callVars, effectVars
  <2>2. CASE e # f
    BY <2>1, <2>2, ExclusiveFrame DEF Works, RowsOK
  <2>3. CASE e = f
    <3>1. \A u \in Workers : ~Works(u, e)
      BY <1>13, <2>3, DisturbFacts DEF LeaseExpires, Disturbances
    <3>2. inbox'[e] = [inbox[e] EXCEPT !.lockedUntil = PAST]
      BY <2>1, <2>3 DEF RowsOK
    <3>3. inbox'[e].status = inbox[e].status
      BY <1>0, <3>2 DEF Row
    <3> QED
      BY <2>1, <3>1, <3>3 DEF Exclusive, Works
  <2> QED
    BY <2>2, <2>3
<1>14. ASSUME NEW f \in Events, DeleteCompleted(f) PROVE Exclusive(e)'
  <2>1. e # f
    BY <1>14, DisturbFacts DEF DeleteCompleted, Disturbances
  <2> QED
    BY <1>14, <2>1, ExclusiveFrame DEF DeleteCompleted, Works, RowsOK, callVars
<1>15. CASE UNCHANGED vars
  BY <1>15, ExclusiveFrame DEF vars, Works
<1>16. CASE RunnerStep
  BY <1>16, RunnerFrame, ExclusiveFrame DEF Works
<1> QED
  BY <1>2, <1>3, <1>4, <1>5, <1>6, <1>7, <1>8, <1>9, <1>10, <1>11, <1>12, <1>13, <1>14,
     <1>15, <1>16
  DEF Next, Call, RunnerStep

LEMMA NextIInv == IInv /\ [Next]_vars => IInv'
<1> SUFFICES ASSUME IInv, [Next]_vars PROVE IInv'
  OBVIOUS
<1>1. RowsOK' /\ DeliveriesOK' /\ DataFits'
  BY NextRowsOK, NextDeliveriesOK, NextDataFits DEF IInv
<1>2. ASSUME NEW e \in Events, cause'[e] = {} PROVE Exclusive(e)'
  BY <1>2, CauseGrows, NextExclusive DEF IInv
<1> QED
  BY <1>1, <1>2 DEF IInv

-----------------------------------------------------------------------------
(* The theorems                                                            *)

LEMMA Inductive == Spec => []IInv
<1> QED
  BY InitIInv, NextIInv, PTL DEF Spec

\* Every state of the inbox is well formed; a call past savePrepared holds a
\* result.
THEOREM TypeCorrect == Spec => []TypeOK
<1>1. IInv => TypeOK
  BY DEF IInv, TypeOK
<1> QED
  BY <1>1, Inductive, PTL

\* All effects of an event carry the one result its row has saved.
THEOREM OneResult == Spec => []EffectsAgree
<1>1. IInv => EffectsAgree
  BY DEF IInv, DataFits, RowFits, EffectsAgree
<1> QED
  BY <1>1, Inductive, PTL

\* A delivery is skipped as a duplicate only if the effect happened.
THEOREM SkippedOnlyWhenDone == Spec => []CompletedMeansDone
<1>1. IInv => CompletedMeansDone
  BY DEF IInv, DataFits, RowFits, CompletedMeansDone
<1> QED
  BY <1>1, Inductive, PTL

\* An event that met none of the listed disturbances is carried out once.
THEOREM OnceUndisturbed == Spec => []EffectOnce
<1>1. IInv => EffectOnce
  BY DEF IInv, Exclusive, EffectOnce
<1> QED
  BY <1>1, Inductive, PTL

\* No step changes a saved result or reopens a completed row.
THEOREM ResultIsFixed == Spec => ResultFixed
<1> DEFINE Fixed == \A e \in Events :
       /\ inbox[e].result # NoResult
            => \/ inbox'[e].result = inbox[e].result /\ inbox'[e].status # "PROCESSING"
               \/ inbox'[e].status = "ABSENT"
       /\ inbox[e].status = "COMPLETED"
            => inbox'[e].status \in {"COMPLETED", "ABSENT"}
<1>1. ASSUME IInv, [Next]_vars PROVE Fixed
  <2> SUFFICES ASSUME NEW e \in Events, inbox[e].result # NoResult \/ inbox[e].status = "COMPLETED"
               PROVE  \/ /\ inbox'[e].result = inbox[e].result
                         /\ inbox'[e].status # "PROCESSING"
                         /\ inbox[e].status = "COMPLETED" => inbox'[e].status = "COMPLETED"
                      \/ inbox'[e].status = "ABSENT"
    OBVIOUS
  <2>1. inbox[e].result # NoResult
    BY <1>1 DEF IInv, DataFits, RowFits
  <2>2. Forgotten(e) => inbox'[e].status = "ABSENT"
    BY DEF Forgotten, EmptyRow
  <2> QED
    BY <1>1, <2>1, <2>2, ResultKept DEF IInv
<1>2. IInv /\ [Next]_vars => [Fixed]_vars
  BY <1>1
<1> QED
  BY <1>2, Inductive, PTL DEF Spec, ResultFixed

-----------------------------------------------------------------------------
(* No event is dropped between the topics                                  *)

\* What is committed was sent. Whoever owns a record has not committed it, and
\* is alone with it.
OwnsNext(w) ==
  record[w].owned =>
    /\ settled[event[w]][record[w].topic] < copies[event[w]][record[w].topic]
    /\ \A u \in Workers :
         event[u] = event[w] /\ record[u] = record[w] => u = w

Uncommitted ==
  /\ \A e \in Events, t \in ReadTopics : settled[e][t] <= copies[e][t]
  /\ \A w \in Workers : OwnsNext(w)

Pending(e) == \E t \in ReadTopics : settled[e][t] < copies[e][t]

LEMMA InitNeverLost == Init => Uncommitted /\ NeverLost
<1> SUFFICES ASSUME Init PROVE Uncommitted /\ NeverLost
  OBVIOUS
<1>1. 0 \in ReadTopics /\ ReadTopics \subseteq Topics
  BY InboxAssumption DEF ReadTopics, Topics, DeadLetter
<1>2. \A e \in Events, t \in ReadTopics : /\ settled[e][t] = 0
                                         /\ copies[e][t] = IF t = 0 THEN 1 ELSE 0
  BY <1>1 DEF Init
<1>3. \A w \in Workers : ~record[w].owned
  BY DEF Init, NoRecord
<1> QED
  BY <1>1, <1>2, <1>3 DEF Uncommitted, OwnsNext, NeverLost

\* The effect of sending a copy, for the record in hand.
LEMMA SendCopyFacts ==
  ASSUME RowsOK, DeliveriesOK, NEW w \in Workers, SendCopy(w)
  PROVE  /\ \A e \in Events, t \in Topics : copies[e][t] <= copies'[e][t]
         /\ record[w].topic + 1 \in Topics
         /\ copies[event[w]][record[w].topic + 1] < copies'[event[w]][record[w].topic + 1]
<1>1. /\ copies \in [Events -> [Topics -> Nat]] /\ event[w] \in Events
      /\ record[w].topic \in ReadTopics
  BY DEF RowsOK, DeliveriesOK
<1>2. record[w].topic + 1 \in Topics
  BY <1>1, InboxAssumption DEF Topics, ReadTopics, DeadLetter
<1> DEFINE f == event[w]
           n == record[w].topic + 1
<1>3. copies' = [copies EXCEPT ![f][n] = copies[f][n] + 1]
  BY DEF SendCopy
<1>4. f \in Events /\ n \in Topics
  BY <1>1, <1>2
<1> HIDE DEF f, n
<1>5. \A e \in Events, t \in Topics :
        copies'[e][t] = IF e = f /\ t = n THEN copies[f][n] + 1 ELSE copies[e][t]
  BY <1>1, <1>3, <1>4
<1>6. \A e \in Events, t \in Topics : copies[e][t] \in Nat
  BY <1>1
<1>7. /\ \A e \in Events, t \in Topics : copies[e][t] <= copies'[e][t]
      /\ copies[f][n] < copies'[f][n]
  BY <1>4, <1>5, <1>6
<1> QED
  BY <1>2, <1>7 DEF f, n

\* The effect of a commit: of the record in hand, if it is still owned.
LEMMA SettleFacts ==
  ASSUME RowsOK, DeliveriesOK, NEW w \in Workers, Settle(w)
  PROVE  \A e \in Events, t \in ReadTopics :
           settled'[e][t] = IF record[w].owned /\ e = event[w] /\ t = record[w].topic
                            THEN settled[e][t] + 1 ELSE settled[e][t]
  BY DEF RowsOK, DeliveriesOK, Settle

LEMMA NextUncommitted ==
  ASSUME RowsOK, DeliveriesOK, Uncommitted, [Next]_vars
  PROVE  Uncommitted'
<1>0. /\ \A e \in Events, t \in ReadTopics :
           settled[e][t] \in Nat /\ copies[e][t] \in Nat /\ settled[e][t] <= copies[e][t]
      /\ \A u \in Workers : /\ OwnsNext(u) /\ event[u] \in Events
                            /\ record[u].topic \in ReadTopics
      /\ ReadTopics \subseteq Topics
  <2>1. ReadTopics \subseteq Topics
    BY InboxAssumption DEF ReadTopics, Topics, DeadLetter
  <2> QED
    BY <2>1 DEF RowsOK, DeliveriesOK, Uncommitted
\* Records change hands, offsets stay.
<1>1. ASSUME UNCHANGED settled,
             \A e \in Events, t \in ReadTopics :
                copies'[e][t] \in Nat /\ copies[e][t] <= copies'[e][t],
             \A u \in Workers :
               record'[u].owned => record'[u] = record[u] /\ event'[u] = event[u]
      PROVE  Uncommitted'
  <2>1. \A e \in Events, t \in ReadTopics : settled'[e][t] <= copies'[e][t]
    BY <1>0, <1>1
  <2>2. ASSUME NEW u \in Workers PROVE OwnsNext(u)'
    <3> SUFFICES ASSUME record'[u].owned PROVE OwnsNext(u)'
      BY DEF OwnsNext
    <3>1. record'[u] = record[u] /\ event'[u] = event[u] /\ record[u].owned
      BY <1>1
    <3>2. settled'[event'[u]][record'[u].topic] < copies'[event'[u]][record'[u].topic]
      BY <1>0, <1>1, <3>1 DEF OwnsNext
    <3>3. ASSUME NEW v \in Workers, event'[v] = event'[u], record'[v] = record'[u]
          PROVE v = u
      BY <1>0, <1>1, <3>1, <3>3 DEF OwnsNext
    <3> QED
      BY <3>2, <3>3 DEF OwnsNext
  <2> QED
    BY <2>1, <2>2 DEF Uncommitted
<1>2. ASSUME NEW w \in Workers, Leave(w)
      PROVE  \A u \in Workers :
               record'[u].owned => record'[u] = record[u] /\ event'[u] = event[u]
  BY <1>2 DEF Leave, NoRecord, DeliveriesOK
<1>3. ASSUME NEW w \in Workers, NEW e \in Events, NEW t \in ReadTopics,
             Claim(w, e, t) \/ Busy(w, e, t) \/ ClaimFails(w, e, t)
      PROVE  Uncommitted'
  <2>1. /\ settled[e][t] < copies[e][t] /\ ~Owned(e, t)
        /\ UNCHANGED <<settled, copies>>
        /\ event' = [event EXCEPT ![w] = e]
        /\ record' = [record EXCEPT ![w] = [topic |-> t, owned |-> TRUE]]
    BY <1>3 DEF Claim, Busy, ClaimFails, Delivered, Take, kafkaVars
  <2>2. \A u \in Workers :
          IF u = w THEN event'[u] = e /\ record'[u] = [topic |-> t, owned |-> TRUE]
                   ELSE event'[u] = event[u] /\ record'[u] = record[u]
    BY <2>1 DEF RowsOK, DeliveriesOK
  <2>3. ASSUME NEW u \in Workers PROVE OwnsNext(u)'
    <3>1. CASE u = w
      <4>1. settled'[event'[u]][record'[u].topic] < copies'[event'[u]][record'[u].topic]
        BY <2>1, <2>2, <3>1
      <4>2. ASSUME NEW v \in Workers, event'[v] = event'[u], record'[v] = record'[u]
            PROVE v = u
        BY <2>1, <2>2, <3>1, <4>2 DEF Owned
      <4> QED
        BY <4>1, <4>2 DEF OwnsNext
    <3>2. CASE u # w /\ record[u].owned
      <4>1. record[u] = [topic |-> record[u].topic, owned |-> TRUE]
        BY <3>2 DEF DeliveriesOK
      <4>2. ~(event[u] = e /\ record[u].topic = t)
        BY <2>1, <4>1 DEF Owned
      <4> QED
        BY <1>0, <2>1, <2>2, <3>2, <4>2 DEF OwnsNext
    <3>3. CASE u # w /\ ~record[u].owned
      BY <2>2, <3>3 DEF OwnsNext
    <3> QED
      BY <3>1, <3>2, <3>3
  <2> QED
    BY <1>0, <2>1, <2>3 DEF Uncommitted
<1>4. ASSUME NEW w \in Workers, NEW e \in Events, NEW t \in ReadTopics, Duplicate(w, e, t)
      PROVE  Uncommitted'
  <2>1. /\ settled[e][t] < copies[e][t] /\ ~Owned(e, t)
        /\ settled' = [settled EXCEPT ![e][t] = settled[e][t] + 1]
        /\ UNCHANGED <<copies, event, record>>
    BY <1>4 DEF Duplicate, Delivered, callVars
  <2>2. \A f \in Events, s \in ReadTopics :
          settled'[f][s] = IF f = e /\ s = t THEN settled[f][s] + 1 ELSE settled[f][s]
    BY <2>1 DEF DeliveriesOK
  <2>3. \A f \in Events, s \in ReadTopics : settled'[f][s] <= copies'[f][s]
    BY <1>0, <2>1, <2>2
  <2>4. ASSUME NEW u \in Workers, record[u].owned
        PROVE  settled'[event[u]][record[u].topic] < copies[event[u]][record[u].topic]
    <3>1. record[u] = [topic |-> record[u].topic, owned |-> TRUE]
      BY <2>4 DEF DeliveriesOK
    <3>2. ~(event[u] = e /\ record[u].topic = t)
      BY <2>1, <3>1 DEF Owned
    <3> QED
      BY <1>0, <2>2, <2>4, <3>2 DEF OwnsNext
  <2> QED
    BY <1>0, <2>1, <2>3, <2>4 DEF Uncommitted, OwnsNext
\* The end of a call: its record is committed, if still owned, and left.
<1>5. ASSUME NEW w \in Workers, Settle(w), Leave(w),
             \A e \in Events, t \in ReadTopics :
                copies'[e][t] \in Nat /\ copies[e][t] <= copies'[e][t]
      PROVE  Uncommitted'
  <2>1. \A e \in Events, t \in ReadTopics :
          settled'[e][t] = IF record[w].owned /\ e = event[w] /\ t = record[w].topic
                           THEN settled[e][t] + 1 ELSE settled[e][t]
    BY <1>5, SettleFacts
  <2>2. \A e \in Events, t \in ReadTopics : settled'[e][t] <= copies'[e][t]
    BY <1>0, <1>5, <2>1 DEF OwnsNext
  <2>3. ASSUME NEW u \in Workers PROVE OwnsNext(u)'
    <3> SUFFICES ASSUME record'[u].owned PROVE OwnsNext(u)'
      BY DEF OwnsNext
    <3>1. /\ u # w /\ record'[u] = record[u] /\ event'[u] = event[u] /\ record[u].owned
      BY <1>2, <1>5 DEF Leave, NoRecord, DeliveriesOK
    <3>2. ~(record[w].owned /\ event[u] = event[w] /\ record[u].topic = record[w].topic)
      <4>1. record[w].owned /\ record[u].topic = record[w].topic => record[w] = record[u]
        BY <3>1 DEF DeliveriesOK
      <4> QED
        BY <1>0, <3>1, <4>1 DEF OwnsNext
    <3>3. settled'[event'[u]][record'[u].topic] < copies'[event'[u]][record'[u].topic]
      BY <1>0, <1>5, <2>1, <3>1, <3>2 DEF OwnsNext
    <3>4. ASSUME NEW v \in Workers, event'[v] = event'[u], record'[v] = record'[u]
          PROVE v = u
      <4>1. record'[v].owned
        BY <3>1, <3>4
      <4>2. record'[v] = record[v] /\ event'[v] = event[v]
        BY <1>2, <1>5, <4>1
      <4> QED
        BY <1>0, <3>1, <3>4, <4>2 DEF OwnsNext
    <3> QED
      BY <3>3, <3>4 DEF OwnsNext
  <2> QED
    BY <2>2, <2>3 DEF Uncommitted
<1>6. ASSUME NEW w \in Workers, Dispatch(w) \/ DispatchFails(w) PROVE Uncommitted'
  <2>1. \A e \in Events, t \in ReadTopics :
          copies'[e][t] \in Nat /\ copies[e][t] <= copies'[e][t]
    <3>1. DeliveriesOK'
      BY <1>6, NextDeliveriesOK DEF Next, Call
    <3>2. CASE SendCopy(w)
      BY <1>0, <3>1, <3>2, SendCopyFacts DEF DeliveriesOK
    <3>3. CASE UNCHANGED copies
      BY <1>0, <3>3
    <3> QED
      BY <1>6, <3>2, <3>3 DEF Dispatch, DispatchFails
  <2>2. CASE Dispatch(w)
    BY <1>5, <2>1, <2>2 DEF Dispatch
  <2>3. CASE DispatchFails(w)
    BY <1>1, <1>2, <2>1, <2>3 DEF DispatchFails
  <2> QED
    BY <1>6, <2>2, <2>3
<1>7. ASSUME NEW w \in Workers, MarkCompleted(w) PROVE Uncommitted'
  BY <1>0, <1>5, <1>7 DEF MarkCompleted
<1>8. ASSUME NEW e \in Events, NEW t \in ReadTopics, Redeliver(e, t) PROVE Uncommitted'
  <2>1. /\ settled[e][t] > 0
        /\ settled' = [settled EXCEPT ![e][t] = settled[e][t] - 1]
        /\ UNCHANGED <<copies, event, record>>
    BY <1>8 DEF Redeliver, callVars
  <2>2. \A f \in Events, s \in ReadTopics :
          settled'[f][s] = IF f = e /\ s = t THEN settled[f][s] - 1 ELSE settled[f][s]
    BY <2>1 DEF DeliveriesOK
  <2>3. \A f \in Events, s \in ReadTopics : settled'[f][s] <= settled[f][s]
    BY <1>0, <2>1, <2>2
  <2>4. \A f \in Events, s \in ReadTopics : settled'[f][s] \in Nat
    BY <1>0, <2>1, <2>2
  <2> QED
    BY <1>0, <2>1, <2>3, <2>4 DEF Uncommitted, OwnsNext
<1>9. ASSUME NEW w \in Workers, Rebalance(w) \/ Crash(w) PROVE Uncommitted'
  <2>1. \A u \in Workers :
          record'[u].owned => record'[u] = record[u] /\ event'[u] = event[u]
    BY <1>2, <1>9 DEF Rebalance, Crash, DeliveriesOK
  <2> QED
    BY <1>0, <1>1, <1>9, <2>1 DEF Rebalance, Crash, kafkaVars
<1>10. ASSUME UNCHANGED <<copies, settled, event, record>> PROVE Uncommitted'
  BY <1>0, <1>1, <1>10
<1>11. ASSUME NEW w \in Workers, NEW v \in Results, SavePrepared(w, v) \/ SaveFails(w, v)
       PROVE Uncommitted'
  BY <1>10, <1>11 DEF SavePrepared, SaveFails, kafkaVars
<1>12. ASSUME NEW w \in Workers,
              \/ SaveLosesLease(w) \/ PrepareFails(w) \/ Effect(w) \/ EffectFails(w)
              \/ CompleteLosesLease(w) \/ CompleteFails(w) \/ Release(w) \/ ReleaseFails(w)
       PROVE Uncommitted'
  BY <1>10, <1>12 DEF SaveLosesLease, PrepareFails, Effect, EffectFails, CompleteLosesLease,
                      CompleteFails, Release, ReleaseFails, kafkaVars
<1>13. ASSUME NEW e \in Events, LeaseExpires(e) \/ DeleteCompleted(e) PROVE Uncommitted'
  BY <1>10, <1>13 DEF LeaseExpires, DeleteCompleted, kafkaVars, callVars
<1>14. CASE UNCHANGED vars
  BY <1>10, <1>14 DEF vars
<1> QED
  BY <1>3, <1>4, <1>6, <1>7, <1>8, <1>9, <1>11, <1>12, <1>13, <1>14 DEF Next, Call

\* Only retention takes a completed row away, and leaves itself on record.
LEMMA CompletedStays ==
  ASSUME RowsOK, DataFits, [Next]_vars, NEW e \in Events,
         inbox[e].status = "COMPLETED" \/ "retention" \in cause[e]
  PROVE  inbox'[e].status = "COMPLETED" \/ "retention" \in cause'[e]
<1>1. CASE "retention" \in cause[e]
  BY <1>1, CauseGrows
<1>2. CASE inbox[e].status = "COMPLETED"
  <2>1. inbox[e].result # NoResult
    BY <1>2 DEF DataFits, RowFits
  <2> QED
    BY <1>2, <2>1, ResultKept DEF Forgotten
<1> QED
  BY <1>1, <1>2

\* A record stays to be committed, or another one takes its place, or the event
\* has been completed.
LEMMA NextNeverLost ==
  ASSUME RowsOK, DeliveriesOK, DataFits, Uncommitted, NeverLost, [Next]_vars
  PROVE  NeverLost'
<1> SUFFICES ASSUME NEW e \in Events
             PROVE  \/ inbox'[e].status = "COMPLETED" \/ "retention" \in cause'[e]
                    \/ copies'[e][DeadLetter] > 0
                    \/ Pending(e)'
  BY DEF NeverLost, Pending
<1> DEFINE Goal == \/ inbox'[e].status = "COMPLETED" \/ "retention" \in cause'[e]
                   \/ copies'[e][DeadLetter] > 0
                   \/ Pending(e)'
<1>0. /\ \A f \in Events, t \in Topics : copies[f][t] \in Nat
      /\ \A f \in Events, t \in ReadTopics : settled[f][t] \in Nat
      /\ \A f \in Events, t \in ReadTopics : settled[f][t] <= copies[f][t]
      /\ DeadLetter \in Topics /\ ReadTopics \subseteq Topics
  BY InboxAssumption DEF DeliveriesOK, Uncommitted, ReadTopics, Topics, DeadLetter
<1>1. DeliveriesOK'
  BY NextDeliveriesOK
<1>2. /\ \A f \in Events, t \in Topics : copies'[f][t] \in Nat
      /\ \A f \in Events, t \in ReadTopics : settled'[f][t] \in Nat
  BY <1>1 DEF DeliveriesOK
\* No commit for e, and no record taken back from a topic.
<1>3. ASSUME \A t \in Topics : copies[e][t] <= copies'[e][t],
             \A t \in ReadTopics : settled'[e][t] <= settled[e][t]
      PROVE  Goal
  <2>1. CASE inbox[e].status = "COMPLETED" \/ "retention" \in cause[e]
    BY <2>1, CompletedStays
  <2>2. CASE copies[e][DeadLetter] > 0
    BY <1>0, <1>2, <1>3, <2>2
  <2>3. CASE \E t \in ReadTopics : settled[e][t] < copies[e][t]
    BY <1>0, <1>2, <1>3, <2>3 DEF Pending
  <2> QED
    BY <2>1, <2>2, <2>3 DEF NeverLost
<1>4. ASSUME UNCHANGED <<copies, settled>> PROVE Goal
  BY <1>0, <1>3, <1>4
<1>5. ASSUME NEW w \in Workers, NEW f \in Events, NEW t \in ReadTopics, Duplicate(w, f, t)
      PROVE  Goal
  <2>1. /\ inbox'[f].status = "COMPLETED" /\ UNCHANGED copies
        /\ settled' = [settled EXCEPT ![f][t] = settled[f][t] + 1]
    BY <1>5 DEF Duplicate
  <2>2. f # e => \A s \in ReadTopics : settled'[e][s] = settled[e][s]
    BY <2>1 DEF DeliveriesOK
  <2> QED
    BY <1>0, <1>3, <2>1, <2>2
<1>6. ASSUME NEW w \in Workers, MarkCompleted(w) PROVE Goal
  <2>1. CASE e = event[w]
    <3>1. inbox'[e] = Completed(inbox[e]) /\ inbox[e] \in Row
      BY <1>6, <2>1 DEF MarkCompleted, RowsOK
    <3> QED
      BY <3>1 DEF Completed, Row
  <2>2. CASE e # event[w]
    <3>1. \A t \in ReadTopics : settled'[e][t] = settled[e][t]
      BY <1>6, <2>2, SettleFacts DEF MarkCompleted
    <3>2. UNCHANGED copies
      BY <1>6 DEF MarkCompleted
    <3> QED
      BY <1>0, <1>3, <3>1, <3>2
  <2> QED
    BY <2>1, <2>2
<1>7. ASSUME NEW w \in Workers, Dispatch(w) PROVE Goal
  <2>1. /\ \A f \in Events, t \in Topics : copies[f][t] <= copies'[f][t]
        /\ record[w].topic + 1 \in Topics
        /\ copies[event[w]][record[w].topic + 1] < copies'[event[w]][record[w].topic + 1]
    BY <1>7, SendCopyFacts DEF Dispatch
  <2>2. \A t \in ReadTopics :
          settled'[e][t] = IF record[w].owned /\ e = event[w] /\ t = record[w].topic
                           THEN settled[e][t] + 1 ELSE settled[e][t]
    BY <1>7, SettleFacts DEF Dispatch
  <2>3. CASE e # event[w]
    BY <1>0, <1>3, <2>1, <2>2, <2>3
  <2>4. CASE e = event[w]
    <3> DEFINE n == record[w].topic + 1
    <3>1. record[w].topic \in ReadTopics
      BY DEF DeliveriesOK
    <3>2. n \in Topics /\ copies[e][n] < copies'[e][n] /\ n # record[w].topic
      BY <2>1, <2>4, <3>1 DEF ReadTopics
    <3>3. n \in ReadTopics \/ n = DeadLetter
      BY <3>2, InboxAssumption DEF Topics, ReadTopics, DeadLetter
    <3> HIDE DEF n
    <3>4. CASE n = DeadLetter
      BY <1>0, <1>2, <3>2, <3>4
    <3>5. CASE n \in ReadTopics
      <4>1. settled'[e][n] = settled[e][n] /\ settled[e][n] <= copies[e][n]
        BY <1>0, <2>2, <3>2, <3>5
      <4>2. settled'[e][n] < copies'[e][n]
        BY <1>0, <1>2, <3>2, <3>5, <4>1
      <4> QED
        BY <3>5, <4>2 DEF Pending
    <3> QED
      BY <3>3, <3>4, <3>5
  <2> QED
    BY <2>3, <2>4
<1>8. ASSUME NEW w \in Workers, DispatchFails(w) PROVE Goal
  <2>1. UNCHANGED settled /\ (SendCopy(w) \/ UNCHANGED copies)
    BY <1>8 DEF DispatchFails
  <2>2. \A t \in Topics : copies[e][t] <= copies'[e][t]
    BY <1>0, <2>1, SendCopyFacts
  <2> QED
    BY <1>0, <1>3, <2>1, <2>2
<1>9. ASSUME NEW f \in Events, NEW t \in ReadTopics, Redeliver(f, t) PROVE Goal
  <2>1. settled' = [settled EXCEPT ![f][t] = settled[f][t] - 1] /\ UNCHANGED copies
    BY <1>9 DEF Redeliver
  <2>2. \A s \in ReadTopics :
          settled'[e][s] = IF f = e /\ s = t THEN settled[e][s] - 1 ELSE settled[e][s]
    BY <2>1 DEF DeliveriesOK
  <2>3. \A s \in ReadTopics : settled'[e][s] <= settled[e][s]
    BY <1>0, <2>2
  <2> QED
    BY <1>0, <1>3, <2>1, <2>3
<1>10. ASSUME NEW w \in Workers, NEW f \in Events, NEW t \in ReadTopics,
              Claim(w, f, t) \/ Busy(w, f, t) \/ ClaimFails(w, f, t)
       PROVE  Goal
  BY <1>4, <1>10 DEF Claim, Busy, ClaimFails, kafkaVars
<1>11. ASSUME NEW w \in Workers, NEW v \in Results, SavePrepared(w, v) \/ SaveFails(w, v)
       PROVE Goal
  BY <1>4, <1>11 DEF SavePrepared, SaveFails, kafkaVars
<1>12. ASSUME NEW w \in Workers,
              \/ SaveLosesLease(w) \/ PrepareFails(w) \/ Effect(w) \/ EffectFails(w)
              \/ CompleteLosesLease(w) \/ CompleteFails(w) \/ Release(w) \/ ReleaseFails(w)
              \/ Crash(w) \/ Rebalance(w)
       PROVE Goal
  BY <1>4, <1>12 DEF SaveLosesLease, PrepareFails, Effect, EffectFails, CompleteLosesLease,
                     CompleteFails, Release, ReleaseFails, Crash, Rebalance, kafkaVars
<1>13. ASSUME NEW f \in Events, LeaseExpires(f) \/ DeleteCompleted(f) PROVE Goal
  BY <1>4, <1>13 DEF LeaseExpires, DeleteCompleted, kafkaVars
<1>14. CASE UNCHANGED vars
  BY <1>4, <1>14 DEF vars
<1> QED
  BY <1>5, <1>6, <1>7, <1>8, <1>9, <1>10, <1>11, <1>12, <1>13, <1>14 DEF Next, Call

\* Until an event is completed or in the dead-letter topic, some record of it is
\* still to be committed: failures, lost leases, crashes and rebalances may repeat
\* a record, and none drops the event between two topics of the chain.
THEOREM NothingLost == Spec => []NeverLost
<1> DEFINE Inv == IInv /\ Uncommitted /\ NeverLost
<1>1. Init => Inv
  BY InitIInv, InitNeverLost
<1>2. Inv /\ [Next]_vars => Inv'
  <2> SUFFICES ASSUME Inv, [Next]_vars PROVE Inv'
    OBVIOUS
  <2>1. RowsOK /\ DeliveriesOK /\ DataFits
    BY DEF IInv
  <2> QED
    BY <2>1, NextIInv, NextUncommitted, NextNeverLost
<1> QED
  BY <1>1, <1>2, PTL DEF Spec

-----------------------------------------------------------------------------
(* The inbox implements ConsumeOnce                                        *)

Decided == [e \in Events |-> inbox[e].result]
Closed  == [e \in Events |-> inbox[e].status = "COMPLETED"]

LEMMA EmptyRowFields == EmptyRow.result = NoResult /\ (EmptyRow.status = "COMPLETED") = FALSE
  BY DEF EmptyRow

LEMMA InitPromise == Init => Promise!Init
<1> SUFFICES ASSUME Init PROVE Promise!Init
  OBVIOUS
<1>1. \A e \in Events : inbox[e] = EmptyRow
  BY DEF Init
<1>2. [e \in Events |-> inbox[e].result] = [e \in Events |-> NoResult]
  BY <1>1, EmptyRowFields
<1>3. [e \in Events |-> inbox[e].status = "COMPLETED"] = [e \in Events |-> FALSE]
  BY <1>1, EmptyRowFields
<1> QED
  BY <1>2, <1>3 DEF Init, Promise!Init

\* A step after which every event has the result and the closedness it had.
LEMMA PromiseFrame ==
  ASSUME \A e \in Events : /\ inbox'[e].result = inbox[e].result
                           /\ inbox'[e].status = "COMPLETED" <=> inbox[e].status = "COMPLETED"
  PROVE  Decided' = Decided /\ Closed' = Closed
  BY DEF Decided, Closed

\* A step that edits one row without touching its result or closing it.
LEMMA PromiseRowFrame ==
  ASSUME RowsOK, NEW f \in Events, NEW r, inbox' = [inbox EXCEPT ![f] = r],
         r.result = inbox[f].result,
         r.status = "COMPLETED" <=> inbox[f].status = "COMPLETED"
  PROVE  Decided' = Decided /\ Closed' = Closed
<1>1. \A e \in Events : inbox'[e] = IF e = f THEN r ELSE inbox[e]
  BY DEF RowsOK
<1> QED
  BY <1>1, PromiseFrame

LEMMA StepPromise ==
  ASSUME IInv, [Next]_vars
  PROVE  [Promise!Next]_(Promise!vars)
<1> USE DEF IInv
<1>0. /\ \A e \in Events : inbox[e] \in Row
      /\ \A w \in Workers : event[w] \in Events
  BY DEF RowsOK
<1>1. ASSUME Decided' = Decided, Closed' = Closed, emitted' = emitted
      PROVE [Promise!Next]_(Promise!vars)
  BY <1>1 DEF Promise!vars, Decided, Closed
<1>2. ASSUME inbox' = inbox, emitted' = emitted PROVE [Promise!Next]_(Promise!vars)
  BY <1>1, <1>2, PromiseFrame
<1>3. ASSUME NEW w \in Workers, NEW f \in Events, NEW t \in ReadTopics,
             Claim(w, f, t) \/ ClaimFails(w, f, t)
      PROVE [Promise!Next]_(Promise!vars)
  <2>1. /\ emitted' = emitted
        /\ \/ inbox' = inbox
           \/ /\ inbox' = [inbox EXCEPT ![f] = Leased(inbox[f], w)]
              /\ inbox[f].status # "COMPLETED"
    BY <1>3 DEF Claim, ClaimFails, Claimable, effectVars
  <2>2. inbox[f].status # "COMPLETED" => /\ Leased(inbox[f], w).result = inbox[f].result
                                         /\ Leased(inbox[f], w).status # "COMPLETED"
    BY <1>0 DEF Leased, Row
  <2> QED
    BY <1>1, <1>2, <2>1, <2>2, PromiseRowFrame
<1>4. ASSUME NEW w \in Workers, NEW v \in Results, SavePrepared(w, v) \/ SaveFails(w, v)
      PROVE [Promise!Next]_(Promise!vars)
  <2> DEFINE f == event[w]
  <2>1. emitted' = emitted
    BY <1>4 DEF SavePrepared, SaveFails, effectVars
  <2>2. CASE inbox' = inbox
    BY <1>2, <2>1, <2>2
  <2>3. CASE SaveMatches(inbox[f], w) /\ inbox' = [inbox EXCEPT ![f] = Saved(inbox[f], v)]
    <3>1. /\ Saved(inbox[f], v).result = v
          /\ Saved(inbox[f], v).status = "PREPARED"
      BY <1>0 DEF Saved, Row
    <3>2. inbox[f].status = "PROCESSING" /\ inbox[f].result = NoResult
      BY <1>0, <2>3 DEF SaveMatches, DataFits, RowFits
    <3>3. \A e \in Events : inbox'[e] = IF e = f THEN Saved(inbox[f], v) ELSE inbox[e]
      BY <1>0, <2>3 DEF RowsOK
    <3>4. Decided' = [Decided EXCEPT ![f] = v]
      BY <1>0, <3>1, <3>3 DEF Decided
    <3>5. Closed' = Closed
      BY <3>1, <3>2, <3>3 DEF Closed
    <3>6. Promise!Decide(f, v)
      BY <1>0, <2>1, <3>2, <3>4, <3>5 DEF Promise!Decide, Decided, Closed
    <3> QED
      BY <1>0, <3>6 DEF Promise!Next
  <2> QED
    BY <1>4, <2>2, <2>3 DEF SavePrepared, SaveFails
<1>5. ASSUME NEW w \in Workers,
             \/ SaveLosesLease(w) \/ PrepareFails(w) \/ CompleteLosesLease(w)
             \/ ReleaseFails(w) \/ Crash(w)
      PROVE [Promise!Next]_(Promise!vars)
  BY <1>2, <1>5 DEF SaveLosesLease, PrepareFails, CompleteLosesLease, ReleaseFails, Crash,
                    effectVars
<1>6. ASSUME NEW w \in Workers, Effect(w) \/ EffectFails(w)
      PROVE [Promise!Next]_(Promise!vars)
  <2> DEFINE f == event[w]
  <2>1. pc[w] = "ready" /\ inbox' = inbox
    BY <1>6 DEF Effect, EffectFails
  <2>2. CASE emitted' = emitted
    BY <1>2, <2>1, <2>2
  <2>3. CASE CarryOut(w)
    <3>1. result[w] = inbox[f].result /\ inbox[f].result # NoResult
      BY <2>1, InboxAssumption DEF DataFits, InHand, RowsOK
    <3>2. emitted[f] \cup {result[w]} = {inbox[f].result}
      BY <1>0, <3>1 DEF DataFits, RowFits
    <3>3. emitted' = [emitted EXCEPT ![f] = {inbox[f].result}]
      BY <1>0, <2>3, <3>2 DEF CarryOut, RowsOK
    <3>4. Promise!Emit(f)
      BY <1>0, <2>1, <3>1, <3>3 DEF Promise!Emit
    <3> QED
      BY <1>0, <3>4 DEF Promise!Next
  <2> QED
    BY <1>6, <2>2, <2>3 DEF Effect, EffectFails, effectVars
<1>7. ASSUME NEW w \in Workers, MarkCompleted(w) \/ CompleteFails(w)
      PROVE [Promise!Next]_(Promise!vars)
  <2> PICK f \in Events : f = event[w]
    BY <1>0
  <2>1. pc[w] = "effected" /\ emitted' = emitted /\ emitted[f] # {}
    BY <1>7 DEF MarkCompleted, CompleteFails, DataFits, InHand, effectVars
  <2>2. CASE inbox' = inbox
    BY <1>2, <2>1, <2>2
  <2>3. CASE inbox' = [inbox EXCEPT ![f] = Completed(inbox[f])]
    <3>1. /\ Completed(inbox[f]).result = inbox[f].result
          /\ Completed(inbox[f]).status = "COMPLETED"
      BY <1>0 DEF Completed, Row
    <3>2. \A e \in Events : inbox'[e] = IF e = f THEN Completed(inbox[f]) ELSE inbox[e]
      BY <1>0, <2>3 DEF RowsOK
    <3>3. Decided' = Decided
      BY <3>1, <3>2 DEF Decided
    <3>4. Closed' = [Closed EXCEPT ![f] = TRUE]
      BY <1>0, <3>1, <3>2 DEF Closed
    <3>5. Promise!Close(f)
      BY <1>0, <2>1, <3>3, <3>4 DEF Promise!Close, Decided, Closed
    <3> QED
      BY <3>5 DEF Promise!Next
  <2> QED
    BY <1>7, <2>2, <2>3 DEF MarkCompleted, CompleteFails
<1>8. ASSUME NEW w \in Workers, Release(w) PROVE [Promise!Next]_(Promise!vars)
  <2> DEFINE f == event[w]
  <2>1. inbox' = [inbox EXCEPT ![f] = Released(inbox[f], w)] /\ emitted' = emitted
    BY <1>8 DEF Release, effectVars
  <2>2. /\ Released(inbox[f], w).result = inbox[f].result
        /\ Released(inbox[f], w).status = inbox[f].status
    BY <1>0 DEF Released, Row
  <2> QED
    BY <1>0, <1>1, <2>1, <2>2, PromiseRowFrame
<1>9. ASSUME NEW f \in Events, LeaseExpires(f) PROVE [Promise!Next]_(Promise!vars)
  <2>1. /\ inbox' = [inbox EXCEPT ![f] = [inbox[f] EXCEPT !.lockedUntil = PAST]]
        /\ emitted' = emitted
    BY <1>9 DEF LeaseExpires, effectVars
  <2>2. /\ [inbox[f] EXCEPT !.lockedUntil = PAST].result = inbox[f].result
        /\ [inbox[f] EXCEPT !.lockedUntil = PAST].status = inbox[f].status
    BY <1>0 DEF Row
  <2> QED
    BY <1>1, <2>1, <2>2, PromiseRowFrame
<1>10. ASSUME NEW f \in Events, DeleteCompleted(f) PROVE [Promise!Next]_(Promise!vars)
  <2>1. /\ inbox[f].status = "COMPLETED"
        /\ inbox' = [inbox EXCEPT ![f] = EmptyRow]
        /\ emitted' = [emitted EXCEPT ![f] = {}]
    BY <1>10 DEF DeleteCompleted
  <2>2. \A e \in Events : inbox'[e] = IF e = f THEN EmptyRow ELSE inbox[e]
    BY <2>1 DEF RowsOK
  <2>3. Decided' = [Decided EXCEPT ![f] = NoResult]
    BY <2>2, EmptyRowFields DEF Decided
  <2>4. Closed' = [Closed EXCEPT ![f] = FALSE]
    BY <2>2, EmptyRowFields DEF Closed
  <2>5. Promise!Forget(f)
    BY <2>1, <2>3, <2>4 DEF Promise!Forget, Decided, Closed
  <2> QED
    BY <2>5 DEF Promise!Next
<1>11. CASE UNCHANGED vars
  BY <1>2, <1>11 DEF vars
<1>12. CASE RunnerStep
  BY <1>2, <1>12, RunnerFrame
<1> QED
  BY <1>3, <1>4, <1>5, <1>6, <1>7, <1>8, <1>9, <1>10, <1>11, <1>12 DEF Next, Call, RunnerStep

\* Every behaviour of the inbox is, seen through its rows, one of ConsumeOnce.
THEOREM Implementation == Spec => ImplementsConsumeOnce
<1>1. IInv /\ [Next]_vars => [Promise!Next]_(Promise!vars)
  BY StepPromise
<1> QED
  BY <1>1, InitPromise, Inductive, PTL DEF Spec, Promise!Spec, ImplementsConsumeOnce
===============================================================================
