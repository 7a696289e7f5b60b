-------------------------------- MODULE Inbox --------------------------------
(***************************************************************************)
(* The durable consumer inbox of packages/kafka: the rows of               *)
(* kafka_consumer_inbox of one consumer name, and the instances of that    *)
(* service which run KafkaIdempotentEventProcessor.process on deliveries   *)
(* of the same events. A call that throws is not repeated: the runner sends *)
(* a copy to the next retry topic, after the last one to the dead-letter   *)
(* topic, and commits. How the groups share those topics is RetryRouting's *)
(* subject; here are the records of this service's own failures.           *)
(*                                                                         *)
(* The random lock token of a call is represented by the instance that     *)
(* makes the call: an instance handles one message at a time, and a token  *)
(* left behind by a dead call is never presented again.                    *)
(* locked_until is abstracted to what the SQL compares with now().         *)
(***************************************************************************)
EXTENDS Integers, FiniteSets

CONSTANTS
  Events,    \* incoming event ids
  Workers,   \* instances of the service, one message in hand each
  Results,   \* what prepare() may compute; it need not be deterministic
  NoResult,  \* a null result column
  Stages,    \* retry topics in the chain; topic 0 is the source
  Long,      \* those of them whose delay is no shorter than a lease
  Possible,  \* the disturbances of this instance
  Limit      \* how many of them, of whatever kinds, a behaviour may contain

Disturbances == {"prepareError", "effectError", "ackLost", "dbError", "crash",
                 "leaseExpiry", "retention", "dispatchError", "redelivery", "rebalance"}

ReadTopics == 0 .. Stages
DeadLetter == Stages + 1
Topics == 0 .. DeadLetter

NONE   == "NONE"
FUTURE == "FUTURE"
PAST   == "PAST"
Instant == {NONE, FUTURE, PAST}

ASSUME InboxAssumption ==
  /\ NoResult \notin Results
  /\ NONE \notin Workers
  /\ Stages \in Nat /\ Long \subseteq 1 .. Stages
  /\ Possible \subseteq Disturbances /\ Limit \in Nat

Row == [status: {"ABSENT", "PROCESSING", "PREPARED", "COMPLETED"},
        result: Results \cup {NoResult},
        token: Workers \cup {NONE}, lockedUntil: Instant]

VARIABLES
  inbox,    \* kafka_consumer_inbox
  copies,   \* event -> topic -> records of the event appended to it
  settled,  \* event -> topic -> how many of them the group committed past
  ripe,     \* event -> topic -> how many of them waited out their delay
  pc,       \* worker -> where process(), or the runner around it, is
  event,    \* worker -> the event its call is about
  record,   \* worker -> topic of the record it handles, and if it still owns the partition
  result,   \* worker -> the result its call will hand to effect()
  emitted,  \* history: event -> results its effects carried, this window
  times,    \* history: event -> effects carried out
  cause,    \* history: event -> disturbances that hit it
  spent     \* disturbances so far

vars == <<inbox, copies, settled, ripe, pc, event, record, result, emitted, times, cause, spent>>
kafkaVars == <<copies, settled, ripe>>
callVars == <<pc, event, record, result>>
effectVars == <<emitted, times>>

-----------------------------------------------------------------------------
EmptyRow == [status |-> "ABSENT", result |-> NoResult, token |-> NONE,
             lockedUntil |-> NONE]

Works(w, e) == pc[w] \notin {"idle", "thrown"} /\ event[w] = e

Disturb(d, hit) ==
  /\ d \in Possible /\ spent < Limit
  /\ spent' = spent + 1
  /\ cause' = [e \in Events |-> IF e \in hit THEN cause[e] \cup {d} ELSE cause[e]]

Undisturbed == UNCHANGED <<cause, spent>>

Goto(w, label) == pc' = [pc EXCEPT ![w] = label]

NoRecord == [topic |-> 0, owned |-> FALSE]

\* eachMessage is over, and its locals are gone.
Leave(w) ==
  /\ Goto(w, "idle")
  /\ record' = [record EXCEPT ![w] = NoRecord]
  /\ result' = [result EXCEPT ![w] = NoResult]
  /\ UNCHANGED event

Init ==
  /\ inbox = [e \in Events |-> EmptyRow]
  /\ copies = [e \in Events |-> [t \in Topics |-> IF t = 0 THEN 1 ELSE 0]]
  /\ settled = [e \in Events |-> [t \in ReadTopics |-> 0]]
  /\ ripe = [e \in Events |-> [t \in Long |-> 0]]
  /\ pc = [w \in Workers |-> "idle"]
  /\ event \in [Workers -> Events]
  /\ record = [w \in Workers |-> NoRecord]
  /\ result = [w \in Workers |-> NoResult]
  /\ emitted = [e \in Events |-> {}]
  /\ times = [e \in Events |-> 0]
  /\ cause = [e \in Events |-> {}]
  /\ spent = 0

-----------------------------------------------------------------------------
(* KafkaConsumerRunner: deliveries                                         *)

\* A member of the group has the next record of e in topic t in hand.
Owned(e, t) ==
  \E w \in Workers : event[w] = e /\ record[w] = [topic |-> t, owned |-> TRUE]

\* The next record of e in topic t is there, its delay is over, and w is free.
Delivered(w, e, t) ==
  /\ pc[w] = "idle"
  /\ settled[e][t] < copies[e][t] /\ ~Owned(e, t)
  /\ t \in Long => settled[e][t] < ripe[e][t]

Take(w, e, t) ==
  /\ event' = [event EXCEPT ![w] = e]
  /\ record' = [record EXCEPT ![w] = [topic |-> t, owned |-> TRUE]]

\* The offset is committed, unless the partition has moved: Kafka refuses the
\* commit of a former owner.
Settle(w) ==
  settled' = IF record[w].owned
             THEN [settled EXCEPT ![event[w]][record[w].topic] = @ + 1]
             ELSE settled

SendCopy(w) == copies' = [copies EXCEPT ![event[w]][record[w].topic + 1] = @ + 1]

\* delayWithHeartbeat. A long delay outlasts whatever lease there was when the
\* copy was sent: it is over no sooner than the next moment without a lease.
DelaysElapse ==
  ripe' = [e \in Events |->
             IF inbox'[e].lockedUntil = FUTURE THEN ripe[e]
             ELSE [t \in Long |-> copies'[e][t]]]

\* The catch block of eachMessage: a copy goes to the next topic of the chain
\* (decideFailure), then the offset is committed.
Dispatch(w) ==
  /\ pc[w] = "thrown"
  /\ SendCopy(w)
  /\ Settle(w)
  /\ Leave(w)
  /\ UNCHANGED <<inbox, effectVars>>
  /\ DelaysElapse
  /\ Undisturbed

\* Mutant: the offset is committed although dispatch threw.
DispatchFailsCommitted(w) ==
  /\ pc[w] = "thrown"
  /\ SendCopy(w) \/ UNCHANGED copies
  /\ Settle(w)
  /\ Leave(w)
  /\ Disturb("dispatchError", {})
  /\ UNCHANGED <<inbox, effectVars>>
  /\ DelaysElapse

\* dispatch throws, with the copy sent or not: the offset stays.
DispatchFails(w) ==
  /\ pc[w] = "thrown"
  /\ SendCopy(w) \/ UNCHANGED copies
  /\ Leave(w)
  /\ Disturb("dispatchError", {})
  /\ UNCHANGED <<inbox, settled, effectVars>>
  /\ DelaysElapse

\* A member leaves before an offset is committed that it had done with.
Redeliver(e, t) ==
  /\ settled[e][t] > 0 /\ ~Owned(e, t)
  /\ settled' = [settled EXCEPT ![e][t] = @ - 1]
  /\ Disturb("redelivery", {})
  /\ UNCHANGED <<inbox, copies, ripe, callVars, effectVars>>

\* A rebalance: the partition moves while w has its record in hand. The new
\* owner gets the record again; w is not told and goes on.
Rebalance(w) ==
  /\ record[w].owned
  /\ record' = [record EXCEPT ![w].owned = FALSE]
  /\ Disturb("rebalance", {})
  /\ UNCHANGED <<inbox, kafkaVars, pc, event, result, effectVars>>

-----------------------------------------------------------------------------
(* claim                                                                   *)

\* Mutant: any unfinished row can be taken over, leased or not.
ClaimableAlways(r) == r.status # "COMPLETED"

\* The insert succeeds, or the update of an unfinished row whose lease is over.
Claimable(r) == r.status # "COMPLETED" /\ r.lockedUntil # FUTURE

Leased(r, w) ==
  [r EXCEPT !.status = IF @ = "ABSENT" THEN "PROCESSING" ELSE @,
            !.token = w, !.lockedUntil = FUTURE]

\* A row saved as PREPARED skips prepare().
Claim(w, e, t) ==
  /\ Delivered(w, e, t)
  /\ Claimable(inbox[e])
  /\ inbox' = [inbox EXCEPT ![e] = Leased(@, w)]
  /\ Take(w, e, t)
  /\ Goto(w, IF inbox[e].status = "PREPARED" THEN "ready" ELSE "claimed")
  /\ result' = [result EXCEPT ![w] = inbox[e].result]
  /\ UNCHANGED <<kafkaVars, effectVars>>
  /\ Undisturbed

\* Mutant: whoever gets no lock token takes the event for a duplicate, also
\* when the row is merely leased.
DuplicateOrBusy(w, e, t) ==
  /\ Delivered(w, e, t)
  /\ ~Claimable(inbox[e])
  /\ settled' = [settled EXCEPT ![e][t] = @ + 1]
  /\ UNCHANGED <<inbox, copies, ripe, callVars, effectVars>>
  /\ Undisturbed

\* The row is COMPLETED: process() returns and the offset is committed.
Duplicate(w, e, t) ==
  /\ Delivered(w, e, t)
  /\ inbox[e].status = "COMPLETED"
  /\ settled' = [settled EXCEPT ![e][t] = @ + 1]
  /\ UNCHANGED <<inbox, copies, ripe, callVars, effectVars>>
  /\ Undisturbed

\* KafkaInboxBusyError: the row is leased, by a live call or by a dead one.
Busy(w, e, t) ==
  /\ Delivered(w, e, t)
  /\ inbox[e].status # "COMPLETED" /\ ~Claimable(inbox[e])
  /\ Take(w, e, t)
  /\ Goto(w, "thrown")
  /\ UNCHANGED <<inbox, kafkaVars, result, effectVars>>
  /\ Undisturbed

\* claim throws: rolled back, or committed with the reply lost, so that the
\* row is leased and nobody knows.
ClaimFails(w, e, t) ==
  /\ Delivered(w, e, t)
  /\ \/ inbox' = inbox
     \/ /\ Claimable(inbox[e])
        /\ inbox' = [inbox EXCEPT ![e] = Leased(@, w)]
  /\ Take(w, e, t)
  /\ Goto(w, "thrown")
  /\ Disturb("dbError", {})
  /\ UNCHANGED <<kafkaVars, result, effectVars>>

-----------------------------------------------------------------------------
(* prepare and savePrepared                                                *)

\* Mutant: savePrepared checks nothing and overwrites a saved result.
SaveOverwrites(r, w) == r.status # "ABSENT"

SaveMatches(r, w) == r.token = w /\ r.status = "PROCESSING"

Saved(r, v) == [r EXCEPT !.status = "PREPARED", !.result = v]

SavePrepared(w, v) ==
  LET e == event[w]
  IN  /\ pc[w] = "claimed"
      /\ SaveMatches(inbox[e], w)
      /\ inbox' = [inbox EXCEPT ![e] = Saved(@, v)]
      /\ result' = [result EXCEPT ![w] = v]
      /\ Goto(w, "ready")
      /\ UNCHANGED <<kafkaVars, event, record, effectVars>>
      /\ Undisturbed

\* No row matched: "Kafka inbox lease was lost".
SaveLosesLease(w) ==
  /\ pc[w] = "claimed"
  /\ ~SaveMatches(inbox[event[w]], w)
  /\ Goto(w, "caught")
  /\ UNCHANGED <<inbox, kafkaVars, event, record, result, effectVars>>
  /\ Undisturbed

PrepareFails(w) ==
  /\ pc[w] = "claimed"
  /\ Goto(w, "caught")
  /\ Disturb("prepareError", {})
  /\ UNCHANGED <<inbox, kafkaVars, event, record, result, effectVars>>

\* savePrepared throws before or after its UPDATE took effect.
SaveFails(w, v) ==
  LET e == event[w]
  IN  /\ pc[w] = "claimed"
      /\ \/ inbox' = inbox
         \/ /\ SaveMatches(inbox[e], w)
            /\ inbox' = [inbox EXCEPT ![e] = Saved(@, v)]
      /\ Goto(w, "caught")
      /\ Disturb("dbError", {})
      /\ UNCHANGED <<kafkaVars, event, record, result, effectVars>>

-----------------------------------------------------------------------------
(* effect                                                                  *)

CarryOut(w) ==
  /\ emitted' = [emitted EXCEPT ![event[w]] = @ \cup {result[w]}]
  /\ times' = [times EXCEPT ![event[w]] = @ + 1]

Effect(w) ==
  /\ pc[w] = "ready"
  /\ CarryOut(w)
  /\ Goto(w, "effected")
  /\ UNCHANGED <<inbox, kafkaVars, event, record, result>>
  /\ Undisturbed

\* effect rejects: nothing happened outside, or it did and the reply was lost.
EffectFails(w) ==
  /\ pc[w] = "ready"
  /\ \/ UNCHANGED effectVars /\ Disturb("effectError", {})
     \/ CarryOut(w) /\ Disturb("ackLost", {event[w]})
  /\ Goto(w, "caught")
  /\ UNCHANGED <<inbox, kafkaVars, event, record, result>>

-----------------------------------------------------------------------------
(* markCompleted, release                                                  *)

CompleteMatches(r, w) == r.token = w /\ r.status = "PREPARED"

Completed(r) ==
  [r EXCEPT !.status = "COMPLETED", !.token = NONE, !.lockedUntil = NONE]

\* process() returns, and the offset is committed.
MarkCompleted(w) ==
  LET e == event[w]
  IN  /\ pc[w] = "effected"
      /\ CompleteMatches(inbox[e], w)
      /\ inbox' = [inbox EXCEPT ![e] = Completed(@)]
      /\ Settle(w)
      /\ Leave(w)
      /\ UNCHANGED <<copies, effectVars>>
      /\ DelaysElapse
      /\ Undisturbed

CompleteLosesLease(w) ==
  /\ pc[w] = "effected"
  /\ ~CompleteMatches(inbox[event[w]], w)
  /\ Goto(w, "caught")
  /\ UNCHANGED <<inbox, kafkaVars, event, record, result, effectVars>>
  /\ Undisturbed

CompleteFails(w) ==
  LET e == event[w]
  IN  /\ pc[w] = "effected"
      /\ \/ inbox' = inbox
         \/ /\ CompleteMatches(inbox[e], w)
            /\ inbox' = [inbox EXCEPT ![e] = Completed(@)]
      /\ Goto(w, "caught")
      /\ Disturb("dbError", {e})
      /\ UNCHANGED <<copies, settled, event, record, result, effectVars>>
      /\ DelaysElapse

\* A row that was taken over or completed meanwhile does not match.
Released(r, w) ==
  IF r.token = w /\ r.status # "COMPLETED"
  THEN [r EXCEPT !.token = NONE, !.lockedUntil = PAST]
  ELSE r

\* The catch block: release, rethrow.
Release(w) ==
  /\ pc[w] = "caught"
  /\ inbox' = [inbox EXCEPT ![event[w]] = Released(@, w)]
  /\ Goto(w, "thrown")
  /\ UNCHANGED <<copies, settled, event, record, result, effectVars>>
  /\ DelaysElapse
  /\ Undisturbed

\* release itself throws and replaces the error; the row stays leased.
ReleaseFails(w) ==
  /\ pc[w] = "caught"
  /\ Goto(w, "thrown")
  /\ Disturb("dbError", {})
  /\ UNCHANGED <<inbox, kafkaVars, event, record, result, effectVars>>

-----------------------------------------------------------------------------
(* Crashes, time, retention                                                *)

\* The offset is not committed, so the event is delivered again.
Crash(w) ==
  /\ pc[w] # "idle"
  /\ Leave(w)
  /\ Disturb("crash", IF pc[w] = "effected" THEN {event[w]} ELSE {})
  /\ UNCHANGED <<inbox, kafkaVars, effectVars>>

\* The lease is never renewed. Running out under a live call (a pause, a slow
\* effect, a rebalance that outlasts 30 s) is counted; healing a dead one is not.
LeaseExpires(e) ==
  /\ inbox[e].lockedUntil = FUTURE
  /\ inbox' = [inbox EXCEPT ![e].lockedUntil = PAST]
  /\ IF \E w \in Workers : Works(w, e)
     THEN Disturb("leaseExpiry", {e}) ELSE Undisturbed
  /\ UNCHANGED <<copies, settled, callVars, effectVars>>
  /\ DelaysElapse

\* Mutant: retention goes by age and takes a PREPARED row as well.
DeleteStale(e) ==
  /\ inbox[e].status \in {"PREPARED", "COMPLETED"}
  /\ \A w \in Workers : ~Works(w, e)
  /\ inbox' = [inbox EXCEPT ![e] = EmptyRow]
  /\ emitted' = [emitted EXCEPT ![e] = {}]
  /\ Disturb("retention", {e})
  /\ UNCHANGED <<kafkaVars, callVars, times>>

\* deleteCompletedInboxBefore. The cutoff is days old: no call made before it
\* is still running.
DeleteCompleted(e) ==
  /\ inbox[e].status = "COMPLETED"
  /\ \A w \in Workers : ~Works(w, e)
  /\ inbox' = [inbox EXCEPT ![e] = EmptyRow]
  /\ emitted' = [emitted EXCEPT ![e] = {}]
  /\ Disturb("retention", {e})
  /\ UNCHANGED <<kafkaVars, callVars, times>>

-----------------------------------------------------------------------------
Call(w) ==
  \/ \E e \in Events, t \in ReadTopics :
       Claim(w, e, t) \/ Duplicate(w, e, t) \/ Busy(w, e, t) \/ ClaimFails(w, e, t)
  \/ \E v \in Results : SavePrepared(w, v) \/ SaveFails(w, v)
  \/ SaveLosesLease(w) \/ PrepareFails(w)
  \/ Effect(w) \/ EffectFails(w)
  \/ MarkCompleted(w) \/ CompleteLosesLease(w) \/ CompleteFails(w)
  \/ Release(w) \/ ReleaseFails(w)
  \/ Dispatch(w) \/ DispatchFails(w)
  \/ Crash(w) \/ Rebalance(w)

Next ==
  \/ \E w \in Workers : Call(w)
  \/ \E e \in Events :
       \/ LeaseExpires(e) \/ DeleteCompleted(e)
       \/ \E t \in ReadTopics : Redeliver(e, t)

Spec == Init /\ [][Next]_vars

(* A consumer reads on to the next record that is not committed, an        *)
(* undisturbed await returns, and clocks run.                              *)
Fairness ==
  /\ \A e \in Events :
       /\ \A t \in ReadTopics :
            WF_vars(\E w \in Workers : Claim(w, e, t) \/ Duplicate(w, e, t) \/ Busy(w, e, t))
       /\ WF_vars(LeaseExpires(e))
  /\ \A w \in Workers :
       /\ WF_vars((\E v \in Results : SavePrepared(w, v)) \/ SaveLosesLease(w))
       /\ WF_vars(Effect(w))
       /\ WF_vars(MarkCompleted(w) \/ CompleteLosesLease(w))
       /\ WF_vars(Release(w))
       /\ WF_vars(Dispatch(w))

FairSpec == Spec /\ Fairness

-----------------------------------------------------------------------------
(* Properties                                                              *)

RowsOK ==
  /\ inbox \in [Events -> Row]
  /\ pc \in [Workers -> {"idle", "claimed", "ready", "effected", "caught", "thrown"}]
  /\ event \in [Workers -> Events]
  /\ result \in [Workers -> Results \cup {NoResult}]
  /\ emitted \in [Events -> SUBSET (Results \cup {NoResult})]
  /\ times \in [Events -> Nat]
  /\ cause \in [Events -> SUBSET Disturbances]
  /\ spent \in Nat
  /\ \A w \in Workers : pc[w] \in {"ready", "effected"} => result[w] \in Results

DeliveriesOK ==
  /\ copies \in [Events -> [Topics -> Nat]]
  /\ settled \in [Events -> [ReadTopics -> Nat]]
  /\ ripe \in [Events -> [Long -> Nat]]
  /\ record \in [Workers -> [topic: ReadTopics, owned: BOOLEAN]]

\* Shape of the state, and what a call in progress knows of its row: a call
\* past savePrepared has a result in hand.
TypeOK == RowsOK /\ DeliveriesOK

\* All side effects of an event carry the one result saved in its row, even
\* when prepare() is not deterministic, leases expire under live calls, two
\* instances race and the effect is repeated (process, savePrepared).
EffectsAgree == \A e \in Events : emitted[e] \subseteq {inbox[e].result}

\* A row is COMPLETED, and later deliveries are skipped as duplicates, only
\* after the side effect really happened.
CompletedMeansDone ==
  \A e \in Events : inbox[e].status = "COMPLETED" => emitted[e] # {}

\* An event is carried out once however deliveries, failures and restarts
\* interleave, unless an effect went unrecorded (crash or error after it),
\* a lease ran out under a live call, or retention forgot the event.
EffectOnce == \A e \in Events : cause[e] = {} => times[e] <= 1

\* A saved result never changes, and a completed row is never reopened; only
\* retention removes it (savePrepared, release and claim all guard on status).
ResultFixed ==
  [][\A e \in Events :
       /\ inbox[e].result # NoResult
            => \/ inbox'[e].result = inbox[e].result /\ inbox'[e].status # "PROCESSING"
               \/ inbox'[e].status = "ABSENT"
       /\ inbox[e].status = "COMPLETED"
            => inbox'[e].status \in {"COMPLETED", "ABSENT"}]_vars

\* Until an event is completed or dead-lettered, a record of it is still to be
\* committed: no failure, lost lease, crash, rebalance or failed dispatch drops it
\* between two topics (eachMessage dispatches first and commits then, and a
\* KafkaInboxBusyError is thrown, not taken for a duplicate).
NeverLost ==
  \A e \in Events :
    \/ inbox[e].status = "COMPLETED" \/ "retention" \in cause[e]
    \/ copies[e][DeadLetter] > 0
    \/ \E t \in ReadTopics : settled[e][t] < copies[e][t]

\* The inbox implements the promise of ConsumeOnce.
Promise == INSTANCE ConsumeOnce WITH
  decided <- [e \in Events |-> inbox[e].result],
  emitted <- emitted,
  closed  <- [e \in Events |-> inbox[e].status = "COMPLETED"]

ImplementsConsumeOnce == Promise!Spec

\* Retries are bounded, so every event ends COMPLETED or in the dead-letter topic:
\* a lease left behind by a dead call or a failed release is taken over. And it
\* is COMPLETED unless there were more disturbances than stages with a long delay.
\* While a lost lease runs every delivery is Busy and costs a stage, so that one
\* fault may cost two attempts; a long delay (30 s, 5 min) outlasts the lease.
EventuallyCompleted ==
  \A e \in Events :
    /\ <>(inbox[e].status = "COMPLETED" \/ copies[e][DeadLetter] > 0)
    /\ <>(inbox[e].status = "COMPLETED" \/ spent > Cardinality(Long))

-----------------------------------------------------------------------------
(* What the documentation says of the program                              *)

\* docs/adr/002: a rebalance during processing must not create a second side
\* effect. So lease expiry alone, which is how a rebalance or a pause meets a
\* running call, never repeats an effect.
RebalanceSafe ==
  \A e \in Events : cause[e] \subseteq {"leaseExpiry"} => times[e] <= 1
=============================================================================
