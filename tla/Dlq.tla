---------------------------------- MODULE Dlq ----------------------------------
(***************************************************************************)
(* The dead-letter queue of order-service: the consumer that stores        *)
(* records of dead-letter.events in dead_letter_events, the operators who  *)
(* reprocess or ignore them over the admin API, and the retention job.     *)
(*                                                                         *)
(* A row is deleted by retention and may be captured again: life numbers   *)
(* the rows one letter has had and stands for the row's uuid. A copy       *)
(* written to the outbox goes on in Outbox and OrderLifecycle!Reprocess.   *)
(***************************************************************************)
EXTENDS Integers

CONSTANTS
  Letters,    \* DeadLetterEvents in the topic, each with its own event id
  RawEvent,   \* letter -> the event type it wraps, or Unreadable
  Topic,      \* letter -> the topic the event failed in
  TopicOf,    \* EVENT_TOPIC_MAP: event type -> topic
  Unreadable, \* no rawEvent, or none that parses to an event
  Operators,  \* clients of the admin API, one request at a time
  Possible,   \* the disturbances of this instance
  Limit       \* how many of them, of whatever kinds, a behaviour may contain

Disturbances == {"dbError", "redelivery", "rollback", "retention"}

ASSUME DlqAssumption == Possible \subseteq Disturbances /\ Limit \in Nat

Action == {"REPROCESS", "IGNORE"}

Row == [status : {"ABSENT", "NEW", "REPROCESSED", "IGNORED"}, version : 0..2, life : Nat]

\* What a GET showed: the row's id and its version.
View   == [letter : Letters, life : Nat, version : Nat]
Unseen == [life |-> 0]

\* A transaction that has passed its checks and holds the row lock.
Tx   == [letter : Letters, action : Action]
Idle == [action |-> "NONE"]

VARIABLES
  rows,         \* dead_letter_events, by dead_letter_event_id
  consumer,     \* letter -> how far capture is: queued, inserted or committed
  view,         \* operator -> what it has on its screen
  tx,           \* operator -> the transaction of its request
  reprocessed,  \* history: letter -> REPROCESS decisions
  ignored,      \* history: letter -> IGNORE decisions
  copies,       \* history: letter -> outbox rows made from it
  spent         \* disturbances so far

vars == <<rows, consumer, view, tx, reprocessed, ignored, copies, spent>>
logs == <<reprocessed, ignored, copies>>

-----------------------------------------------------------------------------
Disturb(d) == d \in Possible /\ spent < Limit /\ spent' = spent + 1

Init ==
  /\ rows = [l \in Letters |-> [status |-> "ABSENT", version |-> 0, life |-> 0]]
  /\ consumer = [l \in Letters |-> "queued"]
  /\ view = [op \in Operators |-> Unseen]
  /\ tx = [op \in Operators |-> Idle]
  /\ reprocessed = [l \in Letters |-> 0]
  /\ ignored = [l \in Letters |-> 0]
  /\ copies = [l \in Letters |-> 0]
  /\ spent = 0

-----------------------------------------------------------------------------
(* capture                                                                 *)

\* Mutant: an upsert instead of orIgnore.
StoredAgain(r) == [status |-> "NEW", version |-> 1, life |-> IF r.life = 0 THEN 1 ELSE r.life]

\* insert ... orIgnore: an existing row, whatever its status, is kept.
Stored(r) ==
  IF r.status = "ABSENT" THEN [status |-> "NEW", version |-> 1, life |-> r.life + 1] ELSE r

Insert(l) ==
  /\ consumer[l] = "queued"
  /\ rows' = [rows EXCEPT ![l] = Stored(@)]
  /\ consumer' = [consumer EXCEPT ![l] = "inserted"]
  /\ UNCHANGED <<view, tx, logs, spent>>

\* Mutant: the error of the insert is logged and the offset committed.
InsertFailsSilently(l) ==
  /\ consumer[l] = "queued"
  /\ consumer' = [consumer EXCEPT ![l] = "committed"]
  /\ Disturb("dbError")
  /\ UNCHANGED <<rows, view, tx, logs>>

\* The insert throws, before or after it took effect. The retry policy does not
\* cover the dead-letter topic, so the record is read again.
InsertFails(l) ==
  /\ consumer[l] = "queued"
  /\ rows' = rows \/ rows' = [rows EXCEPT ![l] = Stored(@)]
  /\ Disturb("dbError")
  /\ UNCHANGED <<consumer, view, tx, logs>>

\* Mutant: a missing row is read again and again, never inserted again.
FindWaits(l) ==
  /\ consumer[l] = "inserted"
  /\ consumer' = [consumer EXCEPT
                    ![l] = IF rows[l].status = "ABSENT" THEN "inserted" ELSE "committed"]
  /\ UNCHANGED <<rows, view, tx, logs, spent>>

\* findOneByOrFail. The old row an ignored insert ran into may be gone by now.
Find(l) ==
  /\ consumer[l] = "inserted"
  /\ consumer' = [consumer EXCEPT
                    ![l] = IF rows[l].status = "ABSENT" THEN "queued" ELSE "committed"]
  /\ UNCHANGED <<rows, view, tx, logs, spent>>

\* A rebalance, a crash before the commit or a rewound offset.
Redeliver(l) ==
  /\ consumer[l] # "queued"
  /\ consumer' = [consumer EXCEPT ![l] = "queued"]
  /\ Disturb("redelivery")
  /\ UNCHANGED <<rows, view, tx, logs>>

-----------------------------------------------------------------------------
(* Operators                                                               *)

Look(op, l) ==
  /\ tx[op] = Idle
  /\ rows[l].status # "ABSENT"
  /\ view' = [view EXCEPT ![op] =
                [letter |-> l, life |-> rows[l].life, version |-> rows[l].version]]
  /\ UNCHANGED <<rows, consumer, tx, logs, spent>>

\* Mutant: findOne without lock: pessimistic_write.
NeverLocked(l) == FALSE

Locked(l) == \E op \in Operators : tx[op] # Idle /\ tx[op].letter = l

\* Mutant: the row is found by its letter, not by its id.
AcquireByLetter(op, action) ==
  LET v == view[op]
  IN  /\ tx[op] = Idle
      /\ v # Unseen
      /\ ~Locked(v.letter)
      /\ rows[v.letter].status = "NEW"
      /\ rows[v.letter].version = v.version
      /\ tx' = [tx EXCEPT ![op] = [letter |-> v.letter, action |-> action]]
      /\ UNCHANGED <<rows, consumer, view, logs, spent>>

\* findOne ... for update, assertNewStatus and assertExpectedVersion. A request
\* for a row that is gone (404), already decided or of another version (409)
\* changes nothing and is no step.
Acquire(op, action) ==
  LET v == view[op]
  IN  /\ tx[op] = Idle
      /\ v # Unseen
      /\ ~Locked(v.letter)
      /\ rows[v.letter].life = v.life
      /\ rows[v.letter].status = "NEW"
      /\ rows[v.letter].version = v.version
      /\ tx' = [tx EXCEPT ![op] = [letter |-> v.letter, action |-> action]]
      /\ UNCHANGED <<rows, consumer, view, logs, spent>>

Parsed(l) == RawEvent[l] # Unreadable

\* What createReprocessedEvent asks of a letter whatever payload the operator
\* sends with it (422 otherwise); the payload itself is taken to be corrected.
Reprocessable(l) ==
  /\ Parsed(l)
  /\ RawEvent[l] # "DeadLetterEvent"
  /\ TopicOf[RawEvent[l]] = Topic[l]

BeginReprocess(op) == Acquire(op, "REPROCESS") /\ Reprocessable(view[op].letter)

BeginIgnore(op) == Acquire(op, "IGNORE")

Decided(r, status) == [r EXCEPT !.status = status, !.version = @ + 1]

\* Status, outbox row and audit row commit together.
Reprocess(op) ==
  LET l == tx[op].letter
  IN  /\ tx[op].action = "REPROCESS"
      /\ rows' = [rows EXCEPT ![l] = Decided(@, "REPROCESSED")]
      /\ copies' = [copies EXCEPT ![l] = @ + 1]
      /\ reprocessed' = [reprocessed EXCEPT ![l] = @ + 1]
      /\ tx' = [tx EXCEPT ![op] = Idle]
      /\ UNCHANGED <<consumer, view, ignored, spent>>

Ignore(op) ==
  LET l == tx[op].letter
  IN  /\ tx[op].action = "IGNORE"
      /\ rows' = [rows EXCEPT ![l] = Decided(@, "IGNORED")]
      /\ ignored' = [ignored EXCEPT ![l] = @ + 1]
      /\ tx' = [tx EXCEPT ![op] = Idle]
      /\ UNCHANGED <<consumer, view, reprocessed, copies, spent>>

Rollback(op) ==
  /\ tx[op] # Idle
  /\ tx' = [tx EXCEPT ![op] = Idle]
  /\ Disturb("rollback")
  /\ UNCHANGED <<rows, consumer, view, logs>>

-----------------------------------------------------------------------------
(* DlqRetentionService                                                     *)

\* Mutant: by age only.
DeletableByAge(r) == r.status # "ABSENT"

Deletable(r) == r.status \in {"REPROCESSED", "IGNORED"}

DeleteResolved(l) ==
  /\ Deletable(rows[l])
  /\ rows' = [rows EXCEPT ![l] = [@ EXCEPT !.status = "ABSENT", !.version = 0]]
  /\ Disturb("retention")
  /\ UNCHANGED <<consumer, view, tx, logs>>

-----------------------------------------------------------------------------
Next ==
  \/ \E l \in Letters :
       Insert(l) \/ InsertFails(l) \/ Find(l) \/ Redeliver(l) \/ DeleteResolved(l)
  \/ \E op \in Operators :
       \/ \E l \in Letters : Look(op, l)
       \/ BeginReprocess(op) \/ Reprocess(op)
       \/ BeginIgnore(op) \/ Ignore(op)
       \/ Rollback(op)

Spec == Init /\ [][Next]_vars

\* The consumer keeps reading; operators need not act.
Fairness == \A l \in Letters : WF_vars(Insert(l)) /\ WF_vars(Find(l))

FairSpec == Spec /\ Fairness

-----------------------------------------------------------------------------
(* Properties                                                              *)

\* Shape of the state; a row counts one version per decision, and only an
\* event that can be read and belongs to its topic is ever sent again.
TypeOK ==
  /\ rows \in [Letters -> Row]
  /\ consumer \in [Letters -> {"queued", "inserted", "committed"}]
  /\ view \in [Operators -> View \cup {Unseen}]
  /\ tx \in [Operators -> Tx \cup {Idle}]
  /\ reprocessed \in [Letters -> Nat]
  /\ ignored \in [Letters -> Nat]
  /\ copies \in [Letters -> Nat]
  /\ spent \in Nat
  /\ \A l \in Letters :
       /\ rows[l].status = "NEW" <=> rows[l].version = 1
       /\ copies[l] > 0 => Reprocessable(l)

\* Every record that was ever stored is still NEW or was decided exactly once,
\* whoever else tried, and retention took it only after that. The outbox has a
\* copy for exactly those reprocessed: REPROCESSED without a copy that will be
\* published is impossible, and so is a copy without the decision.
DecidedOnce ==
  \A l \in Letters :
    /\ reprocessed[l] + ignored[l] = rows[l].life - (IF rows[l].status = "NEW" THEN 1 ELSE 0)
    /\ copies[l] = reprocessed[l]

\* A decision is about the very row and version its operator looked at, up to
\* the commit: no other operator and no retention gets in between.
DecidedAsSeen ==
  \A op \in Operators : tx[op] # Idle =>
    LET v == view[op]
    IN  /\ v # Unseen /\ v.letter = tx[op].letter
        /\ rows[v.letter].status = "NEW"
        /\ rows[v.letter].life = v.life /\ rows[v.letter].version = v.version

\* A dead letter's offset is committed only when its record has been stored.
CommittedMeansStored == \A l \in Letters : consumer[l] = "committed" => rows[l].life > 0

\* Redelivery neither opens a decided record again nor makes a second one next
\* to it, and a record nobody has decided is never removed (saveIfAbsent,
\* deleteResolvedBefore).
DecisionStands ==
  [][\A l \in Letters :
       /\ rows[l].status \in {"REPROCESSED", "IGNORED"}
            => rows'[l].status \in {rows[l].status, "ABSENT"}
       /\ rows[l].status = "NEW" => rows'[l].status # "ABSENT"
       /\ rows[l].status # "ABSENT" => rows'[l].life = rows[l].life]_vars

\* Capture ends: after any faults and redeliveries every dead letter is stored
\* and its offset committed, even if retention deletes the old row between the
\* ignored insert and the read.
EventuallyCaptured == \A l \in Letters : <>[](consumer[l] = "committed")

\* However requests overlap, fail or come from old screens, decisions take effect
\* one at a time, each on the very record its operator saw: Resolution.
Record == [l \in Letters |-> [status |-> rows[l].status, life |-> rows[l].life]]
SeenBy == [op \in Operators |->
            IF view[op] = Unseen THEN [life |-> 0]
            ELSE [letter |-> view[op].letter, life |-> view[op].life]]
Audit  == [l \in Letters |-> [a \in Action |-> IF a = "REPROCESS" THEN reprocessed[l]
                                               ELSE ignored[l]]]

Promise == INSTANCE Resolution WITH record <- Record, seen <- SeenBy, audit <- Audit
ImplementsResolution == Promise!Spec
================================================================================
