--------------------------------- MODULE RiskGo ---------------------------------
(***************************************************************************)
(* risk-service-go on one partition of order.order-events: a loop that     *)
(* polls a batch and, record by record, decodes, scores, publishes the     *)
(* risk event and commits the offset. A record whose handling fails is     *)
(* logged and passed over. A commit that fails ends the process.           *)
(*                                                                         *)
(* franz-go may move the partition to another member while a batch is in   *)
(* hand; nothing in the service stops its old owner from finishing it.     *)
(* Keys, scores and the codec caches are left out.                         *)
(***************************************************************************)
EXTENDS Integers, Sequences, FiniteSets

CONSTANTS
  Orders,    \* ids of the orders whose OrderCreated the topic carries
  Other,     \* a record of another event
  Members,   \* instances of the service, one consumer group
  Nobody,    \* the owner of a partition that is not assigned
  MaxLog,    \* bound: records published to the partition
  Possible,  \* the disturbances of this instance
  Limit      \* how many of them, of whatever kinds, a behaviour may contain

Disturbances == {"handleError", "commitError", "crash", "rebalance"}

RiskGoAssumption ==
  /\ Other \notin Orders /\ Nobody \notin Members
  /\ MaxLog \in Nat /\ Possible \subseteq Disturbances /\ Limit \in Nat

\* What is left of the batch in hand: offsets next..last.
Batch   == [next : Nat, last : Nat]
NoBatch == [next |-> 1, last |-> 0]

VARIABLES
  log,        \* the records of the partition, by offset: an order's OrderCreated, or Other
  committed,  \* the group's offset: the last record that is done
  owner,      \* the member the partition is assigned to
  stage,      \* member -> where its loop is, or "down"
  fetched,    \* member -> the last record PollFetches gave it, or was told to resume after
  batch,      \* member -> the batch in hand
  scored,     \* offsets of the OrderCreated whose risk event is in Kafka, in order
  failed,     \* offsets whose handling failed somewhere and was logged
  spent       \* disturbances so far

vars == <<log, committed, owner, stage, fetched, batch, scored, failed, spent>>

-----------------------------------------------------------------------------
Disturb(d) == d \in Possible /\ spent < Limit /\ spent' = spent + 1

IsOrder(o) == log[o] # Other
Scored     == {scored[i] : i \in DOMAIN scored}

Init ==
  /\ log = <<>> /\ committed = 0 /\ owner = Nobody
  /\ stage = [m \in Members |-> "polling"]
  /\ fetched = [m \in Members |-> 0]
  /\ batch = [m \in Members |-> NoBatch]
  /\ scored = <<>> /\ failed = {}
  /\ spent = 0

\* order-service's outbox publishes an event.
Produce(r) ==
  /\ Len(log) < MaxLog
  /\ log' = Append(log, r)
  /\ UNCHANGED <<committed, owner, stage, fetched, batch, scored, failed, spent>>

\* Mutant: the partition is read from its end, as with AtEnd and no offset.
FromTheEnd == Len(log)

\* The record after which a member that is assigned the partition reads on.
Resume == committed

TakeOver(m) ==
  /\ stage[m] # "down"
  /\ owner' = m
  /\ fetched' = [fetched EXCEPT ![m] = Resume]
  /\ UNCHANGED <<log, committed, stage, batch, scored, failed>>

\* The group assigns the partition, or moves it from a member that is up and
\* that keeps the batch it has in hand.
Assign(m)    == owner = Nobody /\ TakeOver(m) /\ UNCHANGED spent
Rebalance(m) == owner \notin {m, Nobody} /\ TakeOver(m) /\ Disturb("rebalance")

\* Mutant: a poll drops the rest of what the last one left out.
PollSkips(m) ==
  /\ owner = m /\ stage[m] = "polling"
  /\ \E last \in fetched[m] + 1 .. Len(log) :
       /\ batch' = [batch EXCEPT ![m] = [next |-> last, last |-> last]]
       /\ fetched' = [fetched EXCEPT ![m] = last]
  /\ stage' = [stage EXCEPT ![m] = "handling"]
  /\ UNCHANGED <<log, committed, owner, scored, failed, spent>>

\* PollFetches: some of the records that follow.
Poll(m) ==
  /\ owner = m /\ stage[m] = "polling"
  /\ \E last \in fetched[m] + 1 .. Len(log) :
       /\ batch' = [batch EXCEPT ![m] = [next |-> fetched[m] + 1, last |-> last]]
       /\ fetched' = [fetched EXCEPT ![m] = last]
  /\ stage' = [stage EXCEPT ![m] = "handling"]
  /\ UNCHANGED <<log, committed, owner, scored, failed, spent>>

\* iter.Next: on to the next record of the batch, or back to PollFetches.
NextRecord(m) ==
  LET b == batch[m]
  IN  IF b.next < b.last
      THEN /\ batch' = [batch EXCEPT ![m].next = b.next + 1]
           /\ stage' = [stage EXCEPT ![m] = "handling"]
      ELSE /\ batch' = [batch EXCEPT ![m] = NoBatch]
           /\ stage' = [stage EXCEPT ![m] = "polling"]

\* Mutant: a producer without idempotence sends the record again after a timeout.
HandleTwice(m) ==
  /\ stage[m] = "handling" /\ IsOrder(batch[m].next)
  /\ scored' = scored \o <<batch[m].next, batch[m].next>>
  /\ stage' = [stage EXCEPT ![m] = "handled"]
  /\ UNCHANGED <<log, committed, owner, fetched, batch, failed, spent>>

\* handleRecord up to the acknowledgement of the risk event.
Handle(m) ==
  /\ stage[m] = "handling" /\ IsOrder(batch[m].next)
  /\ scored' = Append(scored, batch[m].next)
  /\ stage' = [stage EXCEPT ![m] = "handled"]
  /\ UNCHANGED <<log, committed, owner, fetched, batch, failed, spent>>

\* Another event has no payload.itemCount: an error too, before its type is read.
\* So it is not committed either, until an OrderCreated behind it is.
PassOver(m) ==
  /\ stage[m] = "handling" /\ ~IsOrder(batch[m].next)
  /\ NextRecord(m)
  /\ UNCHANGED <<log, committed, owner, fetched, scored, failed, spent>>

\* The registry, the codec, the scorer or the producer fails, the last one with
\* or without the risk event in Kafka: logged, on to the next record.
HandleFails(m) ==
  /\ stage[m] = "handling" /\ IsOrder(batch[m].next)
  /\ scored' \in {scored, Append(scored, batch[m].next)}
  /\ failed' = failed \cup {batch[m].next}
  /\ NextRecord(m)
  /\ Disturb("handleError")
  /\ UNCHANGED <<log, committed, owner, fetched>>

\* Mutant: the commit is sent for the batch, as CommitUncommittedOffsets does.
CommitBatch(m) == batch[m].last

\* The offset CommitRecords(record) sends.
CommitOffset(m) == batch[m].next

\* The broker asks for a member of the group's generation, not for the owner: an
\* old owner's commit may be accepted, even if it moves the offset back.
Commit(m) ==
  /\ stage[m] = "handled"
  /\ committed' = CommitOffset(m)
  /\ NextRecord(m)
  /\ UNCHANGED <<log, owner, fetched, scored, failed, spent>>

\* The member leaves the group and forgets its batch.
Exit(m) ==
  /\ stage' = [stage EXCEPT ![m] = "down"]
  /\ batch' = [batch EXCEPT ![m] = NoBatch]
  /\ fetched' = [fetched EXCEPT ![m] = 0]
  /\ owner' = IF owner = m THEN Nobody ELSE owner
  /\ UNCHANGED <<log, scored, failed>>

\* CommitRecords returns an error, whatever became of the commit: Run returns
\* it and main ends. For an old owner a rejection is nothing unusual.
CommitFails(m) ==
  /\ stage[m] = "handled"
  /\ committed' \in {committed, CommitOffset(m)}
  /\ Exit(m)
  /\ IF owner # m THEN UNCHANGED spent ELSE Disturb("commitError")

\* A crash, SIGTERM or an error from PollFetches.
Crash(m) ==
  /\ stage[m] # "down"
  /\ Exit(m)
  /\ Disturb("crash")
  /\ UNCHANGED committed

\* Whoever runs the service starts it again.
Start(m) ==
  /\ stage[m] = "down"
  /\ stage' = [stage EXCEPT ![m] = "polling"]
  /\ UNCHANGED <<log, committed, owner, fetched, batch, scored, failed, spent>>

Work(m) == Poll(m) \/ Handle(m) \/ PassOver(m) \/ Commit(m)

Next ==
  \/ \E r \in Orders \cup {Other} : Produce(r)
  \/ \E m \in Members :
       \/ Assign(m) \/ Rebalance(m) \/ Work(m)
       \/ HandleFails(m) \/ CommitFails(m) \/ Crash(m) \/ Start(m)

Spec == Init /\ [][Next]_vars

\* Calls return, the group assigns its partition, and the service is restarted
\* (by its operator: neither main.go nor a compose file does it).
Fairness ==
  /\ WF_vars(\E m \in Members : Assign(m))
  /\ \A m \in Members : WF_vars(Start(m)) /\ WF_vars(Work(m) \/ CommitFails(m))

-----------------------------------------------------------------------------
(* Properties                                                              *)

\* Shape of the state. A batch in hand lies inside the log.
TypeOK ==
  /\ log \in Seq(Orders \cup {Other})
  /\ committed \in 0 .. Len(log)
  /\ owner \in Members \cup {Nobody}
  /\ stage \in [Members -> {"polling", "handling", "handled", "down"}]
  /\ fetched \in [Members -> 0 .. Len(log)]
  /\ batch \in [Members -> Batch]
  /\ scored \in Seq(1 .. Len(log))
  /\ failed \subseteq 1 .. Len(log)
  /\ spent \in Nat
  /\ \A m \in Members :
       IF stage[m] \in {"handling", "handled"}
       THEN 1 <= batch[m].next /\ batch[m].next <= batch[m].last /\ batch[m].last <= Len(log)
       ELSE batch[m] = NoBatch

\* The group never commits past an OrderCreated that nobody handled: one whose
\* risk event is in Kafka, or whose error was logged. Holds through crashes and
\* for the batch an old owner finishes beside the new one.
CommittedMeansHandled ==
  \A o \in 1 .. committed : IsOrder(o) => o \in Scored \cup failed

\* Risk events start to appear in the order of the log: when a record is
\* answered, every OrderCreated before it was answered or failed already.
ScoredInLogOrder ==
  \A i \in DOMAIN scored : \A o \in 1 .. scored[i] - 1 :
    IsOrder(o) => o \in failed \/ \E j \in 1 .. i - 1 : scored[j] = o

\* Risk events are for OrderCreated only, and every further one for a record, with
\* its new random eventId, costs a crash, a rebalance or a failed commit.
ExtraScoresCost ==
  \A o \in 1 .. Len(log) :
    LET copies == Cardinality({i \in DOMAIN scored : scored[i] = o})
    IN  copies <= IF IsOrder(o) THEN 1 + spent ELSE 0

\* Violated. service.go:33 says of the offset that it is committed only after the
\* risk event was published: a record passed over for an error is committed
\* with the next one that succeeds, and its order never gets a decision.
CommittedMeansPublished == \A o \in 1 .. committed : IsOrder(o) => o \in Scored
================================================================================
