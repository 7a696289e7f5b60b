----------------------------- MODULE RetryRouting -----------------------------
(***************************************************************************)
(* Retry topics and the dead-letter topic of packages/kafka: the journey   *)
(* of one event that was published to Source, through every consumer group *)
(* that reads Source or the retry topics all sources share. A record is    *)
(* the copy's headers; topics are append-only logs with one read position  *)
(* per group (one partition: all copies have the same key).                *)
(***************************************************************************)
EXTENDS Integers, Sequences, FiniteSets

CONSTANTS
  Groups,        \* consumer groups, one KafkaConsumerRunner each
  Registered,    \* group -> topics it registered a handler for
  Source,        \* the topic the event was published to
  SourceTopics,  \* config.sourceTopics, a sequence
  Stages,        \* config.stages, a sequence of topics
  DeadLetter,    \* config.deadLetterTopic
  NoTopic,       \* an absent x-original-topic header
  Possible,      \* the disturbances of this instance
  Limit          \* how many of them, of whatever kinds, a behaviour may contain

\* A handler that throws, one that throws KafkaNonRetryableError, and a record
\* read again because its offset was not committed.
Disturbances == {"handlerError", "nonRetryable", "redelivery"}

Elements(s) == {s[i] : i \in DOMAIN s}

Topics == Elements(SourceTopics) \cup Elements(Stages) \cup {DeadLetter, Source}

ASSUME RetryAssumption ==
  /\ SourceTopics \in Seq(Elements(SourceTopics)) /\ Stages \in Seq(Elements(Stages))
  /\ Len(SourceTopics) > 0 /\ Len(Stages) > 0
  /\ \A i, j \in DOMAIN Stages : Stages[i] = Stages[j] => i = j
  /\ {DeadLetter, NoTopic, Source} \cap Elements(Stages) = {}
  /\ DeadLetter # Source /\ NoTopic \notin Topics
  /\ Possible \subseteq Disturbances /\ Limit \in Nat
  /\ IsFiniteSet(Groups)

VARIABLES
  log,       \* topic -> records, in append order
  position,  \* group -> topic -> records read and committed
  handled,   \* groups whose handler completed the event
  failed,    \* history: group -> times its handler threw
  fatal,     \* history: groups whose handler threw a non-retryable error
  spent      \* disturbances so far

vars == <<log, position, handled, failed, fatal, spent>>

-----------------------------------------------------------------------------
(* ConfigurableKafkaRetryPolicy                                            *)

\* Mutant: the retry topics are left out of the subscription.
SubscriptionTopicsOnlySource(topic) == {topic}

SubscriptionTopics(topic) ==
  IF topic \in Elements(SourceTopics) THEN {topic} \cup Elements(Stages) ELSE {topic}

ResolveOriginalTopic(topic, m) ==
  IF m.original \in Elements(SourceTopics) THEN m.original
  ELSE IF topic \in Elements(Stages) THEN SourceTopics[1]
  ELSE topic

Supports(topic, m) ==
  LET original == ResolveOriginalTopic(topic, m)
  IN  /\ original \in Elements(SourceTopics)
      /\ topic = original \/ topic \in Elements(Stages)

\* findIndex + 1: 0 outside the chain, i at the i-th stage.
StagesPassed(topic) ==
  IF topic \in Elements(Stages) THEN CHOOSE i \in DOMAIN Stages : Stages[i] = topic ELSE 0

\* Mutant: the counter of the previous hop is copied, not advanced.
DecideFailureStaleCount(topic, m, nonRetryable) ==
  LET next == StagesPassed(topic) + 1
  IN  [destination |-> IF nonRetryable \/ next > Len(Stages) THEN DeadLetter ELSE Stages[next],
       original |-> ResolveOriginalTopic(topic, m),
       count |-> IF m.count > StagesPassed(topic) THEN m.count ELSE StagesPassed(topic)]

DecideFailure(topic, m, nonRetryable) ==
  LET next == StagesPassed(topic) + 1
  IN  [destination |-> IF nonRetryable \/ next > Len(Stages) THEN DeadLetter ELSE Stages[next],
       original |-> ResolveOriginalTopic(topic, m),
       count |-> IF m.count + 1 > next THEN m.count + 1 ELSE next]

-----------------------------------------------------------------------------
(* KafkaConsumerRunner                                                     *)

Subscribed(g) == UNION {SubscriptionTopics(topic) : topic \in Registered[g]}

\* resolveHandler: by the topic itself, else by x-original-topic.
HasHandler(g, topic, m) ==
  \/ topic \in Registered[g]
  \/ (IF m.original # NoTopic THEN m.original ELSE topic) \in Registered[g]

Unread(g, topic) == topic \in Subscribed(g) /\ position[g][topic] < Len(log[topic])
Record(g, topic) == log[topic][position[g][topic] + 1]

Commit(g, topic) == position' = [position EXCEPT ![g][topic] = @ + 1]

\* KafkaRetryDispatcher.dispatch. Where the policy does not support the topic
\* the error is thrown on and the offset stays: no step.
Dispatch(g, topic, nonRetryable) ==
  LET d == DecideFailure(topic, Record(g, topic), nonRetryable)
  IN  /\ Supports(topic, Record(g, topic))
      /\ log' = [log EXCEPT ![d.destination] =
                   Append(@, [original |-> d.original, count |-> d.count])]

Disturb(d) == d \in Possible /\ spent < Limit /\ spent' = spent + 1

Init ==
  /\ log = [topic \in Topics |->
              IF topic = Source THEN <<[original |-> NoTopic, count |-> 0]>> ELSE <<>>]
  /\ position = [g \in Groups |-> [topic \in Topics |-> 0]]
  /\ handled = {}
  /\ failed = [g \in Groups |-> 0]
  /\ fatal = {}
  /\ spent = 0

\* The dead-letter record is another event than the one it wraps.
Handle(g, topic) ==
  /\ Unread(g, topic)
  /\ HasHandler(g, topic, Record(g, topic))
  /\ handled' = IF topic = DeadLetter THEN handled ELSE handled \cup {g}
  /\ Commit(g, topic)
  /\ UNCHANGED <<log, failed, fatal, spent>>

HandlerFails(g, topic, nonRetryable) ==
  /\ Unread(g, topic)
  /\ HasHandler(g, topic, Record(g, topic))
  /\ Dispatch(g, topic, nonRetryable)
  /\ Commit(g, topic)
  /\ failed' = [failed EXCEPT ![g] = @ + 1]
  /\ fatal' = IF nonRetryable THEN fatal \cup {g} ELSE fatal
  /\ Disturb(IF nonRetryable THEN "nonRetryable" ELSE "handlerError")
  /\ UNCHANGED handled

\* Mutant: the missing handler is thrown past the dispatcher.
NoHandlerRethrown(g, topic) ==
  /\ Unread(g, topic)
  /\ ~HasHandler(g, topic, Record(g, topic))
  /\ UNCHANGED vars

\* Mutant: the copy is sent and the offset stays.
NoHandlerUncommitted(g, topic) ==
  /\ Unread(g, topic)
  /\ ~HasHandler(g, topic, Record(g, topic))
  /\ Dispatch(g, topic, FALSE)
  /\ UNCHANGED <<position, handled, failed, fatal, spent>>

\* "Kafka handler is not registered": the group reads a retry topic because of
\* another source, and the error takes the same road as a handler's.
NoHandler(g, topic) ==
  /\ Unread(g, topic)
  /\ ~HasHandler(g, topic, Record(g, topic))
  /\ Dispatch(g, topic, FALSE)
  /\ Commit(g, topic)
  /\ UNCHANGED <<handled, failed, fatal, spent>>

\* A crash or rebalance before the commit, or a dispatch whose acknowledgement
\* was lost: everything the record caused stands, and it is read again.
Redeliver(g, topic) ==
  /\ position[g][topic] > 0
  /\ position' = [position EXCEPT ![g][topic] = @ - 1]
  /\ Disturb("redelivery")
  /\ UNCHANGED <<log, handled, failed, fatal>>

Next ==
  \E g \in Groups, topic \in Topics :
    \/ Handle(g, topic)
    \/ \E nonRetryable \in BOOLEAN : HandlerFails(g, topic, nonRetryable)
    \/ NoHandler(g, topic)
    \/ Redeliver(g, topic)

Spec == Init /\ [][Next]_vars

\* A running consumer reads on: every record in its topics gets its turn.
Fairness ==
  \A g \in Groups, topic \in Topics : WF_vars(Handle(g, topic) \/ NoHandler(g, topic))

FairSpec == Spec /\ Fairness

-----------------------------------------------------------------------------
(* Properties                                                              *)

\* Shape of the state; no group reads past the end of a log.
TypeOK ==
  /\ \A topic \in Topics : \A i \in DOMAIN log[topic] :
       log[topic][i] \in [original : Elements(SourceTopics) \cup {NoTopic}, count : Nat]
  /\ \A g \in Groups, topic \in Topics : position[g][topic] \in 0..Len(log[topic])
  /\ handled \subseteq Groups /\ fatal \subseteq Groups
  /\ failed \in [Groups -> Nat]

\* A group with a handler for the event has handled it, or has a copy ahead of
\* it that it will hand to that handler, or the event is in the dead-letter
\* topic: no failure, redelivery or stage loses it (eachMessage, decideFailure).
NothingDropped ==
  \A g \in Groups : Source \in Registered[g] =>
    \/ g \in handled
    \/ \E topic \in Subscribed(g) :
         \E i \in position[g][topic] + 1 .. Len(log[topic]) : HasHandler(g, topic, log[topic][i])
    \/ log[DeadLetter] # <<>>

\* x-retry-count tells how far along the chain a copy is, on every path by which
\* it can get there, and x-original-topic keeps naming the source.
CountNamesStage ==
  /\ \A n \in DOMAIN Stages : \A i \in DOMAIN log[Stages[n]] :
       log[Stages[n]][i] = [original |-> Source, count |-> n]
  /\ \A i \in DOMAIN log[DeadLetter] :
       log[DeadLetter][i].original = Source /\ log[DeadLetter][i].count \in 1..(Len(Stages) + 1)

\* Where a copy goes from the n-th stage.
Hop(n) == IF n < Len(Stages) THEN Stages[n + 1] ELSE DeadLetter

\* Groups that read the retry topics because of another source only.
Strangers == {g \in Groups : /\ Source \notin Registered[g]
                             /\ Registered[g] \cap Elements(SourceTopics) # {}}

\* What sharing the retry topics costs: no copy is made without a disturbance, and
\* each copy in a stage is sent on at most once by every group that has no business
\* with it, any more only by a disturbance each (eachMessage, dispatch).
FanOut ==
  /\ Len(log[Stages[1]]) <= spent
  /\ \A n \in DOMAIN Stages :
       Len(log[Hop(n)]) <= Cardinality(Strangers) * Len(log[Stages[n]]) + spent

\* The copies run out: from some point on every group has read everything, so
\* the fan-out over the shared retry topics is finite and blocks nobody.
RetriesEnd ==
  <>[](\A g \in Groups : \A topic \in Subscribed(g) : ~Unread(g, topic))

-----------------------------------------------------------------------------
(* What the documentation says of the program                              *)

\* packages/kafka/README.md: a DeadLetterEvent is created after the last
\* unsuccessful attempt. So an event is dead-lettered only if some group's
\* handler threw at every stage, or threw a non-retryable error.
DeadLetterMeansFailed ==
  log[DeadLetter] # <<>> =>
    \/ fatal # {}
    \/ \E g \in Groups : failed[g] > Len(Stages)
=============================================================================
