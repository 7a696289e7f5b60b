--------------------------- MODULE RetryRoutingProofs ---------------------------
(***************************************************************************)
(* Proofs about RetryRouting for any groups, topics, chain of stages and    *)
(* number of disturbances. Copies travel along one road: Source holds the   *)
(* event and nothing else, every other record is a copy that names Source   *)
(* and counts its stage (OnTheRoad), and whoever dispatches a copy puts it  *)
(* ahead of every group that has a handler for it (DispatchAhead). Copies   *)
(* are paid for by reads and disturbances (Paid).                           *)
(***************************************************************************)
EXTENDS RetryRouting, FiniteSetTheorems, TLAPS

Header == [original : Elements(SourceTopics) \cup {NoTopic}, count : Nat]

\* Logs and positions; no group reads past the end of a log.
Logs ==
  /\ log \in [Topics -> Seq(Header)]
  /\ position \in [Groups -> [Topics -> Nat]]
  /\ \A g \in Groups, topic \in Topics : position[g][topic] <= Len(log[topic])

\* Where records are: copies in stages and in the dead-letter topic, if the policy
\* supports Source at all.
OnTheRoad ==
  /\ log[Source] = <<[original |-> NoTopic, count |-> 0]>>
  /\ \A topic \in Topics \ {Source} :
       log[topic] # <<>> =>
         /\ Source \in Elements(SourceTopics)
         /\ topic \in Elements(Stages) \cup {DeadLetter}

\* A record ahead of group g that it will hand to its handler.
Ahead(g) ==
  \E topic \in Subscribed(g) \cap Topics :
    \E i \in position[g][topic] + 1 .. Len(log[topic]) : HasHandler(g, topic, log[topic][i])

Kept == \A g \in Groups : Source \in Registered[g] => g \in handled \/ Ahead(g) \/ log[DeadLetter] # <<>>

Counters == handled \subseteq Groups /\ fatal \subseteq Groups /\ failed \in [Groups -> Nat]

IInv == Logs /\ Counters /\ OnTheRoad /\ CountNamesStage /\ Kept

-----------------------------------------------------------------------------
(* Topics, stages and headers                                              *)

LEMMA TopicShapes ==
  /\ Len(Stages) \in Nat /\ Len(Stages) > 0
  /\ DOMAIN Stages = 1 .. Len(Stages)
  /\ \A n \in DOMAIN Stages : Stages[n] \in Elements(Stages) /\ Stages[n] \in Topics
  /\ Elements(Stages) \subseteq Topics
  /\ Source \in Topics /\ DeadLetter \in Topics /\ DeadLetter # Source
  /\ Source \notin Elements(Stages) /\ DeadLetter \notin Elements(Stages)
  /\ NoTopic \notin Elements(SourceTopics)
<1>1. Len(Stages) \in Nat /\ Len(Stages) > 0 /\ DOMAIN Stages = 1 .. Len(Stages)
  BY RetryAssumption
<1>2. /\ Elements(Stages) \subseteq Topics /\ Elements(SourceTopics) \subseteq Topics
      /\ Source \in Topics /\ DeadLetter \in Topics
  BY DEF Topics
<1>3. \A n \in DOMAIN Stages : Stages[n] \in Elements(Stages)
  BY DEF Elements
<1>4. /\ DeadLetter # Source /\ Source \notin Elements(Stages)
      /\ DeadLetter \notin Elements(Stages) /\ NoTopic \notin Topics
  BY RetryAssumption
<1> QED
  BY <1>1, <1>2, <1>3, <1>4

\* A stage is found in the chain where it is.
LEMMA PassedStages ==
  /\ \A n \in DOMAIN Stages : StagesPassed(Stages[n]) = n
  /\ \A topic : topic \notin Elements(Stages) => StagesPassed(topic) = 0
<1>1. \A i, j \in DOMAIN Stages : Stages[i] = Stages[j] => i = j
  BY RetryAssumption
<1>2. ASSUME NEW n \in DOMAIN Stages PROVE StagesPassed(Stages[n]) = n
  <2>1. Stages[n] \in Elements(Stages)
    BY TopicShapes
  <2> DEFINE k == CHOOSE i \in DOMAIN Stages : Stages[i] = Stages[n]
  <2>2. k \in DOMAIN Stages /\ Stages[k] = Stages[n]
    OBVIOUS
  <2>3. k = n
    BY <1>1, <2>2
  <2> QED
    BY <2>1, <2>3 DEF StagesPassed
<1> QED
  BY <1>2 DEF StagesPassed

LEMMA Headers ==
  /\ \A r \in Header : r.original \in Elements(SourceTopics) \cup {NoTopic} /\ r.count \in Nat
  /\ \A o \in Elements(SourceTopics) \cup {NoTopic}, n \in Nat :
       LET r == [original |-> o, count |-> n]
       IN  r \in Header /\ r.original = o /\ r.count = n
  BY DEF Header

LEMMA Appended ==
  ASSUME NEW S, NEW s \in Seq(S), NEW e \in S
  PROVE  /\ Append(s, e) \in Seq(S) /\ Append(s, e) # <<>>
         /\ Len(s) \in Nat /\ Len(Append(s, e)) = Len(s) + 1
         /\ DOMAIN s = 1 .. Len(s) /\ DOMAIN Append(s, e) = 1 .. Len(s) + 1
         /\ Append(s, e)[Len(s) + 1] = e
         /\ \A i \in DOMAIN s : Append(s, e)[i] = s[i]
  OBVIOUS

LEMMA DisturbNat == ASSUME spent \in Nat, NEW d, Disturb(d) PROVE spent' \in Nat
  BY DEF Disturb

\* The record a group reads is Source's own or a copy at its stage.
LEMMA ReadRecord ==
  ASSUME IInv, NEW g \in Groups, NEW topic \in Topics, Unread(g, topic)
  PROVE  /\ log[topic] # <<>>
         /\ topic = Source => Record(g, topic) = [original |-> NoTopic, count |-> 0]
         /\ \A n \in DOMAIN Stages :
              topic = Stages[n] => Record(g, topic) = [original |-> Source, count |-> n]
         /\ topic = DeadLetter => Record(g, topic).original = Source
<1> DEFINE i == position[g][topic] + 1
<1>1. /\ log[topic] \in Seq(Header) /\ position[g][topic] \in Nat
      /\ position[g][topic] < Len(log[topic])
  BY DEF IInv, Logs, Unread
<1>2. i \in DOMAIN log[topic] /\ i \in 1 .. Len(log[topic]) /\ log[topic] # <<>>
  BY <1>1
<1>3. Record(g, topic) = log[topic][i]
  BY DEF Record
<1>4. ASSUME topic = Source PROVE Record(g, topic) = [original |-> NoTopic, count |-> 0]
  BY <1>2, <1>3, <1>4 DEF IInv, OnTheRoad
<1> QED
  BY <1>2, <1>3, <1>4 DEF IInv, CountNamesStage

\* The policy supports Source and the stages, and not the dead-letter topic.
LEMMA SupportedRoad ==
  ASSUME IInv, NEW g \in Groups, NEW topic \in Topics, Unread(g, topic),
         Supports(topic, Record(g, topic))
  PROVE  /\ topic # DeadLetter
         /\ topic # Source => topic \in Elements(Stages)
<1> DEFINE m == Record(g, topic)
<1>1. topic # DeadLetter
  <2> SUFFICES ASSUME topic = DeadLetter PROVE FALSE
    OBVIOUS
  <2>1. m.original = Source /\ Source \in Elements(SourceTopics)
    BY ReadRecord, TopicShapes DEF IInv, OnTheRoad
  <2>2. ResolveOriginalTopic(topic, m) = Source
    BY <2>1 DEF ResolveOriginalTopic
  <2> QED
    BY <2>2, TopicShapes DEF Supports
<1> QED
  BY <1>1, ReadRecord DEF IInv, OnTheRoad

\* What dispatch decides about a record: the next stage or the dead-letter topic.
LEMMA Decision ==
  ASSUME IInv, NEW g \in Groups, NEW topic \in Topics, Unread(g, topic),
         NEW nonRetryable \in BOOLEAN, Supports(topic, Record(g, topic))
  PROVE  LET d == DecideFailure(topic, Record(g, topic), nonRetryable)
         IN  /\ Source \in Elements(SourceTopics)
             /\ d.original = Source
             /\ d.count \in 1 .. Len(Stages) + 1
             /\ \/ d.destination = DeadLetter
                \/ d.count \in DOMAIN Stages /\ d.destination = Stages[d.count]
<1> DEFINE m == Record(g, topic)
           passed == StagesPassed(topic)
<1>1. log[topic] # <<>>
  BY ReadRecord
<1>2. topic # DeadLetter
  BY SupportedRoad
<1>3. /\ ResolveOriginalTopic(topic, m) = Source /\ Source \in Elements(SourceTopics)
      /\ passed \in 0 .. Len(Stages) /\ m.count = passed
  <2>1. CASE topic = Source
    <3>1. m = [original |-> NoTopic, count |-> 0]
      BY <2>1, ReadRecord
    <3>2. m.original = NoTopic /\ m.count = 0
      BY <3>1
    <3>3. ResolveOriginalTopic(topic, m) = Source /\ passed = 0
      BY <2>1, <3>2, TopicShapes, PassedStages DEF ResolveOriginalTopic
    <3> QED
      BY <3>2, <3>3, TopicShapes DEF Supports
  <2>2. CASE topic # Source
    <3>1. topic \in Elements(Stages) /\ Source \in Elements(SourceTopics)
      BY <1>1, <1>2, <2>2 DEF IInv, OnTheRoad
    <3>2. PICK n \in DOMAIN Stages : topic = Stages[n]
      BY <3>1 DEF Elements
    <3>3. m = [original |-> Source, count |-> n]
      BY <3>2, ReadRecord
    <3>4. m.original = Source /\ m.count = n
      BY <3>3
    <3>5. passed = n
      BY <3>2, PassedStages
    <3> QED
      BY <3>1, <3>4, <3>5, TopicShapes DEF ResolveOriginalTopic
  <2> QED
    BY <2>1, <2>2
<1> DEFINE d == DecideFailure(topic, m, nonRetryable)
<1>4. /\ d.destination = IF nonRetryable \/ passed + 1 > Len(Stages) THEN DeadLetter ELSE Stages[passed + 1]
      /\ d.original = ResolveOriginalTopic(topic, m)
      /\ d.count = IF m.count + 1 > passed + 1 THEN m.count + 1 ELSE passed + 1
  BY DEF DecideFailure
<1> HIDE DEF d, passed, m
<1>5. d.count = passed + 1 /\ passed + 1 \in 1 .. Len(Stages) + 1
  BY <1>3, <1>4, TopicShapes
<1>6. d.destination = DeadLetter \/ (d.count \in DOMAIN Stages /\ d.destination = Stages[d.count])
  BY <1>4, <1>5, TopicShapes
<1>7. /\ Source \in Elements(SourceTopics) /\ d.original = Source
      /\ d.count \in 1 .. Len(Stages) + 1
  BY <1>3, <1>4, <1>5
<1> QED
  BY <1>6, <1>7 DEF d, m

-----------------------------------------------------------------------------
(* What a dispatched copy does                                             *)

\* The copy joins its topic; the other topics are as they were.
LEMMA DispatchLogs ==
  ASSUME IInv, NEW g \in Groups, NEW topic \in Topics, Unread(g, topic),
         NEW nonRetryable \in BOOLEAN, Dispatch(g, topic, nonRetryable)
  PROVE  \E t \in Topics \ {Source}, r \in Header :
           /\ log' = [log EXCEPT ![t] = Append(log[t], r)]
           /\ r.original = Source /\ Source \in Elements(SourceTopics)
           /\ r.count \in 1 .. Len(Stages) + 1
           /\ t = DeadLetter \/ (r.count \in DOMAIN Stages /\ t = Stages[r.count])
<1> DEFINE d == DecideFailure(topic, Record(g, topic), nonRetryable)
           r == [original |-> d.original, count |-> d.count]
<1>1. /\ Source \in Elements(SourceTopics) /\ d.original = Source
      /\ d.count \in 1 .. Len(Stages) + 1
      /\ d.destination = DeadLetter \/ (d.count \in DOMAIN Stages /\ d.destination = Stages[d.count])
  BY Decision DEF Dispatch
<1>2. log' = [log EXCEPT ![d.destination] = Append(log[d.destination], r)]
  BY DEF Dispatch
<1> HIDE DEF d
<1>3. d.destination \in Topics \ {Source}
  BY <1>1, TopicShapes
<1>4. r \in Header /\ r.original = Source /\ r.count = d.count
  BY <1>1, Headers, TopicShapes
<1> HIDE DEF r
<1> QED
  BY <1>1, <1>2, <1>3, <1>4

\* Every group with a handler for the event has the copy ahead of it, unless it
\* went to the dead-letter topic.
LEMMA DispatchAhead ==
  ASSUME IInv, NEW g \in Groups, NEW topic \in Topics, Unread(g, topic),
         NEW nonRetryable \in BOOLEAN, Dispatch(g, topic, nonRetryable), Commit(g, topic)
  PROVE  /\ Logs' /\ OnTheRoad' /\ CountNamesStage'
         /\ \A h \in Groups : Source \in Registered[h] => Ahead(h)' \/ log'[DeadLetter] # <<>>
<1>1. PICK t \in Topics \ {Source}, r \in Header :
        /\ log' = [log EXCEPT ![t] = Append(log[t], r)]
        /\ r.original = Source /\ Source \in Elements(SourceTopics)
        /\ r.count \in 1 .. Len(Stages) + 1
        /\ t = DeadLetter \/ (r.count \in DOMAIN Stages /\ t = Stages[r.count])
  BY DispatchLogs
<1>2. log \in [Topics -> Seq(Header)] /\ position \in [Groups -> [Topics -> Nat]]
  BY DEF IInv, Logs
<1>3. /\ Append(log[t], r) \in Seq(Header) /\ Append(log[t], r) # <<>>
      /\ Len(log[t]) \in Nat /\ Len(Append(log[t], r)) = Len(log[t]) + 1
      /\ DOMAIN log[t] = 1 .. Len(log[t])
      /\ DOMAIN Append(log[t], r) = 1 .. Len(log[t]) + 1
      /\ Append(log[t], r)[Len(log[t]) + 1] = r
      /\ \A i \in DOMAIN log[t] : Append(log[t], r)[i] = log[t][i]
  BY <1>1, <1>2, Appended
<1>4. /\ log'[t] = Append(log[t], r)
      /\ \A u \in Topics : u # t => log'[u] = log[u]
      /\ log' \in [Topics -> Seq(Header)]
  BY <1>1, <1>2, <1>3
<1>5. /\ position' \in [Groups -> [Topics -> Nat]]
      /\ \A h \in Groups, u \in Topics :
           position'[h][u] = IF h = g /\ u = topic THEN position[h][u] + 1 ELSE position[h][u]
  BY <1>2 DEF Commit
<1>6. \A h \in Groups, u \in Topics : position[h][u] <= Len(log[u]) /\ Len(log[u]) \in Nat
  BY <1>2 DEF IInv, Logs
<1>7. position[g][topic] < Len(log[topic])
  BY DEF Unread
<1>8. Logs'
  <2>1. ASSUME NEW h \in Groups, NEW u \in Topics PROVE position'[h][u] <= Len(log'[u])
    <3>1. Len(log[u]) <= Len(log'[u]) /\ Len(log'[u]) \in Nat
      BY <1>3, <1>4, <1>6
    <3>2. position'[h][u] <= Len(log[u])
      <4>1. position[h][u] <= Len(log[u]) /\ Len(log[u]) \in Nat /\ position[h][u] \in Nat
        BY <1>2, <1>6
      <4>2. CASE h = g /\ u = topic
        <5>1. position[h][u] < Len(log[u]) /\ position'[h][u] = position[h][u] + 1
          BY <1>5, <1>7, <4>2
        <5> QED
          BY <4>1, <5>1
      <4>3. CASE ~(h = g /\ u = topic)
        <5>1. position'[h][u] = position[h][u]
          BY <1>5, <4>3
        <5> QED
          BY <4>1, <5>1
      <4> QED
        BY <4>2, <4>3
    <3> QED
      BY <1>2, <1>5, <1>6, <3>1, <3>2
  <2> QED
    BY <1>4, <1>5, <2>1 DEF Logs
<1>9. OnTheRoad'
  <2>1. t \in Elements(Stages) \cup {DeadLetter}
    BY <1>1, TopicShapes
  <2> QED
    BY <1>1, <1>4, <2>1, TopicShapes DEF IInv, OnTheRoad
<1>10. CountNamesStage'
  <2>1. r = [original |-> Source, count |-> r.count]
    BY <1>1 DEF Header
  <2>2. ASSUME NEW n \in DOMAIN Stages, NEW i \in DOMAIN log'[Stages[n]]
        PROVE  log'[Stages[n]][i] = [original |-> Source, count |-> n]
    <3>1. CASE Stages[n] = t
      <4>1. r.count = n
        BY <1>1, <3>1, TopicShapes, PassedStages
      <4>2. CASE i = Len(log[t]) + 1
        BY <1>3, <1>4, <2>1, <3>1, <4>1, <4>2
      <4>3. CASE i # Len(log[t]) + 1
        <5>1. i \in DOMAIN log[t] /\ log'[t][i] = log[t][i]
          BY <1>3, <1>4, <2>2, <3>1, <4>3
        <5> QED
          BY <3>1, <5>1 DEF IInv, CountNamesStage
      <4> QED
        BY <4>2, <4>3
    <3>2. CASE Stages[n] # t
      BY <1>4, <2>2, <3>2, TopicShapes DEF IInv, CountNamesStage
    <3> QED
      BY <3>1, <3>2
  <2>3. ASSUME NEW i \in DOMAIN log'[DeadLetter]
        PROVE  log'[DeadLetter][i].original = Source /\ log'[DeadLetter][i].count \in 1 .. (Len(Stages) + 1)
    <3>1. CASE DeadLetter = t
      <4>1. CASE i = Len(log[t]) + 1
        BY <1>1, <1>3, <1>4, <3>1, <4>1
      <4>2. CASE i # Len(log[t]) + 1
        <5>1. i \in DOMAIN log[t] /\ log'[t][i] = log[t][i]
          BY <1>3, <1>4, <2>3, <3>1, <4>2
        <5> QED
          BY <3>1, <5>1 DEF IInv, CountNamesStage
      <4> QED
        BY <4>1, <4>2
    <3>2. CASE DeadLetter # t
      BY <1>4, <2>3, <3>2, TopicShapes DEF IInv, CountNamesStage
    <3> QED
      BY <3>1, <3>2
  <2> QED
    BY <2>2, <2>3 DEF CountNamesStage
<1>11. ASSUME NEW h \in Groups, Source \in Registered[h] PROVE Ahead(h)' \/ log'[DeadLetter] # <<>>
  <2>1. CASE t = DeadLetter
    BY <1>3, <1>4, <2>1
  <2>2. CASE t # DeadLetter
    <3>1. t \in Elements(Stages)
      BY <1>1, <2>2, TopicShapes
    <3>2. t \in Subscribed(h)
      BY <1>1, <1>11, <3>1 DEF Subscribed, SubscriptionTopics
    <3>3. HasHandler(h, t, r)
      <4>1. Source # NoTopic
        BY <1>1, TopicShapes
      <4> QED
        BY <1>1, <1>11, <4>1 DEF HasHandler
    <3> DEFINE i == Len(log[t]) + 1
    <3>4. position'[h][t] <= Len(log[t]) /\ position'[h][t] \in Nat
      BY <1>2, <1>5, <1>6, <1>7
    <3>5. i \in position'[h][t] + 1 .. Len(log'[t]) /\ log'[t][i] = r
      BY <1>3, <1>4, <3>4
    <3>6. HasHandler(h, t, log'[t][i])
      BY <3>3, <3>5
    <3> QED
      BY <3>2, <3>5, <3>6 DEF Ahead
  <2> QED
    BY <2>1, <2>2
<1> QED
  BY <1>8, <1>9, <1>10, <1>11

\* Reading on, or reading again, changes no record.
LEMMA Moved ==
  ASSUME IInv, NEW g \in Groups, NEW topic \in Topics,
         \/ Unread(g, topic) /\ Commit(g, topic)
         \/ position[g][topic] > 0 /\ position' = [position EXCEPT ![g][topic] = @ - 1],
         UNCHANGED log
  PROVE  /\ Logs' /\ OnTheRoad' /\ CountNamesStage'
         /\ \A h \in Groups \ {g} : Ahead(h) => Ahead(h)'
<1>1. /\ log \in [Topics -> Seq(Header)] /\ position \in [Groups -> [Topics -> Nat]]
      /\ \A h \in Groups, u \in Topics : position[h][u] <= Len(log[u]) /\ Len(log[u]) \in Nat
  BY DEF IInv, Logs
<1>2. /\ position' \in [Groups -> [Topics -> Nat]]
      /\ position'[g][topic] <= Len(log[topic])
      /\ \A h \in Groups, u \in Topics : h # g \/ u # topic => position'[h][u] = position[h][u]
  <2>1. CASE Unread(g, topic) /\ Commit(g, topic)
    BY <1>1, <2>1 DEF Unread, Commit
  <2>2. CASE position[g][topic] > 0 /\ position' = [position EXCEPT ![g][topic] = @ - 1]
    BY <1>1, <2>2
  <2> QED
    BY <2>1, <2>2
<1>3. Logs'
  <2>1. ASSUME NEW h \in Groups, NEW u \in Topics PROVE position'[h][u] <= Len(log[u])
    <3>1. CASE h = g /\ u = topic
      BY <1>2, <3>1
    <3>2. CASE ~(h = g /\ u = topic)
      BY <1>1, <1>2, <3>2
    <3> QED
      BY <3>1, <3>2
  <2> QED
    BY <1>1, <1>2, <2>1 DEF Logs
<1>4. OnTheRoad' /\ CountNamesStage'
  BY DEF IInv, OnTheRoad, CountNamesStage
<1>5. \A h \in Groups \ {g} : Ahead(h) => Ahead(h)'
  BY <1>2 DEF Ahead
<1> QED
  BY <1>3, <1>4, <1>5

-----------------------------------------------------------------------------
(* The invariant holds at the start, and each action keeps it               *)

LEMMA InitIInv == Init => IInv
<1> SUFFICES ASSUME Init PROVE IInv
  OBVIOUS
<1> DEFINE event == [original |-> NoTopic, count |-> 0]
<1>1. log = [topic \in Topics |-> IF topic = Source THEN <<event>> ELSE <<>>]
  BY DEF Init
<1>2. event \in Header /\ event.original = NoTopic
  BY DEF Header
<1> HIDE DEF event
<1>3. \A topic \in Topics : log[topic] = IF topic = Source THEN <<event>> ELSE <<>>
  BY <1>1
<1>4. <<event>> \in Seq(Header) /\ Len(<<event>>) = 1 /\ <<event>>[1] = event
  BY <1>2
<1>5. position \in [Groups -> [Topics -> Nat]] /\ \A g \in Groups, topic \in Topics : position[g][topic] = 0
  BY DEF Init
<1>6. Logs
  <2>1. log \in [Topics -> Seq(Header)]
    BY <1>1, <1>4
  <2>2. \A topic \in Topics : 0 <= Len(log[topic])
    BY <1>3, <1>4
  <2> QED
    BY <1>5, <2>1, <2>2 DEF Logs
<1>7. OnTheRoad
  BY <1>3, TopicShapes DEF OnTheRoad, event
<1>8. CountNamesStage
  <2>1. log[DeadLetter] = <<>> /\ \A n \in DOMAIN Stages : log[Stages[n]] = <<>>
    BY <1>3, TopicShapes
  <2> QED
    BY <2>1 DEF CountNamesStage
<1>9. Kept
  <2> SUFFICES ASSUME NEW g \in Groups, Source \in Registered[g] PROVE Ahead(g)
    BY DEF Kept
  <2>1. Source \in Subscribed(g)
    BY DEF Subscribed, SubscriptionTopics
  <2>2. HasHandler(g, Source, log[Source][1])
    BY DEF HasHandler
  <2>3. 1 \in position[g][Source] + 1 .. Len(log[Source])
    <3>1. log[Source] = <<event>> /\ position[g][Source] = 0
      BY <1>3, <1>5, TopicShapes
    <3>2. Len(log[Source]) = 1
      BY <1>4, <3>1
    <3> QED
      BY <3>1, <3>2
  <2> QED
    BY <2>1, <2>2, <2>3, TopicShapes DEF Ahead
<1>10. Counters
  BY DEF Init, Counters
<1> QED
  BY <1>6, <1>7, <1>8, <1>9, <1>10 DEF IInv

LEMMA HandleIInv == ASSUME IInv, NEW g \in Groups, NEW topic \in Topics, Handle(g, topic) PROVE IInv'
<1>1. /\ Unread(g, topic) /\ Commit(g, topic) /\ UNCHANGED <<log, failed, fatal, spent>>
      /\ handled' = IF topic = DeadLetter THEN handled ELSE handled \cup {g}
  BY DEF Handle
<1>2. /\ Logs' /\ OnTheRoad' /\ CountNamesStage'
      /\ \A h \in Groups \ {g} : Ahead(h) => Ahead(h)'
  BY <1>1, Moved
<1>3. topic = DeadLetter => log'[DeadLetter] # <<>>
  BY <1>1, ReadRecord
<1>4. Kept'
  BY <1>1, <1>2, <1>3 DEF IInv, Kept
<1>5. Counters'
  BY <1>1 DEF IInv, Counters
<1> QED
  BY <1>2, <1>4, <1>5 DEF IInv

LEMMA HandlerFailsIInv ==
  ASSUME IInv, NEW g \in Groups, NEW topic \in Topics, NEW nonRetryable \in BOOLEAN,
         HandlerFails(g, topic, nonRetryable)
  PROVE  IInv'
<1>1. /\ Unread(g, topic) /\ Commit(g, topic) /\ Dispatch(g, topic, nonRetryable)
      /\ failed' = [failed EXCEPT ![g] = @ + 1]
      /\ fatal' = IF nonRetryable THEN fatal \cup {g} ELSE fatal
      /\ UNCHANGED handled
  BY DEF HandlerFails
<1>2. /\ Logs' /\ OnTheRoad' /\ CountNamesStage'
      /\ \A h \in Groups : Source \in Registered[h] => Ahead(h)' \/ log'[DeadLetter] # <<>>
  BY <1>1, DispatchAhead
<1>3. Counters'
  BY <1>1 DEF IInv, Counters
<1> QED
  BY <1>2, <1>3 DEF IInv, Kept

LEMMA NoHandlerIInv ==
  ASSUME IInv, NEW g \in Groups, NEW topic \in Topics, NoHandler(g, topic) PROVE IInv'
<1>1. /\ Unread(g, topic) /\ Commit(g, topic) /\ Dispatch(g, topic, FALSE)
      /\ UNCHANGED <<handled, failed, fatal>>
  BY DEF NoHandler
<1>2. /\ Logs' /\ OnTheRoad' /\ CountNamesStage'
      /\ \A h \in Groups : Source \in Registered[h] => Ahead(h)' \/ log'[DeadLetter] # <<>>
  BY <1>1, DispatchAhead
<1>3. Counters'
  BY <1>1 DEF IInv, Counters
<1> QED
  BY <1>2, <1>3 DEF IInv, Kept

LEMMA RedeliverIInv ==
  ASSUME IInv, NEW g \in Groups, NEW topic \in Topics, Redeliver(g, topic) PROVE IInv'
<1>1. /\ position[g][topic] > 0
      /\ position' = [position EXCEPT ![g][topic] = @ - 1]
      /\ UNCHANGED <<log, handled, failed, fatal>>
  BY DEF Redeliver
<1>2. /\ Logs' /\ OnTheRoad' /\ CountNamesStage'
      /\ \A h \in Groups \ {g} : Ahead(h) => Ahead(h)'
  BY <1>1, Moved
<1>3. Ahead(g) => Ahead(g)'
  <2> SUFFICES ASSUME NEW t \in Subscribed(g) \cap Topics,
                      NEW i \in position[g][t] + 1 .. Len(log[t]), HasHandler(g, t, log[t][i])
               PROVE  Ahead(g)'
    BY DEF Ahead
  <2>1. /\ position[g] \in [Topics -> Nat] /\ position \in [Groups -> [Topics -> Nat]]
        /\ Len(log[t]) \in Nat
    BY DEF IInv, Logs
  <2>2. position'[g][t] <= position[g][t] /\ position'[g][t] \in Int
    BY <1>1, <2>1
  <2>3. i \in position'[g][t] + 1 .. Len(log'[t])
    BY <1>1, <2>1, <2>2
  <2> QED
    BY <1>1, <2>3 DEF Ahead
<1>4. Kept' /\ Counters'
  BY <1>1, <1>2, <1>3 DEF IInv, Kept, Counters
<1> QED
  BY <1>2, <1>4 DEF IInv

-----------------------------------------------------------------------------
(* The theorems                                                            *)

LEMMA NextIInv == ASSUME IInv, [Next]_vars PROVE IInv'
<1>1. CASE UNCHANGED vars
  BY <1>1 DEF vars, IInv, Logs, Counters, OnTheRoad, CountNamesStage, Kept, Ahead
<1>2. CASE Next
  BY <1>2, HandleIInv, HandlerFailsIInv, NoHandlerIInv, RedeliverIInv DEF Next
<1> QED
  BY <1>1, <1>2

\* The invariant of the specification, for any groups and any chain of stages.
THEOREM Invariance == Spec => []IInv
<1>1. Init => IInv
  BY InitIInv
<1>2. IInv /\ [Next]_vars => IInv'
  BY NextIInv
<1> QED
  BY <1>1, <1>2, PTL DEF Spec

\* No group reads past the end of a log, and headers keep their shape.
THEOREM TypeCorrect == Spec => []TypeOK
<1>1. ASSUME IInv PROVE TypeOK
  <2>1. \A topic \in Topics : \A i \in DOMAIN log[topic] : log[topic][i] \in Header
    BY <1>1 DEF IInv, Logs
  <2>2. \A g \in Groups, topic \in Topics : position[g][topic] \in 0 .. Len(log[topic])
    BY <1>1 DEF IInv, Logs
  <2> QED
    BY <1>1, <2>1, <2>2 DEF IInv, Counters, TypeOK, Header
<1> QED
  BY <1>1, Invariance, PTL

\* Every copy names its source and counts its stage.
THEOREM CountNamesStageHolds == Spec => []CountNamesStage
<1>1. IInv => CountNamesStage
  BY DEF IInv
<1> QED
  BY <1>1, Invariance, PTL

\* No failure, redelivery or stage loses the event for a group that handles it.
THEOREM NothingDroppedHolds == Spec => []NothingDropped
<1>1. IInv => NothingDropped
  BY DEF IInv, Kept, Ahead, NothingDropped
<1> QED
  BY <1>1, Invariance, PTL

-----------------------------------------------------------------------------
(* How many copies a disturbance costs                                     *)

\* What strangers have read of the n-th stage.
Reads(n) ==
  {x \in Strangers \X (Nat \ {0}) : x[2] <= position[x[1]][Stages[n]]}

\* A copy was paid for by a stranger's read of the stage before, or by a disturbance.
Paid ==
  /\ spent \in Nat
  /\ Len(log[Stages[1]]) <= spent
  /\ \A n \in DOMAIN Stages : Len(log[Hop(n)]) <= Cardinality(Reads(n)) + spent

LEMMA HopShapes ==
  /\ 1 \in DOMAIN Stages
  /\ \A n \in DOMAIN Stages : Hop(n) \in Topics \ {Source} /\ Hop(n) # Stages[1]
  /\ \A n, k \in DOMAIN Stages : Hop(n) = Hop(k) => n = k
<1>1. 1 \in DOMAIN Stages
  BY TopicShapes
<1>2. ASSUME NEW n \in DOMAIN Stages
      PROVE  /\ n \in Nat /\ n > 0
             /\ n < Len(Stages) => n + 1 \in DOMAIN Stages /\ Hop(n) = Stages[n + 1]
             /\ ~(n < Len(Stages)) => n = Len(Stages) /\ Hop(n) = DeadLetter
  BY TopicShapes DEF Hop
<1>3. \A i, j \in DOMAIN Stages : Stages[i] = Stages[j] => i = j
  BY RetryAssumption
<1>4. ASSUME NEW n \in DOMAIN Stages PROVE Hop(n) \in Topics \ {Source} /\ Hop(n) # Stages[1]
  BY <1>1, <1>2, <1>3, TopicShapes
<1>5. ASSUME NEW n \in DOMAIN Stages, NEW k \in DOMAIN Stages, Hop(n) = Hop(k) PROVE n = k
  <2>1. CASE n < Len(Stages) /\ k < Len(Stages)
    <3>1. n + 1 = k + 1
      BY <1>2, <1>3, <1>5, <2>1
    <3> QED
      BY <1>2, <3>1
  <2>2. CASE ~(n < Len(Stages)) /\ ~(k < Len(Stages))
    BY <1>2, <2>2
  <2>3. CASE n < Len(Stages) /\ ~(k < Len(Stages))
    BY <1>2, <1>5, <2>3, TopicShapes
  <2>4. CASE k < Len(Stages) /\ ~(n < Len(Stages))
    BY <1>2, <1>5, <2>4, TopicShapes
  <2> QED
    BY <2>1, <2>2, <2>3, <2>4
<1> QED
  BY <1>1, <1>4, <1>5

\* Pairs of a stranger and a record that is not beyond where it is.
Below(at) == {x \in Strangers \X (Nat \ {0}) : x[2] <= at[x[1]]}

LEMMA BelowFinite ==
  ASSUME NEW at, NEW l \in Nat, \A g \in Strangers : at[g] \in Nat /\ at[g] <= l
  PROVE  /\ IsFiniteSet(Below(at)) /\ Cardinality(Below(at)) \in Nat
         /\ Cardinality(Strangers) \in Nat
         /\ Cardinality(Below(at)) <= Cardinality(Strangers) * l
<1>1. IsFiniteSet(Strangers)
  <2>1. Strangers \in SUBSET Groups
    BY DEF Strangers
  <2> QED
    BY <2>1, RetryAssumption, FS_Subset
<1>2. IsFiniteSet(1 .. l) /\ Cardinality(1 .. l) = l
  BY FS_Interval
<1>3. /\ IsFiniteSet(Strangers \X (1 .. l))
      /\ Cardinality(Strangers \X (1 .. l)) = Cardinality(Strangers) * l
  BY <1>1, <1>2, FS_Product
<1>4. Below(at) \in SUBSET (Strangers \X (1 .. l))
  <2> SUFFICES ASSUME NEW g \in Strangers, NEW i \in Nat \ {0}, i <= at[g] PROVE i \in 1 .. l
    BY DEF Below
  <2>1. at[g] \in Nat /\ at[g] <= l
    OBVIOUS
  <2> QED
    BY <2>1
<1>5. IsFiniteSet(Below(at)) /\ Cardinality(Below(at)) <= Cardinality(Strangers \X (1 .. l))
  BY <1>3, <1>4, FS_Subset
<1> QED
  BY <1>1, <1>3, <1>5, FS_CardinalityType

LEMMA ReadsBelow ==
  ASSUME NEW n
  PROVE  /\ Reads(n) = Below([g \in Strangers |-> position[g][Stages[n]]])
         /\ Reads(n)' = Below([g \in Strangers |-> position'[g][Stages[n]]])
  BY DEF Reads, Below

LEMMA ReadsFinite ==
  ASSUME NEW n \in DOMAIN Stages
  PROVE  /\ Logs =>
              /\ IsFiniteSet(Reads(n)) /\ Cardinality(Reads(n)) \in Nat
              /\ Cardinality(Strangers) \in Nat
              /\ Cardinality(Reads(n)) <= Cardinality(Strangers) * Len(log[Stages[n]])
         /\ Logs' => IsFiniteSet(Reads(n)') /\ Cardinality(Reads(n)') \in Nat
<1> DEFINE at == [g \in Strangers |-> position[g][Stages[n]]]
           next == [g \in Strangers |-> position'[g][Stages[n]]]
<1>0. Strangers \subseteq Groups /\ Stages[n] \in Topics
  BY TopicShapes DEF Strangers
<1>1. ASSUME Logs
      PROVE  /\ IsFiniteSet(Reads(n)) /\ Cardinality(Reads(n)) \in Nat
             /\ Cardinality(Strangers) \in Nat
             /\ Cardinality(Reads(n)) <= Cardinality(Strangers) * Len(log[Stages[n]])
  <2>1. /\ Len(log[Stages[n]]) \in Nat
        /\ \A g \in Strangers : at[g] \in Nat /\ at[g] <= Len(log[Stages[n]])
    BY <1>0, <1>1 DEF Logs
  <2> HIDE DEF at
  <2> QED
    BY <2>1, BelowFinite, ReadsBelow DEF at
<1>2. ASSUME Logs' PROVE IsFiniteSet(Reads(n)') /\ Cardinality(Reads(n)') \in Nat
  <2>1. /\ Len(log'[Stages[n]]) \in Nat
        /\ \A g \in Strangers : next[g] \in Nat /\ next[g] <= Len(log'[Stages[n]])
    BY <1>0, <1>2 DEF Logs
  <2> HIDE DEF next
  <2> QED
    BY <2>1, BelowFinite, ReadsBelow DEF next
<1> QED
  BY <1>1, <1>2

\* Who reads on has read more.
LEMMA ReadsGrow ==
  ASSUME Logs, Logs', NEW n \in DOMAIN Stages,
         \A g \in Groups : position[g][Stages[n]] <= position'[g][Stages[n]]
  PROVE  Cardinality(Reads(n)) <= Cardinality(Reads(n)')
<1>1. \A g \in Groups : position[g][Stages[n]] \in Nat /\ position'[g][Stages[n]] \in Nat
  BY TopicShapes DEF Logs
<1>2. Strangers \subseteq Groups
  BY DEF Strangers
<1>3. Reads(n) \in SUBSET Reads(n)'
  BY <1>1, <1>2 DEF Reads
<1> QED
  BY <1>3, ReadsFinite, FS_Subset

\* A step of Commit moves one position on, and so no other.
LEMMA CommitMoves ==
  ASSUME Logs, NEW g \in Groups, NEW topic \in Topics, Commit(g, topic)
  PROVE  \A h \in Groups, u \in Topics :
           /\ position[h][u] <= position'[h][u]
           /\ position'[h][u] = IF h = g /\ u = topic THEN position[h][u] + 1 ELSE position[h][u]
  BY DEF Logs, Commit

\* What a step dispatches from the n-th stage goes to the n-th hop.
LEMMA HopsOn ==
  ASSUME IInv, NEW g \in Groups, NEW topic \in Topics, Unread(g, topic),
         Dispatch(g, topic, FALSE)
  PROVE  /\ topic # Source => topic \in Elements(Stages)
         /\ \A n \in DOMAIN Stages : topic = Stages[n] =>
              \E r \in Header : log' = [log EXCEPT ![Hop(n)] = Append(@, r)]
<1> DEFINE m == Record(g, topic)
           d == DecideFailure(topic, m, FALSE)
           r == [original |-> d.original, count |-> d.count]
<1>1. Supports(topic, m) /\ log' = [log EXCEPT ![d.destination] = Append(@, r)]
  BY DEF Dispatch
<1>2. topic # Source => topic \in Elements(Stages)
  BY <1>1, SupportedRoad
<1>3. r \in Header
  <2>1. Source \in Elements(SourceTopics) /\ d.original = Source /\ d.count \in 1 .. Len(Stages) + 1
    BY <1>1, Decision
  <2> HIDE DEF d
  <2>2. d.count \in Nat
    BY <2>1, TopicShapes
  <2> QED
    BY <2>1, <2>2, Headers
<1>4. ASSUME NEW n \in DOMAIN Stages, topic = Stages[n] PROVE d.destination = Hop(n)
  <2>1. StagesPassed(topic) = n /\ n \in Nat
    BY <1>4, PassedStages, TopicShapes
  <2> QED
    BY <2>1, TopicShapes DEF DecideFailure, Hop
<1> QED
  BY <1>1, <1>2, <1>3, <1>4

\* A disturbance pays for a copy, or for a read that is taken back.
LEMMA DisturbPays ==
  ASSUME IInv, Paid, Logs', spent' = spent + 1,
         \A u \in Topics : Len(log'[u]) <= Len(log[u]) + 1,
         \A n \in DOMAIN Stages :
           \/ Cardinality(Reads(n)) <= Cardinality(Reads(n)')
           \/ UNCHANGED log /\ Cardinality(Reads(n)) <= Cardinality(Reads(n)') + 1
  PROVE  Paid'
<1>1. \A u \in Topics : Len(log[u]) \in Nat /\ Len(log'[u]) \in Nat
  BY DEF IInv, Logs
<1>2. spent' \in Nat /\ Len(log'[Stages[1]]) <= spent'
  BY <1>1, HopShapes, TopicShapes DEF Paid
<1>3. ASSUME NEW n \in DOMAIN Stages
      PROVE  Len(log'[Hop(n)]) <= Cardinality(Reads(n)') + spent'
  <2>1. Hop(n) \in Topics
    BY HopShapes
  <2>2. Cardinality(Reads(n)) \in Nat /\ Cardinality(Reads(n)') \in Nat
    BY ReadsFinite DEF IInv
  <2>3. Len(log[Hop(n)]) <= Cardinality(Reads(n)) + spent /\ spent \in Nat
    BY DEF Paid
  <2>4. Len(log'[Hop(n)]) <= Len(log[Hop(n)]) + 1 /\ Len(log[Hop(n)]) \in Nat /\ Len(log'[Hop(n)]) \in Nat
    BY <1>1, <2>1
  <2> QED
    BY <2>2, <2>3, <2>4
<1> QED
  BY <1>2, <1>3 DEF Paid

LEMMA HandlePaid ==
  ASSUME IInv, IInv', Paid, NEW g \in Groups, NEW topic \in Topics, Handle(g, topic)
  PROVE  Paid'
<1>1. Commit(g, topic) /\ UNCHANGED <<log, spent>>
  BY DEF Handle
<1>2. ASSUME NEW n \in DOMAIN Stages
      PROVE  /\ Cardinality(Reads(n)) <= Cardinality(Reads(n)')
             /\ Cardinality(Reads(n)) \in Nat /\ Cardinality(Reads(n)') \in Nat
             /\ Len(log[Hop(n)]) \in Nat
  <2>0. Logs /\ Logs'
    BY DEF IInv
  <2>1. Hop(n) \in Topics /\ Stages[n] \in Topics
    BY HopShapes, TopicShapes
  <2>2. Cardinality(Reads(n)) <= Cardinality(Reads(n)')
    BY <1>1, <2>0, <2>1, CommitMoves, ReadsGrow
  <2>3. Cardinality(Reads(n)) \in Nat /\ Cardinality(Reads(n)') \in Nat
    BY <2>0, ReadsFinite
  <2>4. Len(log[Hop(n)]) \in Nat
    BY <2>0, <2>1 DEF Logs
  <2> QED
    BY <2>2, <2>3, <2>4
<1>3. ASSUME NEW n \in DOMAIN Stages PROVE Len(log'[Hop(n)]) <= Cardinality(Reads(n)') + spent'
  <2>1. Len(log[Hop(n)]) <= Cardinality(Reads(n)) + spent /\ spent \in Nat
    BY DEF Paid
  <2> QED
    BY <1>1, <1>2, <2>1
<1> QED
  BY <1>1, <1>3 DEF Paid

LEMMA HandlerFailsPaid ==
  ASSUME IInv, IInv', Paid, NEW g \in Groups, NEW topic \in Topics, NEW nonRetryable \in BOOLEAN,
         HandlerFails(g, topic, nonRetryable)
  PROVE  Paid'
<1>1. /\ Unread(g, topic) /\ Dispatch(g, topic, nonRetryable) /\ Commit(g, topic)
      /\ spent' = spent + 1
  BY DEF HandlerFails, Disturb
<1>2. PICK t \in Topics, r \in Header : log' = [log EXCEPT ![t] = Append(log[t], r)]
  BY <1>1, DispatchLogs
<1>3. ASSUME NEW u \in Topics PROVE Len(log'[u]) <= Len(log[u]) + 1
  <2>1. log \in [Topics -> Seq(Header)] /\ Len(log[u]) \in Nat
    BY DEF IInv, Logs
  <2>2. CASE u = t
    BY <1>2, <2>1, <2>2, Appended
  <2>3. CASE u # t
    BY <1>2, <2>1, <2>3
  <2> QED
    BY <2>2, <2>3
<1>4. ASSUME NEW n \in DOMAIN Stages PROVE Cardinality(Reads(n)) <= Cardinality(Reads(n)')
  BY <1>1, TopicShapes, CommitMoves, ReadsGrow DEF IInv
<1> QED
  BY <1>1, <1>3, <1>4, DisturbPays DEF IInv

\* Only a stranger finds no handler, and only in a retry topic.
LEMMA NoHandlerStranger ==
  ASSUME IInv, NEW g \in Groups, NEW topic \in Topics, NoHandler(g, topic)
  PROVE  g \in Strangers /\ topic \in Elements(Stages)
<1>1. /\ Unread(g, topic) /\ Dispatch(g, topic, FALSE)
      /\ topic \notin Registered[g] /\ topic \in Subscribed(g)
  BY DEF NoHandler, HasHandler, Unread
<1>2. PICK own \in Registered[g] : topic \in SubscriptionTopics(own)
  BY <1>1 DEF Subscribed
<1>3. topic \in Elements(Stages) /\ own \in Elements(SourceTopics)
  BY <1>1, <1>2 DEF SubscriptionTopics
<1>4. PICK n \in DOMAIN Stages : topic = Stages[n]
  BY <1>3 DEF Elements
<1>5. Record(g, topic).original = Source
  <2>1. Record(g, topic) = [original |-> Source, count |-> n]
    BY <1>1, <1>4, ReadRecord
  <2> QED
    BY <2>1
<1>6. Source # NoTopic
  BY TopicShapes, RetryAssumption
<1>7. Source \notin Registered[g]
  BY <1>5, <1>6 DEF NoHandler, HasHandler
<1> QED
  BY <1>2, <1>3, <1>7 DEF Strangers

LEMMA NoHandlerPaid ==
  ASSUME IInv, IInv', Paid, NEW g \in Groups, NEW topic \in Topics, NoHandler(g, topic)
  PROVE  Paid'
<1>1. /\ Unread(g, topic) /\ Dispatch(g, topic, FALSE) /\ Commit(g, topic)
      /\ UNCHANGED spent
  BY DEF NoHandler
<1>2. g \in Strangers /\ topic \in Elements(Stages)
  BY NoHandlerStranger
<1>3. PICK k \in DOMAIN Stages : topic = Stages[k]
  BY <1>2 DEF Elements
<1>4. PICK r \in Header : log' = [log EXCEPT ![Hop(k)] = Append(@, r)]
  BY <1>1, <1>3, HopsOn
<1>5. /\ log \in [Topics -> Seq(Header)] /\ Hop(k) \in Topics
      /\ Len(log'[Hop(k)]) = Len(log[Hop(k)]) + 1
      /\ \A u \in Topics : u # Hop(k) => log'[u] = log[u]
      /\ \A u \in Topics : Len(log[u]) \in Nat
  <2>1. log \in [Topics -> Seq(Header)] /\ Hop(k) \in Topics
    BY HopShapes DEF IInv, Logs
  <2> QED
    BY <1>4, <2>1, Appended
<1>6. Len(log'[Stages[1]]) <= spent' /\ spent' \in Nat
  <2>1. Stages[1] \in Topics /\ Stages[1] # Hop(k)
    BY HopShapes, TopicShapes
  <2> QED
    BY <1>1, <1>5, <2>1 DEF Paid
<1>7. \A h \in Groups : /\ position[h][topic] \in Nat
                        /\ position'[h][topic] = IF h = g THEN position[h][topic] + 1 ELSE position[h][topic]
  BY <1>1, CommitMoves DEF IInv, Logs
<1>8. Cardinality(Reads(k)') = Cardinality(Reads(k)) + 1
  <2> DEFINE x == <<g, position[g][topic] + 1>>
  <2>1. x \in Strangers \X (Nat \ {0}) /\ x[1] = g /\ x[2] = position[g][topic] + 1
    BY <1>2, <1>7
  <2>2. x \notin Reads(k)
    BY <1>3, <1>7, <2>1 DEF Reads
  <2>3. Reads(k)' = Reads(k) \cup {x}
    <3>1. ASSUME NEW h \in Strangers, NEW i \in Nat \ {0}
          PROVE  i <= position'[h][topic] <=> (i <= position[h][topic] \/ <<h, i>> = x)
      <4>1. h \in Groups
        BY DEF Strangers
      <4>2. CASE h = g
        BY <1>7, <4>1, <4>2
      <4>3. CASE h # g
        BY <1>7, <4>1, <4>3
      <4> QED
        BY <4>2, <4>3
    <3>2. Reads(k)' \subseteq Reads(k) \cup {x}
      BY <1>3, <3>1 DEF Reads
    <3>3. Reads(k) \subseteq Reads(k)'
      BY <1>3, <3>1 DEF Reads
    <3>4. x \in Reads(k)'
      BY <1>3, <1>7, <2>1 DEF Reads, Strangers
    <3> QED
      BY <3>2, <3>3, <3>4
  <2> HIDE DEF x
  <2> QED
    BY <2>2, <2>3, ReadsFinite, FS_AddElement DEF IInv
<1>9. ASSUME NEW n \in DOMAIN Stages PROVE Len(log'[Hop(n)]) <= Cardinality(Reads(n)') + spent'
  <2>1. /\ Cardinality(Reads(n)) \in Nat /\ Cardinality(Reads(n)') \in Nat
        /\ Len(log[Hop(n)]) <= Cardinality(Reads(n)) + spent /\ spent \in Nat
        /\ Hop(n) \in Topics /\ Len(log[Hop(n)]) \in Nat
    BY <1>5, HopShapes, ReadsFinite DEF IInv, Paid
  <2>2. CASE n = k
    BY <1>1, <1>5, <1>8, <2>1, <2>2
  <2>3. CASE n # k
    <3>1. Len(log'[Hop(n)]) = Len(log[Hop(n)])
      BY <1>5, <2>1, <2>3, HopShapes
    <3>2. Cardinality(Reads(n)) <= Cardinality(Reads(n)')
      BY <1>1, TopicShapes, CommitMoves, ReadsGrow DEF IInv
    <3> QED
      BY <1>1, <2>1, <3>1, <3>2
  <2> QED
    BY <2>2, <2>3
<1> QED
  BY <1>6, <1>9 DEF Paid

LEMMA RedeliverPaid ==
  ASSUME IInv, IInv', Paid, NEW g \in Groups, NEW topic \in Topics, Redeliver(g, topic)
  PROVE  Paid'
<1>1. /\ position[g][topic] > 0 /\ UNCHANGED log /\ spent' = spent + 1
      /\ position' = [position EXCEPT ![g][topic] = @ - 1]
  BY DEF Redeliver, Disturb
<1>2. \A h \in Groups, u \in Topics :
        /\ position[h][u] \in Nat
        /\ position'[h][u] = IF h = g /\ u = topic THEN position[h][u] - 1 ELSE position[h][u]
  BY <1>1 DEF IInv, Logs
<1>3. ASSUME NEW n \in DOMAIN Stages PROVE Cardinality(Reads(n)) <= Cardinality(Reads(n)') + 1
  <2> DEFINE x == <<g, position[g][Stages[n]]>>
  <2>1. Reads(n) \subseteq Reads(n)' \cup {x}
    <3> SUFFICES ASSUME NEW h \in Strangers, NEW i \in Nat \ {0}, i <= position[h][Stages[n]]
                 PROVE  i <= position'[h][Stages[n]] \/ <<h, i>> = x
      BY DEF Reads
    <3>1. h \in Groups /\ Stages[n] \in Topics
      BY TopicShapes DEF Strangers
    <3>2. position[h][Stages[n]] \in Nat
      BY <1>2, <3>1
    <3>3. CASE h = g /\ Stages[n] = topic
      BY <1>2, <3>1, <3>2, <3>3
    <3>4. CASE ~(h = g /\ Stages[n] = topic)
      BY <1>2, <3>1, <3>4
    <3> QED
      BY <3>3, <3>4
  <2> HIDE DEF x
  <2>2. /\ IsFiniteSet(Reads(n)') /\ Cardinality(Reads(n)') \in Nat
        /\ IsFiniteSet(Reads(n)) /\ Cardinality(Reads(n)) \in Nat
    BY ReadsFinite DEF IInv
  <2>3. /\ IsFiniteSet(Reads(n)' \cup {x})
        /\ Cardinality(Reads(n)' \cup {x}) <= Cardinality(Reads(n)') + 1
    BY <2>2, FS_AddElement
  <2>4. Cardinality(Reads(n)) <= Cardinality(Reads(n)' \cup {x}) /\ Cardinality(Reads(n)' \cup {x}) \in Nat
    BY <2>1, <2>3, FS_Subset, FS_CardinalityType
  <2> QED
    BY <2>2, <2>3, <2>4
<1>4. \A u \in Topics : Len(log'[u]) <= Len(log[u]) + 1
  BY <1>1 DEF IInv, Logs
<1> QED
  BY <1>1, <1>3, <1>4, DisturbPays DEF IInv

LEMMA NextPaid == ASSUME IInv, Paid, [Next]_vars PROVE Paid'
<1>1. IInv'
  BY NextIInv
<1>2. CASE UNCHANGED vars
  BY <1>2 DEF vars, Paid, Reads
<1>3. CASE Next
  BY <1>1, <1>3, HandlePaid, HandlerFailsPaid, NoHandlerPaid, RedeliverPaid DEF Next
<1> QED
  BY <1>2, <1>3

LEMMA InitPaid == Init => Paid
<1> SUFFICES ASSUME Init PROVE Paid
  OBVIOUS
<1>1. Logs /\ spent = 0
  BY InitIInv DEF IInv, Init
<1>2. \A topic \in Topics \ {Source} : Len(log[topic]) = 0
  BY DEF Init
<1>3. Stages[1] \in Topics \ {Source}
  BY HopShapes, TopicShapes
<1>4. ASSUME NEW n \in DOMAIN Stages PROVE Len(log[Hop(n)]) <= Cardinality(Reads(n)) + spent
  <2>1. Len(log[Hop(n)]) = 0
    BY <1>2, HopShapes
  <2>2. Cardinality(Reads(n)) \in Nat
    BY <1>1, ReadsFinite
  <2> QED
    BY <1>1, <2>1, <2>2
<1> QED
  BY <1>1, <1>2, <1>3, <1>4 DEF Paid

\* No copy without a disturbance, and from stage to stage at most one for every stranger,
\* for any groups, sources and chain of stages.
THEOREM FanOutHolds == Spec => []FanOut
<1>1. IInv /\ Paid => FanOut
  <2> SUFFICES ASSUME IInv, Paid, NEW n \in DOMAIN Stages
               PROVE  Len(log[Hop(n)]) <= Cardinality(Strangers) * Len(log[Stages[n]]) + spent
    BY DEF FanOut, Paid
  <2>1. /\ Cardinality(Reads(n)) \in Nat /\ Cardinality(Strangers) \in Nat
        /\ Cardinality(Reads(n)) <= Cardinality(Strangers) * Len(log[Stages[n]])
    BY ReadsFinite DEF IInv
  <2>2. Len(log[Hop(n)]) <= Cardinality(Reads(n)) + spent /\ spent \in Nat
    BY DEF Paid
  <2>3. Len(log[Hop(n)]) \in Nat /\ Len(log[Stages[n]]) \in Nat
    BY HopShapes, TopicShapes DEF IInv, Logs
  <2>4. Cardinality(Strangers) * Len(log[Stages[n]]) \in Nat
    BY <2>1, <2>3
  <2> HIDE DEF Hop
  <2> QED
    BY <2>1, <2>2, <2>3, <2>4
<1>2. Init => Paid
  BY InitPaid
<1>3. IInv /\ Paid /\ [Next]_vars => Paid'
  BY NextPaid
<1> QED
  BY <1>1, <1>2, <1>3, Invariance, PTL DEF Spec
================================================================================
