------------------------------- MODULE RiskGoProofs -------------------------------
(***************************************************************************)
(* Proofs about RiskGo for any members, records, batches and number of     *)
(* disturbances. A member's commit is safe because of where its batch came *)
(* from: it read on after an offset that was committed, and everything from *)
(* there to the record in hand it handled itself (BehindHandled). That is   *)
(* true of an old owner's batch as well, and survives an offset that moves  *)
(* back. How often a record is scored is a matter of how often it can still *)
(* come into someone's hands, which only a disturbance adds to (Chances).   *)
(***************************************************************************)
EXTENDS RiskGo, FiniteSetTheorems, TLAPS

Handled(o) == IsOrder(o) => o \in Scored \cup failed

\* Of a member's loop: what is before the record in hand is handled, and so is
\* what is up to the last record fetched, the batch in hand excepted.
BehindHandled ==
  \A m \in Members :
    /\ \A o \in 1 .. batch[m].next - 1 : Handled(o)
    /\ \A o \in 1 .. fetched[m] : Handled(o) \/ o \in batch[m].next .. batch[m].last
    /\ stage[m] = "handled" => Handled(batch[m].next)

IInv == TypeOK /\ CommittedMeansHandled /\ BehindHandled /\ ScoredInLogOrder

-----------------------------------------------------------------------------
(* Batches, and records that stay handled                                  *)

LEMMA Batches ==
  /\ NoBatch \in Batch /\ NoBatch.next = 1 /\ NoBatch.last = 0
  /\ \A i, j \in Nat :
       LET b == [next |-> i, last |-> j] IN b \in Batch /\ b.next = i /\ b.last = j
  /\ \A b \in Batch :
       /\ b.next \in Nat /\ b.last \in Nat
       /\ \A i \in Nat :
            LET c == [b EXCEPT !.next = i] IN c \in Batch /\ c.next = i /\ c.last = b.last
  BY DEF Batch, NoBatch

LEMMA Appended ==
  ASSUME NEW S, NEW s \in Seq(S), NEW e \in S
  PROVE  /\ Append(s, e) \in Seq(S)
         /\ Len(s) \in Nat
         /\ Len(Append(s, e)) = Len(s) + 1
         /\ DOMAIN s = 1 .. Len(s)
         /\ DOMAIN Append(s, e) = 1 .. Len(s) + 1
         /\ Append(s, e)[Len(s) + 1] = e
         /\ \A i \in DOMAIN s : Append(s, e)[i] = s[i]
  OBVIOUS

\* What a step may do to the log and to the records handled.
Grows ==
  /\ \A o \in DOMAIN log : log'[o] = log[o]
  /\ Len(log) <= Len(log')
  /\ Scored \subseteq Scored'
  /\ failed \subseteq failed'

LEMMA StaysHandled ==
  ASSUME TypeOK, Grows, NEW o \in 1 .. Len(log), Handled(o)
  PROVE  Handled(o)'
  BY DEF TypeOK, Grows, Handled, IsOrder

LEMMA ScoredGrows ==
  ASSUME TypeOK, NEW o \in 1 .. Len(log), scored' = Append(scored, o)
  PROVE  /\ scored' \in Seq(1 .. Len(log))
         /\ Scored' = Scored \cup {o}
<1>1. scored \in Seq(1 .. Len(log)) /\ o \in 1 .. Len(log)
  BY DEF TypeOK
<1>2. /\ scored' \in Seq(1 .. Len(log))
      /\ DOMAIN scored = 1 .. Len(scored) /\ Len(scored) \in Nat
      /\ DOMAIN scored' = 1 .. Len(scored) + 1
      /\ scored'[Len(scored) + 1] = o
      /\ \A i \in DOMAIN scored : scored'[i] = scored[i]
  BY <1>1, Appended
<1> QED
  BY <1>2 DEF Scored

\* The record in hand, and the batch it is of, lie inside the log.
LEMMA InHand ==
  ASSUME TypeOK, NEW m \in Members, stage[m] \in {"handling", "handled"}
  PROVE  /\ batch[m] \in Batch
         /\ batch[m].next \in 1 .. Len(log)
         /\ batch[m].last \in 1 .. Len(log)
         /\ batch[m].next <= batch[m].last
         /\ Len(log) \in Nat
  BY Batches DEF TypeOK

\* A record that is scored in log order keeps the log's order.
LEMMA OrderKept ==
  ASSUME IInv, NEW m \in Members, stage[m] = "handling",
         scored' = Append(scored, batch[m].next), UNCHANGED log, failed \subseteq failed'
  PROVE  ScoredInLogOrder'
<1> DEFINE n == batch[m].next
<1>1. n \in 1 .. Len(log) /\ scored \in Seq(1 .. Len(log)) /\ Len(log) \in Nat
  BY InHand DEF IInv, TypeOK
<1>2. /\ DOMAIN scored = 1 .. Len(scored) /\ Len(scored) \in Nat
      /\ DOMAIN scored' = 1 .. Len(scored) + 1
      /\ scored'[Len(scored) + 1] = n
      /\ \A i \in DOMAIN scored : scored'[i] = scored[i]
  BY <1>1, Appended
<1>3. \A o \in 1 .. n - 1 : IsOrder(o) => o \in Scored \cup failed
  BY DEF IInv, BehindHandled, Handled
<1> HIDE DEF n
<1> SUFFICES ASSUME NEW i \in DOMAIN scored', NEW o \in 1 .. scored'[i] - 1, IsOrder(o)
             PROVE  o \in failed' \/ \E j \in 1 .. i - 1 : scored'[j] = o
  BY DEF ScoredInLogOrder, IsOrder
<1>4. CASE i = Len(scored) + 1
  <2>1. o \in Scored \cup failed
    BY <1>2, <1>3, <1>4
  <2>2. CASE o \in failed
    BY <2>2
  <2>3. CASE o \in Scored
    <3>1. PICK j \in DOMAIN scored : scored[j] = o
      BY <2>3 DEF Scored
    <3>2. j \in 1 .. i - 1 /\ scored'[j] = o
      BY <1>2, <1>4, <3>1
    <3> QED
      BY <3>2
  <2> QED
    BY <2>1, <2>2, <2>3
<1>5. CASE i # Len(scored) + 1
  <2>1. i \in DOMAIN scored /\ scored'[i] = scored[i]
    BY <1>2, <1>5
  <2>2. o \in failed \/ \E j \in 1 .. i - 1 : scored[j] = o
    BY <2>1 DEF IInv, ScoredInLogOrder
  <2>3. \A j \in 1 .. i - 1 : scored'[j] = scored[j]
    BY <1>2, <2>1
  <2> QED
    BY <2>2, <2>3
<1> QED
  BY <1>4, <1>5

\* On to the next record, the one in hand being handled.
LEMMA OnwardTypes ==
  ASSUME TypeOK, NEW m \in Members, stage[m] \in {"handling", "handled"}, NextRecord(m)
  PROVE  /\ stage' \in [Members -> {"polling", "handling", "handled", "down"}]
         /\ batch' \in [Members -> Batch]
         /\ \A p \in Members : p # m => stage'[p] = stage[p] /\ batch'[p] = batch[p]
         /\ \/ /\ stage'[m] = "handling"
               /\ batch'[m].next = batch[m].next + 1 /\ batch'[m].last = batch[m].last
               /\ batch[m].next < batch[m].last
            \/ /\ stage'[m] = "polling" /\ batch'[m] = NoBatch
               /\ batch[m].next = batch[m].last
<1>1. /\ batch[m] \in Batch /\ batch[m].next \in Nat /\ batch[m].last \in Nat
      /\ batch[m].next <= batch[m].last
  BY InHand
<1>2. CASE batch[m].next < batch[m].last
  <2> DEFINE c == [batch[m] EXCEPT !.next = batch[m].next + 1]
  <2>1. c \in Batch /\ c.next = batch[m].next + 1 /\ c.last = batch[m].last
    BY <1>1, Batches
  <2> HIDE DEF c
  <2>2. batch' = [batch EXCEPT ![m] = c] /\ stage' = [stage EXCEPT ![m] = "handling"]
    BY <1>2 DEF NextRecord, c
  <2> QED
    BY <1>2, <2>1, <2>2 DEF TypeOK
<1>3. CASE ~(batch[m].next < batch[m].last)
  <2>1. batch' = [batch EXCEPT ![m] = NoBatch] /\ stage' = [stage EXCEPT ![m] = "polling"]
    BY <1>3 DEF NextRecord
  <2> QED
    BY <1>1, <1>3, <2>1, Batches DEF TypeOK
<1> QED
  BY <1>2, <1>3

LEMMA OnwardBatches ==
  ASSUME TypeOK, NEW m \in Members, stage[m] \in {"handling", "handled"}, NextRecord(m),
         UNCHANGED log
  PROVE  \A p \in Members :
           IF stage'[p] \in {"handling", "handled"}
           THEN 1 <= batch'[p].next /\ batch'[p].next <= batch'[p].last /\ batch'[p].last <= Len(log')
           ELSE batch'[p] = NoBatch
<1>1. batch[m].next \in 1 .. Len(log) /\ batch[m].last \in 1 .. Len(log)
  BY InHand
<1> SUFFICES ASSUME NEW p \in Members
             PROVE  IF stage'[p] \in {"handling", "handled"}
                    THEN /\ 1 <= batch'[p].next /\ batch'[p].next <= batch'[p].last
                         /\ batch'[p].last <= Len(log')
                    ELSE batch'[p] = NoBatch
  OBVIOUS
<1>2. CASE p = m
  BY <1>1, <1>2, OnwardTypes DEF TypeOK
<1>3. CASE p # m
  BY <1>3, OnwardTypes DEF TypeOK
<1> QED
  BY <1>2, <1>3

LEMMA OnwardHandled ==
  ASSUME IInv, NEW m \in Members, stage[m] \in {"handling", "handled"}, NextRecord(m),
         UNCHANGED <<log, fetched>>, Grows, NEW n, n = batch[m].next, Handled(n)'
  PROVE  BehindHandled'
<1> DEFINE l == batch[m].last
<1>1. n \in 1 .. Len(log) /\ l \in 1 .. Len(log) /\ n <= l /\ Len(log) \in Nat
  BY InHand DEF IInv
<1>2. fetched[m] \in 0 .. Len(log)
  BY DEF IInv, TypeOK
<1>3. \A o \in 1 .. Len(log) : Handled(o) => Handled(o)'
  BY StaysHandled DEF IInv
<1>4. \A o \in 1 .. n : Handled(o)'
  <2>1. \A o \in 1 .. n - 1 : Handled(o)
    BY DEF IInv, BehindHandled
  <2> QED
    BY <1>1, <1>3, <2>1
<1>5. \A o \in 1 .. fetched[m] : Handled(o)' \/ o \in n + 1 .. l
  <2>1. \A o \in 1 .. fetched[m] : Handled(o) \/ o \in n .. l
    BY DEF IInv, BehindHandled
  <2> QED
    BY <1>1, <1>2, <1>3, <1>4, <2>1
<1> SUFFICES ASSUME NEW p \in Members
             PROVE  /\ \A o \in 1 .. batch'[p].next - 1 : Handled(o)'
                    /\ \A o \in 1 .. fetched'[p] : Handled(o)' \/ o \in batch'[p].next .. batch'[p].last
                    /\ stage'[p] = "handled" => Handled(batch[p].next)'
  BY DEF BehindHandled
<1>6. CASE p = m
  <2>1. CASE stage'[m] = "handling"
    <3>1. batch'[m].next = n + 1 /\ batch'[m].last = l
      BY <2>1, OnwardTypes DEF IInv
    <3> QED
      BY <1>1, <1>4, <1>5, <1>6, <2>1, <3>1
  <2>2. CASE stage'[m] = "polling"
    <3>1. batch'[m].next = 1 /\ batch'[m].last = 0 /\ n = l
      BY <2>2, Batches, OnwardTypes DEF IInv
    <3> QED
      BY <1>1, <1>2, <1>5, <1>6, <2>2, <3>1
  <2> QED
    BY <2>1, <2>2, OnwardTypes DEF IInv
<1>7. CASE p # m
  <2>1. stage'[p] = stage[p] /\ batch'[p] = batch[p] /\ fetched'[p] = fetched[p]
    BY <1>7, OnwardTypes DEF IInv
  <2>2. /\ batch[p].next \in Nat /\ batch[p].last \in Nat /\ batch[p].next - 1 <= Len(log)
        /\ fetched[p] \in 0 .. Len(log)
        /\ stage[p] = "handled" => batch[p].next \in 1 .. Len(log)
    BY <1>1, Batches DEF IInv, TypeOK
  <2>3. /\ \A o \in 1 .. batch[p].next - 1 : Handled(o)
        /\ \A o \in 1 .. fetched[p] : Handled(o) \/ o \in batch[p].next .. batch[p].last
        /\ stage[p] = "handled" => Handled(batch[p].next)
    BY DEF IInv, BehindHandled
  <2>4. stage[p] = "handled" => (IsOrder(batch[p].next) => batch[p].next \in Scored \cup failed)'
    <3> HAVE stage[p] = "handled"
    <3>1. Handled(batch[p].next) /\ batch[p].next \in 1 .. Len(log)
      BY <2>2, <2>3
    <3> QED
      BY <2>1, <3>1 DEF Handled, IsOrder, Grows, IInv, TypeOK
  <2> QED
    BY <1>1, <1>3, <2>1, <2>2, <2>3, <2>4
<1> QED
  BY <1>6, <1>7

\* A batch that is not touched, and whose member's loop is not, stays so.
LEMMA OthersBehind ==
  ASSUME IInv, NEW p \in Members, Grows,
         batch'[p] = batch[p], fetched'[p] = fetched[p],
         stage'[p] = stage[p] \/ stage'[p] # "handled"
  PROVE  /\ \A o \in 1 .. batch'[p].next - 1 : Handled(o)'
         /\ \A o \in 1 .. fetched'[p] : Handled(o)' \/ o \in batch'[p].next .. batch'[p].last
         /\ stage'[p] = "handled" => Handled(batch[p].next)'
<1>1. /\ batch[p].next \in Nat /\ batch[p].last \in Nat /\ batch[p].next - 1 <= Len(log)
      /\ fetched[p] \in 0 .. Len(log) /\ Len(log) \in Nat
      /\ stage[p] = "handled" => batch[p].next \in 1 .. Len(log)
  BY Batches DEF IInv, TypeOK
<1>2. /\ \A o \in 1 .. batch[p].next - 1 : Handled(o)
      /\ \A o \in 1 .. fetched[p] : Handled(o) \/ o \in batch[p].next .. batch[p].last
      /\ stage[p] = "handled" => Handled(batch[p].next)
  BY DEF IInv, BehindHandled
<1>3. \A o \in 1 .. Len(log) : Handled(o) => Handled(o)'
  BY StaysHandled DEF IInv
<1>4. stage'[p] = "handled" => Handled(batch[p].next)'
  <2> HAVE stage'[p] = "handled"
  <2>1. Handled(batch[p].next) /\ batch[p].next \in 1 .. Len(log)
    BY <1>1, <1>2
  <2> QED
    BY <2>1 DEF Handled, IsOrder, Grows, IInv, TypeOK
<1> QED
  BY <1>1, <1>2, <1>3, <1>4

LEMMA StillCommitted ==
  ASSUME IInv, Grows, committed' \in 0 .. Len(log),
         \A o \in 1 .. committed' : Handled(o) \/ Handled(o)'
  PROVE  CommittedMeansHandled'
<1>1. \A o \in 1 .. Len(log) : Handled(o) => Handled(o)'
  BY StaysHandled DEF IInv
<1>2. Len(log) \in Nat
  BY DEF IInv, TypeOK
<1> QED
  BY <1>1, <1>2 DEF CommittedMeansHandled, Handled

-----------------------------------------------------------------------------
(* The invariant holds at the start, and each action keeps it               *)

LEMMA InitIInv == Init => IInv
<1> SUFFICES ASSUME Init PROVE IInv
  OBVIOUS
<1>1. TypeOK
  BY Batches DEF Init, TypeOK
<1>2. CommittedMeansHandled
  BY DEF Init, CommittedMeansHandled
<1>3. BehindHandled
  BY Batches DEF Init, BehindHandled
<1>4. ScoredInLogOrder
  BY DEF Init, ScoredInLogOrder
<1> QED
  BY <1>1, <1>2, <1>3, <1>4 DEF IInv

LEMMA ProduceIInv == ASSUME IInv, NEW r \in Orders \cup {Other}, Produce(r) PROVE IInv'
<1>1. /\ log' = Append(log, r)
      /\ UNCHANGED <<committed, owner, stage, fetched, batch, scored, failed, spent>>
  BY DEF Produce
<1>2. /\ log' \in Seq(Orders \cup {Other})
      /\ Len(log) \in Nat /\ Len(log') = Len(log) + 1
      /\ DOMAIN log = 1 .. Len(log)
      /\ \A o \in DOMAIN log : log'[o] = log[o]
  BY <1>1, Appended DEF IInv, TypeOK
<1>3. Grows
  BY <1>1, <1>2 DEF Grows, Scored
<1>4. TypeOK'
  <2>1. 1 .. Len(log) \subseteq 1 .. Len(log') /\ 0 .. Len(log) \subseteq 0 .. Len(log')
    BY <1>2
  <2>2. scored' \in Seq(1 .. Len(log'))
    BY <1>1, <2>1 DEF IInv, TypeOK
  <2>3. fetched' \in [Members -> 0 .. Len(log')]
    BY <1>1, <2>1 DEF IInv, TypeOK
  <2>4. \A m \in Members :
          IF stage'[m] \in {"handling", "handled"}
          THEN 1 <= batch'[m].next /\ batch'[m].next <= batch'[m].last /\ batch'[m].last <= Len(log')
          ELSE batch'[m] = NoBatch
    <3>1. \A m \in Members : batch[m].last \in Nat
      BY Batches DEF IInv, TypeOK
    <3> QED
      BY <1>1, <1>2, <3>1 DEF IInv, TypeOK
  <2> QED
    BY <1>1, <1>2, <2>1, <2>2, <2>3, <2>4 DEF IInv, TypeOK
<1>5. CommittedMeansHandled'
  <2>1. committed' \in 0 .. Len(log) /\ \A o \in 1 .. committed' : Handled(o)
    BY <1>1 DEF IInv, TypeOK, CommittedMeansHandled, Handled
  <2> QED
    BY <1>3, <2>1, StillCommitted
<1>6. BehindHandled'
  BY <1>1, <1>3, OthersBehind DEF BehindHandled
<1>7. ScoredInLogOrder'
  <2>1. \A i \in DOMAIN scored : scored[i] \in 1 .. Len(log)
    BY DEF IInv, TypeOK
  <2>2. \A i \in DOMAIN scored, o \in 1 .. Len(log) : o \in 1 .. scored[i] - 1 => IsOrder(o)' = IsOrder(o)
    BY <1>2 DEF IsOrder
  <2>3. \A i \in DOMAIN scored : \A o \in 1 .. scored[i] - 1 : o \in 1 .. Len(log)
    BY <1>2, <2>1
  <2> QED
    BY <1>1, <2>2, <2>3 DEF IInv, ScoredInLogOrder
<1> QED
  BY <1>4, <1>5, <1>6, <1>7 DEF IInv

LEMMA TakeOverIInv ==
  ASSUME IInv, NEW m \in Members, TakeOver(m), spent' \in Nat PROVE IInv'
<1>1. /\ fetched' = [fetched EXCEPT ![m] = committed]
      /\ owner' = m
      /\ UNCHANGED <<log, committed, stage, batch, scored, failed>>
  BY DEF TakeOver, Resume
<1>2. Grows
  BY <1>1 DEF Grows, Scored, IInv, TypeOK
<1>3. TypeOK'
  BY <1>1 DEF IInv, TypeOK
<1>4. CommittedMeansHandled' /\ ScoredInLogOrder'
  BY <1>1 DEF IInv, CommittedMeansHandled, ScoredInLogOrder, Scored, IsOrder
<1>5. BehindHandled'
  <2>1. \A o : Handled(o)' <=> Handled(o)
    BY <1>1 DEF Handled, IsOrder, Scored
  <2>2. \A o \in 1 .. committed : Handled(o)
    BY DEF IInv, CommittedMeansHandled, Handled
  <2> SUFFICES ASSUME NEW p \in Members
               PROVE  /\ \A o \in 1 .. batch'[p].next - 1 : Handled(o)'
                      /\ \A o \in 1 .. fetched'[p] : Handled(o)' \/ o \in batch'[p].next .. batch'[p].last
                      /\ stage'[p] = "handled" => Handled(batch[p].next)'
    BY DEF BehindHandled
  <2>3. /\ \A o \in 1 .. batch'[p].next - 1 : Handled(o)'
        /\ stage'[p] = "handled" => Handled(batch[p].next)'
    BY <1>1, <2>1 DEF IInv, BehindHandled
  <2>4. CASE p = m
    BY <1>1, <2>1, <2>2, <2>3, <2>4 DEF IInv, TypeOK
  <2>5. CASE p # m
    BY <1>1, <2>1, <2>3, <2>5 DEF IInv, TypeOK, BehindHandled
  <2> QED
    BY <2>4, <2>5
<1> QED
  BY <1>3, <1>4, <1>5 DEF IInv

LEMMA PollIInv == ASSUME IInv, NEW m \in Members, Poll(m) PROVE IInv'
<1>1. PICK last \in fetched[m] + 1 .. Len(log) :
        /\ batch' = [batch EXCEPT ![m] = [next |-> fetched[m] + 1, last |-> last]]
        /\ fetched' = [fetched EXCEPT ![m] = last]
  BY DEF Poll
<1>2. /\ stage[m] = "polling" /\ stage' = [stage EXCEPT ![m] = "handling"]
      /\ UNCHANGED <<log, committed, owner, scored, failed, spent>>
  BY DEF Poll
<1>3. /\ fetched[m] \in 0 .. Len(log) /\ Len(log) \in Nat
      /\ last \in Nat /\ fetched[m] + 1 \in Nat
  BY <1>1 DEF IInv, TypeOK
<1> DEFINE b == [next |-> fetched[m] + 1, last |-> last]
<1>4. b \in Batch /\ b.next = fetched[m] + 1 /\ b.last = last
  BY <1>3, Batches
<1>5. batch' = [batch EXCEPT ![m] = b]
  BY <1>1
<1> HIDE DEF b
<1>6. Grows
  BY <1>2, <1>3 DEF Grows, Scored
<1>7. TypeOK'
  <2>1. /\ fetched' \in [Members -> 0 .. Len(log)]
        /\ batch' \in [Members -> Batch]
        /\ stage' \in [Members -> {"polling", "handling", "handled", "down"}]
    BY <1>1, <1>2, <1>3, <1>4, <1>5 DEF IInv, TypeOK
  <2>2. \A p \in Members :
          IF stage'[p] \in {"handling", "handled"}
          THEN 1 <= batch'[p].next /\ batch'[p].next <= batch'[p].last /\ batch'[p].last <= Len(log)
          ELSE batch'[p] = NoBatch
    BY <1>1, <1>2, <1>3, <1>4, <1>5 DEF IInv, TypeOK
  <2> QED
    BY <1>2, <2>1, <2>2 DEF IInv, TypeOK
<1>8. CommittedMeansHandled' /\ ScoredInLogOrder'
  BY <1>2 DEF IInv, CommittedMeansHandled, ScoredInLogOrder, Scored, IsOrder
<1>9. BehindHandled'
  <2>1. \A o : Handled(o)' <=> Handled(o)
    BY <1>2 DEF Handled, IsOrder, Scored
  <2>2. \A o \in 1 .. fetched[m] : Handled(o)
    <3>1. batch[m] = NoBatch
      BY <1>2 DEF IInv, TypeOK
    <3>2. batch[m].next = 1 /\ batch[m].last = 0
      BY <3>1, Batches
    <3> QED
      BY <1>3, <3>2 DEF IInv, BehindHandled
  <2> SUFFICES ASSUME NEW p \in Members
               PROVE  /\ \A o \in 1 .. batch'[p].next - 1 : Handled(o)'
                      /\ \A o \in 1 .. fetched'[p] : Handled(o)' \/ o \in batch'[p].next .. batch'[p].last
                      /\ stage'[p] = "handled" => Handled(batch[p].next)'
    BY DEF BehindHandled
  <2>3. CASE p = m
    <3>1. batch'[p] = b /\ fetched'[p] = last /\ stage'[p] = "handling"
      BY <1>1, <1>2, <1>5, <2>3 DEF IInv, TypeOK
    <3> QED
      BY <1>3, <1>4, <2>1, <2>2, <3>1
  <2>4. CASE p # m
    <3>1. batch'[p] = batch[p] /\ fetched'[p] = fetched[p] /\ stage'[p] = stage[p]
      BY <1>1, <1>2, <1>5, <2>4 DEF IInv, TypeOK
    <3> QED
      BY <1>6, <3>1, OthersBehind
  <2> QED
    BY <2>3, <2>4
<1> QED
  BY <1>7, <1>8, <1>9 DEF IInv

LEMMA HandleIInv == ASSUME IInv, NEW m \in Members, Handle(m) PROVE IInv'
<1> DEFINE n == batch[m].next
<1>1. /\ stage[m] = "handling" /\ stage' = [stage EXCEPT ![m] = "handled"]
      /\ scored' = Append(scored, n)
      /\ UNCHANGED <<log, committed, owner, fetched, batch, failed, spent>>
  BY DEF Handle
<1>2. n \in 1 .. Len(log)
  BY <1>1, InHand DEF IInv
<1>3. scored' \in Seq(1 .. Len(log)) /\ Scored' = Scored \cup {n}
  BY <1>1, <1>2, ScoredGrows DEF IInv
<1>4. Grows
  BY <1>1, <1>3 DEF Grows, IInv, TypeOK
<1>5. TypeOK'
  BY <1>1, <1>3 DEF IInv, TypeOK
<1>6. CommittedMeansHandled'
  <2>1. committed' \in 0 .. Len(log) /\ \A o \in 1 .. committed' : Handled(o)
    BY <1>1 DEF IInv, TypeOK, CommittedMeansHandled, Handled
  <2> QED
    BY <1>4, <2>1, StillCommitted
<1>7. ScoredInLogOrder'
  BY <1>1, OrderKept
<1>8. BehindHandled'
  <2> SUFFICES ASSUME NEW p \in Members
               PROVE  /\ \A o \in 1 .. batch'[p].next - 1 : Handled(o)'
                      /\ \A o \in 1 .. fetched'[p] : Handled(o)' \/ o \in batch'[p].next .. batch'[p].last
                      /\ stage'[p] = "handled" => Handled(batch[p].next)'
    BY DEF BehindHandled
  <2>1. CASE p = m
    <3>1. \A o \in 1 .. Len(log) : Handled(o) => Handled(o)'
      BY <1>4, StaysHandled DEF IInv
    <3>3. /\ \A o \in 1 .. batch[p].next - 1 : Handled(o)
          /\ \A o \in 1 .. fetched[p] : Handled(o) \/ o \in batch[p].next .. batch[p].last
      BY DEF IInv, BehindHandled
    <3>4. fetched[p] \in 0 .. Len(log) /\ Len(log) \in Nat
      BY DEF IInv, TypeOK
    <3>5. Handled(batch[p].next)'
      BY <1>1, <1>3, <2>1 DEF Handled
    <3> QED
      BY <1>1, <1>2, <2>1, <3>1, <3>3, <3>4, <3>5
  <2>2. CASE p # m
    <3>1. batch'[p] = batch[p] /\ fetched'[p] = fetched[p] /\ stage'[p] = stage[p]
      BY <1>1, <2>2 DEF IInv, TypeOK
    <3> QED
      BY <1>4, <3>1, OthersBehind
  <2> QED
    BY <2>1, <2>2
<1> QED
  BY <1>5, <1>6, <1>7, <1>8 DEF IInv

LEMMA PassOverIInv == ASSUME IInv, NEW m \in Members, PassOver(m) PROVE IInv'
<1>1. /\ stage[m] = "handling" /\ ~IsOrder(batch[m].next) /\ NextRecord(m)
      /\ UNCHANGED <<log, committed, owner, fetched, scored, failed, spent>>
  BY DEF PassOver
<1>2. Grows
  BY <1>1 DEF Grows, Scored, IInv, TypeOK
<1>3. TypeOK'
  <2>1. \A p \in Members :
          IF stage'[p] \in {"handling", "handled"}
          THEN 1 <= batch'[p].next /\ batch'[p].next <= batch'[p].last /\ batch'[p].last <= Len(log')
          ELSE batch'[p] = NoBatch
    BY <1>1, OnwardBatches DEF IInv
  <2>2. /\ stage' \in [Members -> {"polling", "handling", "handled", "down"}]
        /\ batch' \in [Members -> Batch]
    BY <1>1, OnwardTypes DEF IInv
  <2> QED
    BY <1>1, <2>1, <2>2 DEF IInv, TypeOK
<1>4. CommittedMeansHandled' /\ ScoredInLogOrder'
  BY <1>1 DEF IInv, CommittedMeansHandled, ScoredInLogOrder, Scored, IsOrder
<1>5. BehindHandled'
  <2>1. PICK n : n = batch[m].next
    OBVIOUS
  <2>2. Handled(n)'
    BY <1>1, <2>1 DEF Handled, IsOrder
  <2> QED
    BY <1>1, <1>2, <2>1, <2>2, OnwardHandled
<1> QED
  BY <1>3, <1>4, <1>5 DEF IInv

LEMMA HandleFailsIInv == ASSUME IInv, NEW m \in Members, HandleFails(m) PROVE IInv'
<1>1. /\ stage[m] = "handling" /\ NextRecord(m)
      /\ scored' = scored \/ scored' = Append(scored, batch[m].next)
      /\ failed' = failed \cup {batch[m].next}
      /\ UNCHANGED <<log, committed, owner, fetched>>
  BY DEF HandleFails
<1>2. spent' \in Nat
  BY DEF HandleFails, Disturb, IInv, TypeOK
<1>3. batch[m].next \in 1 .. Len(log)
  BY <1>1, InHand DEF IInv
<1>4. scored' \in Seq(1 .. Len(log)) /\ Scored \subseteq Scored'
  <2>1. CASE scored' = scored
    BY <2>1 DEF IInv, TypeOK, Scored
  <2>2. CASE scored' = Append(scored, batch[m].next)
    BY <1>3, <2>2, ScoredGrows DEF IInv
  <2> QED
    BY <1>1, <2>1, <2>2
<1>5. Grows
  BY <1>1, <1>4 DEF Grows, IInv, TypeOK
<1>6. TypeOK'
  <2>1. \A p \in Members :
          IF stage'[p] \in {"handling", "handled"}
          THEN 1 <= batch'[p].next /\ batch'[p].next <= batch'[p].last /\ batch'[p].last <= Len(log')
          ELSE batch'[p] = NoBatch
    BY <1>1, OnwardBatches DEF IInv
  <2>2. /\ stage' \in [Members -> {"polling", "handling", "handled", "down"}]
        /\ batch' \in [Members -> Batch]
    BY <1>1, OnwardTypes DEF IInv
  <2> QED
    BY <1>1, <1>2, <1>3, <1>4, <2>1, <2>2 DEF IInv, TypeOK
<1>7. CommittedMeansHandled'
  <2>1. committed' \in 0 .. Len(log) /\ \A o \in 1 .. committed' : Handled(o)
    BY <1>1 DEF IInv, TypeOK, CommittedMeansHandled, Handled
  <2> QED
    BY <1>5, <2>1, StillCommitted
<1>8. ScoredInLogOrder'
  <2>1. CASE scored' = scored
    BY <1>1, <2>1 DEF IInv, ScoredInLogOrder, IsOrder
  <2>2. CASE scored' = Append(scored, batch[m].next)
    BY <1>1, <2>2, OrderKept
  <2> QED
    BY <1>1, <2>1, <2>2
<1>9. BehindHandled'
  <2>1. PICK n : n = batch[m].next
    OBVIOUS
  <2>2. Handled(n)'
    BY <1>1, <2>1 DEF Handled
  <2> QED
    BY <1>1, <1>5, <2>1, <2>2, OnwardHandled
<1> QED
  BY <1>6, <1>7, <1>8, <1>9 DEF IInv

\* What a member commits, everything before it is handled.
LEMMA OffsetHandled ==
  ASSUME IInv, NEW m \in Members, stage[m] = "handled"
  PROVE  /\ CommitOffset(m) \in 1 .. Len(log)
         /\ \A o \in 1 .. CommitOffset(m) : Handled(o)
<1>1. batch[m].next \in 1 .. Len(log) /\ Len(log) \in Nat
  BY InHand DEF IInv
<1>2. (\A o \in 1 .. batch[m].next - 1 : Handled(o)) /\ Handled(batch[m].next)
  BY DEF IInv, BehindHandled
<1> QED
  BY <1>1, <1>2 DEF CommitOffset

LEMMA CommitIInv == ASSUME IInv, NEW m \in Members, Commit(m) PROVE IInv'
<1>1. /\ stage[m] = "handled" /\ NextRecord(m)
      /\ committed' = CommitOffset(m)
      /\ UNCHANGED <<log, owner, fetched, scored, failed, spent>>
  BY DEF Commit
<1>2. committed' \in 0 .. Len(log) /\ \A o \in 1 .. committed' : Handled(o)
  BY <1>1, OffsetHandled
<1>3. Grows
  BY <1>1 DEF Grows, Scored, IInv, TypeOK
<1>4. TypeOK'
  <2>1. \A p \in Members :
          IF stage'[p] \in {"handling", "handled"}
          THEN 1 <= batch'[p].next /\ batch'[p].next <= batch'[p].last /\ batch'[p].last <= Len(log')
          ELSE batch'[p] = NoBatch
    BY <1>1, OnwardBatches DEF IInv
  <2>2. /\ stage' \in [Members -> {"polling", "handling", "handled", "down"}]
        /\ batch' \in [Members -> Batch]
    BY <1>1, OnwardTypes DEF IInv
  <2> QED
    BY <1>1, <1>2, <2>1, <2>2 DEF IInv, TypeOK
<1>5. CommittedMeansHandled'
  BY <1>2, <1>3, StillCommitted
<1>6. ScoredInLogOrder'
  BY <1>1 DEF IInv, ScoredInLogOrder, IsOrder
<1>7. BehindHandled'
  <2>1. PICK n : n = batch[m].next
    OBVIOUS
  <2>2. Handled(n)'
    BY <1>1, <2>1 DEF Handled, IsOrder, Scored, IInv, BehindHandled
  <2> QED
    BY <1>1, <1>3, <2>1, <2>2, OnwardHandled
<1> QED
  BY <1>4, <1>5, <1>6, <1>7 DEF IInv

\* A member that ends leaves nothing behind; what it committed last was handled.
LEMMA ExitIInv ==
  ASSUME IInv, NEW m \in Members, Exit(m), spent' \in Nat,
         committed' \in 0 .. Len(log), \A o \in 1 .. committed' : Handled(o)
  PROVE  IInv'
<1>1. /\ stage' = [stage EXCEPT ![m] = "down"]
      /\ batch' = [batch EXCEPT ![m] = NoBatch]
      /\ fetched' = [fetched EXCEPT ![m] = 0]
      /\ owner' \in {owner, Nobody}
      /\ UNCHANGED <<log, scored, failed>>
  BY DEF Exit
<1>2. Grows
  BY <1>1 DEF Grows, Scored, IInv, TypeOK
<1>3. TypeOK'
  <2>1. Len(log) \in Nat /\ 0 \in 0 .. Len(log)
    BY DEF IInv, TypeOK
  <2>2. /\ batch' \in [Members -> Batch]
        /\ stage' \in [Members -> {"polling", "handling", "handled", "down"}]
        /\ fetched' \in [Members -> 0 .. Len(log)]
    BY <1>1, <2>1, Batches DEF IInv, TypeOK
  <2>3. \A p \in Members :
          IF stage'[p] \in {"handling", "handled"}
          THEN 1 <= batch'[p].next /\ batch'[p].next <= batch'[p].last /\ batch'[p].last <= Len(log)
          ELSE batch'[p] = NoBatch
    BY <1>1 DEF IInv, TypeOK
  <2> QED
    BY <1>1, <2>2, <2>3 DEF IInv, TypeOK
<1>4. CommittedMeansHandled'
  BY <1>2, StillCommitted
<1>5. ScoredInLogOrder'
  BY <1>1 DEF IInv, ScoredInLogOrder, IsOrder
<1>6. BehindHandled'
  <2> SUFFICES ASSUME NEW p \in Members
               PROVE  /\ \A o \in 1 .. batch'[p].next - 1 : Handled(o)'
                      /\ \A o \in 1 .. fetched'[p] : Handled(o)' \/ o \in batch'[p].next .. batch'[p].last
                      /\ stage'[p] = "handled" => Handled(batch[p].next)'
    BY DEF BehindHandled
  <2>1. CASE p = m
    <3>1. batch'[p] = NoBatch /\ fetched'[p] = 0 /\ stage'[p] = "down"
      BY <1>1, <2>1 DEF IInv, TypeOK
    <3> QED
      BY <3>1, Batches
  <2>2. CASE p # m
    <3>1. batch'[p] = batch[p] /\ fetched'[p] = fetched[p] /\ stage'[p] = stage[p]
      BY <1>1, <2>2 DEF IInv, TypeOK
    <3> QED
      BY <1>2, <3>1, OthersBehind
  <2> QED
    BY <2>1, <2>2
<1> QED
  BY <1>3, <1>4, <1>5, <1>6 DEF IInv

LEMMA EndIInv == ASSUME IInv, NEW m \in Members, CommitFails(m) \/ Crash(m) PROVE IInv'
<1>1. Exit(m)
  BY DEF CommitFails, Crash
<1>2. spent' \in Nat
  BY DEF CommitFails, Crash, Disturb, IInv, TypeOK
<1>3. \A o \in 1 .. committed : Handled(o)
  BY DEF IInv, CommittedMeansHandled, Handled
<1>4. committed' = committed \/ (stage[m] = "handled" /\ committed' = CommitOffset(m))
  BY DEF CommitFails, Crash
<1>5. committed' \in 0 .. Len(log) /\ \A o \in 1 .. committed' : Handled(o)
  BY <1>3, <1>4, OffsetHandled DEF IInv, TypeOK
<1> QED
  BY <1>1, <1>2, <1>5, ExitIInv

LEMMA StartIInv == ASSUME IInv, NEW m \in Members, Start(m) PROVE IInv'
<1>1. /\ stage[m] = "down" /\ stage' = [stage EXCEPT ![m] = "polling"]
      /\ UNCHANGED <<log, committed, owner, fetched, batch, scored, failed, spent>>
  BY DEF Start
<1>2. Grows
  BY <1>1 DEF Grows, Scored, IInv, TypeOK
<1>3. TypeOK'
  BY <1>1 DEF IInv, TypeOK
<1>4. CommittedMeansHandled' /\ ScoredInLogOrder'
  BY <1>1 DEF IInv, CommittedMeansHandled, ScoredInLogOrder, Scored, IsOrder
<1>5. \A p \in Members : stage'[p] = stage[p] \/ stage'[p] # "handled"
  BY <1>1 DEF IInv, TypeOK
<1>6. BehindHandled'
  BY <1>1, <1>2, <1>5, OthersBehind DEF BehindHandled
<1> QED
  BY <1>3, <1>4, <1>6 DEF IInv

-----------------------------------------------------------------------------
(* What a record's risk events cost                                        *)

\* Offsets a member has in hand and has not answered.
InHandOf(m) ==
  IF stage[m] = "handling" THEN batch[m].next .. batch[m].last
  ELSE IF stage[m] = "handled" THEN batch[m].next + 1 .. batch[m].last
  ELSE {}

Holders(o) == {m \in Members : o \in InHandOf(m)}
Copies(o)  == Cardinality({i \in DOMAIN scored : scored[i] = o})

\* The partition's owner, or whoever is next to own it, has still to fetch the record.
ToCome(o) == IF owner = Nobody THEN 1 ELSE IF fetched[owner] < o THEN 1 ELSE 0

Has(o, S) == IF o \in S THEN 1 ELSE 0

OnlyOrders == \A i \in DOMAIN scored : IsOrder(scored[i])

\* A record is answered, in hand or to come at most once for every disturbance,
\* and once more.
Chances ==
  \A o \in Nat \ {0} :
    /\ IsFiniteSet(Holders(o))
    /\ Copies(o) + Cardinality(Holders(o)) + ToCome(o) <= 1 + spent

LEMMA CopiesFinite ==
  ASSUME NEW n \in Nat, NEW f, DOMAIN f = 1 .. n, NEW o
  PROVE  LET S == {i \in DOMAIN f : f[i] = o}
         IN  IsFiniteSet(S) /\ Cardinality(S) \in Nat
<1> DEFINE S == {i \in DOMAIN f : f[i] = o}
<1>1. IsFiniteSet(1 .. n) /\ S \in SUBSET (1 .. n)
  BY FS_Interval
<1>2. IsFiniteSet(S)
  BY <1>1, FS_Subset
<1> QED
  BY <1>2, FS_CardinalityType

LEMMA CopiesNat == ASSUME TypeOK, NEW o PROVE Copies(o) \in Nat
<1>1. scored \in Seq(1 .. Len(log))
  BY DEF TypeOK
<1>2. Len(scored) \in Nat /\ DOMAIN scored = 1 .. Len(scored)
  BY <1>1
<1> QED
  BY <1>2, CopiesFinite DEF Copies

LEMMA CopiesAppended ==
  ASSUME TypeOK, NEW n \in 1 .. Len(log), scored' = Append(scored, n), NEW o
  PROVE  Copies(o)' = Copies(o) + Has(o, {n})
<1> DEFINE S == {i \in DOMAIN scored : scored[i] = o}
           T == {i \in DOMAIN scored' : scored'[i] = o}
           k == Len(scored) + 1
<1>1. scored \in Seq(1 .. Len(log))
  BY DEF TypeOK
<1>2. /\ DOMAIN scored = 1 .. Len(scored) /\ Len(scored) \in Nat
      /\ DOMAIN scored' = 1 .. Len(scored) + 1
      /\ scored'[k] = n
      /\ \A i \in DOMAIN scored : scored'[i] = scored[i]
  BY <1>1, Appended
<1>3. IsFiniteSet(S) /\ Cardinality(S) \in Nat
  BY <1>2, CopiesFinite
<1>4. k \notin S /\ T = IF o = n THEN S \cup {k} ELSE S
  BY <1>2
<1> HIDE DEF S, T, k
<1>5. Cardinality(T) = Cardinality(S) + Has(o, {n})
  <2>1. CASE o = n
    BY <1>3, <1>4, <2>1, FS_AddElement DEF Has
  <2>2. CASE o # n
    BY <1>3, <1>4, <2>2 DEF Has
  <2> QED
    BY <2>1, <2>2
<1> QED
  BY <1>5 DEF Copies, S, T

\* One member's step is one member's share of the holders.
LEMMA HoldersStep ==
  ASSUME NEW o, IsFiniteSet(Holders(o)), NEW m \in Members,
         \A p \in Members : p # m => InHandOf(p)' = InHandOf(p)
  PROVE  /\ IsFiniteSet(Holders(o)')
         /\ Cardinality(Holders(o)) \in Nat /\ Cardinality(Holders(o)') \in Nat
         /\ Cardinality(Holders(o)') =
              Cardinality(Holders(o)) - Has(o, InHandOf(m)) + Has(o, InHandOf(m)')
<1> DEFINE H == Holders(o)
           G == Holders(o)'
           R == H \ {m}
<1>1. /\ m \in H <=> o \in InHandOf(m)
      /\ m \in G <=> o \in InHandOf(m)'
      /\ m \notin R
      /\ G = IF o \in InHandOf(m)' THEN R \cup {m} ELSE R
  BY DEF Holders
<1>2. IsFiniteSet(H) /\ Cardinality(H) \in Nat
  BY FS_CardinalityType
<1>3. /\ IsFiniteSet(R)
      /\ Cardinality(R) = IF m \in H THEN Cardinality(H) - 1 ELSE Cardinality(H)
  BY <1>2, FS_RemoveElement
<1>4. Cardinality(R) \in Nat
  BY <1>3, FS_CardinalityType
<1>5. /\ IsFiniteSet(R \cup {m})
      /\ Cardinality(R \cup {m}) = Cardinality(R) + 1
  BY <1>1, <1>3, FS_AddElement
<1> HIDE DEF H, G, R
<1>6. IsFiniteSet(G) /\ Cardinality(G) = Cardinality(R) + Has(o, InHandOf(m)')
  BY <1>1, <1>3, <1>4, <1>5 DEF Has
<1>7. Cardinality(H) = Cardinality(R) + Has(o, InHandOf(m))
  BY <1>1, <1>2, <1>3, <1>4 DEF Has
<1>8. Has(o, InHandOf(m)) \in Nat /\ Has(o, InHandOf(m)') \in Nat
  BY DEF Has
<1>9. Cardinality(G) = Cardinality(H) - Has(o, InHandOf(m)) + Has(o, InHandOf(m)')
  BY <1>2, <1>4, <1>6, <1>7, <1>8
<1>10. Cardinality(G) \in Nat
  BY <1>4, <1>6, <1>8
<1> QED
  BY <1>2, <1>6, <1>9, <1>10 DEF H, G

\* The step of one member, as a balance: what it answers and has in hand grows
\* by no more than what is no longer to come, and what was disturbed.
LEMMA MemberStep ==
  ASSUME IInv, Chances, NEW m \in Members,
         \A p \in Members : p # m => InHandOf(p)' = InHandOf(p),
         spent' \in Nat,
         \A o \in Nat \ {0} :
           /\ Copies(o)' \in Nat
           /\ Copies(o)' + Has(o, InHandOf(m)') + ToCome(o)' - spent'
                <= Copies(o) + Has(o, InHandOf(m)) + ToCome(o) - spent
  PROVE  Chances'
<1> SUFFICES ASSUME NEW o \in Nat \ {0}
             PROVE  /\ IsFiniteSet(Holders(o)')
                    /\ Copies(o)' + Cardinality(Holders(o)') + ToCome(o)' <= 1 + spent'
  BY DEF Chances
<1>1. /\ IsFiniteSet(Holders(o))
      /\ Copies(o) + Cardinality(Holders(o)) + ToCome(o) <= 1 + spent
  BY DEF Chances
<1>2. /\ IsFiniteSet(Holders(o)')
      /\ Cardinality(Holders(o)) \in Nat /\ Cardinality(Holders(o)') \in Nat
      /\ Cardinality(Holders(o)') =
           Cardinality(Holders(o)) - Has(o, InHandOf(m)) + Has(o, InHandOf(m)')
  BY <1>1, HoldersStep
<1>3. /\ Has(o, InHandOf(m)) \in Nat /\ Has(o, InHandOf(m)') \in Nat
      /\ ToCome(o) \in Nat /\ ToCome(o)' \in Nat
  BY DEF Has, ToCome
<1>4. Copies(o) \in Nat /\ spent \in Nat
  BY CopiesNat DEF IInv, TypeOK
<1> QED
  BY <1>1, <1>2, <1>3, <1>4

LEMMA OthersInHand ==
  ASSUME NEW p \in Members, batch'[p] = batch[p], stage'[p] = stage[p]
  PROVE  InHandOf(p)' = InHandOf(p)
  BY DEF InHandOf

LEMMA OnwardInHand ==
  ASSUME TypeOK, NEW m \in Members, stage[m] \in {"handling", "handled"}, NextRecord(m)
  PROVE  /\ \A p \in Members : p # m => InHandOf(p)' = InHandOf(p)
         /\ InHandOf(m)' \subseteq InHandOf(m)
         /\ stage[m] = "handling" => InHandOf(m)' = InHandOf(m) \ {batch[m].next}
<1>1. batch[m].next \in Nat /\ batch[m].last \in Nat /\ batch[m].next <= batch[m].last
  BY InHand
<1>2. \A p \in Members : p # m => InHandOf(p)' = InHandOf(p)
  BY OnwardTypes, OthersInHand
<1>3. InHandOf(m)' = batch[m].next + 1 .. batch[m].last
  BY <1>1, OnwardTypes DEF InHandOf
<1>4. InHandOf(m) = IF stage[m] = "handling" THEN batch[m].next .. batch[m].last
                    ELSE batch[m].next + 1 .. batch[m].last
  BY DEF InHandOf
<1> QED
  BY <1>1, <1>2, <1>3, <1>4

LEMMA HasLess == ASSUME NEW o, NEW S, NEW T, T \subseteq S PROVE Has(o, T) <= Has(o, S)
  BY DEF Has

LEMMA InitChances == Init => Chances /\ OnlyOrders
<1> SUFFICES ASSUME Init PROVE Chances /\ OnlyOrders
  OBVIOUS
<1>1. OnlyOrders
  BY DEF Init, OnlyOrders
<1>2. \A o : Holders(o) = {}
  BY DEF Init, Holders, InHandOf
<1>3. \A o : Copies(o) = 0
  <2>1. \A o : {i \in DOMAIN scored : scored[i] = o} = {}
    BY DEF Init
  <2> QED
    BY <2>1, FS_EmptySet DEF Copies
<1>4. spent = 0 /\ \A o : ToCome(o) = 1
  BY DEF Init, ToCome
<1>5. Chances
  BY <1>2, <1>3, <1>4, FS_EmptySet DEF Chances
<1> QED
  BY <1>1, <1>5

\* A step that scores nothing, or no other record than an order's.
LEMMA StillOrders ==
  ASSUME IInv, OnlyOrders, UNCHANGED log, NEW n \in 1 .. Len(log),
         scored' = scored \/ (scored' = Append(scored, n) /\ IsOrder(n))
  PROVE  OnlyOrders'
<1>1. CASE scored' = scored
  BY <1>1 DEF OnlyOrders, IsOrder
<1>2. CASE scored' = Append(scored, n) /\ IsOrder(n)
  <2>1. scored \in Seq(1 .. Len(log))
    BY DEF IInv, TypeOK
  <2>2. /\ Len(scored) \in Nat
        /\ DOMAIN scored = 1 .. Len(scored)
        /\ DOMAIN scored' = 1 .. Len(scored) + 1
        /\ scored'[Len(scored) + 1] = n
        /\ \A i \in DOMAIN scored : scored'[i] = scored[i]
    BY <1>2, <2>1, Appended
  <2>3. \A i \in DOMAIN scored' : scored'[i] = n \/ (i \in DOMAIN scored /\ scored'[i] = scored[i])
    BY <2>2
  <2> QED
    BY <1>2, <2>3 DEF OnlyOrders, IsOrder
<1> QED
  BY <1>1, <1>2

LEMMA ProduceChances ==
  ASSUME IInv, Chances, OnlyOrders, NEW r \in Orders \cup {Other}, Produce(r)
  PROVE  Chances' /\ OnlyOrders'
<1>1. /\ log' = Append(log, r)
      /\ UNCHANGED <<committed, owner, stage, fetched, batch, scored, failed, spent>>
  BY DEF Produce
<1>2. \A o \in DOMAIN log : log'[o] = log[o]
  BY <1>1, Appended DEF IInv, TypeOK
<1>3. \A i \in DOMAIN scored : scored[i] \in DOMAIN log
  BY DEF IInv, TypeOK
<1>4. OnlyOrders'
  BY <1>1, <1>2, <1>3 DEF OnlyOrders, IsOrder
<1>5. Chances'
  BY <1>1 DEF Chances, Copies, Holders, InHandOf, ToCome
<1> QED
  BY <1>4, <1>5

LEMMA TakeOverChances ==
  ASSUME IInv, Chances, OnlyOrders, NEW m \in Members, Assign(m) \/ Rebalance(m)
  PROVE  Chances' /\ OnlyOrders'
<1>1. UNCHANGED <<log, committed, stage, batch, scored, failed>>
  BY DEF Assign, Rebalance, TakeOver
<1>2. \A p \in Members : InHandOf(p)' = InHandOf(p)
  BY <1>1, OthersInHand
<1>3. spent \in Nat /\ spent' \in Nat
  BY DEF IInv, TypeOK, Assign, Rebalance, Disturb
<1>4. OnlyOrders'
  BY <1>1 DEF OnlyOrders, IsOrder
<1>5. ASSUME NEW o \in Nat \ {0} PROVE ToCome(o)' - spent' <= ToCome(o) - spent
  <2>1. CASE Assign(m)
    BY <1>3, <2>1 DEF Assign, ToCome
  <2>2. CASE Rebalance(m)
    BY <1>3, <2>2 DEF Rebalance, Disturb, ToCome
  <2> QED
    BY <2>1, <2>2
<1>6. ASSUME NEW o \in Nat \ {0}
      PROVE  /\ Copies(o)' \in Nat
             /\ Copies(o)' + Has(o, InHandOf(m)') + ToCome(o)' - spent'
                  <= Copies(o) + Has(o, InHandOf(m)) + ToCome(o) - spent
  <2>1. Copies(o)' = Copies(o) /\ Copies(o) \in Nat
    BY <1>1, CopiesNat DEF Copies, IInv
  <2>2. Has(o, InHandOf(m)') = Has(o, InHandOf(m)) /\ Has(o, InHandOf(m)) \in Nat
    BY <1>2 DEF Has
  <2>3. ToCome(o) \in Nat /\ ToCome(o)' \in Nat
    BY DEF ToCome
  <2> QED
    BY <1>3, <1>5, <2>1, <2>2, <2>3
<1>7. Chances'
  BY <1>2, <1>3, <1>6, MemberStep
<1> QED
  BY <1>4, <1>7

LEMMA PollChances ==
  ASSUME IInv, Chances, OnlyOrders, Nobody \notin Members, NEW m \in Members, Poll(m)
  PROVE  Chances' /\ OnlyOrders'
<1>1. PICK last \in fetched[m] + 1 .. Len(log) :
        /\ batch' = [batch EXCEPT ![m] = [next |-> fetched[m] + 1, last |-> last]]
        /\ fetched' = [fetched EXCEPT ![m] = last]
  BY DEF Poll
<1>2. /\ owner = m /\ stage[m] = "polling" /\ stage' = [stage EXCEPT ![m] = "handling"]
      /\ UNCHANGED <<log, committed, owner, scored, failed, spent>>
  BY DEF Poll
<1>3. /\ fetched[m] \in Nat /\ last \in Nat /\ fetched[m] < last /\ fetched'[m] = last
      /\ spent \in Nat
  BY <1>1 DEF IInv, TypeOK
<1>4. \A p \in Members : p # m => InHandOf(p)' = InHandOf(p)
  BY <1>1, <1>2, OthersInHand DEF IInv, TypeOK
<1>5. InHandOf(m) = {} /\ InHandOf(m)' = fetched[m] + 1 .. last
  <2>1. stage'[m] = "handling" /\ batch'[m] = [next |-> fetched[m] + 1, last |-> last]
    BY <1>1, <1>2 DEF IInv, TypeOK
  <2> QED
    BY <1>2, <2>1 DEF InHandOf
<1>6. OnlyOrders'
  BY <1>2 DEF OnlyOrders, IsOrder
<1>7. ASSUME NEW o \in Nat \ {0}
      PROVE  /\ Copies(o)' \in Nat
             /\ Copies(o)' + Has(o, InHandOf(m)') + ToCome(o)' - spent'
                  <= Copies(o) + Has(o, InHandOf(m)) + ToCome(o) - spent
  <2>1. Copies(o)' = Copies(o) /\ Copies(o) \in Nat
    BY <1>2, CopiesNat DEF Copies, IInv
  <2>2. Has(o, InHandOf(m)) = 0 /\ Has(o, InHandOf(m)') = IF fetched[m] < o /\ o <= last THEN 1 ELSE 0
    BY <1>3, <1>5 DEF Has
  <2>3. /\ ToCome(o) = IF fetched[m] < o THEN 1 ELSE 0
        /\ ToCome(o)' = IF last < o THEN 1 ELSE 0
    BY <1>2, <1>3 DEF ToCome
  <2> QED
    BY <1>2, <1>3, <2>1, <2>2, <2>3
<1>8. Chances'
  BY <1>2, <1>3, <1>4, <1>7, MemberStep
<1> QED
  BY <1>6, <1>8

LEMMA HandleChances ==
  ASSUME IInv, Chances, OnlyOrders, NEW m \in Members, Handle(m)
  PROVE  Chances' /\ OnlyOrders'
<1> DEFINE n == batch[m].next
<1>1. /\ stage[m] = "handling" /\ stage' = [stage EXCEPT ![m] = "handled"]
      /\ IsOrder(n) /\ scored' = Append(scored, n)
      /\ UNCHANGED <<log, committed, owner, fetched, batch, failed, spent>>
  BY DEF Handle
<1>2. /\ n \in 1 .. Len(log) /\ batch[m].last \in Nat /\ n <= batch[m].last /\ n \in Nat
      /\ spent \in Nat
  BY <1>1, InHand DEF IInv, TypeOK
<1>3. \A p \in Members : p # m => InHandOf(p)' = InHandOf(p)
  BY <1>1, OthersInHand DEF IInv, TypeOK
<1>4. InHandOf(m) = n .. batch[m].last /\ InHandOf(m)' = n + 1 .. batch[m].last
  BY <1>1 DEF InHandOf, IInv, TypeOK
<1> HIDE DEF n
<1>5. OnlyOrders'
  BY <1>1, <1>2, StillOrders
<1>6. ASSUME NEW o \in Nat \ {0}
      PROVE  /\ Copies(o)' \in Nat
             /\ Copies(o)' + Has(o, InHandOf(m)') + ToCome(o)' - spent'
                  <= Copies(o) + Has(o, InHandOf(m)) + ToCome(o) - spent
  <2>1. Copies(o)' = Copies(o) + Has(o, {n}) /\ Copies(o) \in Nat
    BY <1>1, <1>2, CopiesAppended, CopiesNat DEF IInv
  <2>2. Has(o, InHandOf(m)') + Has(o, {n}) = Has(o, InHandOf(m))
    BY <1>2, <1>4 DEF Has
  <2>3. ToCome(o)' = ToCome(o) /\ ToCome(o) \in Nat
    BY <1>1 DEF ToCome
  <2>4. Has(o, {n}) \in Nat /\ Has(o, InHandOf(m)) \in Nat /\ Has(o, InHandOf(m)') \in Nat
    BY DEF Has
  <2> QED
    BY <1>1, <1>2, <2>1, <2>2, <2>3, <2>4
<1>7. Chances'
  BY <1>1, <1>2, <1>3, <1>6, MemberStep
<1> QED
  BY <1>5, <1>7

\* On to the next record without a risk event.
LEMMA OnwardChances ==
  ASSUME IInv, Chances, OnlyOrders, NEW m \in Members, PassOver(m) \/ Commit(m)
  PROVE  Chances' /\ OnlyOrders'
<1>1. /\ stage[m] \in {"handling", "handled"} /\ NextRecord(m)
      /\ UNCHANGED <<log, owner, fetched, scored, failed, spent>>
  BY DEF PassOver, Commit
<1>2. /\ \A p \in Members : p # m => InHandOf(p)' = InHandOf(p)
      /\ InHandOf(m)' \subseteq InHandOf(m)
  BY <1>1, OnwardInHand DEF IInv
<1>3. OnlyOrders'
  BY <1>1 DEF OnlyOrders, IsOrder
<1>4. spent \in Nat
  BY DEF IInv, TypeOK
<1>5. ASSUME NEW o \in Nat \ {0}
      PROVE  /\ Copies(o)' \in Nat
             /\ Copies(o)' + Has(o, InHandOf(m)') + ToCome(o)' - spent'
                  <= Copies(o) + Has(o, InHandOf(m)) + ToCome(o) - spent
  <2>1. Copies(o)' = Copies(o) /\ Copies(o) \in Nat
    BY <1>1, CopiesNat DEF Copies, IInv
  <2>2. Has(o, InHandOf(m)') <= Has(o, InHandOf(m))
    BY <1>2, HasLess
  <2>3. ToCome(o)' = ToCome(o) /\ ToCome(o) \in Nat
    BY <1>1 DEF ToCome
  <2>4. Has(o, InHandOf(m)) \in Nat /\ Has(o, InHandOf(m)') \in Nat
    BY DEF Has
  <2> QED
    BY <1>1, <1>4, <2>1, <2>2, <2>3, <2>4
<1>6. Chances'
  BY <1>1, <1>2, <1>4, <1>5, MemberStep
<1> QED
  BY <1>3, <1>6

LEMMA HandleFailsChances ==
  ASSUME IInv, Chances, OnlyOrders, NEW m \in Members, HandleFails(m)
  PROVE  Chances' /\ OnlyOrders'
<1> DEFINE n == batch[m].next
<1>1. /\ stage[m] = "handling" /\ NextRecord(m) /\ IsOrder(n)
      /\ scored' = scored \/ scored' = Append(scored, n)
      /\ UNCHANGED <<log, committed, owner, fetched>>
      /\ spent' = spent + 1
  BY DEF HandleFails, Disturb
<1>2. n \in 1 .. Len(log) /\ spent \in Nat
  BY <1>1, InHand DEF IInv, TypeOK
<1>3. /\ \A p \in Members : p # m => InHandOf(p)' = InHandOf(p)
      /\ InHandOf(m)' \subseteq InHandOf(m)
  BY <1>1, OnwardInHand DEF IInv
<1> HIDE DEF n
<1>4. OnlyOrders'
  BY <1>1, <1>2, StillOrders
<1>5. ASSUME NEW o \in Nat \ {0}
      PROVE  /\ Copies(o)' \in Nat
             /\ Copies(o)' + Has(o, InHandOf(m)') + ToCome(o)' - spent'
                  <= Copies(o) + Has(o, InHandOf(m)) + ToCome(o) - spent
  <2>1. Copies(o) \in Nat /\ Copies(o)' \in {Copies(o), Copies(o) + 1}
    <3>1. CASE scored' = scored
      BY <3>1, CopiesNat DEF Copies, IInv
    <3>2. CASE scored' = Append(scored, n)
      BY <1>2, <3>2, CopiesAppended, CopiesNat DEF Has, IInv
    <3> QED
      BY <1>1, <3>1, <3>2
  <2>2. Has(o, InHandOf(m)') <= Has(o, InHandOf(m))
    BY <1>3, HasLess
  <2>3. ToCome(o)' = ToCome(o) /\ ToCome(o) \in Nat
    BY <1>1 DEF ToCome
  <2>4. Has(o, InHandOf(m)) \in Nat /\ Has(o, InHandOf(m)') \in Nat
    BY DEF Has
  <2> QED
    BY <1>1, <1>2, <2>1, <2>2, <2>3, <2>4
<1>6. Chances'
  BY <1>1, <1>2, <1>3, <1>5, MemberStep
<1> QED
  BY <1>4, <1>6

\* The owner that ends may be disturbed once; an old owner ends for nothing, and
\* its records are not to come again for that.
LEMMA EndChances ==
  ASSUME IInv, Chances, OnlyOrders, NEW m \in Members, CommitFails(m) \/ Crash(m)
  PROVE  Chances' /\ OnlyOrders'
<1>1. /\ stage' = [stage EXCEPT ![m] = "down"]
      /\ batch' = [batch EXCEPT ![m] = NoBatch]
      /\ fetched' = [fetched EXCEPT ![m] = 0]
      /\ owner' = IF owner = m THEN Nobody ELSE owner
      /\ UNCHANGED <<log, scored, failed>>
  BY DEF CommitFails, Crash, Exit
<1>2. /\ spent \in Nat /\ spent' \in {spent, spent + 1}
      /\ owner = m => spent' = spent + 1
  BY DEF CommitFails, Crash, Disturb, IInv, TypeOK
<1>3. /\ \A p \in Members : p # m => InHandOf(p)' = InHandOf(p)
      /\ InHandOf(m)' = {}
  <2>1. \A p \in Members : p # m => batch'[p] = batch[p] /\ stage'[p] = stage[p]
    BY <1>1 DEF IInv, TypeOK
  <2>2. stage'[m] = "down"
    BY <1>1 DEF IInv, TypeOK
  <2> QED
    BY <2>1, <2>2, OthersInHand DEF InHandOf
<1>4. OnlyOrders'
  BY <1>1 DEF OnlyOrders, IsOrder
<1>5. ASSUME NEW o \in Nat \ {0}
      PROVE  /\ Copies(o)' \in Nat
             /\ Copies(o)' + Has(o, InHandOf(m)') + ToCome(o)' - spent'
                  <= Copies(o) + Has(o, InHandOf(m)) + ToCome(o) - spent
  <2>1. Copies(o)' = Copies(o) /\ Copies(o) \in Nat
    BY <1>1, CopiesNat DEF Copies, IInv
  <2>2. Has(o, InHandOf(m)') <= Has(o, InHandOf(m))
    BY <1>3, HasLess
  <2>3. Has(o, InHandOf(m)) \in Nat /\ Has(o, InHandOf(m)') \in Nat
    BY DEF Has
  <2>4. /\ ToCome(o) \in {0, 1} /\ ToCome(o)' \in {0, 1}
        /\ owner # m => ToCome(o)' = ToCome(o)
    <3>1. owner # m /\ owner # Nobody => fetched'[owner] = fetched[owner]
      BY <1>1 DEF IInv, TypeOK
    <3> QED
      BY <1>1, <3>1 DEF ToCome
  <2> QED
    BY <1>2, <2>1, <2>2, <2>3, <2>4
<1>6. Chances'
  BY <1>2, <1>3, <1>5, MemberStep
<1> QED
  BY <1>4, <1>6

LEMMA StartChances ==
  ASSUME IInv, Chances, OnlyOrders, NEW m \in Members, Start(m)
  PROVE  Chances' /\ OnlyOrders'
<1>1. /\ stage[m] = "down" /\ stage' = [stage EXCEPT ![m] = "polling"]
      /\ UNCHANGED <<log, committed, owner, fetched, batch, scored, failed, spent>>
  BY DEF Start
<1>2. \A p \in Members : InHandOf(p)' = InHandOf(p)
  BY <1>1 DEF InHandOf, IInv, TypeOK
<1> QED
  BY <1>1, <1>2 DEF Chances, Copies, Holders, ToCome, OnlyOrders, IsOrder

LEMMA NextChances ==
  ASSUME IInv, Chances, OnlyOrders, Nobody \notin Members, [Next]_vars
  PROVE  Chances' /\ OnlyOrders'
<1>1. CASE UNCHANGED vars
  BY <1>1 DEF vars, Chances, Copies, Holders, InHandOf, ToCome, OnlyOrders, IsOrder
<1>2. CASE Next
  BY <1>2, ProduceChances, TakeOverChances, PollChances, HandleChances, OnwardChances,
     HandleFailsChances, EndChances, StartChances DEF Next, Work
<1> QED
  BY <1>1, <1>2

LEMMA ChancesSuffice == IInv /\ Chances /\ OnlyOrders => ExtraScoresCost
<1> SUFFICES ASSUME IInv, Chances, OnlyOrders, NEW o \in 1 .. Len(log)
             PROVE  Copies(o) <= IF IsOrder(o) THEN 1 + spent ELSE 0
  BY DEF ExtraScoresCost, Copies
<1>1. CASE IsOrder(o)
  <2>1. o \in Nat \ {0} /\ spent \in Nat /\ Copies(o) \in Nat
    BY CopiesNat DEF IInv, TypeOK
  <2>2. Cardinality(Holders(o)) \in Nat /\ ToCome(o) \in Nat
    BY <2>1, FS_CardinalityType DEF Chances, ToCome
  <2> QED
    BY <1>1, <2>1, <2>2 DEF Chances
<1>2. CASE ~IsOrder(o)
  <2>1. {i \in DOMAIN scored : scored[i] = o} = {}
    BY <1>2 DEF OnlyOrders
  <2> QED
    BY <1>2, <2>1, FS_EmptySet DEF Copies
<1> QED
  BY <1>1, <1>2

\* Where disturbances of another component are counted too, they do no harm.
LEMMA OthersSpend ==
  ASSUME IInv, Chances, OnlyOrders, spent' \in Nat, spent <= spent',
         UNCHANGED <<log, committed, owner, stage, fetched, batch, scored, failed>>
  PROVE  IInv' /\ Chances' /\ OnlyOrders'
<1>1. IInv'
  BY DEF IInv, TypeOK, CommittedMeansHandled, BehindHandled, ScoredInLogOrder, Handled,
     Scored, IsOrder
<1>2. OnlyOrders'
  BY DEF OnlyOrders, IsOrder
<1>3. Chances'
  <2> SUFFICES ASSUME NEW o \in Nat \ {0}
               PROVE  /\ IsFiniteSet(Holders(o)')
                      /\ Copies(o)' + Cardinality(Holders(o)') + ToCome(o)' <= 1 + spent'
    BY DEF Chances
  <2>1. Holders(o)' = Holders(o) /\ Copies(o)' = Copies(o) /\ ToCome(o)' = ToCome(o)
    BY DEF Holders, InHandOf, Copies, ToCome
  <2>2. /\ IsFiniteSet(Holders(o)) /\ Cardinality(Holders(o)) \in Nat
        /\ Copies(o) + Cardinality(Holders(o)) + ToCome(o) <= 1 + spent
    BY FS_CardinalityType DEF Chances
  <2>3. Copies(o) \in Nat /\ ToCome(o) \in Nat /\ spent \in Nat
    BY CopiesNat DEF ToCome, IInv, TypeOK
  <2> QED
    BY <2>1, <2>2, <2>3
<1> QED
  BY <1>1, <1>2, <1>3

-----------------------------------------------------------------------------
(* The theorems                                                            *)

LEMMA NextIInv == ASSUME IInv, [Next]_vars PROVE IInv'
<1>1. CASE UNCHANGED vars
  BY <1>1 DEF vars, IInv, TypeOK, CommittedMeansHandled, BehindHandled, ScoredInLogOrder,
     Handled, Scored, IsOrder
<1>2. ASSUME NEW m \in Members, Assign(m) \/ Rebalance(m) PROVE IInv'
  <2>1. TakeOver(m)
    BY <1>2 DEF Assign, Rebalance
  <2>2. spent' \in Nat
    BY <1>2 DEF Assign, Rebalance, Disturb, IInv, TypeOK
  <2> QED
    BY <2>1, <2>2, TakeOverIInv
<1>3. CASE Next
  BY <1>2, <1>3, ProduceIInv, PollIInv, HandleIInv, PassOverIInv, CommitIInv,
     HandleFailsIInv, EndIInv, StartIInv DEF Next, Work
<1> QED
  BY <1>1, <1>3

\* The invariant of the specification, for any group and any log.
THEOREM Invariance == Spec => []IInv
<1>1. Init => IInv
  BY InitIInv
<1>2. IInv /\ [Next]_vars => IInv'
  BY NextIInv
<1> QED
  BY <1>1, <1>2, PTL DEF Spec

\* Batches lie inside the log, commits do not pass its end.
THEOREM TypeCorrect == Spec => []TypeOK
<1>1. IInv => TypeOK
  BY DEF IInv
<1> QED
  BY <1>1, Invariance, PTL

\* The group never commits past an OrderCreated that nobody handled.
THEOREM CommittedMeansHandledHolds == Spec => []CommittedMeansHandled
<1>1. IInv => CommittedMeansHandled
  BY DEF IInv
<1> QED
  BY <1>1, Invariance, PTL

\* Risk events start to appear in the order of the log.
THEOREM ScoredInLogOrderHolds == Spec => []ScoredInLogOrder
<1>1. IInv => ScoredInLogOrder
  BY DEF IInv
<1> QED
  BY <1>1, Invariance, PTL

\* Every risk event for a record but the first costs a disturbance, and only
\* OrderCreated have any; the group's null owner is none of its members.
THEOREM ExtraScoresCostHolds == ASSUME Nobody \notin Members PROVE Spec => []ExtraScoresCost
<1>1. Init => IInv /\ Chances /\ OnlyOrders
  BY InitIInv, InitChances
<1>2. IInv /\ Chances /\ OnlyOrders /\ [Next]_vars => (IInv /\ Chances /\ OnlyOrders)'
  BY NextIInv, NextChances
<1>3. IInv /\ Chances /\ OnlyOrders => ExtraScoresCost
  BY ChancesSuffice
<1> QED
  BY <1>1, <1>2, <1>3, PTL DEF Spec
================================================================================
