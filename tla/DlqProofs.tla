------------------------------- MODULE DlqProofs -------------------------------
(***************************************************************************)
(* Proofs about Dlq for any letters, operators and number of disturbances. *)
(* A command decides on what it read under its row lock, so the invariant  *)
(* is about open transactions: one per letter (Exclusive), each about the  *)
(* NEW row its operator saw (DecidedAsSeen). So Dlq implements Resolution. *)
(***************************************************************************)
EXTENDS Dlq, TLAPS

Exclusive ==
  \A p, q \in Operators :
    tx[p] # Idle /\ tx[q] # Idle /\ tx[p].letter = tx[q].letter => p = q

Fit == \A op \in Operators : tx[op].action = "REPROCESS" => Reprocessable(tx[op].letter)

\* A row that is there has a life, and so has one that was inserted.
Alive ==
  \A l \in Letters :
    rows[l].status # "ABSENT" \/ consumer[l] # "queued" => rows[l].life > 0

\* What is known of the rows, and what of the open transactions.
Records == DecidedOnce /\ Alive
Transactions == DecidedAsSeen /\ Exclusive /\ Fit

IInv == TypeOK /\ Records /\ Transactions

-----------------------------------------------------------------------------
(* The operators that edit a row                                           *)

LEMMA Edits ==
  ASSUME NEW r \in Row, r.status = "NEW" <=> r.version = 1
  PROVE  /\ Stored(r) \in Row
         /\ Stored(r).status = "NEW" <=> Stored(r).version = 1
         /\ r.status # "ABSENT" => Stored(r) = r
         /\ r.status = "ABSENT" => Stored(r).status = "NEW" /\ Stored(r).life = r.life + 1
  BY DEF Row, Stored

LEMMA Decision ==
  ASSUME NEW r \in Row, r.version = 1,
         NEW status \in {"REPROCESSED", "IGNORED"}
  PROVE  /\ Decided(r, status) \in Row
         /\ Decided(r, status).status = status
         /\ Decided(r, status).version = 2
         /\ Decided(r, status).life = r.life
<1>1. Decided(r, status).version = 2 /\ 2 \in 0..2
  BY DEF Row, Decided
<1>2. Decided(r, status).status = status /\ Decided(r, status).life = r.life
  BY DEF Row, Decided
<1>3. r.version + 1 \in 0..2
  OBVIOUS
<1>4. Decided(r, status) \in Row
  BY <1>3 DEF Row, Decided
<1> QED
  BY <1>1, <1>2, <1>4

LEMMA Deletion ==
  ASSUME NEW r \in Row
  PROVE  /\ [r EXCEPT !.status = "ABSENT", !.version = 0] \in Row
         /\ [r EXCEPT !.status = "ABSENT", !.version = 0].status = "ABSENT"
         /\ [r EXCEPT !.status = "ABSENT", !.version = 0].version = 0
         /\ [r EXCEPT !.status = "ABSENT", !.version = 0].life = r.life
<1> DEFINE d == [r EXCEPT !.status = "ABSENT", !.version = 0]
<1>1. d.status = "ABSENT" /\ d.version = 0 /\ d.life = r.life
  BY DEF Row
<1>2. 0 \in 0..2
  OBVIOUS
<1>3. d \in Row
  BY <1>2 DEF Row
<1> QED
  BY <1>1, <1>3

\* An operator's transaction is idle or about a letter, never both.
LEMMA TxShapes ==
  /\ Idle.action = "NONE"
  /\ \A t \in Tx \cup {Idle} :
       /\ t # Idle <=> t.action \in Action
       /\ t # Idle => t.letter \in Letters
  /\ \A l \in Letters, a \in Action :
       /\ [letter |-> l, action |-> a] \in Tx
       /\ [letter |-> l, action |-> a] # Idle
  BY DEF Tx, Idle, Action

LEMMA DisturbNat == ASSUME TypeOK, NEW d, Disturb(d) PROVE spent' \in Nat
  BY DEF TypeOK, Disturb

-----------------------------------------------------------------------------
(* Type correctness                                                        *)

LEMMA InitIInv == Init => IInv
<1> SUFFICES ASSUME Init PROVE IInv
  OBVIOUS
<1>1. TypeOK
  BY DEF Init, TypeOK, Row, Tx, Idle, View, Unseen
<1>2. Records
  BY DEF Init, Records, DecidedOnce, Alive
<1>3. Transactions
  BY TxShapes DEF Init, Transactions, DecidedAsSeen, Exclusive, Fit
<1> QED
  BY <1>1, <1>2, <1>3 DEF IInv

\* The rows of the letters' table keep their shape.
RowsOK ==
  /\ rows \in [Letters -> Row]
  /\ \A l \in Letters : rows[l].status = "NEW" <=> rows[l].version = 1

LEMMA CaptureTypeOK ==
  ASSUME TypeOK, NEW l \in Letters,
         Insert(l) \/ InsertFails(l) \/ Find(l) \/ Redeliver(l) \/ DeleteResolved(l)
  PROVE  TypeOK'
<1>1. rows[l] \in Row /\ (rows[l].status = "NEW" <=> rows[l].version = 1)
  BY DEF TypeOK
<1>2. /\ Stored(rows[l]) \in Row
      /\ Stored(rows[l]).status = "NEW" <=> Stored(rows[l]).version = 1
  BY <1>1, Edits
<1>3. RowsOK'
  <2>1. CASE rows' = rows
    BY <2>1 DEF TypeOK, RowsOK
  <2>2. CASE rows' = [rows EXCEPT ![l] = Stored(rows[l])]
    BY <1>2, <2>2 DEF TypeOK, RowsOK
  <2>3. CASE rows' = [rows EXCEPT ![l] = [rows[l] EXCEPT !.status = "ABSENT", !.version = 0]]
    <3> DEFINE d == [rows[l] EXCEPT !.status = "ABSENT", !.version = 0]
    <3>1. d \in Row /\ d.status = "ABSENT" /\ d.version = 0
      BY <1>1, Deletion
    <3> HIDE DEF d
    <3>2. rows' = [rows EXCEPT ![l] = d]
      BY <2>3 DEF d
    <3> QED
      BY <3>1, <3>2 DEF TypeOK, RowsOK
  <2> QED
    BY <2>1, <2>2, <2>3 DEF Insert, InsertFails, Find, Redeliver, DeleteResolved
<1>4. consumer' \in [Letters -> {"queued", "inserted", "committed"}]
  BY DEF TypeOK, Insert, InsertFails, Find, Redeliver, DeleteResolved
<1>5. spent' \in Nat
  BY DisturbNat DEF TypeOK, Insert, InsertFails, Find, Redeliver, DeleteResolved
<1>6. UNCHANGED <<view, tx, reprocessed, ignored, copies>>
  BY DEF Insert, InsertFails, Find, Redeliver, DeleteResolved, logs
<1> QED
  BY <1>3, <1>4, <1>5, <1>6 DEF TypeOK, RowsOK, Reprocessable, Parsed

LEMMA RequestTypeOK ==
  ASSUME TypeOK, NEW op \in Operators,
         \/ \E l \in Letters : Look(op, l)
         \/ \E action \in Action : Acquire(op, action)
         \/ Rollback(op)
  PROVE  TypeOK'
<1>1. CASE \E l \in Letters : Look(op, l)
  <2> PICK l \in Letters : Look(op, l)
    BY <1>1
  <2>1. rows[l].life \in Nat /\ rows[l].version \in Nat
    BY DEF TypeOK, Row
  <2>2. [letter |-> l, life |-> rows[l].life, version |-> rows[l].version] \in View
    BY <2>1 DEF View
  <2>3. view' \in [Operators -> View \cup {Unseen}]
    BY <2>2 DEF Look, TypeOK
  <2> QED
    BY <2>3 DEF Look, TypeOK, logs, Reprocessable, Parsed
<1>2. CASE \E action \in Action : Acquire(op, action)
  <2> PICK action \in Action : Acquire(op, action)
    BY <1>2
  <2>1. view[op].letter \in Letters
    BY DEF Acquire, TypeOK, View
  <2>2. tx' \in [Operators -> Tx \cup {Idle}]
    BY <2>1, TxShapes DEF Acquire, TypeOK
  <2> QED
    BY <2>2 DEF Acquire, TypeOK, logs, Reprocessable, Parsed
<1>3. CASE Rollback(op)
  <2>1. spent' \in Nat
    BY <1>3, DisturbNat DEF Rollback
  <2> QED
    BY <1>3, <2>1 DEF Rollback, TypeOK, logs, Reprocessable, Parsed
<1> QED
  BY <1>1, <1>2, <1>3

\* An open transaction is about the row as its operator saw it.
LEMMA OpenTransaction ==
  ASSUME IInv, NEW op \in Operators, tx[op] # Idle
  PROVE  /\ tx[op].letter \in Letters
         /\ rows[tx[op].letter] \in Row
         /\ rows[tx[op].letter].status = "NEW"
         /\ rows[tx[op].letter].version = 1
<1>1. TypeOK /\ DecidedAsSeen
  BY DEF IInv, Transactions
<1>2. tx[op] \in Tx \cup {Idle} /\ tx[op].letter \in Letters
  BY <1>1, TxShapes DEF TypeOK
<1>3. rows[tx[op].letter].status = "NEW"
  BY <1>1 DEF DecidedAsSeen
<1> QED
  BY <1>1, <1>2, <1>3 DEF TypeOK

\* What a decision does to its row, and to no other.
LEMMA DecidedRow ==
  ASSUME IInv, NEW op \in Operators, Reprocess(op) \/ Ignore(op)
  PROVE  /\ tx[op] # Idle
         /\ rows' \in [Letters -> Row]
         /\ rows'[tx[op].letter].status \in {"REPROCESSED", "IGNORED"}
         /\ rows'[tx[op].letter].version = 2
         /\ rows'[tx[op].letter].life = rows[tx[op].letter].life
         /\ \A k \in Letters \ {tx[op].letter} : rows'[k] = rows[k]
<1> DEFINE l == tx[op].letter
<1>1. tx[op] # Idle
  BY TxShapes DEF Reprocess, Ignore
<1>2. rows \in [Letters -> Row]
  BY DEF IInv, TypeOK
<1>3. l \in Letters /\ rows[l] \in Row /\ rows[l].version = 1
  BY <1>1, OpenTransaction
<1>4. PICK status \in {"REPROCESSED", "IGNORED"} :
        rows' = [rows EXCEPT ![l] = Decided(rows[l], status)]
  BY DEF Reprocess, Ignore
<1> DEFINE d == Decided(rows[l], status)
<1>5. d \in Row /\ d.status = status /\ d.version = 2 /\ d.life = rows[l].life
  BY <1>3, Decision
<1>6. rows' = [rows EXCEPT ![l] = d]
  BY <1>4
<1> HIDE DEF d
<1> QED
  BY <1>1, <1>2, <1>3, <1>5, <1>6

LEMMA DecisionTypeOK ==
  ASSUME IInv, NEW op \in Operators, Reprocess(op) \/ Ignore(op)
  PROVE  TypeOK'
<1>1. TypeOK /\ Fit /\ tx[op] # Idle /\ tx[op].letter \in Letters
  BY DecidedRow, OpenTransaction DEF IInv, Transactions
<1>2. RowsOK'
  BY <1>1, DecidedRow DEF RowsOK, TypeOK
<1>3. tx' \in [Operators -> Tx \cup {Idle}]
  BY <1>1 DEF Reprocess, Ignore, TypeOK
<1>4. UNCHANGED <<consumer, view, spent>>
  BY DEF Reprocess, Ignore
<1>5. /\ reprocessed' \in [Letters -> Nat]
      /\ ignored' \in [Letters -> Nat]
      /\ copies' \in [Letters -> Nat]
  BY <1>1 DEF Reprocess, Ignore, TypeOK
<1>6. ASSUME NEW k \in Letters, copies'[k] > 0 PROVE Reprocessable(k)
  <2>1. CASE copies'[k] = copies[k]
    BY <1>1, <1>6, <2>1 DEF TypeOK
  <2>2. CASE copies'[k] # copies[k]
    BY <1>1, <2>2 DEF Reprocess, Ignore, Fit, TypeOK
  <2> QED
    BY <2>1, <2>2
<1> QED
  BY <1>1, <1>2, <1>3, <1>4, <1>5, <1>6 DEF TypeOK, RowsOK, Reprocessable, Parsed

-----------------------------------------------------------------------------
(* The records                                                             *)

LEMMA CaptureRecords ==
  ASSUME IInv, NEW l \in Letters,
         Insert(l) \/ InsertFails(l) \/ Find(l) \/ Redeliver(l) \/ DeleteResolved(l)
  PROVE  Records'
<1>1. TypeOK /\ DecidedOnce /\ Alive
  BY DEF IInv, Records
<1>2. rows[l] \in Row /\ rows[l].life \in Nat /\ (rows[l].status = "NEW" <=> rows[l].version = 1)
  BY <1>1 DEF TypeOK, Row
<1>3. UNCHANGED logs
  BY DEF Insert, InsertFails, Find, Redeliver, DeleteResolved
<1>4. CASE rows' = rows /\ ~Insert(l)
  <2>1. \A k \in Letters : consumer'[k] # "queued" => consumer[k] # "queued"
    BY <1>1, <1>4 DEF TypeOK, InsertFails, Find, Redeliver, DeleteResolved
  <2> QED
    BY <1>1, <1>3, <1>4, <2>1 DEF Records, DecidedOnce, Alive, logs
<1>5. CASE rows' = [rows EXCEPT ![l] = Stored(rows[l])] /\ (Insert(l) \/ InsertFails(l))
  <2> DEFINE s == Stored(rows[l])
  <2>1. /\ rows[l].status # "ABSENT" => s = rows[l]
        /\ rows[l].status = "ABSENT" => s.status = "NEW" /\ s.life = rows[l].life + 1
    BY <1>2, Edits
  <2>2. rows' = [rows EXCEPT ![l] = s]
    BY <1>5
  <2> HIDE DEF s
  <2>3. \A k \in Letters \ {l} : rows'[k] = rows[k] /\ consumer'[k] = consumer[k]
    BY <1>1, <1>5, <2>2 DEF TypeOK, Insert, InsertFails
  <2>4. rows'[l] = s
    BY <1>1, <2>2 DEF TypeOK
  <2>5. rows'[l].life > 0
    BY <1>1, <1>2, <2>1, <2>4 DEF Alive
  <2>6. rows'[l].life - (IF rows'[l].status = "NEW" THEN 1 ELSE 0)
          = rows[l].life - (IF rows[l].status = "NEW" THEN 1 ELSE 0)
    BY <1>2, <2>1, <2>4
  <2>7. DecidedOnce'
    BY <1>1, <1>3, <2>3, <2>6 DEF DecidedOnce, logs
  <2>8. Alive'
    BY <1>1, <2>3, <2>5 DEF Alive
  <2> QED
    BY <2>7, <2>8 DEF Records
<1>6. CASE DeleteResolved(l)
  <2> DEFINE d == [rows[l] EXCEPT !.status = "ABSENT", !.version = 0]
  <2>1. d.status = "ABSENT" /\ d.life = rows[l].life
    BY <1>2, Deletion
  <2>2. rows' = [rows EXCEPT ![l] = d]
    BY <1>6 DEF DeleteResolved
  <2> HIDE DEF d
  <2>3. \A k \in Letters \ {l} : rows'[k] = rows[k]
    BY <1>1, <2>2 DEF TypeOK
  <2>4. rows'[l].status = "ABSENT" /\ rows'[l].life = rows[l].life
    BY <1>1, <2>1, <2>2 DEF TypeOK
  <2>5. rows[l].status \in {"REPROCESSED", "IGNORED"} /\ consumer' = consumer
    BY <1>6 DEF DeleteResolved, Deletable
  <2> QED
    BY <1>1, <1>3, <2>3, <2>4, <2>5 DEF Records, DecidedOnce, Alive, logs
<1> QED
  BY <1>4, <1>5, <1>6 DEF Insert, InsertFails, Find, Redeliver

LEMMA DecisionRecords ==
  ASSUME IInv, NEW op \in Operators, Reprocess(op) \/ Ignore(op)
  PROVE  Records'
<1> DEFINE l == tx[op].letter
<1>1. TypeOK /\ DecidedOnce /\ Alive /\ tx[op] # Idle
  BY DecidedRow DEF IInv, Records
<1>2. l \in Letters /\ rows[l] \in Row /\ rows[l].life \in Nat /\ rows[l].status = "NEW"
  BY <1>1, OpenTransaction DEF Row
<1>3. /\ rows'[l].status \in {"REPROCESSED", "IGNORED"} /\ rows'[l].life = rows[l].life
      /\ \A k \in Letters \ {l} : rows'[k] = rows[k]
      /\ consumer' = consumer
  BY DecidedRow DEF Reprocess, Ignore
<1>4. /\ reprocessed'[l] + ignored'[l] = reprocessed[l] + ignored[l] + 1
      /\ copies[l] = reprocessed[l] => copies'[l] = reprocessed'[l]
      /\ \A k \in Letters \ {l} : /\ reprocessed'[k] = reprocessed[k]
                                  /\ ignored'[k] = ignored[k]
                                  /\ copies'[k] = copies[k]
  <2>1. reprocessed[l] \in Nat /\ ignored[l] \in Nat /\ copies[l] \in Nat
    BY <1>1, <1>2 DEF TypeOK
  <2>2. CASE Reprocess(op)
    BY <1>1, <1>2, <2>1, <2>2 DEF Reprocess, TypeOK
  <2>3. CASE Ignore(op)
    BY <1>1, <1>2, <2>1, <2>3 DEF Ignore, TypeOK
  <2> QED
    BY <2>2, <2>3
<1>5. DecidedOnce'
  <2>1. ASSUME NEW k \in Letters
        PROVE  /\ reprocessed'[k] + ignored'[k]
                    = rows'[k].life - (IF rows'[k].status = "NEW" THEN 1 ELSE 0)
               /\ copies'[k] = reprocessed'[k]
    <3>1. CASE k = l
      <4>1. reprocessed[l] + ignored[l] = rows[l].life - 1 /\ copies[l] = reprocessed[l]
        BY <1>1, <1>2 DEF DecidedOnce
      <4> QED
        BY <1>2, <1>3, <1>4, <3>1, <4>1
    <3>2. CASE k # l
      BY <1>1, <1>3, <1>4, <3>2 DEF DecidedOnce
    <3> QED
      BY <3>1, <3>2
  <2> QED
    BY <2>1 DEF DecidedOnce
<1>6. Alive'
  BY <1>1, <1>2, <1>3 DEF Alive
<1> QED
  BY <1>5, <1>6 DEF Records

-----------------------------------------------------------------------------
(* The transactions                                                        *)

\* Whatever leaves NEW rows, requests and screens alone.
LEMMA SameTransactions ==
  ASSUME IInv, UNCHANGED <<view, tx>>,
         \A k \in Letters : rows[k].status = "NEW" => rows'[k] = rows[k]
  PROVE  Transactions'
<1>1. Transactions /\ \A op \in Operators :
        tx[op] # Idle => tx[op].letter \in Letters /\ rows[tx[op].letter].status = "NEW"
  BY OpenTransaction DEF IInv
<1>2. DecidedAsSeen'
  BY <1>1 DEF Transactions, DecidedAsSeen
<1>3. (Exclusive /\ Fit)'
  BY <1>1 DEF Transactions, Exclusive, Fit, Reprocessable, Parsed
<1> QED
  BY <1>2, <1>3 DEF Transactions

LEMMA CaptureTransactions ==
  ASSUME IInv, NEW l \in Letters,
         Insert(l) \/ InsertFails(l) \/ Find(l) \/ Redeliver(l) \/ DeleteResolved(l)
  PROVE  Transactions'
<1>1. TypeOK
  BY DEF IInv
<1>2. rows[l] \in Row /\ (rows[l].status = "NEW" <=> rows[l].version = 1)
  BY <1>1 DEF TypeOK
<1>3. rows[l].status # "ABSENT" => Stored(rows[l]) = rows[l]
  BY <1>2, Edits
<1>4. \A k \in Letters : rows[k].status = "NEW" => rows'[k] = rows[k]
  BY <1>1, <1>3 DEF TypeOK, Insert, InsertFails, Find, Redeliver, DeleteResolved, Deletable
<1>5. UNCHANGED <<view, tx>>
  BY DEF Insert, InsertFails, Find, Redeliver, DeleteResolved
<1> QED
  BY <1>4, <1>5, SameTransactions

LEMMA LookTransactions ==
  ASSUME IInv, NEW op \in Operators, NEW l \in Letters, Look(op, l)
  PROVE  Transactions'
<1>1. TypeOK /\ Transactions
  BY DEF IInv
<1>2. \A p \in Operators : tx[p] # Idle => view'[p] = view[p]
  BY <1>1 DEF Look, TypeOK
<1>3. rows' = rows /\ tx' = tx
  BY DEF Look
<1>4. DecidedAsSeen'
  BY <1>1, <1>2, <1>3 DEF Transactions, DecidedAsSeen
<1> QED
  BY <1>1, <1>3, <1>4 DEF Transactions, Exclusive, Fit, Reprocessable, Parsed

LEMMA AcquireTransactions ==
  ASSUME IInv, NEW op \in Operators, NEW action \in Action, Acquire(op, action),
         action = "REPROCESS" => Reprocessable(view[op].letter)
  PROVE  Transactions'
<1> DEFINE l == view[op].letter
           t == [letter |-> l, action |-> action]
<1>1. TypeOK /\ Transactions
  BY DEF IInv
<1>2. t.letter = l /\ t.action = action
  OBVIOUS
<1>3. tx' = [tx EXCEPT ![op] = t]
  BY DEF Acquire
<1> HIDE DEF t
<1>4. tx'[op] = t /\ \A p \in Operators \ {op} : tx'[p] = tx[p]
  BY <1>1, <1>3 DEF TypeOK
<1>5. rows' = rows /\ view' = view
  BY DEF Acquire
<1>6. \A p \in Operators : tx[p] # Idle => tx[p].letter # l
  BY DEF Acquire, Locked
<1>7. DecidedAsSeen'
  <2>1. /\ view[op] # Unseen
        /\ rows[l].status = "NEW"
        /\ rows[l].life = view[op].life
        /\ rows[l].version = view[op].version
    BY DEF Acquire
  <2> QED
    BY <1>1, <1>2, <1>4, <1>5, <2>1 DEF Transactions, DecidedAsSeen
<1>8. Exclusive'
  BY <1>1, <1>2, <1>4, <1>6 DEF Transactions, Exclusive
<1>9. Fit'
  BY <1>1, <1>2, <1>4 DEF Transactions, Fit, Reprocessable, Parsed
<1> QED
  BY <1>7, <1>8, <1>9 DEF Transactions

\* The end of a transaction concerns no other: they are about other letters.
LEMMA EndTransactions ==
  ASSUME IInv, NEW op \in Operators, Reprocess(op) \/ Ignore(op) \/ Rollback(op)
  PROVE  Transactions'
<1>1. TypeOK /\ Transactions
  BY DEF IInv
<1>2. tx' = [tx EXCEPT ![op] = Idle] /\ view' = view
  BY DEF Reprocess, Ignore, Rollback
<1>3. tx'[op] = Idle /\ \A p \in Operators \ {op} : tx'[p] = tx[p]
  BY <1>1, <1>2 DEF TypeOK
<1>4. \A p \in Operators \ {op} : tx[p] # Idle => rows'[tx[p].letter] = rows[tx[p].letter]
  <2>1. CASE Rollback(op)
    BY <2>1 DEF Rollback
  <2>2. CASE Reprocess(op) \/ Ignore(op)
    <3> SUFFICES ASSUME NEW p \in Operators \ {op}, tx[p] # Idle
                 PROVE  rows'[tx[p].letter] = rows[tx[p].letter]
      OBVIOUS
    <3>1. tx[op] # Idle /\ \A k \in Letters \ {tx[op].letter} : rows'[k] = rows[k]
      BY <2>2, DecidedRow
    <3>2. tx[p].letter # tx[op].letter
      BY <1>1, <3>1 DEF Transactions, Exclusive
    <3> QED
      BY <3>1, <3>2, OpenTransaction
  <2> QED
    BY <2>1, <2>2
<1>5. DecidedAsSeen'
  <2> SUFFICES ASSUME NEW p \in Operators, tx'[p] # Idle
               PROVE  LET v == view[p]
                      IN  /\ v # Unseen /\ v.letter = tx[p].letter
                          /\ rows'[v.letter].status = "NEW"
                          /\ rows'[v.letter].life = v.life
                          /\ rows'[v.letter].version = v.version
    BY <1>2, <1>3 DEF DecidedAsSeen
  <2>1. p # op /\ tx[p] # Idle /\ rows'[tx[p].letter] = rows[tx[p].letter]
    BY <1>3, <1>4
  <2> QED
    BY <1>1, <2>1 DEF Transactions, DecidedAsSeen
<1>6. Exclusive'
  BY <1>1, <1>3 DEF Transactions, Exclusive
<1>7. Fit'
  BY <1>1, <1>3, TxShapes DEF Transactions, Fit, Reprocessable, Parsed
<1> QED
  BY <1>5, <1>6, <1>7 DEF Transactions

-----------------------------------------------------------------------------
(* The invariant                                                           *)

LEMMA NextIInv == IInv /\ [Next]_vars => IInv'
<1> SUFFICES ASSUME IInv, [Next]_vars PROVE IInv'
  OBVIOUS
<1>1. ASSUME NEW l \in Letters,
             Insert(l) \/ InsertFails(l) \/ Find(l) \/ Redeliver(l) \/ DeleteResolved(l)
      PROVE  IInv'
  BY <1>1, CaptureTypeOK, CaptureRecords, CaptureTransactions DEF IInv
<1>2. ASSUME UNCHANGED <<rows, consumer, logs>> PROVE Records'
  BY <1>2 DEF IInv, Records, DecidedOnce, Alive, logs
<1>3. ASSUME NEW op \in Operators, NEW l \in Letters, Look(op, l) PROVE IInv'
  BY <1>2, <1>3, RequestTypeOK, LookTransactions DEF IInv, Look
<1>4. ASSUME NEW op \in Operators, BeginReprocess(op) \/ BeginIgnore(op) PROVE IInv'
  <2>1. PICK action \in Action :
          /\ Acquire(op, action)
          /\ action = "REPROCESS" => Reprocessable(view[op].letter)
    BY <1>4 DEF BeginReprocess, BeginIgnore, Action
  <2> QED
    BY <1>2, <2>1, RequestTypeOK, AcquireTransactions DEF IInv, Acquire
<1>5. ASSUME NEW op \in Operators, Reprocess(op) \/ Ignore(op) PROVE IInv'
  BY <1>5, DecisionTypeOK, DecisionRecords, EndTransactions DEF IInv
<1>6. ASSUME NEW op \in Operators, Rollback(op) PROVE IInv'
  BY <1>2, <1>6, RequestTypeOK, EndTransactions DEF IInv, Rollback
<1>7. CASE UNCHANGED vars
  <2>1. TypeOK'
    BY <1>7 DEF vars, logs, IInv, TypeOK, Reprocessable, Parsed
  <2>2. Records'
    BY <1>2, <1>7 DEF vars, logs
  <2>3. Transactions'
    <3>1. UNCHANGED <<view, tx>> /\ rows' = rows
      BY <1>7 DEF vars
    <3> QED
      BY <3>1, SameTransactions
  <2> QED
    BY <2>1, <2>2, <2>3 DEF IInv
<1> QED
  BY <1>1, <1>3, <1>4, <1>5, <1>6, <1>7 DEF Next

LEMMA Invariance == Spec => []IInv
  BY InitIInv, NextIInv, PTL DEF Spec

\* The table, the requests and the audit logs keep their shape, whatever the
\* consumer, the operators and retention do.
THEOREM TypeCorrect == Spec => []TypeOK
<1>1. IInv => TypeOK
  BY DEF IInv
<1> QED
  BY <1>1, Invariance, PTL

\* Of any number of operators at most one decides a stored record, and its
\* decision, its outbox row and its audit row are there together.
THEOREM OneDecision == Spec => []DecidedOnce
<1>1. IInv => DecidedOnce
  BY DEF IInv, Records
<1> QED
  BY <1>1, Invariance, PTL

\* The row lock and the version check: a decision commits on the very row and
\* version its operator saw.
THEOREM LockedDecision == Spec => []DecidedAsSeen
<1>1. IInv => DecidedAsSeen
  BY DEF IInv, Transactions
<1> QED
  BY <1>1, Invariance, PTL

\* No dead letter's offset is committed before its record was stored.
THEOREM NothingSkipped == Spec => []CommittedMeansStored
<1>1. IInv => CommittedMeansStored
  BY DEF IInv, Records, Alive, CommittedMeansStored
<1> QED
  BY <1>1, Invariance, PTL

\* Redelivery neither reopens nor duplicates a decided record, and retention
\* removes no record that is still NEW.
THEOREM DecisionIsFinal == Spec => DecisionStands
<1>1. IInv /\ [Next]_vars =>
        [\A l \in Letters :
           /\ rows[l].status \in {"REPROCESSED", "IGNORED"}
                => rows'[l].status \in {rows[l].status, "ABSENT"}
           /\ rows[l].status = "NEW" => rows'[l].status # "ABSENT"
           /\ rows[l].status # "ABSENT" => rows'[l].life = rows[l].life]_vars
  <2> SUFFICES ASSUME IInv, Next, NEW l \in Letters
               PROVE  /\ rows[l].status \in {"REPROCESSED", "IGNORED"}
                           => rows'[l].status \in {rows[l].status, "ABSENT"}
                      /\ rows[l].status = "NEW" => rows'[l].status # "ABSENT"
                      /\ rows[l].status # "ABSENT" => rows'[l].life = rows[l].life
    OBVIOUS
  <2>1. TypeOK /\ rows[l] \in Row /\ (rows[l].status = "NEW" <=> rows[l].version = 1)
    BY DEF IInv, TypeOK
  <2>2. CASE rows' = rows
    BY <2>2
  <2>3. ASSUME NEW k \in Letters, Insert(k) \/ InsertFails(k)
        PROVE  rows[l].status # "ABSENT" => rows'[l] = rows[l]
    BY <2>1, <2>3, Edits DEF TypeOK, Insert, InsertFails
  <2>4. ASSUME NEW k \in Letters, DeleteResolved(k)
        PROVE  \/ rows'[l] = rows[l]
               \/ /\ rows[l].status # "NEW"
                  /\ rows'[l].status = "ABSENT" /\ rows'[l].life = rows[l].life
    <3> DEFINE d == [rows[k] EXCEPT !.status = "ABSENT", !.version = 0]
    <3>1. rows[k] \in Row
      BY <2>1 DEF TypeOK
    <3>2. d.status = "ABSENT" /\ d.life = rows[k].life
      BY <3>1, Deletion
    <3>3. rows' = [rows EXCEPT ![k] = d] /\ rows[k].status # "NEW"
      BY <2>4 DEF DeleteResolved, Deletable
    <3> HIDE DEF d
    <3> QED
      BY <2>1, <3>2, <3>3 DEF TypeOK
  <2>5. ASSUME NEW op \in Operators, Reprocess(op) \/ Ignore(op)
        PROVE  \/ rows'[l] = rows[l]
               \/ /\ rows[l].status = "NEW"
                  /\ rows'[l].status # "ABSENT" /\ rows'[l].life = rows[l].life
    <3>1. tx[op] # Idle
      BY <2>5, DecidedRow
    <3>2. rows[tx[op].letter].status = "NEW"
      BY <3>1, OpenTransaction
    <3> QED
      BY <2>5, <3>2, DecidedRow
  <2>6. CASE \E k \in Letters : Find(k) \/ Redeliver(k)
    BY <2>2, <2>6 DEF Find, Redeliver
  <2>7. CASE \E op \in Operators :
               \/ \E k \in Letters : Look(op, k)
               \/ BeginReprocess(op) \/ BeginIgnore(op) \/ Rollback(op)
    BY <2>2, <2>7 DEF Look, BeginReprocess, BeginIgnore, Acquire, Rollback
  <2> QED
    BY <2>1, <2>3, <2>4, <2>5, <2>6, <2>7 DEF Next
<1> QED
  BY <1>1, Invariance, PTL DEF Spec, DecisionStands

-----------------------------------------------------------------------------
(* Dlq implements Resolution                                               *)

LEMMA Shown ==
  /\ \A l \in Letters :
       /\ Record[l] = [status |-> rows[l].status, life |-> rows[l].life]
       /\ Record[l].status = rows[l].status /\ Record[l].life = rows[l].life
       /\ Audit[l] = [a \in Action |-> IF a = "REPROCESS" THEN reprocessed[l] ELSE ignored[l]]
  /\ \A op \in Operators :
       view[op] # Unseen => SeenBy[op] = [letter |-> view[op].letter, life |-> view[op].life]
  BY DEF Record, Audit, SeenBy

LEMMA RecordStep ==
  ASSUME NEW l \in Letters, \A k \in Letters \ {l} : rows'[k] = rows[k]
  PROVE  Record' = [Record EXCEPT ![l] =
                      [status |-> rows'[l].status, life |-> rows'[l].life]]
  BY DEF Record

LEMMA LogsShown ==
  ASSUME UNCHANGED logs
  PROVE  UNCHANGED <<Audit, copies>>
  BY DEF logs, Audit

\* An insert makes a record or leaves the one that is there.
LEMMA InsertStores ==
  ASSUME TypeOK, NEW l \in Letters, UNCHANGED <<view, logs>>,
         rows' = rows \/ rows' = [rows EXCEPT ![l] = Stored(@)]
  PROVE  Promise!Store(l) \/ UNCHANGED Promise!vars
<1>1. UNCHANGED <<SeenBy, Audit, copies>>
  BY LogsShown DEF SeenBy
<1>2. rows \in [Letters -> Row]
  BY DEF TypeOK
<1>3. CASE rows' = rows
  BY <1>1, <1>3 DEF Record, Promise!vars
<1>4. CASE rows' = [rows EXCEPT ![l] = Stored(@)] /\ rows[l].status # "ABSENT"
  <2>1. rows' = rows
    BY <1>2, <1>4, Edits DEF TypeOK
  <2> QED
    BY <1>3, <2>1
<1>5. CASE rows' = [rows EXCEPT ![l] = Stored(@)] /\ rows[l].status = "ABSENT"
  <2>1. rows'[l] = Stored(rows[l]) /\ \A k \in Letters \ {l} : rows'[k] = rows[k]
    BY <1>2, <1>5
  <2>2. rows'[l].status = "NEW" /\ rows'[l].life = rows[l].life + 1
    BY <1>2, <1>5, <2>1, Edits DEF TypeOK
  <2>3. Record' = [Record EXCEPT ![l] = [status |-> "NEW", life |-> rows[l].life + 1]]
    BY <2>1, <2>2, RecordStep
  <2>4. Record[l].status = "ABSENT" /\ Record[l].life = rows[l].life
    BY <1>5, Shown
  <2> QED
    BY <1>1, <2>3, <2>4 DEF Promise!Store
<1> QED
  BY <1>3, <1>4, <1>5

LEMMA DeletesDecided ==
  ASSUME TypeOK, NEW l \in Letters, DeleteResolved(l)
  PROVE  Promise!Delete(l)
<1> DEFINE d == [rows[l] EXCEPT !.status = "ABSENT", !.version = 0]
<1>1. rows \in [Letters -> Row] /\ UNCHANGED <<view, logs>>
  BY DEF TypeOK, DeleteResolved
<1>2. d.status = "ABSENT" /\ d.life = rows[l].life
  BY <1>1, Deletion
<1>3. rows' = [rows EXCEPT ![l] = d] /\ rows[l].status \in {"REPROCESSED", "IGNORED"}
  BY DEF DeleteResolved, Deletable
<1> HIDE DEF d
<1>4. Record' = [Record EXCEPT ![l] = [status |-> "ABSENT", life |-> rows[l].life]]
  BY <1>1, <1>2, <1>3, RecordStep
<1>5. UNCHANGED <<SeenBy, Audit, copies>>
  BY <1>1, LogsShown DEF SeenBy
<1>6. Record[l].status = rows[l].status /\ Record[l].life = rows[l].life
  BY Shown
<1> QED
  BY <1>3, <1>4, <1>5, <1>6 DEF Promise!Delete

LEMMA LooksSee ==
  ASSUME TypeOK, NEW op \in Operators, NEW l \in Letters, Look(op, l)
  PROVE  Promise!Look(op, l)
<1> DEFINE v == [letter |-> l, life |-> rows[l].life, version |-> rows[l].version]
<1>1. UNCHANGED <<rows, logs>> /\ rows[l].status # "ABSENT"
  BY DEF Look
<1>2. view' = [view EXCEPT ![op] = v] /\ view \in [Operators -> View \cup {Unseen}]
  BY DEF Look, TypeOK
<1>3. rows[l] \in Row
  BY DEF TypeOK
<1>4. v \in View
  BY <1>3 DEF View, Row
<1>5. v # Unseen /\ v.letter = l /\ v.life = rows[l].life
  BY <1>4 DEF View, Unseen
<1> HIDE DEF v
<1>6. SeenBy' = [SeenBy EXCEPT ![op] = [letter |-> l, life |-> rows[l].life]]
  BY <1>2, <1>5 DEF SeenBy
<1>7. UNCHANGED <<Record, Audit, copies>>
  BY <1>1, LogsShown DEF Record
<1> QED
  BY <1>1, <1>6, <1>7, Shown DEF Promise!Look

\* A decision is carried out on the record its operator saw.
LEMMA Decides ==
  ASSUME IInv, NEW op \in Operators, Reprocess(op) \/ Ignore(op)
  PROVE  LET l == tx[op].letter
         IN  \/ Promise!Reprocess(op, l) /\ l \in Letters
             \/ Promise!Ignore(op, l) /\ l \in Letters
<1> DEFINE l == tx[op].letter
<1>1. TypeOK /\ DecidedAsSeen /\ Fit /\ tx[op] # Idle /\ l \in Letters
  BY DecidedRow, OpenTransaction DEF IInv, Transactions
<1>2. /\ view[op] # Unseen /\ view[op].letter = l
      /\ rows[l].status = "NEW" /\ rows[l].life = view[op].life
  BY <1>1 DEF DecidedAsSeen
<1>3. /\ Record[l].status = "NEW" /\ Record[l].life = rows[l].life
      /\ SeenBy[op] = [letter |-> l, life |-> Record[l].life]
  <2>1. Record[l].status = rows[l].status /\ Record[l].life = rows[l].life
    BY <1>1, Shown
  <2>2. SeenBy[op] = [letter |-> view[op].letter, life |-> view[op].life]
    BY <1>2 DEF SeenBy
  <2> HIDE DEF l
  <2> QED
    BY <1>2, <2>1, <2>2
<1>4. UNCHANGED SeenBy
  BY DEF Reprocess, Ignore, SeenBy
<1>5. /\ rows \in [Letters -> Row] /\ rows[l] \in Row /\ rows[l].version = 1
      /\ reprocessed \in [Letters -> Nat] /\ ignored \in [Letters -> Nat]
  BY <1>1, OpenTransaction DEF TypeOK
<1>6. ASSUME NEW status \in {"REPROCESSED", "IGNORED"},
             rows' = [rows EXCEPT ![l] = Decided(@, status)]
      PROVE  Record' = [Record EXCEPT ![l] = [status |-> status, life |-> @.life]]
  <2>1. rows'[l] = Decided(rows[l], status) /\ \A k \in Letters \ {l} : rows'[k] = rows[k]
    BY <1>1, <1>5, <1>6
  <2>2. rows'[l].status = status /\ rows'[l].life = rows[l].life
    BY <1>5, <2>1, Decision
  <2> QED
    BY <1>1, <1>3, <2>1, <2>2, RecordStep
<1>7. CASE Reprocess(op)
  <2>1. /\ tx[op].action = "REPROCESS" /\ rows' = [rows EXCEPT ![l] = Decided(@, "REPROCESSED")]
        /\ copies' = [copies EXCEPT ![l] = @ + 1]
        /\ reprocessed' = [reprocessed EXCEPT ![l] = @ + 1] /\ UNCHANGED ignored
    BY <1>7 DEF Reprocess
  <2>2. Record' = [Record EXCEPT ![l] = [status |-> "REPROCESSED", life |-> @.life]]
    BY <1>6, <2>1
  <2>3. Audit' = [Audit EXCEPT ![l]["REPROCESS"] = @ + 1]
    BY <1>1, <1>5, <2>1 DEF Audit, Action
  <2>4. Reprocessable(l)
    BY <1>1, <2>1 DEF Fit
  <2> QED
    BY <1>1, <1>3, <1>4, <2>1, <2>2, <2>3, <2>4 DEF Promise!Reprocess, Promise!Decide
<1>8. CASE Ignore(op)
  <2>1. /\ rows' = [rows EXCEPT ![l] = Decided(@, "IGNORED")]
        /\ ignored' = [ignored EXCEPT ![l] = @ + 1] /\ UNCHANGED <<reprocessed, copies>>
    BY <1>8 DEF Ignore
  <2>2. Record' = [Record EXCEPT ![l] = [status |-> "IGNORED", life |-> @.life]]
    BY <1>6, <2>1
  <2>3. Audit' = [Audit EXCEPT ![l]["IGNORE"] = @ + 1]
    BY <1>1, <1>5, <2>1 DEF Audit, Action
  <2> QED
    BY <1>1, <1>3, <1>4, <2>1, <2>2, <2>3 DEF Promise!Ignore, Promise!Decide
<1> QED
  BY <1>7, <1>8

LEMMA NextResolves == ASSUME IInv, [Next]_vars PROVE [Promise!Next]_(Promise!vars)
<1>0. TypeOK
  BY DEF IInv
<1>1. ASSUME NEW l \in Letters, Insert(l) \/ InsertFails(l)
      PROVE  Promise!Next \/ UNCHANGED Promise!vars
  <2>1. UNCHANGED <<view, logs>> /\ (rows' = rows \/ rows' = [rows EXCEPT ![l] = Stored(@)])
    BY <1>1 DEF Insert, InsertFails
  <2> QED
    BY <1>0, <2>1, InsertStores DEF Promise!Next
<1>2. ASSUME NEW l \in Letters, DeleteResolved(l) PROVE Promise!Next
  BY <1>0, <1>2, DeletesDecided DEF Promise!Next
<1>3. ASSUME NEW op \in Operators, NEW l \in Letters, Look(op, l) PROVE Promise!Next
  BY <1>0, <1>3, LooksSee DEF Promise!Next
<1>4. ASSUME NEW op \in Operators, Reprocess(op) \/ Ignore(op) PROVE Promise!Next
  BY <1>4, Decides DEF Promise!Next
<1>5. ASSUME \/ \E l \in Letters : Find(l) \/ Redeliver(l)
             \/ \E op \in Operators : BeginReprocess(op) \/ BeginIgnore(op) \/ Rollback(op)
             \/ UNCHANGED vars
      PROVE  UNCHANGED Promise!vars
  <2>1. UNCHANGED <<rows, view, reprocessed, ignored, copies>>
    BY <1>5 DEF Find, Redeliver, BeginReprocess, BeginIgnore, Acquire, Rollback, vars, logs
  <2> QED
    BY <2>1 DEF Promise!vars, Record, SeenBy, Audit
<1> QED
  BY <1>1, <1>2, <1>3, <1>4, <1>5 DEF Next

\* Decisions take effect one at a time on the record their operator saw, for any
\* letters, operators and faults.
THEOREM Implementation == Spec => ImplementsResolution
<1>1. Init => Promise!Init
  BY DEF Init, Promise!Init, Promise!Nothing, Record, SeenBy, Audit, Action, Unseen
<1>2. IInv /\ [Next]_vars => [Promise!Next]_(Promise!vars)
  BY NextResolves
<1> QED
  BY <1>1, <1>2, Invariance, PTL DEF Spec, ImplementsResolution, Promise!Spec
=============================================================================
