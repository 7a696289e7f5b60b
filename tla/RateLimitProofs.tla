----------------------------- MODULE RateLimitProofs -----------------------------
(***************************************************************************)
(* Proofs about RateLimit for any callers, handshake and number of         *)
(* disturbances. Replies are matched by position: what is on its way and   *)
(* what is still to be run (Line) is always the end of what is pending     *)
(* (AtTheEnd), and all of it unless a connection was closed with orphans.  *)
(* Without orphans, who waits has something to wait for (Waits).           *)
(***************************************************************************)
EXTENDS RateLimit, TLAPS

Distinct(s) == \A i, j \in DOMAIN s : s[i] = s[j] => i = j

EndsWith(s, t) ==
  /\ Len(t) <= Len(s)
  /\ \A i \in 1 .. Len(t) : s[Len(s) - Len(t) + i] = t[i]

\* The commands Redis has yet to run or to be heard of.
Heard(replies) == [i \in DOMAIN replies |-> replies[i].to]
Line == Heard(inbound) \o wire

AtTheEnd == EndsWith(pending, Line) /\ (Orphans \/ Len(pending) = Len(Line))

\* QueuedOnce, queue by queue, with where the connect command can be.
Queues ==
  /\ Distinct(waiting) /\ Distinct(pending)
  /\ Elements(waiting) \cap Elements(pending) = {}
  /\ Elements(waiting) \cup (Elements(pending) \ {CONNECT}) = busy
  /\ CONNECT \in Elements(pending) => connecting
  /\ link = "dialing" => connecting /\ CONNECT \notin Elements(pending)

\* Only an ending that is in doubt leaves half a number or half a text.
Clean == doubt = {} => buffer \notin {"number", "text"}

IInv == TypeOK /\ Queues /\ AtTheEnd /\ Clean /\ FailClosed

-----------------------------------------------------------------------------
(* Sequences                                                               *)

LEMMA Joined ==
  ASSUME NEW S, NEW s \in Seq(S), NEW t \in Seq(S)
  PROVE  /\ s \o t \in Seq(S)
         /\ Len(s) \in Nat /\ Len(t) \in Nat
         /\ Len(s \o t) = Len(s) + Len(t)
         /\ DOMAIN (s \o t) = 1 .. Len(s) + Len(t)
         /\ \A i \in 1 .. Len(s) : (s \o t)[i] = s[i]
         /\ \A i \in 1 .. Len(t) : (s \o t)[Len(s) + i] = t[i]
         /\ \A i \in Len(s) + 1 .. Len(s) + Len(t) : (s \o t)[i] = t[i - Len(s)]
  OBVIOUS

LEMMA Tails ==
  ASSUME NEW S, NEW s \in Seq(S), s # <<>>
  PROVE  /\ Tail(s) \in Seq(S) /\ Head(s) \in S /\ Head(s) = s[1]
         /\ Len(s) \in Nat /\ Len(s) > 0
         /\ Len(Tail(s)) = Len(s) - 1
         /\ \A i \in 1 .. Len(s) - 1 : Tail(s)[i] = s[i + 1]
  OBVIOUS

LEMMA Appended ==
  ASSUME NEW S, NEW s \in Seq(S), NEW e \in S
  PROVE  Append(s, e) = s \o <<e>> /\ <<e>> \in Seq(S) /\ Elements(<<e>>) = {e}
  BY DEF Elements

LEMMA ElementsJoined ==
  ASSUME NEW S, NEW s \in Seq(S), NEW t \in Seq(S)
  PROVE  Elements(s \o t) = Elements(s) \cup Elements(t)
<1>1. /\ DOMAIN (s \o t) = 1 .. Len(s) + Len(t)
      /\ DOMAIN s = 1 .. Len(s) /\ DOMAIN t = 1 .. Len(t)
      /\ Len(s) \in Nat /\ Len(t) \in Nat
      /\ \A i \in 1 .. Len(s) : (s \o t)[i] = s[i]
      /\ \A i \in 1 .. Len(t) : (s \o t)[Len(s) + i] = t[i]
      /\ \A i \in Len(s) + 1 .. Len(s) + Len(t) : (s \o t)[i] = t[i - Len(s)]
  BY Joined
<1>2. Elements(s \o t) \subseteq Elements(s) \cup Elements(t)
  <2> SUFFICES ASSUME NEW i \in DOMAIN (s \o t) PROVE (s \o t)[i] \in Elements(s) \cup Elements(t)
    BY DEF Elements
  <2>1. CASE i <= Len(s)
    BY <1>1, <2>1 DEF Elements
  <2>2. CASE ~(i <= Len(s))
    <3>1. i - Len(s) \in DOMAIN t /\ (s \o t)[i] = t[i - Len(s)]
      BY <1>1, <2>2
    <3> QED
      BY <3>1 DEF Elements
  <2> QED
    BY <2>1, <2>2
<1>3. Elements(s) \cup Elements(t) \subseteq Elements(s \o t)
  <2>1. \A i \in DOMAIN s : s[i] \in Elements(s \o t)
    <3> TAKE i \in DOMAIN s
    <3>1. i \in DOMAIN (s \o t) /\ (s \o t)[i] = s[i]
      BY <1>1
    <3> QED
      BY <3>1 DEF Elements
  <2>2. \A i \in DOMAIN t : t[i] \in Elements(s \o t)
    <3> TAKE i \in DOMAIN t
    <3>1. Len(s) + i \in DOMAIN (s \o t) /\ (s \o t)[Len(s) + i] = t[i]
      BY <1>1
    <3> QED
      BY <3>1 DEF Elements
  <2> QED
    BY <2>1, <2>2 DEF Elements
<1> QED
  BY <1>2, <1>3

LEMMA DistinctJoined ==
  ASSUME NEW S, NEW s \in Seq(S), NEW t \in Seq(S)
  PROVE  Distinct(s \o t)
           <=> Distinct(s) /\ Distinct(t) /\ Elements(s) \cap Elements(t) = {}
<1>1. /\ DOMAIN (s \o t) = 1 .. Len(s) + Len(t)
      /\ DOMAIN s = 1 .. Len(s) /\ DOMAIN t = 1 .. Len(t)
      /\ Len(s) \in Nat /\ Len(t) \in Nat
      /\ \A i \in 1 .. Len(s) : (s \o t)[i] = s[i]
      /\ \A i \in 1 .. Len(t) : (s \o t)[Len(s) + i] = t[i]
      /\ \A i \in Len(s) + 1 .. Len(s) + Len(t) : (s \o t)[i] = t[i - Len(s)]
  BY Joined
<1>2. ASSUME Distinct(s \o t)
      PROVE  Distinct(s) /\ Distinct(t) /\ Elements(s) \cap Elements(t) = {}
  <2>1. Distinct(s)
    BY <1>1, <1>2 DEF Distinct
  <2>2. Distinct(t)
    <3> SUFFICES ASSUME NEW i \in DOMAIN t, NEW j \in DOMAIN t, t[i] = t[j] PROVE i = j
      BY DEF Distinct
    <3>1. /\ Len(s) + i \in DOMAIN (s \o t) /\ Len(s) + j \in DOMAIN (s \o t)
          /\ (s \o t)[Len(s) + i] = (s \o t)[Len(s) + j]
      BY <1>1
    <3>2. Len(s) + i = Len(s) + j
      BY <1>2, <3>1 DEF Distinct
    <3> QED
      BY <1>1, <3>2
  <2>3. \A i \in DOMAIN s, j \in DOMAIN t : s[i] # t[j]
    <3> TAKE i \in DOMAIN s, j \in DOMAIN t
    <3>1. /\ i \in DOMAIN (s \o t) /\ Len(s) + j \in DOMAIN (s \o t) /\ i # Len(s) + j
          /\ (s \o t)[i] = s[i] /\ (s \o t)[Len(s) + j] = t[j]
      BY <1>1
    <3> QED
      BY <1>2, <3>1 DEF Distinct
  <2> QED
    BY <2>1, <2>2, <2>3 DEF Elements
<1>3. ASSUME Distinct(s), Distinct(t), Elements(s) \cap Elements(t) = {}
      PROVE  Distinct(s \o t)
  <2>1. \A i \in DOMAIN s, j \in DOMAIN t : s[i] # t[j]
    BY <1>3 DEF Elements
  <2> SUFFICES ASSUME NEW i \in DOMAIN (s \o t), NEW j \in DOMAIN (s \o t),
                      (s \o t)[i] = (s \o t)[j]
               PROVE  i = j
    BY DEF Distinct
  <2>2. CASE i <= Len(s) /\ j <= Len(s)
    BY <1>1, <1>3, <2>2 DEF Distinct
  <2>3. CASE ~(i <= Len(s)) /\ ~(j <= Len(s))
    <3>1. i - Len(s) \in DOMAIN t /\ j - Len(s) \in DOMAIN t /\ t[i - Len(s)] = t[j - Len(s)]
      BY <1>1, <2>3
    <3>2. i - Len(s) = j - Len(s)
      BY <1>3, <3>1 DEF Distinct
    <3> QED
      BY <1>1, <3>2
  <2>4. CASE i <= Len(s) /\ ~(j <= Len(s))
    BY <1>1, <2>1, <2>4
  <2>5. CASE ~(i <= Len(s)) /\ j <= Len(s)
    BY <1>1, <2>1, <2>5
  <2> QED
    BY <2>2, <2>3, <2>4, <2>5
<1> QED
  BY <1>2, <1>3

\* Taking the head off a queue of distinct elements takes that element out.
LEMMA Shifted ==
  ASSUME NEW S, NEW s \in Seq(S), s # <<>>, Distinct(s)
  PROVE  /\ Distinct(Tail(s))
         /\ Elements(Tail(s)) = Elements(s) \ {Head(s)}
         /\ Head(s) \in Elements(s)
<1>1. <<Head(s)>> \in Seq(S) /\ Tail(s) \in Seq(S) /\ s = <<Head(s)>> \o Tail(s)
  <2> DEFINE h == <<Head(s)>>
  <2>1. h \in Seq(S) /\ Len(h) = 1 /\ h[1] = s[1]
    BY Tails
  <2>2. /\ Tail(s) \in Seq(S) /\ Len(Tail(s)) = Len(s) - 1 /\ Len(s) \in Nat
        /\ \A i \in 1 .. Len(s) - 1 : Tail(s)[i] = s[i + 1]
    BY Tails
  <2> HIDE DEF h
  <2>3. h \o Tail(s) \in Seq(S) /\ Len(h \o Tail(s)) = Len(s)
    BY <2>1, <2>2, Joined
  <2>4. \A i \in 1 .. Len(s) : (h \o Tail(s))[i] = s[i]
    <3> TAKE i \in 1 .. Len(s)
    <3>1. CASE i = 1
      <4>1. i \in 1 .. Len(h) /\ h[i] = s[i]
        BY <2>1, <3>1
      <4>2. (h \o Tail(s))[i] = h[i]
        BY <2>1, <2>2, <4>1, Joined
      <4> QED
        BY <4>1, <4>2
    <3>2. CASE i # 1
      <4>1. i \in Len(h) + 1 .. Len(h) + Len(Tail(s)) /\ i - 1 \in 1 .. Len(s) - 1
        BY <2>1, <2>2, <3>2
      <4>2. (h \o Tail(s))[i] = Tail(s)[i - Len(h)]
        BY <2>1, <2>2, <4>1, Joined
      <4>3. i - Len(h) = i - 1 /\ (i - 1) + 1 = i
        BY <2>1
      <4> QED
        BY <2>2, <4>1, <4>2, <4>3
    <3> QED
      BY <3>1, <3>2
  <2>5. s = h \o Tail(s)
    BY <2>3, <2>4
  <2> QED
    BY <2>1, <2>2, <2>5 DEF h
<1>2. PICK h \in Seq(S), t \in Seq(S) : h = <<Head(s)>> /\ t = Tail(s) /\ s = h \o t
  BY <1>1
<1>3. Elements(h) = {Head(s)}
  BY <1>2 DEF Elements
<1>4. Elements(h \o t) = Elements(h) \cup Elements(t)
  BY ElementsJoined
<1>5. Elements(s) = {Head(s)} \cup Elements(Tail(s))
  BY <1>2, <1>3, <1>4
<1>6. Distinct(h \o t) <=> Distinct(h) /\ Distinct(t) /\ Elements(h) \cap Elements(t) = {}
  BY DistinctJoined
<1>7. Distinct(Tail(s)) /\ {Head(s)} \cap Elements(Tail(s)) = {}
  BY <1>2, <1>3, <1>6
<1> QED
  BY <1>5, <1>7

LEMMA EndKept ==
  ASSUME NEW S, NEW s \in Seq(S), NEW t \in Seq(S), NEW u \in Seq(S), EndsWith(s, t)
  PROVE  EndsWith(s \o u, t \o u)
<1>1. /\ Len(s) \in Nat /\ Len(t) \in Nat /\ Len(u) \in Nat
      /\ Len(s \o u) = Len(s) + Len(u) /\ Len(t \o u) = Len(t) + Len(u)
  BY Joined
<1>2. \A i \in 1 .. Len(t) + Len(u) :
        (s \o u)[Len(s) - Len(t) + i] = (t \o u)[i]
  <2> TAKE i \in 1 .. Len(t) + Len(u)
  <2>1. CASE i <= Len(t)
    <3>1. Len(s) - Len(t) + i \in 1 .. Len(s) /\ i \in 1 .. Len(t)
      BY <1>1, <2>1 DEF EndsWith
    <3> QED
      BY <3>1, Joined DEF EndsWith
  <2>2. CASE ~(i <= Len(t))
    <3>1. /\ Len(s) - Len(t) + i \in Len(s) + 1 .. Len(s) + Len(u)
          /\ i \in Len(t) + 1 .. Len(t) + Len(u)
      BY <1>1, <2>2 DEF EndsWith
    <3>2. (s \o u)[Len(s) - Len(t) + i] = u[(Len(s) - Len(t) + i) - Len(s)]
      BY <3>1, Joined
    <3>3. (t \o u)[i] = u[i - Len(t)]
      BY <3>1, Joined
    <3>4. (Len(s) - Len(t) + i) - Len(s) = i - Len(t)
      BY <1>1
    <3> QED
      BY <3>2, <3>3, <3>4
  <2> QED
    BY <2>1, <2>2
<1>3. Len(s) + Len(u) - (Len(t) + Len(u)) = Len(s) - Len(t)
  BY <1>1
<1> QED
  BY <1>1, <1>2, <1>3 DEF EndsWith

LEMMA EndShifted ==
  ASSUME NEW S, NEW s \in Seq(S), NEW t \in Seq(S), t # <<>>, EndsWith(s, t)
  PROVE  s # <<>> /\ EndsWith(Tail(s), Tail(t))
<1>1. Len(t) > 0 /\ Len(t) \in Nat /\ Len(s) \in Nat /\ Len(t) <= Len(s) /\ s # <<>>
  BY DEF EndsWith
<1>2. Len(Tail(s)) = Len(s) - 1 /\ Len(Tail(t)) = Len(t) - 1
  BY <1>1
<1>3. ASSUME NEW i \in 1 .. Len(t) - 1 PROVE Tail(s)[Len(s) - Len(t) + i] = Tail(t)[i]
  <2>1. Len(s) - Len(t) + i \in 1 .. Len(s) - 1 /\ i + 1 \in 1 .. Len(t)
    BY <1>1
  <2>2. Tail(s)[Len(s) - Len(t) + i] = s[(Len(s) - Len(t) + i) + 1] /\ Tail(t)[i] = t[i + 1]
    BY <1>1, <2>1, Tails
  <2>3. (Len(s) - Len(t) + i) + 1 = Len(s) - Len(t) + (i + 1)
    BY <1>1
  <2> QED
    BY <2>1, <2>2, <2>3 DEF EndsWith
<1>4. (Len(s) - 1) - (Len(t) - 1) = Len(s) - Len(t)
  BY <1>1
<1> QED
  BY <1>1, <1>2, <1>3, <1>4 DEF EndsWith

LEMMA EndIsAll ==
  ASSUME NEW S, NEW s \in Seq(S), NEW t \in Seq(S), EndsWith(s, t), Len(s) = Len(t)
  PROVE  s = t
<1>1. Len(s) \in Nat /\ \A i \in 1 .. Len(t) : s[i] = t[i]
  BY DEF EndsWith
<1> QED
  BY <1>1

LEMMA Associative ==
  ASSUME NEW S, NEW s \in Seq(S), NEW t \in Seq(S), NEW u \in Seq(S)
  PROVE  (s \o t) \o u = s \o (t \o u)
  OBVIOUS

LEMMA TailJoined ==
  ASSUME NEW S, NEW s \in Seq(S), NEW t \in Seq(S), s # <<>>
  PROVE  s \o t # <<>> /\ Tail(s \o t) = Tail(s) \o t
  OBVIOUS

LEMMA Moved ==
  ASSUME NEW S, NEW s \in Seq(S), NEW t \in Seq(S), t # <<>>
  PROVE  Append(s, Head(t)) \o Tail(t) = s \o t
  OBVIOUS

-----------------------------------------------------------------------------
(* Replies, and what callers are told                                      *)

LEMMA Shapes ==
  /\ \A r \in Reply : r.to \in Commands /\ r.says \in {"under", "over", "ok", "error"}
  /\ \A c \in Commands, a \in {"under", "over", "ok", "error"} :
       LET r == [to |-> c, says |-> a] IN r \in Reply /\ r.to = c /\ r.says = a
  /\ \A r \in Reply, c \in Commands :
       r.to = c /\ r.says = "under" => r = [to |-> c, says |-> "under"]
  /\ NaN.says = "nan" /\ Refusal.says = "refused" /\ Nothing.says = "nothing"
<1>1. \A r \in Reply : r.to \in Commands /\ r.says \in {"under", "over", "ok", "error"}
  BY DEF Reply
<1>2. \A c \in Commands, a \in {"under", "over", "ok", "error"} :
        LET r == [to |-> c, says |-> a] IN r \in Reply /\ r.to = c /\ r.says = a
  BY DEF Reply
<1>3. \A r \in Reply, c \in Commands :
        r.to = c /\ r.says = "under" => r = [to |-> c, says |-> "under"]
  BY DEF Reply
<1>4. NaN.says = "nan" /\ Refusal.says = "refused" /\ Nothing.says = "nothing"
  BY DEF NaN, Refusal, Nothing
<1> QED
  BY <1>1, <1>2, <1>3, <1>4

LEMMA HeardTypes ==
  ASSUME NEW s \in Seq(Reply)
  PROVE  Heard(s) \in Seq(Commands) /\ Len(Heard(s)) = Len(s) /\ DOMAIN Heard(s) = DOMAIN s
<1>1. \A i \in DOMAIN s : s[i].to \in Commands
  BY Shapes
<1> QED
  BY <1>1 DEF Heard

LEMMA HeardAppended ==
  ASSUME NEW s \in Seq(Reply), NEW r \in Reply
  PROVE  Heard(Append(s, r)) = Append(Heard(s), r.to)
<1>1. /\ Heard(s) \in Seq(Commands) /\ Len(Heard(s)) = Len(s)
      /\ Append(s, r) \in Seq(Reply) /\ Len(Append(s, r)) = Len(s) + 1 /\ Len(s) \in Nat
      /\ r.to \in Commands
  BY HeardTypes, Shapes
<1>2. Heard(Append(s, r)) \in Seq(Commands) /\ Len(Heard(Append(s, r))) = Len(s) + 1
  BY <1>1, HeardTypes
<1>3. Append(Heard(s), r.to) \in Seq(Commands) /\ Len(Append(Heard(s), r.to)) = Len(s) + 1
  BY <1>1
<1>4. \A i \in 1 .. Len(s) + 1 : Heard(Append(s, r))[i] = Append(Heard(s), r.to)[i]
  BY <1>1 DEF Heard
<1> QED
  BY <1>2, <1>3, <1>4

LEMMA HeardTail ==
  ASSUME NEW s \in Seq(Reply), s # <<>>
  PROVE  /\ Heard(Tail(s)) = Tail(Heard(s))
         /\ Heard(s) # <<>> /\ Head(Heard(s)) = Head(s).to
         /\ Tail(s) \in Seq(Reply) /\ Head(s) \in Reply
<1>1. /\ Heard(s) \in Seq(Commands) /\ Len(Heard(s)) = Len(s)
      /\ Tail(s) \in Seq(Reply) /\ Len(Tail(s)) = Len(s) - 1 /\ Len(s) \in Nat /\ Len(s) > 0
      /\ \A i \in 1 .. Len(s) - 1 : Tail(s)[i] = s[i + 1]
  BY HeardTypes, Tails
<1>2. Heard(s) # <<>> /\ Head(Heard(s)) = Head(s).to /\ Head(s) \in Reply
  BY <1>1 DEF Heard
<1>3. Heard(Tail(s)) \in Seq(Commands) /\ Len(Heard(Tail(s))) = Len(s) - 1
  BY <1>1, HeardTypes
<1>4. /\ Tail(Heard(s)) \in Seq(Commands) /\ Len(Tail(Heard(s))) = Len(s) - 1
      /\ \A i \in 1 .. Len(s) - 1 : Tail(Heard(s))[i] = Heard(s)[i + 1]
  BY <1>1, <1>2, Tails
<1>5. \A i \in 1 .. Len(s) - 1 : Heard(Tail(s))[i] = Tail(Heard(s))[i]
  <2> TAKE i \in 1 .. Len(s) - 1
  <2>1. i \in DOMAIN Tail(s) /\ i + 1 \in DOMAIN s
    BY <1>1
  <2> QED
    BY <1>1, <1>4, <2>1 DEF Heard
<1>6. Heard(Tail(s)) = Tail(Heard(s))
  BY <1>3, <1>4, <1>5
<1> QED
  BY <1>1, <1>2, <1>6

\* Every queue is a sequence of commands.
LEMMA QueueTypes ==
  ASSUME TypeOK
  PROVE  /\ waiting \in Seq(Commands) /\ pending \in Seq(Commands) /\ wire \in Seq(Commands)
         /\ inbound \in Seq(Reply) /\ Heard(inbound) \in Seq(Commands) /\ Line \in Seq(Commands)
         /\ CONNECT \notin Elements(waiting) /\ CONNECT \notin Callers
         /\ Len(Line) = Len(inbound) + Len(wire)
         /\ Callers \subseteq Commands
<1>1. Callers \subseteq Commands /\ CONNECT \notin Callers
  BY RateLimitAssumption DEF Commands
<1>2. waiting \in Seq(Commands) /\ pending \in Seq(Commands) /\ wire \in Seq(Commands)
  BY <1>1 DEF TypeOK
<1>3. inbound \in Seq(Reply) /\ Heard(inbound) \in Seq(Commands) /\ Len(Heard(inbound)) = Len(inbound)
  BY HeardTypes DEF TypeOK
<1>4. Line \in Seq(Commands) /\ Len(Line) = Len(inbound) + Len(wire)
  <2>1. PICK h \in Seq(Commands) : h = Heard(inbound)
    BY <1>3
  <2>2. h \o wire \in Seq(Commands) /\ Len(h \o wire) = Len(h) + Len(wire)
    BY <1>2, Joined
  <2> QED
    BY <1>3, <2>1, <2>2 DEF Line
<1>5. CONNECT \notin Elements(waiting)
  BY <1>1 DEF TypeOK, Elements
<1> QED
  BY <1>1, <1>2, <1>3, <1>4, <1>5

LEMMA NothingQueued ==
  /\ Elements(<<>>) = {} /\ Distinct(<<>>) /\ <<>> \in Seq(Commands) /\ <<>> \in Seq(Callers) /\ <<>> \in Seq(Reply)
  /\ Heard(<<>>) \o <<>> = <<>>
  /\ \A s \in Seq(Commands) : EndsWith(s, <<>>)
<1>1. Elements(<<>>) = {} /\ Distinct(<<>>) /\ <<>> \in Seq(Commands) /\ <<>> \in Seq(Callers) /\ <<>> \in Seq(Reply)
  BY DEF Elements, Distinct
<1>2. Heard(<<>>) = <<>>
  BY DEF Heard
<1>3. \A s \in Seq(Commands) : EndsWith(s, <<>>)
  BY DEF EndsWith
<1> QED
  BY <1>1, <1>2, <1>3

-----------------------------------------------------------------------------
(* What an action does to the queues                                       *)

LEMMA LineGrows ==
  ASSUME TypeOK, NEW u \in Seq(Commands), wire' = wire \o u, UNCHANGED inbound
  PROVE  Line' = Line \o u
<1>1. PICK h \in Seq(Commands) : h = Heard(inbound)
  BY QueueTypes
<1>2. (h \o wire) \o u = h \o (wire \o u)
  <2>1. wire \in Seq(Commands)
    BY QueueTypes
  <2> QED
    BY <2>1, Associative
<1>3. Line = h \o wire
  BY <1>1 DEF Line
<1>4. Line' = Heard(inbound') \o wire'
  BY DEF Line
<1>5. Heard(inbound') = h /\ wire' = wire \o u
  BY <1>1
<1> QED
  BY <1>2, <1>3, <1>4, <1>5

LEMMA LineShifts ==
  ASSUME TypeOK, NEW u \in Seq(Commands), wire' = wire \o u,
         inbound # <<>>, inbound' = Tail(inbound)
  PROVE  Line # <<>> /\ Line' = Tail(Line) \o u
<1>1. PICK h \in Seq(Commands) : h = Heard(inbound)
  BY QueueTypes
<1>2. h # <<>> /\ Heard(Tail(inbound)) = Tail(h)
  BY <1>1, HeardTail, QueueTypes
<1>3. Tail(h) \in Seq(Commands) /\ wire \in Seq(Commands)
  BY <1>2, Tails, QueueTypes
<1>4. h \o wire # <<>> /\ Tail(h \o wire) = Tail(h) \o wire
  BY <1>2, <1>3, TailJoined
<1>5. (Tail(h) \o wire) \o u = Tail(h) \o (wire \o u)
  BY <1>3, Associative
<1>6. Line = h \o wire
  BY <1>1 DEF Line
<1>7. Line' = Heard(Tail(inbound)) \o (wire \o u)
  <2>1. Line' = Heard(inbound') \o wire'
    BY DEF Line
  <2> QED
    BY <2>1
<1> QED
  BY <1>2, <1>4, <1>5, <1>6, <1>7

\* Commands that are sent are queued at both ends.
LEMMA SentAtTheEnd ==
  ASSUME TypeOK, AtTheEnd, NEW u \in Seq(Commands),
         pending' = pending \o u, wire' = wire \o u, UNCHANGED <<inbound, doubt>>
  PROVE  AtTheEnd'
<1>1. Line' = Line \o u
  BY LineGrows
<1>2. PICK p \in Seq(Commands), l \in Seq(Commands) : p = pending /\ l = Line
  BY QueueTypes
<1>3. EndsWith(p \o u, l \o u)
  BY <1>2, EndKept DEF AtTheEnd
<1>4. Len(p \o u) = Len(p) + Len(u) /\ Len(l \o u) = Len(l) + Len(u)
  BY Joined
<1>5. Orphans \/ Len(p) = Len(l)
  BY <1>2 DEF AtTheEnd
<1>6. Orphans' = Orphans
  BY DEF Orphans
<1>7. pending' = p \o u /\ Line' = l \o u
  BY <1>1, <1>2
<1> QED
  BY <1>3, <1>4, <1>5, <1>6, <1>7 DEF AtTheEnd

\* A reply takes the first command off both.
LEMMA AnsweredAtTheEnd ==
  ASSUME TypeOK, AtTheEnd, NEW u \in Seq(Commands), inbound # <<>>,
         pending' = Tail(pending) \o u, wire' = wire \o u, inbound' = Tail(inbound),
         UNCHANGED doubt
  PROVE  pending # <<>> /\ AtTheEnd'
<1>1. Line # <<>> /\ Line' = Tail(Line) \o u
  BY LineShifts
<1>2. PICK p \in Seq(Commands), l \in Seq(Commands) : p = pending /\ l = Line
  BY QueueTypes
<1>3. p # <<>> /\ EndsWith(Tail(p), Tail(l))
  BY <1>1, <1>2, EndShifted DEF AtTheEnd
<1>4. /\ Tail(p) \in Seq(Commands) /\ Tail(l) \in Seq(Commands)
      /\ Len(Tail(p)) = Len(p) - 1 /\ Len(Tail(l)) = Len(l) - 1
      /\ Len(p) \in Nat /\ Len(l) \in Nat
  BY <1>1, <1>2, <1>3, Tails
<1>5. EndsWith(Tail(p) \o u, Tail(l) \o u)
  BY <1>3, <1>4, EndKept
<1>6. /\ Len(Tail(p) \o u) = Len(Tail(p)) + Len(u)
      /\ Len(Tail(l) \o u) = Len(Tail(l)) + Len(u)
  BY <1>4, Joined
<1>7. Orphans \/ Len(p) = Len(l)
  BY <1>2 DEF AtTheEnd
<1>8. Orphans' = Orphans
  BY DEF Orphans
<1>9. pending' = Tail(p) \o u /\ Line' = Tail(l) \o u
  BY <1>1, <1>2
<1> QED
  BY <1>2, <1>3, <1>4, <1>5, <1>6, <1>7, <1>8, <1>9 DEF AtTheEnd

\* After a connect command, or when the socket is there: the next command is
\* sent or all those who wait go on, and the queues stay apart.
LEMMA ContinueQueues ==
  ASSUME TypeOK, NEW n \in 0 .. Handshake, NEW p \in Seq(Commands), Continue(n, p),
         Distinct(p), Distinct(waiting), CONNECT \notin Elements(p), connecting,
         Elements(waiting) \cap Elements(p) = {},
         Elements(waiting) \cup Elements(p) = busy, UNCHANGED busy, link' = "open"
  PROVE  /\ Queues'
         /\ waiting' \in Seq(Callers) /\ connecting' \in BOOLEAN
         /\ greeted' \in 0 .. Handshake
         /\ \E u \in Seq(Commands) : pending' = p \o u /\ wire' = wire \o u
<1>1. Handshake \in 0 .. 2
  BY RateLimitAssumption
<1>2. CASE n < Handshake
  <2>1. PICK u : u = <<CONNECT>>
    OBVIOUS
  <2>2. u \in Seq(Commands) /\ Elements(u) = {CONNECT} /\ Distinct(u)
    BY <2>1 DEF Commands, Elements, Distinct
  <2>3. /\ pending' = p \o u /\ wire' = wire \o u /\ greeted' = n + 1
        /\ UNCHANGED <<waiting, connecting>>
    BY <1>2, <2>1 DEF Continue
  <2>4. Elements(p \o u) = Elements(p) \cup {CONNECT} /\ Distinct(p \o u)
    BY <2>2, ElementsJoined, DistinctJoined
  <2>5. CONNECT \notin Elements(waiting)
    BY QueueTypes
  <2>6. Queues'
    <3>1. Elements(waiting)' = Elements(waiting) /\ Elements(pending)' = Elements(p) \cup {CONNECT}
      BY <2>3, <2>4 DEF Elements
    <3>2. Distinct(waiting)' /\ Distinct(pending)'
      BY <2>3, <2>4 DEF Distinct
    <3> QED
      BY <2>3, <2>5, <3>1, <3>2 DEF Queues
  <2>7. greeted' \in 0 .. Handshake
    BY <1>1, <1>2, <2>3
  <2>8. \E v \in Seq(Commands) : pending' = p \o v /\ wire' = wire \o v
    BY <2>2, <2>3
  <2>9. waiting' \in Seq(Callers) /\ connecting' \in BOOLEAN
    BY <2>3 DEF TypeOK
  <2> QED
    BY <2>6, <2>7, <2>8, <2>9
<1>3. CASE ~(n < Handshake)
  <2>1. /\ pending' = p \o waiting /\ wire' = wire \o waiting /\ greeted' = n
        /\ waiting' = <<>> /\ connecting' = FALSE
    BY <1>3 DEF Continue, Released
  <2>2. waiting \in Seq(Commands) /\ CONNECT \notin Elements(waiting)
    BY QueueTypes
  <2>3. Elements(p \o waiting) = Elements(p) \cup Elements(waiting) /\ Distinct(p \o waiting)
    BY <2>2, ElementsJoined, DistinctJoined
  <2>4. Queues'
    <3>1. Elements(waiting') = {} /\ Elements(pending') = Elements(p) \cup Elements(waiting)
      BY <2>1, <2>3, NothingQueued
    <3>2. Distinct(waiting') /\ Distinct(pending')
      BY <2>1, <2>3, NothingQueued
    <3> QED
      BY <2>1, <2>2, <3>1, <3>2 DEF Queues
  <2>5. waiting' \in Seq(Callers) /\ connecting' \in BOOLEAN
    BY <2>1, NothingQueued
  <2>6. greeted' \in 0 .. Handshake
    BY <2>1
  <2>7. \E v \in Seq(Commands) : pending' = p \o v /\ wire' = wire \o v
    BY <2>1, <2>2
  <2> QED
    BY <2>4, <2>5, <2>6, <2>7
<1> QED
  BY <1>2, <1>3

-----------------------------------------------------------------------------
(* The invariant holds at the start, and each action keeps it               *)

LEMMA InitIInv == Init => IInv
<1> SUFFICES ASSUME Init PROVE IInv
  OBVIOUS
<1>1. TypeOK
  <2>1. 0 \in 0 .. Handshake
    BY RateLimitAssumption
  <2> QED
    BY <2>1, NothingQueued DEF Init, TypeOK
<1>2. Queues
  BY NothingQueued DEF Init, Queues
<1>3. AtTheEnd
  <2>1. Line = <<>> /\ pending = <<>>
    BY NothingQueued DEF Init, Line
  <2> QED
    BY <2>1, NothingQueued DEF AtTheEnd
<1>4. Clean
  BY DEF Init, Clean
<1>5. FailClosed
  BY Shapes DEF Init, FailClosed
<1> QED
  BY <1>1, <1>2, <1>3, <1>4, <1>5 DEF IInv

\* A caller that is told it is refused was not let pass.
LEMMA RefusedIsClosed ==
  ASSUME TypeOK, FailClosed, NEW S, Answer(S, Refusal) \/ UNCHANGED told, doubt \subseteq doubt'
  PROVE  /\ FailClosed'
         /\ told' \in [Callers -> Reply \cup {NaN, Refusal, Nothing}]
<1>1. \A c \in Callers : told'[c] = told[c] \/ told'[c] = Refusal
  BY DEF Answer
<1>2. told' \in [Callers -> Reply \cup {NaN, Refusal, Nothing}]
  BY DEF Answer, TypeOK
<1>3. Refusal.says = "refused"
  BY Shapes
<1> QED
  BY <1>1, <1>2, <1>3 DEF FailClosed

LEMMA DisturbNat == ASSUME TypeOK, NEW d, Disturb(d) PROVE spent' \in Nat
  BY DEF TypeOK, Disturb

LEMMA CallIInv == ASSUME IInv, NEW c \in Callers, Call(c) PROVE IInv'
<1>1. /\ c \notin busy /\ busy' = busy \cup {c}
      /\ told' = [told EXCEPT ![c] = Nothing]
      /\ UNCHANGED <<greeted, inbound, buffer, doubt, spent>>
  BY DEF Call
<1>2. /\ c \in Commands /\ c # CONNECT
      /\ waiting \in Seq(Commands) /\ pending \in Seq(Commands) /\ wire \in Seq(Commands)
      /\ CONNECT \notin Elements(waiting)
  BY QueueTypes DEF IInv
<1>3. c \notin Elements(waiting) /\ c \notin Elements(pending)
  BY <1>1, <1>2 DEF IInv, Queues
<1>4. FailClosed'
  <2>1. \A b \in Callers : told'[b] = told[b] \/ told'[b] = Nothing
    BY <1>1 DEF IInv, TypeOK
  <2> QED
    BY <1>1, <2>1, Shapes DEF IInv, FailClosed
<1>5. Clean'
  BY <1>1 DEF IInv, Clean
<1>6. PICK u : u = <<c>>
  OBVIOUS
<1>7. u \in Seq(Commands) /\ Elements(u) = {c} /\ Distinct(u)
  BY <1>2, <1>6 DEF Elements, Distinct
<1>8. /\ Append(pending, c) = pending \o u /\ Append(wire, c) = wire \o u
      /\ Append(waiting, c) = waiting \o u
  BY <1>2, <1>6, Appended
<1>9. Elements(pending \o u) = Elements(pending) \cup {c} /\ Distinct(pending \o u)
  <2>1. Distinct(pending) /\ Elements(pending) \cap Elements(u) = {}
    BY <1>3, <1>7 DEF IInv, Queues
  <2> QED
    BY <1>2, <1>7, <2>1, ElementsJoined, DistinctJoined
<1>10. Elements(waiting \o u) = Elements(waiting) \cup {c} /\ Distinct(waiting \o u)
  <2>1. Distinct(waiting) /\ Elements(waiting) \cap Elements(u) = {}
    BY <1>3, <1>7 DEF IInv, Queues
  <2> QED
    BY <1>2, <1>7, <2>1, ElementsJoined, DistinctJoined
<1>11. CASE link = "open"
  <2>1. /\ pending' = pending \o u /\ wire' = wire \o u
        /\ UNCHANGED <<link, connecting, waiting>>
    BY <1>8, <1>11 DEF Call
  <2>3. Queues'
    <3>1. Elements(pending') = Elements(pending) \cup {c} /\ Distinct(pending')
      BY <1>9, <2>1
    <3>2. Elements(waiting') = Elements(waiting) /\ Distinct(waiting')
      BY <2>1 DEF IInv, Queues
    <3> QED
      BY <1>1, <1>2, <1>3, <2>1, <3>1, <3>2 DEF IInv, Queues
  <2>4. TypeOK'
    <3>1. pending' \in Seq(Commands) /\ wire' \in Seq(Commands)
      BY <1>2, <1>7, <2>1, Joined
    <3> QED
      BY <1>1, <1>11, <2>1, <3>1 DEF IInv, TypeOK
  <2>5. AtTheEnd'
    BY <1>1, <1>7, <2>1, SentAtTheEnd DEF IInv
  <2> QED
    BY <1>4, <1>5, <2>3, <2>4, <2>5 DEF IInv
<1>12. CASE link # "open"
  <2>1. /\ waiting' = waiting \o u /\ connecting' = TRUE
        /\ link' = IF connecting THEN link ELSE "dialing"
        /\ UNCHANGED <<pending, wire>>
    BY <1>8, <1>12 DEF Call
  <2>3. Queues'
    <3>1. Elements(waiting') = Elements(waiting) \cup {c} /\ Distinct(waiting')
      BY <1>10, <2>1
    <3>2. Elements(pending') = Elements(pending) /\ Distinct(pending')
      BY <2>1 DEF IInv, Queues
    <3>3. link' = "dialing" => connecting' /\ CONNECT \notin Elements(pending')
      BY <2>1, <3>2 DEF IInv, Queues
    <3> QED
      BY <1>1, <1>2, <1>3, <2>1, <3>1, <3>2, <3>3 DEF IInv, Queues
  <2>4. TypeOK'
    <3>1. waiting' \in Seq(Callers)
      <4>1. waiting \in Seq(Callers) /\ waiting' = Append(waiting, c)
        BY <1>12 DEF Call, IInv, TypeOK
      <4> QED
        BY <4>1
    <3>2. link' \in {"none", "dialing"}
      BY <1>12, <2>1 DEF IInv, TypeOK
    <3> QED
      BY <1>1, <1>12, <2>1, <3>1, <3>2 DEF IInv, TypeOK
  <2>5. AtTheEnd'
    BY <1>1, <2>1 DEF IInv, AtTheEnd, Line, Orphans, EndsWith
  <2> QED
    BY <1>4, <1>5, <2>3, <2>4, <2>5 DEF IInv
<1> QED
  BY <1>11, <1>12

LEMMA ConnectedIInv == ASSUME IInv, Connected PROVE IInv'
<1>1. /\ link = "dialing" /\ link' = "open" /\ Continue(0, pending)
      /\ UNCHANGED <<busy, told, inbound, buffer, doubt, spent>>
  BY DEF Connected
<1>2. 0 \in 0 .. Handshake /\ pending \in Seq(Commands)
  BY RateLimitAssumption, QueueTypes DEF IInv
<1>3. /\ Queues'
      /\ waiting' \in Seq(Callers) /\ connecting' \in BOOLEAN /\ greeted' \in 0 .. Handshake
      /\ \E u \in Seq(Commands) : pending' = pending \o u /\ wire' = wire \o u
  BY <1>1, <1>2, ContinueQueues DEF IInv, Queues
<1>4. PICK u \in Seq(Commands) : pending' = pending \o u /\ wire' = wire \o u
  BY <1>3
<1>5. pending' \in Seq(Commands) /\ wire' \in Seq(Commands)
  BY <1>2, <1>4, Joined, QueueTypes DEF IInv
<1>6. TypeOK'
  BY <1>1, <1>3, <1>5 DEF IInv, TypeOK
<1>7. AtTheEnd'
  BY <1>1, <1>4, SentAtTheEnd DEF IInv
<1>8. Clean' /\ FailClosed'
  BY <1>1 DEF IInv, Clean, FailClosed
<1> QED
  BY <1>3, <1>6, <1>7, <1>8 DEF IInv

LEMMA RefusedIInv == ASSUME IInv, Refused PROVE IInv'
<1>1. /\ link = "dialing" /\ link' = "none" /\ Answer(Elements(waiting), Refusal)
      /\ waiting' = <<>> /\ connecting' = FALSE
      /\ UNCHANGED <<greeted, pending, wire, inbound, buffer, doubt>>
  BY DEF Refused
<1>2. spent' \in Nat
  BY DisturbNat DEF Refused, IInv
<1>3. busy' = busy \ Elements(waiting)
  BY <1>1 DEF Answer
<1>4. FailClosed' /\ told' \in [Callers -> Reply \cup {NaN, Refusal, Nothing}]
  BY <1>1, RefusedIsClosed DEF IInv
<1>5. TypeOK'
  BY <1>1, <1>2, <1>3, <1>4, NothingQueued DEF IInv, TypeOK
<1>6. Queues'
  <2>1. Elements(waiting') = {} /\ Distinct(waiting') /\ Elements(pending') = Elements(pending)
    BY <1>1, NothingQueued
  <2> QED
    BY <1>1, <1>3, <2>1 DEF IInv, Queues
<1>7. AtTheEnd'
  BY <1>1 DEF IInv, AtTheEnd, Line, Orphans, EndsWith
<1>8. Clean'
  BY <1>1 DEF IInv, Clean
<1> QED
  BY <1>4, <1>5, <1>6, <1>7, <1>8 DEF IInv

LEMMA ExecuteIInv == ASSUME IInv, Execute PROVE IInv'
<1>1. PICK says \in {"under", "over", "ok", "error"} :
        /\ inbound' = Append(inbound, [to |-> Head(wire), says |-> says])
        /\ spent' = spent \/ Disturb("errorReply")
  BY DEF Execute
<1>2. /\ wire # <<>> /\ wire' = Tail(wire)
      /\ UNCHANGED <<busy, told, link, connecting, waiting, greeted, pending, buffer, doubt>>
  BY DEF Execute
<1>3. /\ wire \in Seq(Commands) /\ inbound \in Seq(Reply) /\ Heard(inbound) \in Seq(Commands)
  BY QueueTypes DEF IInv
<1>4. Head(wire) \in Commands /\ Tail(wire) \in Seq(Commands)
  BY <1>2, <1>3
<1>5. PICK r : r = [to |-> Head(wire), says |-> says]
  OBVIOUS
<1>6. r \in Reply /\ r.to = Head(wire)
  BY <1>4, <1>5 DEF Reply
<1>7. inbound' = Append(inbound, r) /\ inbound' \in Seq(Reply)
  BY <1>1, <1>3, <1>5, <1>6
<1>8. TypeOK'
  <2>1. spent' \in Nat
    BY <1>1, DisturbNat DEF IInv, TypeOK
  <2>2. link = "open"
    BY <1>2 DEF IInv, TypeOK
  <2> QED
    BY <1>2, <1>4, <1>7, <2>1, <2>2 DEF IInv, TypeOK
<1>9. Line' = Line
  <2>1. Heard(inbound') = Append(Heard(inbound), Head(wire))
    BY <1>3, <1>6, <1>7, HeardAppended
  <2>2. PICK h \in Seq(Commands) : h = Heard(inbound)
    BY <1>3
  <2>3. Append(h, Head(wire)) \o Tail(wire) = h \o wire
    BY <1>2, <1>3, Moved
  <2>4. Line' = Heard(inbound') \o wire'
    BY DEF Line
  <2>5. Line = h \o wire
    BY <2>2 DEF Line
  <2> QED
    BY <1>2, <2>1, <2>2, <2>3, <2>4, <2>5
<1>10. AtTheEnd'
  <2>1. pending' = pending /\ Orphans' = Orphans
    BY <1>2 DEF Orphans
  <2> QED
    BY <1>9, <2>1 DEF IInv, AtTheEnd
<1>11. Queues' /\ Clean' /\ FailClosed'
  BY <1>2 DEF IInv, Queues, Clean, FailClosed, Elements, Distinct
<1> QED
  BY <1>8, <1>10, <1>11 DEF IInv

LEMMA SplitIInv == ASSUME IInv, Split PROVE IInv'
<1>1. /\ buffer' = "part"
      /\ UNCHANGED <<busy, told, link, connecting, waiting, greeted, pending, wire, inbound, doubt>>
  BY DEF Split
<1>2. spent' \in Nat
  BY DisturbNat DEF Split, IInv
<1>3. TypeOK'
  BY <1>1, <1>2 DEF IInv, TypeOK
<1>4. Queues' /\ Clean' /\ FailClosed'
  BY <1>1 DEF IInv, Queues, Clean, FailClosed, Elements, Distinct
<1>5. AtTheEnd'
  BY <1>1 DEF IInv, AtTheEnd, Line, Orphans, EndsWith
<1> QED
  BY <1>3, <1>4, <1>5 DEF IInv

\* The command that has waited longest is the one the reply is for, unless a
\* connection was closed with orphans.
LEMMA Matched ==
  ASSUME IInv, inbound # <<>>
  PROVE  /\ pending # <<>>
         /\ ~Orphans => Head(pending) = Head(inbound).to
<1>1. PICK p \in Seq(Commands), h \in Seq(Commands), w \in Seq(Commands) :
        p = pending /\ h = Heard(inbound) /\ w = wire
  BY QueueTypes DEF IInv
<1>2. h # <<>> /\ Head(h) = Head(inbound).to
  BY <1>1, HeardTail, QueueTypes DEF IInv
<1>3. EndsWith(p, h \o w) /\ (Orphans \/ Len(p) = Len(h \o w))
  BY <1>1 DEF IInv, AtTheEnd, Line
<1>4. /\ h \o w \in Seq(Commands) /\ Len(h \o w) = Len(h) + Len(w)
      /\ Len(h) \in Nat /\ Len(h) > 0 /\ Len(w) \in Nat
      /\ (h \o w)[1] = h[1] /\ h[1] = Head(h)
  BY <1>2, Joined, Tails
<1>5. p # <<>>
  BY <1>3, <1>4 DEF EndsWith
<1>6. ASSUME ~Orphans PROVE Head(p) = Head(h)
  <2>1. p = h \o w
    BY <1>3, <1>4, <1>6, EndIsAll
  <2> QED
    BY <1>4, <1>5, <2>1, Tails
<1> QED
  BY <1>1, <1>2, <1>5, <1>6

\* Who asked is told what Redis said of it, unless an ending is in doubt.
LEMMA AnswerClosed ==
  ASSUME IInv, NEW c \in Callers, inbound # <<>>, Head(pending) = c, ~Throws,
         Answer({c}, Tell(Parsed)), UNCHANGED doubt
  PROVE  /\ FailClosed'
         /\ told' \in [Callers -> Reply \cup {NaN, Refusal, Nothing}]
<1> DEFINE r == Tell(Parsed)
<1>1. Head(inbound) \in Reply /\ CONNECT \in Commands
  BY HeardTail, QueueTypes DEF IInv, Commands
<1>2. Parsed \in Reply \cup {NaN}
  BY <1>1 DEF Parsed, Reply
<1>3. r \in Reply \cup {NaN, Refusal}
  BY <1>2 DEF Tell
<1>4. doubt = {} => Parsed = Head(inbound) /\ Head(inbound).to = c
  BY Matched DEF IInv, Clean, Parsed, Orphans
<1>5. ASSUME doubt = {}, r.says \in {"under", "nan"} PROVE r = [to |-> c, says |-> "under"]
  <2>1. r = Head(inbound)
    BY <1>4, <1>5, Shapes DEF Tell
  <2>2. r.says = "under" /\ r.to = c /\ r \in Reply /\ c \in Commands
    BY <1>1, <1>4, <1>5, <2>1, Shapes DEF Commands
  <2> QED
    BY <2>2, Shapes
<1> HIDE DEF r
<1>6. told' = [b \in Callers |-> IF b \in {c} THEN r ELSE told[b]]
  BY DEF Answer, r
<1>7. told' \in [Callers -> Reply \cup {NaN, Refusal, Nothing}]
  BY <1>3, <1>6 DEF IInv, TypeOK
<1>8. FailClosed'
  <2> SUFFICES ASSUME NEW b \in Callers, told'[b].says \in {"under", "nan"}, doubt = {}
               PROVE  told'[b] = [to |-> b, says |-> "under"]
    BY DEF FailClosed
  <2>1. CASE b = c
    BY <1>5, <1>6, <2>1
  <2>2. CASE b # c
    BY <1>6, <2>2 DEF IInv, FailClosed
  <2> QED
    BY <2>1, <2>2
<1> QED
  BY <1>7, <1>8

LEMMA DataIInv == ASSUME IInv, Data PROVE IInv'
<1>1. /\ inbound # <<>> /\ ~Throws /\ inbound' = Tail(inbound) /\ buffer' = "empty"
      /\ UNCHANGED <<link, doubt, spent>>
  BY DEF Data
<1>2. pending # <<>> /\ pending \in Seq(Commands) /\ wire \in Seq(Commands)
  BY <1>1, Matched, QueueTypes DEF IInv
<1>3. Tail(pending) \in Seq(Commands) /\ Head(pending) \in Commands
  BY <1>2
<1>4. /\ Distinct(Tail(pending))
      /\ Elements(Tail(pending)) = Elements(pending) \ {Head(pending)}
      /\ Head(pending) \in Elements(pending)
  BY <1>2, Shifted DEF IInv, Queues
<1>5. Tail(inbound) \in Seq(Reply)
  BY <1>1, HeardTail, QueueTypes DEF IInv
<1>6. link = "open"
  BY <1>1 DEF IInv, TypeOK
<1>7. CASE Head(pending) = CONNECT
  <2>1. Continue(greeted, Tail(pending)) /\ UNCHANGED <<busy, told>>
    BY <1>7 DEF Data
  <2>2. /\ greeted \in 0 .. Handshake /\ connecting /\ Distinct(waiting)
        /\ CONNECT \notin Elements(Tail(pending))
        /\ Elements(waiting) \cap Elements(Tail(pending)) = {}
        /\ Elements(waiting) \cup Elements(Tail(pending)) = busy
    BY <1>4, <1>7 DEF IInv, TypeOK, Queues
  <2>3. /\ Queues'
        /\ waiting' \in Seq(Callers) /\ connecting' \in BOOLEAN /\ greeted' \in 0 .. Handshake
        /\ \E u \in Seq(Commands) : pending' = Tail(pending) \o u /\ wire' = wire \o u
    BY <1>1, <1>3, <1>4, <1>6, <2>1, <2>2, ContinueQueues DEF IInv
  <2>4. PICK u \in Seq(Commands) : pending' = Tail(pending) \o u /\ wire' = wire \o u
    BY <2>3
  <2>5. pending' \in Seq(Commands) /\ wire' \in Seq(Commands)
    BY <1>2, <1>3, <2>4, Joined
  <2>6. TypeOK'
    BY <1>1, <1>5, <1>6, <2>1, <2>3, <2>5 DEF IInv, TypeOK
  <2>7. AtTheEnd'
    BY <1>1, <2>4, AnsweredAtTheEnd DEF IInv
  <2>8. Clean' /\ FailClosed'
    BY <1>1, <2>1 DEF IInv, Clean, FailClosed
  <2> QED
    BY <2>3, <2>6, <2>7, <2>8 DEF IInv
<1>8. CASE Head(pending) # CONNECT
  <2>1. /\ pending' = Tail(pending) /\ Answer({Head(pending)}, Tell(Parsed))
        /\ UNCHANGED <<connecting, waiting, greeted, wire>>
    BY <1>8 DEF Data
  <2>2. Head(pending) \in Callers
    BY <1>3, <1>8 DEF Commands
  <2>3. FailClosed' /\ told' \in [Callers -> Reply \cup {NaN, Refusal, Nothing}]
    BY <1>1, <2>1, <2>2, AnswerClosed
  <2>4. busy' = busy \ {Head(pending)}
    BY <2>1 DEF Answer
  <2>5. Queues'
    <3>1. Elements(waiting') = Elements(waiting) /\ Distinct(waiting')
      BY <2>1 DEF IInv, Queues
    <3>2. Elements(pending') = Elements(pending) \ {Head(pending)} /\ Distinct(pending')
      BY <1>4, <2>1
    <3> QED
      BY <1>1, <1>4, <1>8, <2>1, <2>4, <3>1, <3>2 DEF IInv, Queues
  <2>6. TypeOK'
    BY <1>1, <1>3, <1>5, <1>6, <2>1, <2>3, <2>4 DEF IInv, TypeOK
  <2>7. AtTheEnd'
    <3>1. PICK u \in Seq(Commands) : u = <<>>
      BY NothingQueued
    <3>2. pending' = Tail(pending) \o u /\ wire' = wire \o u
      BY <1>2, <1>3, <2>1, <3>1
    <3> QED
      BY <1>1, <3>2, AnsweredAtTheEnd DEF IInv
  <2>8. Clean'
    BY <1>1 DEF Clean
  <2> QED
    BY <2>3, <2>5, <2>6, <2>7, <2>8 DEF IInv
<1> QED
  BY <1>7, <1>8

\* An ending that rejects what is pending leaves only those who wait to dial.
LEMMA RejectIInv ==
  ASSUME IInv, RejectPending, Unplug, doubt' \in {doubt, doubt \cup Garbled}, spent' \in Nat,
         buffer' \in {"empty", "part", "number", "text", "error"}, Clean'
  PROVE  IInv'
<1> DEFINE connect == CONNECT \in Elements(pending)
           callers == Elements(pending) \ {CONNECT}
           rejected == callers \cup IF connect THEN Elements(waiting) ELSE {}
<1>1. /\ Answer(rejected, Refusal)
      /\ waiting' = IF connect THEN <<>> ELSE waiting
      /\ connecting' = (connecting /\ ~connect)
      /\ pending' = <<>>
  BY DEF RejectPending
<1>2. link' = "none" /\ greeted' = 0 /\ wire' = <<>> /\ inbound' = <<>>
  BY DEF Unplug
<1>3. FailClosed' /\ told' \in [Callers -> Reply \cup {NaN, Refusal, Nothing}]
  BY <1>1, RefusedIsClosed DEF IInv
<1>4. busy' = busy \ rejected
  BY <1>1 DEF Answer
<1>5. CONNECT \notin Elements(waiting)
  BY QueueTypes DEF IInv
<1>6. Queues'
  <2>1. Elements(pending') = {} /\ Distinct(pending')
    BY <1>1, NothingQueued
  <2>2. CASE connect
    <3>1. Elements(waiting') = {} /\ Distinct(waiting')
      BY <1>1, <2>2, NothingQueued
    <3> QED
      BY <1>2, <1>4, <2>1, <2>2, <3>1 DEF IInv, Queues
  <2>3. CASE ~connect
    <3>1. waiting' = waiting
      BY <1>1, <2>3
    <3>2. Elements(waiting') = Elements(waiting) /\ Distinct(waiting')
      BY <3>1 DEF IInv, Queues
    <3> QED
      BY <1>2, <1>4, <1>5, <2>1, <2>3, <3>2 DEF IInv, Queues
  <2> QED
    BY <2>2, <2>3
<1>7. TypeOK'
  <2>1. waiting' \in Seq(Callers) /\ connecting' \in BOOLEAN
    BY <1>1, NothingQueued DEF IInv, TypeOK
  <2>2. 0 \in 0 .. Handshake
    BY RateLimitAssumption
  <2>3. busy' \subseteq Callers /\ doubt' \subseteq {"orphans", "garbled"}
    BY <1>4 DEF IInv, TypeOK, Garbled
  <2> QED
    BY <1>1, <1>2, <1>3, <2>1, <2>2, <2>3, NothingQueued DEF TypeOK
<1>8. AtTheEnd'
  <2>1. Line' = Heard(inbound') \o wire'
    BY DEF Line
  <2>2. Line' = <<>> /\ pending' = <<>>
    BY <1>1, <1>2, <2>1, NothingQueued
  <2> QED
    BY <2>2, NothingQueued DEF AtTheEnd
<1> QED
  BY <1>3, <1>6, <1>7, <1>8 DEF IInv

\* Half a number or half a text in the buffer is an ending in doubt.
LEMMA RemainsClean ==
  ASSUME IInv, buffer' = Remains, doubt \cup Garbled \subseteq doubt'
  PROVE  Clean' /\ buffer' \in {"empty", "part", "number", "text", "error"}
  BY DEF IInv, TypeOK, Clean, Remains, Garbled

LEMMA DataThrowsIInv == ASSUME IInv, DataThrows PROVE IInv'
<1>1. RejectPending /\ Unplug /\ buffer' = "error" /\ UNCHANGED <<doubt, spent>>
  BY DEF DataThrows
<1>2. Clean' /\ spent' \in Nat
  BY <1>1 DEF Clean, IInv, TypeOK
<1> QED
  BY <1>1, <1>2, RejectIInv

LEMMA ResetIInv == ASSUME IInv, Reset PROVE IInv'
<1>1. /\ RejectPending /\ Unplug /\ buffer' = Remains
      /\ doubt' = doubt \cup Garbled
  BY DEF Reset
<1>2. spent' \in Nat
  BY DisturbNat DEF Reset, IInv
<1>3. Clean' /\ buffer' \in {"empty", "part", "number", "text", "error"}
  BY <1>1, RemainsClean
<1> QED
  BY <1>1, <1>2, <1>3, RejectIInv

LEMMA CloseIInv == ASSUME IInv, Close PROVE IInv'
<1>1. /\ Unplug /\ buffer' = Remains
      /\ doubt' = doubt \cup Garbled \cup (IF pending # <<>> THEN {"orphans"} ELSE {})
      /\ UNCHANGED <<busy, told, connecting, waiting, pending>>
  BY DEF Close
<1>2. link' = "none" /\ greeted' = 0 /\ wire' = <<>> /\ inbound' = <<>>
  BY <1>1 DEF Unplug
<1>3. spent' \in Nat
  BY DisturbNat DEF Close, IInv
<1>4. Clean' /\ buffer' \in {"empty", "part", "number", "text", "error"}
  BY <1>1, RemainsClean
<1>5. TypeOK'
  <2>1. 0 \in 0 .. Handshake
    BY RateLimitAssumption
  <2>2. doubt' \subseteq {"orphans", "garbled"}
    BY <1>1 DEF IInv, TypeOK, Garbled
  <2> QED
    BY <1>1, <1>2, <1>3, <1>4, <2>1, <2>2, NothingQueued DEF IInv, TypeOK
<1>6. Queues'
  <2>1. Elements(waiting') = Elements(waiting) /\ Distinct(waiting')
    BY <1>1 DEF IInv, Queues
  <2>2. Elements(pending') = Elements(pending) /\ Distinct(pending')
    BY <1>1 DEF IInv, Queues
  <2> QED
    BY <1>1, <1>2, <2>1, <2>2 DEF IInv, Queues
<1>7. AtTheEnd'
  <2>1. Line' = Heard(inbound') \o wire'
    BY DEF Line
  <2>2. Line' = <<>> /\ pending' = pending /\ pending \in Seq(Commands)
    BY <1>1, <1>2, <2>1, NothingQueued, QueueTypes DEF IInv
  <2>3. Orphans' \/ pending = <<>>
    BY <1>1 DEF Orphans
  <2> QED
    BY <2>2, <2>3, NothingQueued DEF AtTheEnd
<1>8. FailClosed'
  BY <1>1 DEF IInv, FailClosed
<1> QED
  BY <1>4, <1>5, <1>6, <1>7, <1>8 DEF IInv

-----------------------------------------------------------------------------
(* The theorems                                                            *)

LEMMA NextIInv == ASSUME IInv, [Next]_vars PROVE IInv'
<1>1. CASE UNCHANGED vars
  <2>1. TypeOK'
    BY <1>1 DEF vars, IInv, TypeOK
  <2>2. Queues' /\ Clean' /\ FailClosed'
    BY <1>1 DEF vars, IInv, Queues, Clean, FailClosed, Elements, Distinct
  <2>3. AtTheEnd'
    BY <1>1 DEF vars, IInv, AtTheEnd, Line, Orphans, EndsWith
  <2> QED
    BY <2>1, <2>2, <2>3 DEF IInv
<1>2. CASE Next
  BY <1>2, CallIInv, ConnectedIInv, RefusedIInv, ExecuteIInv, SplitIInv, DataIInv,
     DataThrowsIInv, ResetIInv, CloseIInv DEF Next
<1> QED
  BY <1>1, <1>2

\* The invariant of the specification, for any callers and any handshake.
THEOREM Invariance == Spec => []IInv
<1>1. Init => IInv
  BY InitIInv
<1>2. IInv /\ [Next]_vars => IInv'
  BY NextIInv
<1> QED
  BY <1>1, <1>2, PTL DEF Spec

\* The state keeps its shape, and nothing is on its way without a socket.
THEOREM TypeCorrect == Spec => []TypeOK
<1>1. IInv => TypeOK
  BY DEF IInv
<1> QED
  BY <1>1, Invariance, PTL

\* Every call in the guard waits in one place, once.
THEOREM QueuedOnceHolds == Spec => []QueuedOnce
<1>1. ASSUME IInv PROVE QueuedOnce
  <2>1. PICK w \in Seq(Commands), p \in Seq(Commands) : w = waiting /\ p = pending
    BY <1>1, QueueTypes DEF IInv
  <2>2. CONNECT \notin Elements(w) /\ Distinct(w) /\ Distinct(p) /\ Elements(w) \cap Elements(p) = {}
    BY <1>1, <2>1, QueueTypes DEF IInv, Queues
  <2>3. Distinct(w \o p) /\ Elements(w \o p) = Elements(w) \cup Elements(p)
    BY <2>2, DistinctJoined, ElementsJoined
  <2>4. Elements(w) \cup (Elements(p) \ {CONNECT}) = busy
    BY <1>1, <2>1 DEF IInv, Queues
  <2>5. Elements(w \o p) \ {CONNECT} = busy
    BY <2>2, <2>3, <2>4
  <2> QED
    BY <2>1, <2>3, <2>5 DEF QueuedOnce, Distinct
<1> QED
  BY <1>1, Invariance, PTL

\* Replies and commands are in step until a connection is closed with orphans.
THEOREM RepliesInStepHolds == Spec => []RepliesInStep
<1>1. ASSUME IInv PROVE RepliesInStep
  <2>1. PICK p \in Seq(Commands), l \in Seq(Commands) : p = pending /\ l = Line
    BY <1>1, QueueTypes DEF IInv
  <2>2. EndsWith(p, l) /\ (Orphans \/ Len(p) = Len(l))
    BY <1>1, <2>1 DEF IInv, AtTheEnd
  <2>3. Orphans \/ p = l
    BY <2>2, EndIsAll
  <2> QED
    BY <2>1, <2>3 DEF RepliesInStep, Line, Heard
<1> QED
  BY <1>1, Invariance, PTL

\* A request passes only if Redis found that very call under the limit, unless a
\* connection ended inside a reply or with calls unanswered.
THEOREM FailClosedHolds == Spec => []FailClosed
<1>1. IInv => FailClosed
  BY DEF IInv
<1> QED
  BY <1>1, Invariance, PTL

-----------------------------------------------------------------------------
(* Who waits has something to wait for                                     *)

\* The part of NobodyHangs that is about the connection; what is pending follows
\* from IInv alone (Unanswered).
Waits ==
  \/ Orphans
  \/ /\ waiting # <<>> => connecting
     /\ connecting => link = "dialing" \/ CONNECT \in Elements(pending)

\* Without orphans what is pending is on the open socket, out or back.
LEMMA Unanswered ==
  ASSUME IInv, ~Orphans, link # "open"
  PROVE  pending = <<>>
<1>1. wire = <<>> /\ inbound = <<>>
  BY DEF IInv, TypeOK
<1>2. Len(Line) = 0
  BY <1>1, QueueTypes DEF IInv
<1>3. Len(pending) = 0 /\ pending \in Seq(Commands)
  BY <1>2, QueueTypes DEF IInv, AtTheEnd
<1> QED
  BY <1>3

\* A step of the handshake leaves a connect command behind, its end nobody waiting.
LEMMA ContinueWaits ==
  ASSUME NEW n, NEW p \in Seq(Commands), Continue(n, p)
  PROVE  \/ waiting' = <<>> /\ connecting' = FALSE
         \/ CONNECT \in Elements(pending') /\ UNCHANGED <<waiting, connecting>>
<1>1. CASE n < Handshake
  <2>1. pending' = p \o <<CONNECT>> /\ UNCHANGED <<waiting, connecting>>
    BY <1>1 DEF Continue
  <2>2. CONNECT \in Commands
    BY DEF Commands
  <2>3. PICK u \in Seq(Commands) : u = <<CONNECT>> /\ Elements(u) = {CONNECT}
    BY <2>2, Appended
  <2>4. Elements(p \o u) = Elements(p) \cup Elements(u)
    BY ElementsJoined
  <2> QED
    BY <2>1, <2>3, <2>4
<1>2. CASE ~(n < Handshake)
  BY <1>2 DEF Continue
<1> QED
  BY <1>1, <1>2

LEMMA CallWaits == ASSUME IInv, Waits, NEW c \in Callers, Call(c) PROVE Waits'
<1>1. UNCHANGED doubt
  BY DEF Call
<1>2. CASE link = "open"
  <2>1. pending' = Append(pending, c) /\ UNCHANGED <<link, connecting, waiting>>
    BY <1>2 DEF Call
  <2>2. pending \in Seq(Commands) /\ c \in Commands
    BY QueueTypes DEF IInv
  <2>3. PICK u \in Seq(Commands) : Append(pending, c) = pending \o u
    BY <2>2, Appended
  <2>4. Elements(pending) \subseteq Elements(pending')
    BY <2>1, <2>2, <2>3, ElementsJoined
  <2> QED
    BY <1>1, <2>1, <2>4 DEF Waits, Orphans
<1>3. CASE link # "open"
  <2>1. connecting' = TRUE /\ link' = (IF connecting THEN link ELSE "dialing") /\ UNCHANGED pending
    BY <1>3 DEF Call
  <2> QED
    BY <1>1, <2>1 DEF Waits, Orphans, Elements
<1> QED
  BY <1>2, <1>3

LEMMA DataWaits == ASSUME IInv, Waits, Data PROVE Waits'
<1>1. inbound # <<>> /\ UNCHANGED <<link, doubt>>
  BY DEF Data
<1>2. pending # <<>> /\ pending \in Seq(Commands) /\ Tail(pending) \in Seq(Commands)
  BY <1>1, Matched, QueueTypes DEF IInv
<1>3. CASE Head(pending) = CONNECT
  <2>1. Continue(greeted, Tail(pending))
    BY <1>3 DEF Data
  <2>2. connecting
    BY <1>2, <1>3, Shifted DEF IInv, Queues
  <2> QED
    BY <1>2, <2>1, <2>2, ContinueWaits DEF Waits
<1>4. CASE Head(pending) # CONNECT
  <2>1. pending' = Tail(pending) /\ UNCHANGED <<waiting, connecting>>
    BY <1>4 DEF Data
  <2>2. Elements(Tail(pending)) = Elements(pending) \ {Head(pending)}
    BY <1>2, Shifted DEF IInv, Queues
  <2>3. CONNECT \in Elements(pending) => CONNECT \in Elements(pending')
    BY <1>4, <2>1, <2>2
  <2> QED
    BY <1>1, <2>1, <2>3 DEF Waits, Orphans
<1> QED
  BY <1>3, <1>4

\* With a connect command what is rejected includes those who wait for it.
LEMMA RejectWaits ==
  ASSUME Waits, link = "open", RejectPending, doubt \subseteq doubt'
  PROVE  Waits'
<1>1. CASE Orphans
  BY <1>1 DEF Waits, Orphans
<1>2. CASE CONNECT \in Elements(pending)
  BY <1>2 DEF RejectPending, Waits
<1>3. CASE ~Orphans /\ CONNECT \notin Elements(pending)
  <2>1. ~connecting /\ waiting = <<>>
    BY <1>3 DEF Waits
  <2> QED
    BY <1>3, <2>1 DEF RejectPending, Waits
<1> QED
  BY <1>1, <1>2, <1>3

LEMMA CloseWaits == ASSUME IInv, Waits, Close PROVE Waits'
<1>1. /\ link = "open" /\ UNCHANGED <<connecting, waiting>>
      /\ doubt' = doubt \cup Garbled \cup (IF pending # <<>> THEN {"orphans"} ELSE {})
  BY DEF Close
<1>2. CASE Orphans \/ pending # <<>>
  BY <1>1, <1>2 DEF Waits, Orphans
<1>3. CASE ~Orphans /\ pending = <<>>
  <2>1. ~connecting /\ waiting = <<>>
    BY <1>1, <1>3, NothingQueued DEF Waits
  <2> QED
    BY <1>1, <2>1 DEF Waits
<1> QED
  BY <1>2, <1>3

LEMMA NextWaits == ASSUME IInv, Waits, [Next]_vars PROVE Waits'
<1>1. ASSUME NEW c \in Callers, Call(c) PROVE Waits'
  BY <1>1, CallWaits
<1>2. CASE Connected
  <2>1. Continue(0, pending) /\ pending \in Seq(Commands) /\ connecting /\ UNCHANGED doubt
    BY <1>2, QueueTypes DEF Connected, IInv, Queues
  <2> QED
    BY <2>1, ContinueWaits DEF Waits
<1>3. CASE Refused
  BY <1>3 DEF Refused, Waits
<1>4. CASE Execute \/ Split \/ UNCHANGED vars
  <2>1. UNCHANGED <<waiting, connecting, link, pending, doubt>>
    BY <1>4 DEF Execute, Split, vars
  <2> QED
    BY <2>1 DEF Waits, Orphans, Elements
<1>5. CASE Data
  BY <1>5, DataWaits
<1>6. CASE DataThrows
  <2>1. link = "open" /\ RejectPending /\ UNCHANGED doubt
    BY <1>6 DEF DataThrows, IInv, TypeOK
  <2> QED
    BY <2>1, RejectWaits
<1>7. CASE Reset
  <2>1. link = "open" /\ RejectPending /\ doubt \subseteq doubt'
    BY <1>7 DEF Reset
  <2> QED
    BY <2>1, RejectWaits
<1>8. CASE Close
  BY <1>8, CloseWaits
<1> QED
  BY <1>1, <1>2, <1>3, <1>4, <1>5, <1>6, <1>7, <1>8 DEF Next

\* Nobody hangs: who waits has a dial or a connect command to wait for, and what
\* is pending an open socket, unless a connection was closed with calls unanswered.
THEOREM NobodyHangsHolds == Spec => []NobodyHangs
<1>1. Init => Waits
  BY DEF Init, Waits
<1>2. IInv /\ Waits /\ [Next]_vars => Waits'
  BY NextWaits
<1>3. ASSUME IInv, Waits PROVE NobodyHangs
  BY <1>3, Unanswered DEF Waits, NobodyHangs
<1> QED
  BY <1>1, <1>2, <1>3, Invariance, PTL DEF Spec
================================================================================
