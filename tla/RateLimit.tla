-------------------------------- MODULE RateLimit --------------------------------
(***************************************************************************)
(* The admin rate limit of one order-service replica on Redis: the guard    *)
(* and the hand-written client behind it. Calls share one connection; its   *)
(* replies are matched to the commands by position alone.                   *)
(*                                                                         *)
(* The script that increments and expires a key is atomic in Redis, so what *)
(* other replicas and the window do to the counter is left to chance: Redis *)
(* finds a call under the limit or over it.                                 *)
(***************************************************************************)
EXTENDS Integers, Sequences

CONSTANTS
  Callers,   \* admin requests that may be in the guard at a time
  Handshake, \* how many commands a connection starts with: AUTH, SELECT
  CONNECT,   \* such a command
  Possible,  \* the disturbances of this instance
  Limit      \* how many of them, of whatever kinds, a behaviour may contain

Disturbances == {"refused", "reset", "close", "errorReply", "split"}

ASSUME RateLimitAssumption ==
  /\ CONNECT \notin Callers /\ Handshake \in 0 .. 2
  /\ Possible \subseteq Disturbances /\ Limit \in Nat

Commands == Callers \cup {CONNECT}

\* What Redis says: a counter under the limit or over it, OK, or an error.
Reply == [to : Commands, says : {"under", "over", "ok", "error"}]

\* What a call is told if not that: a number that is none, or no number at all.
NaN     == [to |-> CONNECT, says |-> "nan"]
Refusal == [to |-> CONNECT, says |-> "refused"]
Nothing == [to |-> CONNECT, says |-> "nothing"]

VARIABLES
  busy,       \* callers in the guard
  told,       \* caller -> what its last call was told
  link,       \* the socket
  connecting, \* connectPromise is set
  waiting,    \* callers that await connectPromise, in order
  greeted,    \* connect commands sent on this connection
  pending,    \* commands that await a reply, in order
  wire,       \* commands on their way to Redis
  inbound,    \* replies on their way back
  buffer,     \* what earlier chunks left: nothing, a part of the next reply, a part
              \* of a number or a text whose connection is gone, or an error
  doubt,      \* ways a connection ended: with commands unanswered, inside a reply
  spent       \* disturbances so far

vars == <<busy, told, link, connecting, waiting, greeted, pending, wire, inbound, buffer, doubt, spent>>

-----------------------------------------------------------------------------
Disturb(d) == d \in Possible /\ spent < Limit /\ spent' = spent + 1

Elements(s) == {s[i] : i \in DOMAIN s}

Init ==
  /\ busy = {} /\ told = [c \in Callers |-> Nothing]
  /\ link = "none" /\ connecting = FALSE /\ waiting = <<>> /\ greeted = 0
  /\ pending = <<>> /\ wire = <<>> /\ inbound = <<>> /\ buffer = "empty"
  /\ doubt = {} /\ spent = 0

\* A caller whose socket is open sends at once, even in the handshake; others
\* await connectPromise, the first of them having set it.
Call(c) ==
  /\ c \notin busy
  /\ busy' = busy \cup {c}
  /\ told' = [told EXCEPT ![c] = Nothing]
  /\ IF link = "open"
     THEN /\ pending' = Append(pending, c)
          /\ wire' = Append(wire, c)
          /\ UNCHANGED <<link, connecting, waiting>>
     ELSE /\ waiting' = Append(waiting, c)
          /\ connecting' = TRUE
          /\ link' = IF connecting THEN link ELSE "dialing"
          /\ UNCHANGED <<pending, wire>>
  /\ UNCHANGED <<greeted, inbound, buffer, doubt, spent>>

\* The guard answers callers: it lets the request pass or responds 429.
Answer(callers, reply) ==
  /\ busy' = busy \ callers
  /\ told' = [c \in Callers |-> IF c \in callers THEN reply ELSE told[c]]

\* Mutant: only the caller that dialled goes on.
FirstOfWaiting == SubSeq(waiting, 1, 1)

\* The callers that go on when connectPromise resolves.
Released == waiting

\* After n commands of runConnectCommands: the next one, or everyone who waits.
Continue(n, stillPending) ==
  LET commands == IF n < Handshake THEN <<CONNECT>> ELSE Released
  IN  /\ pending' = stillPending \o commands
      /\ wire' = wire \o commands
      /\ greeted' = IF n < Handshake THEN n + 1 ELSE n
      /\ IF n < Handshake THEN UNCHANGED <<waiting, connecting>>
                          ELSE waiting' = <<>> /\ connecting' = FALSE

Connected ==
  /\ link = "dialing"
  /\ link' = "open"
  /\ Continue(0, pending)
  /\ UNCHANGED <<busy, told, inbound, buffer, doubt, spent>>

\* Mutant: connectPromise is cleared when it resolves, not in a finally.
RefusedKeepingPromise ==
  /\ link = "dialing"
  /\ link' = "none"
  /\ Answer(Elements(waiting), Refusal)
  /\ waiting' = <<>>
  /\ Disturb("refused")
  /\ UNCHANGED <<connecting, greeted, pending, wire, inbound, buffer, doubt>>

\* onConnectError.
Refused ==
  /\ link = "dialing"
  /\ link' = "none"
  /\ Answer(Elements(waiting), Refusal)
  /\ waiting' = <<>> /\ connecting' = FALSE
  /\ Disturb("refused")
  /\ UNCHANGED <<greeted, pending, wire, inbound, buffer, doubt>>

\* Redis runs the next command.
Execute ==
  /\ wire # <<>>
  /\ wire' = Tail(wire)
  /\ \E says \in {"under", "over", "ok", "error"} :
       /\ says = "ok" => Head(wire) = CONNECT
       /\ says \in {"under", "over"} => Head(wire) \in Callers
       /\ inbound' = Append(inbound, [to |-> Head(wire), says |-> says])
       /\ IF says = "error" THEN Disturb("errorReply") ELSE UNCHANGED spent
  /\ UNCHANGED <<busy, told, link, connecting, waiting, greeted, pending, buffer, doubt>>

\* A chunk ends inside the next reply.
Split ==
  /\ inbound # <<>> /\ buffer = "empty"
  /\ buffer' = "part"
  /\ Disturb("split")
  /\ UNCHANGED <<busy, told, link, connecting, waiting, greeted, pending, wire, inbound, doubt>>

\* parseRedisReply throws on an error, and leaves it in the buffer.
Throws ==
  \/ buffer = "error"
  \/ buffer \in {"empty", "part"} /\ Head(inbound).says = "error"

\* What it returns otherwise: a part left by another connection spoils the next.
Parsed ==
  CASE buffer = "number" -> NaN
    [] buffer = "text"   -> [to |-> CONNECT, says |-> "ok"]
    [] OTHER             -> Head(inbound)

\* evalNumber refuses a reply that is no number; NaN is one.
Tell(reply) == IF reply.says = "ok" THEN Refusal ELSE reply

\* onData for one reply: it goes to the command that has waited longest.
Data ==
  /\ inbound # <<>> /\ ~Throws
  /\ inbound' = Tail(inbound) /\ buffer' = "empty"
  /\ IF Head(pending) = CONNECT
     THEN /\ Continue(greeted, Tail(pending))
          /\ UNCHANGED <<busy, told>>
     ELSE /\ pending' = Tail(pending)
          /\ Answer({Head(pending)}, Tell(Parsed))
          /\ UNCHANGED <<connecting, waiting, greeted, wire>>
  /\ UNCHANGED <<link, doubt, spent>>

\* Mutant: the error listener drops the socket and leaves the promises to it.
LeavePending == UNCHANGED <<busy, told, waiting, connecting, pending>>

\* Mutant: a rejected connect command does not reject connectPromise.
RejectCallersOnly ==
  /\ Answer(Elements(pending) \ {CONNECT}, Refusal)
  /\ pending' = <<>>
  /\ UNCHANGED <<waiting, connecting>>

\* rejectPending. A connect command among them rejects connectPromise as well.
RejectPending ==
  LET callers == Elements(pending) \ {CONNECT}
      connect == CONNECT \in Elements(pending)
  IN  /\ Answer(callers \cup IF connect THEN Elements(waiting) ELSE {}, Refusal)
      /\ waiting' = IF connect THEN <<>> ELSE waiting
      /\ connecting' = (connecting /\ ~connect)
      /\ pending' = <<>>

\* What becomes of the socket and of the bytes on their way.
Unplug ==
  /\ link' = "none" /\ greeted' = 0
  /\ wire' = <<>> /\ inbound' = <<>>

\* What stays in the buffer when the connection ends inside a reply.
Remains ==
  IF buffer # "part" THEN buffer
  ELSE CASE Head(inbound).says = "error" -> "error"
         [] Head(inbound).says = "ok"    -> "text"
         [] OTHER                        -> "number"

\* A part of a reply the next connection will take for its own.
Garbled == IF Remains \in {"number", "text"} THEN {"garbled"} ELSE {}

\* onData's catch.
DataThrows ==
  /\ inbound # <<>> /\ Throws
  /\ RejectPending /\ Unplug
  /\ buffer' = "error"
  /\ UNCHANGED <<doubt, spent>>

\* The connection breaks with an error.
Reset ==
  /\ link = "open"
  /\ RejectPending /\ Unplug
  /\ buffer' = Remains
  /\ doubt' = doubt \cup Garbled
  /\ Disturb("reset")

\* Redis closes it. Nobody looks at the commands it did not answer.
Close ==
  /\ link = "open"
  /\ Unplug
  /\ buffer' = Remains
  /\ doubt' = doubt \cup Garbled \cup (IF pending # <<>> THEN {"orphans"} ELSE {})
  /\ Disturb("close")
  /\ UNCHANGED <<busy, told, connecting, waiting, pending>>

Next ==
  \/ \E c \in Callers : Call(c)
  \/ Connected \/ Refused \/ Execute \/ Split \/ Data \/ DataThrows \/ Reset \/ Close

Spec == Init /\ [][Next]_vars

\* Redis answers, a dial ends, and whoever was refused asks again.
Fairness ==
  /\ WF_vars(Connected) /\ WF_vars(Execute) /\ WF_vars(Data \/ DataThrows)
  /\ \A c \in Callers : WF_vars(Call(c))

FairSpec == Spec /\ Fairness

-----------------------------------------------------------------------------
(* Properties                                                              *)

Orphans == "orphans" \in doubt

\* Shape of the state. The socket is there when something is on its way.
TypeOK ==
  /\ busy \subseteq Callers
  /\ told \in [Callers -> Reply \cup {NaN, Refusal, Nothing}]
  /\ link \in {"none", "dialing", "open"} /\ connecting \in BOOLEAN
  /\ waiting \in Seq(Callers) /\ pending \in Seq(Commands) /\ wire \in Seq(Commands)
  /\ inbound \in Seq(Reply)
  /\ greeted \in 0 .. Handshake
  /\ buffer \in {"empty", "part", "number", "text", "error"}
  /\ doubt \subseteq {"orphans", "garbled"} /\ spent \in Nat
  /\ link # "open" => wire = <<>> /\ inbound = <<>>

\* Every call in the guard waits in one place, once: for the connection or for a
\* reply. None is forgotten and none is answered twice, however dials and
\* connections end.
QueuedOnce ==
  LET places == waiting \o pending
  IN  /\ \A i, j \in DOMAIN places : places[i] = places[j] => i = j
      /\ Elements(places) \ {CONNECT} = busy

\* The commands that await a reply are, in order, those of the replies on their
\* way and of the commands still to be run, unless a connection was closed with
\* some unanswered: from then on every call gets the reply of a later one.
RepliesInStep ==
  Orphans \/ pending = [i \in DOMAIN inbound |-> inbound[i].to] \o wire

\* Nobody hangs: a caller that waits for the connection has a dial under way or a
\* connect command to be answered, and what is to be answered has an open socket
\* to come by, unless a connection was closed with calls unanswered.
NobodyHangs ==
  \/ Orphans
  \/ /\ waiting # <<>> => connecting
     /\ connecting => link = "dialing" \/ CONNECT \in Elements(pending)
     /\ pending # <<>> => link = "open"

\* Fail closed: a request passes only if Redis found that very call under the
\* limit. It may pass otherwise after a connection that ended inside a reply
\* (the next number is garbled, NaN > max is false) or left calls unanswered.
FailClosed ==
  \A c \in Callers :
    told[c].says \in {"under", "nan"} =>
      told[c] = [to |-> c, says |-> "under"] \/ doubt # {}

\* Every call is answered, after a close that orphaned calls perhaps never.
EveryCallSettles == \A c \in Callers : c \in busy ~> (c \notin busy \/ Orphans)

\* Whoever was refused is let in or limited by the counter later, but for an error
\* reply, which stays in the buffer for good, and the endings in doubt.
RefusalEnds ==
  \A c \in Callers :
    told[c] = Refusal ~> (told[c].says \in {"under", "over"} \/ buffer = "error" \/ doubt # {})

\* Violated. admin-rate-limit.store.ts:52 says that 429 is returned temporarily
\* while Redis is unavailable: after one error reply it is returned for ever.
TemporarilyRefused ==
  \A c \in Callers : told[c] = Refusal ~> told[c].says \in {"under", "over"}
================================================================================
