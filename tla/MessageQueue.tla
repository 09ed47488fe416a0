---------------------------- MODULE MessageQueue ----------------------------
(***************************************************************************)
(* What the Looper's message API promises its callers, without envelopes,  *)
(* locks, wake descriptors or the poll loop: a set of pending messages,    *)
(* each with the uptime it is due at and its sending number. A message is  *)
(* delivered only once it is due, and only when no pending message comes   *)
(* before it (an earlier uptime, or the same uptime sent earlier). A due   *)
(* message is eventually delivered. removeMessages withdraws every pending *)
(* message of a handler (and what).                                        *)
(*                                                                         *)
(* Looper.tla implements this specification; the mapping is AbsQueue in   *)
(* Looper.tla.                                                             *)
(***************************************************************************)
EXTENDS Naturals

CONSTANTS
  Handlers,  \* message handlers
  Whats,     \* Message.what values
  Uptimes    \* the uptimes a message may be sent for

VARIABLES
  pending,   \* the messages sent and neither delivered nor removed
  nextId,    \* the sending number of the next message
  now        \* the monotonic clock

mqVars == <<pending, nextId, now>>

Msg == [id : Nat \ {0}, uptime : Uptimes, handler : Handlers, what : Whats]

\* m is delivered before o: an earlier uptime, or the same one sent first.
Precedes(m, o) ==
  \/ m.uptime < o.uptime
  \/ m.uptime = o.uptime /\ m.id < o.id

Init == pending = {} /\ nextId = 1 /\ now = 0

\* sendMessage / sendMessageDelayed / sendMessageAtTime.
Post(uptime, h, w) ==
  /\ pending' = pending \cup {[id |-> nextId, uptime |-> uptime,
                              handler |-> h, what |-> w]}
  /\ nextId' = nextId + 1
  /\ UNCHANGED now

\* removeMessages(handler) (w = "any") and removeMessages(handler, what).
Remove(h, w) ==
  /\ pending' = {m \in pending : ~(m.handler = h /\ (w = "any" \/ m.what = w))}
  /\ UNCHANGED <<nextId, now>>

\* handleMessage is called for m.
Deliver(m) ==
  /\ m \in pending /\ m.uptime <= now
  /\ \A o \in pending \ {m} : Precedes(m, o)
  /\ pending' = pending \ {m}
  /\ UNCHANGED <<nextId, now>>

Tick == now' = now + 1 /\ UNCHANGED <<pending, nextId>>

Next ==
  \/ \E u \in Uptimes, h \in Handlers, w \in Whats : Post(u, h, w)
  \/ \E h \in Handlers, w \in Whats \cup {"any"} : Remove(h, w)
  \/ \E m \in pending : Deliver(m)
  \/ Tick

\* The loop thread keeps polling, so a due message does not stay pending.
Spec == Init /\ [][Next]_mqVars /\ WF_mqVars(\E m \in pending : Deliver(m))

TypeOK == pending \subseteq Msg /\ nextId \in Nat \ {0} /\ now \in Nat

=============================================================================
