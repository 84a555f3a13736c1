----------------------------- MODULE PeersLock -----------------------------
(***************************************************************************)
(* The async mutex around the peers map (S2sManager.peers) and the bounded *)
(* channels that are awaited while it is held.  One server and its peers:  *)
(* the handler of each link registers, says Hello and cleans up under the  *)
(* lock; the broadcast worker and the event processor send under it; the   *)
(* readers fill the event channel that only the event processor empties.   *)
(*                                                                         *)
(* Only who waits for whom is modelled: a channel is the number of         *)
(* messages in it, and an event is either one the processor answers under  *)
(* the lock (a Hello, a catch-up request, a CRDT sync) or one it handles   *)
(* without it.  A peer need not read its stream: its reader may be parked  *)
(* on its own full event channel while its keep-alives hold the link up,   *)
(* and flow control then stops our writer.  A writer on a dead link ends   *)
(* by the idle timeout.                                                    *)
(***************************************************************************)
EXTENDS Naturals, Sequences

CONSTANTS
  Peers,
  None,          \* no peer
  EventCap,      \* the capacity of the event channel (1024 in the code)
  WriteCap,      \* of a link's write channel (256 in the code)
  StreamCap,     \* what flow control lets a peer leave unread
  MaxMessages,   \* bound: messages the peers send
  MaxLinks       \* bound: links that come up

ASSUME PeersLockAssumption ==
  /\ {EventCap, WriteCap, StreamCap} \subseteq Nat \ {0} /\ {MaxMessages, MaxLinks} \subseteq Nat
  /\ None \notin Peers

VARIABLES
  lock,      \* who holds the mutex: "free", "handler", "worker", "processor"
  handler,   \* per peer: where the handler of its link is
  dead,      \* per peer: its link is dead
  entry,     \* the peers in the map
  room,      \* per peer: the messages in its link's write channel
  stream,    \* per peer: the messages written that it has not read
  evq,       \* the event channel: who each event is from, and its kind
  proc,      \* the peer whose event the processor answers, or None
  audience,  \* the peers the broadcast worker has yet to send to
  worker,    \* "idle", "want" or "send"
  messages, links  \* how many there have been

vars == <<lock, handler, dead, entry, room, stream, evq, proc, audience, worker, messages, links>>

Init ==
  /\ lock = "free" /\ entry = {} /\ evq = << >> /\ proc = None
  /\ handler = [p \in Peers |-> "down"] /\ dead = [p \in Peers |-> FALSE]
  /\ room = [p \in Peers |-> 0] /\ stream = [p \in Peers |-> 0]
  /\ worker = "idle" /\ audience = {} /\ messages = 0 /\ links = 0

Acquire(who) == lock = "free" /\ lock' = who
Release(who) == lock = who /\ lock' = "free"

\* tx.send(..).await returns when there is room, or at once with an error when
\* the link's writer is gone.  A peer without an entry is not sent to.
SendReturnsAlways(p) == TRUE
SendReturnsOnRoom(p) == p \in entry => room[p] < WriteCap
SendReturns(p) == p \in entry => dead[p] \/ room[p] < WriteCap
RoomAfter(p) ==
  IF p \in entry /\ ~ dead[p] THEN [room EXCEPT ![p] = @ + 1] ELSE room

-----------------------------------------------------------------------------
\* The handler of a link.

Register(p) ==
  /\ handler[p] = "down" /\ links < MaxLinks /\ lock = "free"
  /\ links' = links + 1
  /\ entry' = entry \cup {p}
  /\ handler' = [handler EXCEPT ![p] = "greet"]
  /\ dead' = [dead EXCEPT ![p] = FALSE] /\ room' = [room EXCEPT ![p] = 0]
  /\ stream' = [stream EXCEPT ![p] = 0]
  /\ UNCHANGED <<lock, evq, proc, audience, worker, messages>>

GreetLocks(p) ==
  /\ handler[p] = "greet" /\ Acquire("handler")
  /\ handler' = [handler EXCEPT ![p] = "hello"]
  /\ UNCHANGED <<stream, dead, entry, room, evq, proc, audience, worker, messages, links>>

Greet(p) ==
  /\ handler[p] = "hello" /\ SendReturns(p) /\ Release("handler")
  /\ room' = RoomAfter(p)
  /\ handler' = [handler EXCEPT ![p] = "live"]
  /\ UNCHANGED <<stream, dead, entry, evq, proc, audience, worker, messages, links>>

\* The connection dies: the idle timeout ends the reader and the writer.
LinkDies(p) ==
  /\ handler[p] # "down" /\ ~ dead[p]
  /\ dead' = [dead EXCEPT ![p] = TRUE]
  /\ UNCHANGED <<stream, lock, handler, entry, room, evq, proc, audience, worker, messages, links>>

\* The cleanup takes the entry out, then waits for room in the event channel,
\* and holds the lock all the while.
CleanupLocks(p) ==
  /\ handler[p] = "live" /\ dead[p] /\ Acquire("handler")
  /\ entry' = entry \ {p}
  /\ handler' = [handler EXCEPT ![p] = "notice"]
  /\ UNCHANGED <<stream, dead, room, evq, proc, audience, worker, messages, links>>

PeerDisconnected(p) ==
  /\ handler[p] = "notice" /\ Len(evq) < EventCap /\ Release("handler")
  /\ evq' = Append(evq, [from |-> p, kind |-> "plain"])
  /\ handler' = [handler EXCEPT ![p] = "down"]
  /\ UNCHANGED <<stream, dead, entry, room, proc, audience, worker, messages, links>>

-----------------------------------------------------------------------------
\* A link's reader and writer.

Read(p) ==
  /\ handler[p] = "live" /\ ~ dead[p]
  /\ Len(evq) < EventCap /\ messages < MaxMessages
  /\ messages' = messages + 1
  /\ \E kind \in {"answered", "plain"} : evq' = Append(evq, [from |-> p, kind |-> kind])
  /\ UNCHANGED <<stream, lock, handler, dead, entry, room, proc, audience, worker, links>>

\* write_all waits for the peer: flow control leaves only so much unread.
CanWrite(p) == room[p] > 0 /\ ~ dead[p] /\ stream[p] < StreamCap
Write(p) ==
  /\ CanWrite(p)
  /\ room' = [room EXCEPT ![p] = @ - 1] /\ stream' = [stream EXCEPT ![p] = @ + 1]
  /\ UNCHANGED <<lock, handler, dead, entry, evq, proc, audience, worker, messages, links>>

\* The peer's reader takes a message, when its own event channel lets it.
PeerReads(p) ==
  /\ stream[p] > 0 /\ ~ dead[p]
  /\ stream' = [stream EXCEPT ![p] = @ - 1]
  /\ UNCHANGED <<lock, handler, dead, entry, room, evq, proc, audience, worker, messages, links>>

-----------------------------------------------------------------------------
\* The broadcast worker: every peer in the map in turn, under the lock.

Broadcast ==
  /\ worker = "idle" /\ worker' = "want"
  /\ UNCHANGED <<stream, lock, handler, dead, entry, room, evq, proc, audience, messages, links>>

WorkerLocks ==
  /\ worker = "want" /\ Acquire("worker")
  /\ worker' = "send" /\ audience' = entry
  /\ UNCHANGED <<stream, handler, dead, entry, room, evq, proc, messages, links>>

WorkerSends ==
  /\ worker = "send"
  /\ \E p \in audience :
       /\ SendReturns(p) /\ room' = RoomAfter(p) /\ audience' = audience \ {p}
  /\ UNCHANGED <<stream, lock, handler, dead, entry, evq, proc, worker, messages, links>>

WorkerUnlocks ==
  /\ worker = "send" /\ audience = {} /\ Release("worker")
  /\ worker' = "idle"
  /\ UNCHANGED <<stream, handler, dead, entry, room, evq, proc, audience, messages, links>>

-----------------------------------------------------------------------------
\* The event processor.

Process ==
  /\ proc = None /\ evq # << >>
  /\ evq' = Tail(evq)
  /\ proc' = IF Head(evq).kind = "answered" THEN Head(evq).from ELSE None
  /\ UNCHANGED <<stream, lock, handler, dead, entry, room, audience, worker, messages, links>>

ProcessorLocks ==
  /\ proc # None /\ Acquire("processor")
  /\ UNCHANGED <<stream, handler, dead, entry, room, evq, proc, audience, worker, messages, links>>

Answer ==
  /\ proc # None /\ SendReturns(proc) /\ Release("processor")
  /\ room' = RoomAfter(proc) /\ proc' = None
  /\ UNCHANGED <<stream, handler, dead, entry, evq, audience, worker, messages, links>>

-----------------------------------------------------------------------------
Next ==
  \/ \E p \in Peers :
       \/ Register(p) \/ GreetLocks(p) \/ Greet(p) \/ LinkDies(p)
       \/ CleanupLocks(p) \/ PeerDisconnected(p) \/ Read(p) \/ Write(p) \/ PeerReads(p)
  \/ Broadcast \/ WorkerLocks \/ WorkerSends \/ WorkerUnlocks
  \/ Process \/ ProcessorLocks \/ Answer

\* Tasks run.  The mutex is fair (tokio hands it on in the order it was asked
\* for), so whoever asks again and again for a lock that is again and again
\* free gets it.  No link is obliged to come up or die, no peer or client to
\* speak, and no peer to read.
Fairness ==
  /\ \A p \in Peers :
       /\ SF_vars(GreetLocks(p)) /\ WF_vars(Greet(p))
       /\ SF_vars(CleanupLocks(p)) /\ WF_vars(PeerDisconnected(p))
       /\ WF_vars(Write(p))
  /\ SF_vars(WorkerLocks) /\ WF_vars(WorkerSends) /\ WF_vars(WorkerUnlocks)
  /\ WF_vars(Process) /\ SF_vars(ProcessorLocks) /\ WF_vars(Answer)
Spec == Init /\ [][Next]_vars /\ Fairness

\* The same with peers that go on reading.
ReadingSpec == Spec /\ \A p \in Peers : WF_vars(PeerReads(p))

-----------------------------------------------------------------------------
\* Every variable has its type; no channel holds more than its capacity.
TypeOK ==
  /\ lock \in {"free", "handler", "worker", "processor"}
  /\ handler \in [Peers -> {"down", "greet", "hello", "live", "notice"}]
  /\ dead \in [Peers -> BOOLEAN] /\ entry \subseteq Peers
  /\ room \in [Peers -> 0 .. WriteCap] /\ stream \in [Peers -> 0 .. StreamCap]
  /\ evq \in Seq([from: Peers, kind: {"answered", "plain"}]) /\ Len(evq) <= EventCap
  /\ proc \in Peers \cup {None} /\ audience \subseteq Peers
  /\ worker \in {"idle", "want", "send"} /\ {messages, links} \subseteq Nat

\* The two ways to hold the lock for ever.  Circle: a cleanup waits for room in
\* the event channel while the processor, the only one to empty it, waits for
\* the lock (the end of handle_s2s_connection, and send_to_linked_peer).
\* Unread: a link is up, but its peer has stopped reading and the stream and
\* the write channel are full.
Circle ==
  /\ lock = "handler" /\ \E p \in Peers : handler[p] = "notice"
  /\ Len(evq) = EventCap /\ proc # None
Unread(p) ==
  p \in entry /\ ~ dead[p] /\ room[p] = WriteCap /\ stream[p] = StreamCap

\* Whom the holder of the lock is sending to.
SendingTo ==
  CASE lock = "worker" -> audience
    [] lock = "processor" -> {proc}
    [] OTHER -> {p \in Peers : handler[p] = "hello"}

\* Whoever holds the lock gets to release it: a send to a peer returns, or its
\* link's writer is there to make room; a cleanup finds room for its notice, or
\* the processor is there to make some.  There are two exceptions, whatever the
\* capacities: the circle of a cleanup and the processor, and a send to a peer
\* that does not read (broadcast_to_peers, send_to_linked_peer and
\* handle_s2s_connection in s2s.rs).
Returns(p) == SendReturns(p) \/ CanWrite(p)
HolderMoves ==
  CASE lock = "worker" -> worker = "send" /\ \A p \in audience : Returns(p)
    [] lock = "processor" -> proc # None /\ Returns(proc)
    [] OTHER -> \E p \in Peers :
         \/ handler[p] = "hello" /\ Returns(p)
         \/ handler[p] = "notice" /\ (Len(evq) < EventCap \/ proc = None)
StuckForTwoReasons ==
  lock # "free" /\ ~ HolderMoves => Circle \/ \E p \in SendingTo : Unread(p)

\* A dead link leaves the peers map (duplicate_link_wins: "Yielding is safe only
\* because a dead connection leaves the peers map within `S2S_MAX_IDLE`").
DeadLinkLeaves == \A p \in Peers : dead[p] ~> p \notin entry

\* What the code does guarantee of it: a dead link leaves the map unless the
\* tasks end up in the circle, or some live peer stops reading for good.
StuckForGood == <>[]Circle \/ \E p \in Peers : <>[]Unread(p)
DeadLinkLeavesUnlessStuck == DeadLinkLeaves \/ StuckForGood

\* With the same two exceptions the lock is always released again, so whoever
\* waits for it gets on (every task of the federation takes it): a send to a
\* link that dies while it waits (broadcast_to_peers) ends with the link.
LockIsHandedOn == []<>(lock = "free") \/ StuckForGood
=============================================================================
