----------------------------- MODULE EventRelay -----------------------------
(***************************************************************************)
(* How an event travels from one server to a peer (s2s.rs): an ID is       *)
(* minted from an atomic counter, the event goes through the broadcast     *)
(* queue and its one worker, or straight to the link, over the link's      *)
(* stream and the peer's event channel, to the DedupSet that admits or     *)
(* refuses it.  One direction of one pair of servers; the receiver is a    *)
(* peer the sender may relay to, with every capability its events need.    *)
(*                                                                         *)
(* An event is the incarnation of the process that minted it and its       *)
(* counter.  The receiver sees the counter alone.                          *)
(***************************************************************************)
EXTENDS Naturals, Sequences, FiniteSets

CONSTANTS
  Clients,        \* the tasks that broadcast: client connections
  Senders,        \* the tasks that send straight to a peer: routes, receipts
  BroadcastCap,   \* the capacity of the broadcast queue (1024 in the code)
  LinkCap,        \* of a link's write channel (256)
  EventCap,       \* of the event channel (1024)
  DedupCapacity,  \* of a peer's ring buffer
  Slots, None,    \* connections, and no connection
  MaxEvents, MaxLinks, MaxRestarts \* bounds on events, connections, restarts

Worker == "worker"

ASSUME EventRelayAssumption ==
  /\ None \notin Slots /\ Clients \cap Senders = {} /\ Senders \cap {Worker, "free"} = {}
  /\ {BroadcastCap, LinkCap, EventCap, DedupCapacity} \subseteq Nat \ {0}
  /\ {MaxEvents, MaxLinks, MaxRestarts} \subseteq Nat

VARIABLES
  run,       \* the sender's incarnation
  counter,   \* the sender's event_counter
  held,      \* per task: the event it has minted and not yet handed on, or None
  queue,     \* the broadcast queue
  hand,      \* what the broadcast worker is sending: at most one event
  peers,     \* who holds the sender's peers lock: "free", "worker" or a sender
  out,       \* the sender's entry for the receiver
  in,        \* the receiver's entry for the sender
  links,     \* how many connections there have been
  pipe,      \* per connection: its write channel, its stream, its line reader
  evq,       \* the receiver's event channel
  mark,      \* the receiver's high_water for the sender, 0 for none
  seen,      \* its seen IDs of the sender
  order,     \* the order they came in
  checking,  \* the event past the mark and not yet looked up: at most one
  forgetting, \* the part of the DedupSet that remove_peer takes next, or "no"
  kept,      \* history: the events admitted since the last forgetting began
  old,       \* history: those of them from before the one under way
  refused    \* history: the event the DedupSet has just turned away, or None

senderVars == <<run, counter, held, queue, hand, peers>>
receiverVars == <<mark, seen, order, checking, forgetting, kept, old, refused>>
vars == <<senderVars, out, in, links, pipe, evq, receiverVars>>

Tasks == Clients \cup Senders

Init ==
  /\ run = 1 /\ counter = 1
  /\ held = [t \in Tasks |-> None] /\ queue = << >> /\ hand = << >> /\ peers = "free"
  /\ out = None /\ in = None /\ links = 0
  /\ pipe = [c \in Slots |-> << >>] /\ evq = << >>
  /\ mark = 0 /\ seen = {} /\ order = << >> /\ checking = << >> /\ forgetting = "no"
  /\ kept = {} /\ old = {} /\ refused = None

-----------------------------------------------------------------------------
\* The sender.

\* next_event_id is one fetch_add; what is done with the ID comes later.
NextEventId(t) ==
  /\ held[t] = None /\ counter <= MaxEvents
  /\ held' = [held EXCEPT ![t] = [run |-> run, counter |-> counter]]
  /\ counter' = counter + 1
  /\ UNCHANGED <<run, queue, hand, peers, out, in, links, pipe, evq, receiverVars>>

HandsOn(t) == held[t] # None /\ held' = [held EXCEPT ![t] = None]

\* try_send: an event that finds the queue full is gone.  So is one about a
\* room, which never leaves the server.
BroadcastUnbounded(t) ==
  /\ HandsOn(t) /\ queue' = Append(queue, held[t])
  /\ UNCHANGED <<run, counter, hand, peers, out, in, links, pipe, evq, receiverVars>>
Broadcast(t) ==
  /\ HandsOn(t)
  /\ \/ Len(queue) < BroadcastCap /\ queue' = Append(queue, held[t])
     \/ UNCHANGED queue
  /\ UNCHANGED <<run, counter, hand, peers, out, in, links, pipe, evq, receiverVars>>

\* Over the current entry, waiting for room in its write channel; without an
\* entry, or with one whose link is over, the event is gone (a route is asked
\* again under a fresh ID).
SentOver(e) ==
  \/ /\ out # None /\ Len(pipe[out]) < LinkCap
     /\ pipe' = [pipe EXCEPT ![out] = Append(@, e)]
  \/ (out = None \/ out # in) /\ UNCHANGED pipe

\* The peers lock is taken first and held until the send returns.
LockPeers(who) ==
  /\ peers = "free" /\ peers' = who
  /\ UNCHANGED <<run, counter, held, queue, hand, out, in, links, pipe, evq, receiverVars>>

SenderLocks(t) == held[t] # None /\ LockPeers(t)
SendToLinkedPeer(t) ==
  /\ peers = t /\ peers' = "free"
  /\ HandsOn(t) /\ SentOver(held[t])
  /\ UNCHANGED <<run, counter, queue, hand, out, in, links, evq, receiverVars>>

WorkerTakes ==
  /\ hand = << >> /\ queue # << >>
  /\ hand' = <<Head(queue)>> /\ queue' = Tail(queue)
  /\ UNCHANGED <<run, counter, held, peers, out, in, links, pipe, evq, receiverVars>>

WorkerLocks == hand # << >> /\ LockPeers(Worker)
BroadcastToPeers ==
  /\ peers = Worker /\ peers' = "free"
  /\ SentOver(Head(hand)) /\ hand' = << >>
  /\ UNCHANGED <<run, counter, held, queue, out, in, links, evq, receiverVars>>

\* The counter of a new process is its wall clock in microseconds: past every
\* ID minted before, or behind some of them when the clock was set back.
Restart ==
  /\ run <= MaxRestarts
  /\ run' = run + 1 /\ counter' \in 1 .. counter
  /\ held' = [t \in Tasks |-> None] /\ queue' = << >> /\ hand' = << >> /\ peers' = "free"
  /\ out' = None
  /\ UNCHANGED <<in, links, pipe, evq, receiverVars>>

-----------------------------------------------------------------------------
\* The link.

\* A new connection replaces an entry that is still there: no cleanup then.
Connect(c) ==
  /\ links < MaxLinks /\ c \notin {out, in} /\ pipe[c] = << >> /\ peers = "free"
  /\ links' = links + 1 /\ out' = c /\ in' = c
  /\ UNCHANGED <<senderVars, pipe, evq, receiverVars>>

\* The sender's own cleanup, once the link is over at the other end.
SenderCleansUp ==
  /\ out # None /\ out # in /\ peers = "free"
  /\ out' = None
  /\ UNCHANGED <<senderVars, in, links, pipe, evq, receiverVars>>

Read(c) ==
  /\ pipe[c] # << >> /\ Len(evq) < EventCap
  /\ evq' = Append(evq, Head(pipe[c])) /\ pipe' = [pipe EXCEPT ![c] = Tail(@)]
  /\ UNCHANGED <<senderVars, out, in, links, receiverVars>>

\* A connection that is over at one end may lose what is under way.
LoseTail(c) ==
  /\ ~ (c = out /\ c = in) /\ pipe[c] # << >>
  /\ pipe' = [pipe EXCEPT ![c] = << >>]
  /\ UNCHANGED <<senderVars, out, in, links, evq, receiverVars>>

-----------------------------------------------------------------------------
\* The receiver forgets a peer: the end of its handler, or REVOKEPEER, takes the
\* entry out and then lets remove_peer clear the DedupSet, one lock at a time.
\* Events of the link may still be in the event channel, and its reader goes on.
\* Bound: one forgetting at a time.

RemovePeer ==
  /\ in # None /\ forgetting = "no"
  /\ in' = None /\ forgetting' = "seen"
  /\ UNCHANGED <<senderVars, out, links, pipe, evq, mark, seen, order, checking,
                 kept, old, refused>>

ForgetSeen ==
  /\ forgetting = "seen" /\ forgetting' = "order"
  /\ seen' = {} /\ old' = kept
  /\ UNCHANGED <<senderVars, out, in, links, pipe, evq, mark, order, checking, kept, refused>>

ForgetOrder ==
  /\ forgetting = "order" /\ forgetting' = "mark"
  /\ order' = << >>
  /\ UNCHANGED <<senderVars, out, in, links, pipe, evq, mark, seen, checking,
                 kept, old, refused>>

ForgetMarkNot ==
  /\ forgetting = "mark" /\ forgetting' = "no"
  /\ kept' = kept \ old /\ old' = {}
  /\ UNCHANGED <<senderVars, out, in, links, pipe, evq, mark, seen, order, checking, refused>>
ForgetMark ==
  /\ forgetting = "mark" /\ forgetting' = "no"
  /\ mark' = 0 /\ kept' = kept \ old /\ old' = {}
  /\ UNCHANGED <<senderVars, out, in, links, pipe, evq, seen, order, checking, refused>>

-----------------------------------------------------------------------------
\* The receiver's event processor and check_and_insert, in two steps: the mark
\* under its own lock, then the IDs seen.

Stale(n) == n <= mark

CheckMark ==
  /\ checking = << >> /\ evq # << >> /\ evq' = Tail(evq)
  /\ LET e == Head(evq)
     IN  \/ Stale(e.counter) /\ refused' = e /\ UNCHANGED <<mark, checking>>
         \/ ~ Stale(e.counter) /\ mark' = e.counter /\ checking' = <<e>> /\ refused' = None
  /\ UNCHANGED <<senderVars, out, in, links, pipe, seen, order, forgetting, kept, old>>

\* The oldest ID makes room, if the order still knows one.
Evicts == Cardinality(seen) >= DedupCapacity /\ order # << >>
SeenWith(n) == (IF Evicts THEN seen \ {Head(order)} ELSE seen) \cup {n}
OrderWith(n) == Append(IF Evicts THEN Tail(order) ELSE order, n)

Insert ==
  /\ checking # << >> /\ checking' = << >>
  /\ LET e == Head(checking)
         n == e.counter
     IN  \/ /\ n \in seen /\ refused' = e
            /\ UNCHANGED <<seen, order, kept>>
         \/ /\ n \notin seen /\ seen' = SeenWith(n) /\ order' = OrderWith(n)
            /\ kept' = kept \cup {e} /\ refused' = None
  /\ UNCHANGED <<senderVars, out, in, links, pipe, evq, mark, forgetting, old>>

-----------------------------------------------------------------------------
SenderStep ==
  \/ \E t \in Tasks : NextEventId(t)
  \/ \E t \in Clients : Broadcast(t)
  \/ \E t \in Senders : SenderLocks(t) \/ SendToLinkedPeer(t)
  \/ WorkerTakes \/ WorkerLocks \/ BroadcastToPeers \/ Restart
LinkStep == SenderCleansUp \/ \E c \in Slots : Connect(c) \/ Read(c) \/ LoseTail(c)
ReceiverStep ==
  RemovePeer \/ ForgetSeen \/ ForgetOrder \/ ForgetMark \/ CheckMark \/ Insert
Next == SenderStep \/ LinkStep \/ ReceiverStep
Spec == Init /\ [][Next]_vars

-----------------------------------------------------------------------------
Event == [run: Nat, counter: Nat]

\* Every variable has its type, and every queue respects its capacity.  (What
\* the DedupSet has seen may outgrow its own: an ID put in between two steps of
\* remove_peer is in seen and not in order.)
TypeOK ==
  /\ run \in Nat /\ counter \in Nat /\ links \in Nat /\ mark \in Nat
  /\ held \in [Tasks -> Event \cup {None}]
  /\ queue \in Seq(Event) /\ Len(queue) <= BroadcastCap
  /\ hand \in Seq(Event) /\ Len(hand) <= 1
  /\ peers \in Senders \cup {Worker, "free"} /\ (peers = Worker => hand # << >>)
  /\ {out, in} \subseteq Slots \cup {None}
  /\ pipe \in [Slots -> Seq(Event)] /\ \A c \in Slots : Len(pipe[c]) <= LinkCap
  /\ evq \in Seq(Event) /\ Len(evq) <= EventCap
  /\ seen \subseteq Nat /\ order \in Seq(Nat)
  /\ checking \in Seq(Event) /\ Len(checking) <= 1
  /\ forgetting \in {"no", "seen", "order", "mark"}
  /\ kept \subseteq Event /\ old \subseteq Event /\ refused \in Event \cup {None}

MintedLater(a, e) == a.run > e.run \/ (a.run = e.run /\ a.counter > e.counter)
ClockSetBack(a, e) == a.run < e.run /\ a.counter >= e.counter

\* The DedupSet refuses an event only on account of another one it admitted
\* since it last began to forget the peer: one minted later, which overtook it,
\* or one of a process whose clock was ahead.  What was admitted before that
\* refuses nothing, however the steps of remove_peer and check_and_insert
\* interleave and whatever the sender's clock does (remove_peer: the mark is
\* reset on disconnect because "that assumption fails on NTP backward steps, VM
\* resume, or clock skew").
RefusedForCause ==
  [][\A e \in {refused'} \ {refused, None} :
       \E a \in kept : MintedLater(a, e) \/ ClockSetBack(a, e)]_vars
=============================================================================
