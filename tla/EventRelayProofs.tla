-------------------------- MODULE EventRelayProofs --------------------------
(***************************************************************************)
(* Theorems about the relay of events, for any number of clients, senders, *)
(* connections and restarts and any capacities.                            *)
(***************************************************************************)
EXTENDS EventRelay, QueueLemmas

\* Every queue has room for at least one event.
LEMMA CapTypes ==
  /\ BroadcastCap \in Nat \ {0} /\ LinkCap \in Nat \ {0}
  /\ EventCap \in Nat \ {0} /\ DedupCapacity \in Nat \ {0}
  BY EventRelayAssumption

\* What SentOver does to the streams: the event is on the current one, or gone.
LEMMA SentOverType ==
  ASSUME TypeOK, NEW e \in Event, SentOver(e)
  PROVE  /\ pipe' \in [Slots -> Seq(Event)]
         /\ \A c \in Slots : Len(pipe'[c]) <= LinkCap
         /\ \A c \in Slots : \/ pipe'[c] = pipe[c]
                             \/ c = out /\ pipe'[c] = Append(pipe[c], e)
<1>0. LinkCap \in Nat
  BY CapTypes
<1>1. /\ pipe \in [Slots -> Seq(Event)] /\ \A c \in Slots : Len(pipe[c]) <= LinkCap
      /\ out \in Slots \cup {None}
  BY DEF TypeOK
<1>2. CASE UNCHANGED pipe
  BY <1>1, <1>2
<1>3. CASE /\ out # None /\ Len(pipe[out]) < LinkCap
           /\ pipe' = [pipe EXCEPT ![out] = Append(@, e)]
  <2>1. out \in Slots /\ pipe[out] \in Seq(Event)
    BY <1>1, <1>3
  <2>2. Append(pipe[out], e) \in Seq(Event) /\ Len(Append(pipe[out], e)) = Len(pipe[out]) + 1
    BY <2>1, ItemsOfAppend
  <2>3. Len(pipe[out]) \in Nat
    BY <2>1, LenProperties
  <2>4. pipe'[out] = Append(pipe[out], e) /\ \A c \in Slots : c # out => pipe'[c] = pipe[c]
    BY <1>1, <1>3, <2>1
  <2>5. pipe' \in [Slots -> Seq(Event)]
    BY <1>1, <1>3, <2>2
  <2>6. Len(pipe[out]) + 1 <= LinkCap
    BY <1>0, <1>3, <2>3
  <2> QED BY <1>1, <2>2, <2>4, <2>5, <2>6
<1> QED BY <1>2, <1>3 DEF SentOver

\* The relay starts with every variable of its type.
LEMMA InitType == Init => TypeOK
<1> SUFFICES ASSUME Init PROVE TypeOK
  OBVIOUS
<1>1. << >> \in Seq(Event) /\ << >> \in Seq(Nat) /\ Len(<< >>) = 0
  BY EmptySeq
<1> QED BY <1>1, CapTypes DEF Init, TypeOK, Worker

\* Every step keeps the types, and no step lets a queue outgrow its capacity.
LEMMA NextType == TypeOK /\ [Next]_vars => TypeOK'
<1> SUFFICES ASSUME TypeOK, [Next]_vars PROVE TypeOK'
  OBVIOUS
<1> USE DEF TypeOK
<1>0. << >> \in Seq(Event) /\ << >> \in Seq(Nat) /\ Len(<< >>) = 0
  BY EmptySeq
<1>1. ASSUME NEW t \in Tasks, NextEventId(t) PROVE TypeOK'
  <2>1. [run |-> run, counter |-> counter] \in Event
    BY DEF Event
  <2>2. held' \in [Tasks -> Event \cup {None}] /\ counter' \in Nat
    BY <1>1, <2>1 DEF NextEventId
  <2> QED BY <1>1, <2>2 DEF NextEventId, receiverVars
<1>2. ASSUME NEW t \in Clients, Broadcast(t) PROVE TypeOK'
  <2>1. t \in Tasks /\ held[t] \in Event
    BY <1>2 DEF Tasks, Broadcast, HandsOn
  <2>2. held' \in [Tasks -> Event \cup {None}]
    BY <1>2, <2>1 DEF Broadcast, HandsOn
  <2>3. queue' \in Seq(Event) /\ Len(queue') <= BroadcastCap
    <3>1. Append(queue, held[t]) \in Seq(Event) /\ Len(Append(queue, held[t])) = Len(queue) + 1
      BY <2>1, ItemsOfAppend
    <3>2. Len(queue) \in Nat
      BY LenProperties
    <3>3. queue' = queue \/ (Len(queue) < BroadcastCap /\ queue' = Append(queue, held[t]))
      BY <1>2 DEF Broadcast
    <3>4. BroadcastCap \in Nat
      BY CapTypes
    <3>5. Len(queue) < BroadcastCap => Len(queue) + 1 <= BroadcastCap
      BY <3>2, <3>4
    <3>6. queue \in Seq(Event) /\ Len(queue) <= BroadcastCap
      OBVIOUS
    <3> QED BY <3>1, <3>3, <3>5, <3>6
  <2> QED BY <1>2, <2>2, <2>3 DEF Broadcast, receiverVars
<1>3. ASSUME NEW t \in Senders, SendToLinkedPeer(t) PROVE TypeOK'
  <2>1. t \in Tasks /\ held[t] \in Event
    BY <1>3 DEF Tasks, SendToLinkedPeer, HandsOn
  <2>2. held' \in [Tasks -> Event \cup {None}]
    BY <1>3, <2>1 DEF SendToLinkedPeer, HandsOn
  <2>3. pipe' \in [Slots -> Seq(Event)] /\ \A c \in Slots : Len(pipe'[c]) <= LinkCap
    BY <1>3, <2>1, SentOverType DEF SendToLinkedPeer
  <2> QED BY <1>3, <2>2, <2>3 DEF SendToLinkedPeer, receiverVars, Worker
<1>4. ASSUME WorkerTakes PROVE TypeOK'
  <2>1. /\ Head(queue) \in Event /\ Tail(queue) \in Seq(Event)
        /\ Len(Tail(queue)) = Len(queue) - 1 /\ Len(queue) \in Nat
    BY <1>4, ItemsOfTail, LenProperties DEF WorkerTakes
  <2>2. queue' \in Seq(Event) /\ Len(queue') <= BroadcastCap
    BY <1>4, <2>1, CapTypes DEF WorkerTakes
  <2>3. hand' \in Seq(Event) /\ Len(hand') <= 1
    BY <1>4, <2>1 DEF WorkerTakes
  <2> QED BY <1>4, <2>2, <2>3 DEF WorkerTakes, receiverVars
<1>5. ASSUME BroadcastToPeers PROVE TypeOK'
  <2>1. Head(hand) \in Event /\ SentOver(Head(hand))
    BY <1>5, ItemsOfTail DEF BroadcastToPeers
  <2>2. pipe' \in [Slots -> Seq(Event)] /\ \A c \in Slots : Len(pipe'[c]) <= LinkCap
    BY <2>1, SentOverType
  <2>3. peers' # Worker
    BY <1>5, EventRelayAssumption DEF BroadcastToPeers, Worker
  <2> QED BY <1>0, <1>5, <2>2, <2>3 DEF BroadcastToPeers, receiverVars
<1>6. ASSUME Restart PROVE TypeOK'
  <2>1. run' \in Nat /\ counter' \in Nat
    BY <1>6 DEF Restart
  <2>2. held' \in [Tasks -> Event \cup {None}]
    BY <1>6 DEF Restart
  <2> QED BY <1>0, <1>6, <2>1, <2>2, CapTypes DEF Restart, receiverVars, Worker
<1>7. ASSUME NEW c \in Slots, Connect(c) PROVE TypeOK'
  BY <1>7 DEF Connect, senderVars, receiverVars
<1>8. ASSUME NEW c \in Slots, Read(c) PROVE TypeOK'
  <2>1. /\ Head(pipe[c]) \in Event /\ Tail(pipe[c]) \in Seq(Event)
        /\ Len(Tail(pipe[c])) = Len(pipe[c]) - 1 /\ Len(pipe[c]) \in Nat
    BY <1>8, ItemsOfTail, LenProperties DEF Read
  <2>2. pipe' \in [Slots -> Seq(Event)] /\ pipe'[c] = Tail(pipe[c])
        /\ \A d \in Slots : d # c => pipe'[d] = pipe[d]
    BY <1>8, <2>1 DEF Read
  <2>3. \A d \in Slots : Len(pipe'[d]) <= LinkCap
    <3>1. Len(pipe[c]) <= LinkCap
      BY <1>8
    <3>2. Len(pipe'[c]) <= LinkCap
      BY <2>1, <2>2, <3>1, CapTypes
    <3> QED BY <2>2, <3>2
  <2>4. evq' \in Seq(Event) /\ Len(evq') <= EventCap
    BY <1>8, <2>1, ItemsOfAppend, LenProperties, CapTypes DEF Read
  <2> QED BY <1>8, <2>2, <2>3, <2>4 DEF Read, senderVars, receiverVars
<1>9. ASSUME NEW c \in Slots, LoseTail(c) PROVE TypeOK'
  BY <1>0, <1>9, CapTypes DEF LoseTail, senderVars, receiverVars
<1>10. ASSUME RemovePeer \/ ForgetSeen \/ ForgetOrder \/ ForgetMark PROVE TypeOK'
  <2>1. CASE RemovePeer
    BY <2>1 DEF RemovePeer, senderVars
  <2>2. CASE ForgetSeen
    BY <2>2 DEF ForgetSeen, senderVars
  <2>3. CASE ForgetOrder
    BY <1>0, <2>3 DEF ForgetOrder, senderVars
  <2>4. CASE ForgetMark
    <3>1. mark' \in Nat /\ kept' \subseteq Event /\ old' \subseteq Event
      BY <2>4 DEF ForgetMark
    <3> QED BY <2>4, <3>1 DEF ForgetMark, senderVars
  <2> QED BY <1>10, <2>1, <2>2, <2>3, <2>4
<1>11. ASSUME CheckMark PROVE TypeOK'
  <2> DEFINE e == Head(evq)
  <2>1. /\ e \in Event /\ e.counter \in Nat /\ Tail(evq) \in Seq(Event)
        /\ Len(Tail(evq)) = Len(evq) - 1 /\ Len(evq) \in Nat
    <3>1. e \in Event /\ Tail(evq) \in Seq(Event) /\ Len(Tail(evq)) = Len(evq) - 1
      BY <1>11, ItemsOfTail DEF CheckMark
    <3>2. e.counter \in Nat
      BY <3>1 DEF Event
    <3> QED BY <3>1, <3>2, LenProperties
  <2>2. evq' \in Seq(Event) /\ Len(evq') <= EventCap
    BY <1>11, <2>1, CapTypes DEF CheckMark
  <2>3. mark' \in Nat /\ refused' \in Event \cup {None}
    BY <1>11, <2>1 DEF CheckMark
  <2>4. checking' \in Seq(Event) /\ Len(checking') <= 1
    <3>1. checking' = checking \/ checking' = <<e>>
      BY <1>11 DEF CheckMark
    <3>2. <<e>> \in Seq(Event) /\ Len(<<e>>) = 1
      BY <2>1
    <3>3. checking \in Seq(Event) /\ Len(checking) <= 1
      OBVIOUS
    <3> HIDE DEF e, TypeOK
    <3> QED BY <3>1, <3>2, <3>3
  <2> QED BY <1>11, <2>2, <2>3, <2>4 DEF CheckMark, senderVars
<1>12. ASSUME Insert PROVE TypeOK'
  <2> DEFINE e == Head(checking)
  <2>1. e \in Event /\ e.counter \in Nat
    <3>1. e \in Event
      BY <1>12, ItemsOfTail DEF Insert
    <3> QED BY <3>1 DEF Event
  <2>2. OrderWith(e.counter) \in Seq(Nat)
    <3> DEFINE left == IF Evicts THEN Tail(order) ELSE order
    <3>1. left \in Seq(Nat)
      BY ItemsOfTail DEF Evicts
    <3> HIDE DEF left
    <3> QED BY <2>1, <3>1, ItemsOfAppend DEF OrderWith, left
  <2>3. SeenWith(e.counter) \subseteq Nat
    BY <2>1 DEF SeenWith
  <2>4. /\ seen' \subseteq Nat /\ order' \in Seq(Nat)
        /\ kept' \subseteq Event /\ refused' \in Event \cup {None}
    BY <1>12, <2>1, <2>2, <2>3 DEF Insert
  <2> QED BY <1>0, <1>12, <2>4 DEF Insert, senderVars
<1>13. ASSUME (\E t \in Senders : SenderLocks(t)) \/ WorkerLocks PROVE TypeOK'
  BY <1>13, EventRelayAssumption DEF SenderLocks, WorkerLocks, LockPeers, Worker, receiverVars
<1>14. ASSUME SenderCleansUp PROVE TypeOK'
  BY <1>14 DEF SenderCleansUp, senderVars, receiverVars
<1>15. CASE UNCHANGED vars
  BY <1>15 DEF vars, senderVars, receiverVars
<1> QED
  BY <1>1, <1>2, <1>3, <1>4, <1>5, <1>6, <1>7, <1>8, <1>9, <1>10, <1>11, <1>12, <1>13, <1>14,
     <1>15 DEF Next, SenderStep, LinkStep, ReceiverStep

\* No queue or channel of the relay outgrows its capacity, and a worker
\* never has more than one event in hand.
THEOREM RelayTypeCorrect == Spec => []TypeOK
  BY InitType, NextType, PTL DEF Spec

-----------------------------------------------------------------------------
(***************************************************************************)
(* The inductive invariant behind RefusedForCause.  The mark and every ID  *)
(* seen are the counters of events that are still remembered.  That such   *)
(* an event is not the refused one itself needs every event to be in one   *)
(* place at a time, and every minted event to be new.                      *)
(***************************************************************************)

\* The events in the hands of tasks, on the streams, and anywhere.
Minted == {held[t] : t \in {u \in Tasks : held[u] # None}}
Streamed == UNION {Items(pipe[c]) : c \in Slots}
Known ==
  Minted \cup Items(queue) \cup Items(hand) \cup Streamed \cup Items(evq) \cup Items(checking)
  \cup kept

\* fetch_add: within a run the counters grow with every mint.
MintsInOrder ==
  /\ 0 < counter
  /\ \A e \in Known : 0 < e.counter /\ e.run <= run /\ (e.run = run => e.counter < counter)

\* No event is twice in one place.
NoTwins ==
  /\ \A t, u \in Tasks : held[t] # None /\ held[t] = held[u] => t = u
  /\ \A c, d \in Slots : c # d => Items(pipe[c]) \cap Items(pipe[d]) = {}
  /\ Once(queue) /\ Once(evq) /\ \A c \in Slots : Once(pipe[c])

\* No event is in two places, or still under way once it was admitted.
OnePlace ==
  /\ Minted \cap (Items(queue) \cup Items(hand) \cup Streamed \cup Items(evq)
                  \cup Items(checking) \cup kept) = {}
  /\ Items(queue) \cap (Items(hand) \cup Streamed \cup Items(evq) \cup Items(checking) \cup kept) = {}
  /\ Items(hand) \cap (Streamed \cup Items(evq) \cup Items(checking) \cup kept) = {}
  /\ Streamed \cap (Items(evq) \cup Items(checking) \cup kept) = {}
  /\ Items(evq) \cap (Items(checking) \cup kept) = {}
  /\ Items(checking) \cap kept = {}

\* What the DedupSet knows comes from events it still remembers: the mark from
\* one admitted or being looked up, an ID seen from one admitted, and since the
\* forgetting under way emptied seen, from one admitted after that.
Remembered ==
  /\ old \subseteq kept
  /\ mark = 0 \/ \E a \in kept \cup Items(checking) : a.counter = mark
  /\ \A n \in seen : \E a \in kept : a.counter = n
  /\ forgetting \in {"order", "mark"} => \A n \in seen : \E a \in kept \ old : a.counter = n

RelayInv == TypeOK /\ MintsInOrder /\ NoTwins /\ OnePlace /\ Remembered

\* Whatever is under way or admitted is an event.
LEMMA KnownType == TypeOK => Known \subseteq Event
<1> SUFFICES ASSUME TypeOK PROVE Known \subseteq Event
  OBVIOUS
<1>1. \A s \in Seq(Event) : Items(s) \subseteq Event
  BY ElementOfSeq DEF Items
<1>2. Minted \subseteq Event
  BY DEF TypeOK, Minted
<1>3. Streamed \subseteq Event
  BY <1>1 DEF TypeOK, Streamed
<1> QED BY <1>1, <1>2, <1>3 DEF TypeOK, Known

\* A step that mints nothing leaves the mints in order.
LEMMA FewerKeepOrder ==
  ASSUME TypeOK, MintsInOrder, Known' \subseteq Known,
         UNCHANGED <<counter, run>>
  PROVE  MintsInOrder'
  BY DEF MintsInOrder

\* Disjointness survives when every place keeps a part of what it had.
LEMMA FewerKeepPlaces ==
  ASSUME OnePlace, Minted' \subseteq Minted, Items(queue)' \subseteq Items(queue),
         Items(hand)' \subseteq Items(hand), Streamed' \subseteq Streamed,
         Items(evq)' \subseteq Items(evq), Items(checking)' \subseteq Items(checking),
         kept' \subseteq kept
  PROVE  OnePlace' /\ Known' \subseteq Known
<1>1. OnePlace'
  BY DEF OnePlace
<1>2. Known' \subseteq Known
  BY DEF Known
<1> QED BY <1>1, <1>2

\* An event that is handed on is in no task's hands any more.
LEMMA HandsOnItems ==
  ASSUME TypeOK, NoTwins, NEW t \in Tasks, HandsOn(t)
  PROVE  /\ held[t] \in Minted /\ held[t] \in Event
         /\ Minted' \subseteq Minted \ {held[t]}
         /\ \A u, v \in Tasks : held'[u] # None /\ held'[u] = held'[v] => u = v
<1>1. /\ held \in [Tasks -> Event \cup {None}] /\ held[t] # None
      /\ held' = [held EXCEPT ![t] = None]
  BY DEF TypeOK, HandsOn
<1>2. \A u \in Tasks : held'[u] # None => u # t /\ held'[u] = held[u]
  BY <1>1
<1>3. \A u \in Tasks : held[u] = held[t] => u = t
  BY <1>1 DEF NoTwins
<1>4. held[t] \in Minted /\ held[t] \in Event
  BY <1>1 DEF Minted
<1>5. Minted' \subseteq Minted \ {held[t]}
  BY <1>2, <1>3 DEF Minted
<1>6. \A u, v \in Tasks : held'[u] # None /\ held'[u] = held'[v] => u = v
  BY <1>2 DEF NoTwins
<1> QED BY <1>4, <1>5, <1>6

\* An event that is on no stream goes onto one, or onto none.
LEMMA SentOverItems ==
  ASSUME TypeOK, NoTwins, NEW e \in Event, e \notin Streamed, SentOver(e)
  PROVE  /\ Streamed' \subseteq Streamed \cup {e}
         /\ \A c, d \in Slots : c # d => Items(pipe'[c]) \cap Items(pipe'[d]) = {}
         /\ \A c \in Slots : Once(pipe'[c])
<1>1. \A c \in Slots : pipe[c] \in Seq(Event)
  BY DEF TypeOK
<1>2. \A c \in Slots : e \notin Items(pipe[c]) /\ Items(pipe[c]) \subseteq Streamed
  BY DEF Streamed
<1>3. \A c \in Slots : \/ pipe'[c] = pipe[c]
                       \/ c = out /\ pipe'[c] = Append(pipe[c], e)
  BY SentOverType
<1>4. \A c \in Slots : Items(Append(pipe[c], e)) = Items(pipe[c]) \cup {e}
                       /\ Once(Append(pipe[c], e))
  BY <1>1, <1>2, ItemsOfAppend DEF NoTwins
<1>5. \A c \in Slots : Items(pipe'[c]) \subseteq Items(pipe[c]) \cup {e}
                       /\ (c # out => Items(pipe'[c]) = Items(pipe[c]))
  BY <1>3, <1>4
<1>6. Streamed' \subseteq Streamed \cup {e}
  BY <1>5, <1>2 DEF Streamed
<1>7. \A c \in Slots : Once(pipe'[c])
  BY <1>3, <1>4 DEF NoTwins
<1>8. \A c, d \in Slots : c # d => Items(pipe'[c]) \cap Items(pipe'[d]) = {}
  BY <1>2, <1>5 DEF NoTwins
<1> QED BY <1>6, <1>7, <1>8

\* Minting, handing on, sending, reading and admitting keep the order of the
\* counters and move an event from one place to the next.
LEMMA PlacesStep ==
  ASSUME TypeOK, MintsInOrder, NoTwins, OnePlace, [Next]_vars
  PROVE  MintsInOrder' /\ NoTwins' /\ OnePlace'
<1> DEFINE Goal == MintsInOrder' /\ NoTwins' /\ OnePlace'
<1>0. run \in Nat /\ counter \in Nat /\ run <= run /\ Known \subseteq Event
  BY KnownType DEF TypeOK
<1>e. Items(<< >>) = {} /\ Once(<< >>)
  BY ItemsOfEmpty
<1>1. ASSUME NEW t \in Tasks, NextEventId(t) PROVE Goal
  <2> DEFINE e == [run |-> run, counter |-> counter]
  <2>1. /\ held' = [held EXCEPT ![t] = e] /\ counter' = counter + 1 /\ held[t] = None
        /\ UNCHANGED <<run, queue, hand, pipe, evq, checking, kept>>
    BY <1>1 DEF NextEventId, receiverVars
  <2>2. e.run = run /\ e.counter = counter
    OBVIOUS
  <2> HIDE DEF e
  <2>3. held \in [Tasks -> Event \cup {None}]
    BY DEF TypeOK
  <2>4. held'[t] = e /\ \A u \in Tasks : u # t => held'[u] = held[u]
    BY <2>1, <2>3
  <2>5. Minted' \subseteq Minted \cup {e}
    BY <2>4 DEF Minted
  <2>6. Streamed' = Streamed
    BY <2>1 DEF Streamed
  <2>7. Known' \subseteq Known \cup {e}
    BY <2>1, <2>5, <2>6 DEF Known
  <2>8. e \notin Known
    BY <1>0, <2>2 DEF MintsInOrder
  <2>9. OnePlace'
    BY <2>1, <2>5, <2>6, <2>8 DEF OnePlace, Known
  <2>10. NoTwins'
    <3>1. \A u \in Tasks : held[u] # e \/ held[u] = None
      BY <2>8 DEF Known, Minted
    <3>2. \A u, v \in Tasks : held'[u] # None /\ held'[u] = held'[v] => u = v
      BY <2>4, <3>1 DEF NoTwins
    <3> QED BY <2>1, <3>2 DEF NoTwins
  <2>11. MintsInOrder'
    <3>1. \A f \in Known : f.counter \in Nat /\ f.run \in Nat
      BY <1>0 DEF Event
    <3>2. 0 < counter /\ \A f \in Known : 0 < f.counter /\ f.run <= run /\ (f.run = run => f.counter < counter)
      BY DEF MintsInOrder
    <3> QED BY <1>0, <2>1, <2>2, <2>7, <3>1, <3>2 DEF MintsInOrder
  <2> QED BY <2>9, <2>10, <2>11
<1>2. ASSUME NEW t \in Clients, Broadcast(t) PROVE Goal
  <2>1. /\ t \in Tasks /\ HandsOn(t)
        /\ queue' = queue \/ queue' = Append(queue, held[t])
        /\ UNCHANGED <<run, counter, hand, pipe, evq, checking, kept>>
    BY <1>2 DEF Tasks, Broadcast, receiverVars
  <2>2. /\ held[t] \in Minted /\ held[t] \in Event
        /\ Minted' \subseteq Minted \ {held[t]}
        /\ \A u, v \in Tasks : held'[u] # None /\ held'[u] = held'[v] => u = v
    BY <2>1, HandsOnItems
  <2>3. Streamed' = Streamed
    BY <2>1 DEF Streamed
  <2>4. held[t] \notin Items(queue)
    BY <2>2 DEF OnePlace
  <2>5. /\ Items(Append(queue, held[t])) = Items(queue) \cup {held[t]}
        /\ Once(Append(queue, held[t]))
    BY <2>2, <2>4, ItemsOfAppend DEF TypeOK, NoTwins
  <2>6. Items(queue') \subseteq Items(queue) \cup {held[t]} /\ Once(queue')
    BY <2>1, <2>5 DEF NoTwins
  <2>7. NoTwins'
    BY <2>1, <2>2, <2>6 DEF NoTwins
  <2>8. OnePlace'
    BY <2>1, <2>2, <2>3, <2>6 DEF OnePlace
  <2>9. Known' \subseteq Known
    BY <2>1, <2>2, <2>3, <2>6 DEF Known
  <2> QED BY <1>0, <2>1, <2>7, <2>8, <2>9, FewerKeepOrder
<1>3. ASSUME NEW t \in Senders, SendToLinkedPeer(t) PROVE Goal
  <2>1. /\ t \in Tasks /\ HandsOn(t) /\ SentOver(held[t])
        /\ UNCHANGED <<run, counter, queue, hand, evq, checking, kept>>
    BY <1>3 DEF Tasks, SendToLinkedPeer, receiverVars
  <2>2. /\ held[t] \in Minted /\ held[t] \in Event
        /\ Minted' \subseteq Minted \ {held[t]}
        /\ \A u, v \in Tasks : held'[u] # None /\ held'[u] = held'[v] => u = v
    BY <2>1, HandsOnItems
  <2>3. held[t] \notin Streamed
    BY <2>2 DEF OnePlace
  <2>4. /\ Streamed' \subseteq Streamed \cup {held[t]}
        /\ \A c, d \in Slots : c # d => Items(pipe'[c]) \cap Items(pipe'[d]) = {}
        /\ \A c \in Slots : Once(pipe'[c])
    BY <2>1, <2>2, <2>3, SentOverItems
  <2>5. NoTwins'
    BY <2>1, <2>2, <2>4 DEF NoTwins
  <2>6. OnePlace'
    BY <2>1, <2>2, <2>4 DEF OnePlace
  <2>7. Known' \subseteq Known
    BY <2>1, <2>2, <2>4 DEF Known
  <2> QED BY <1>0, <2>1, <2>5, <2>6, <2>7, FewerKeepOrder
<1>4. ASSUME WorkerTakes PROVE Goal
  <2>1. /\ queue # << >> /\ hand' = <<Head(queue)>> /\ queue' = Tail(queue)
        /\ UNCHANGED <<run, counter, held, pipe, evq, checking, kept>>
    BY <1>4 DEF WorkerTakes, receiverVars
  <2>2. /\ Items(queue) = Items(Tail(queue)) \cup {Head(queue)}
        /\ Once(Tail(queue)) /\ Head(queue) \notin Items(Tail(queue))
    BY <2>1, ItemsOfTail DEF TypeOK, NoTwins
  <2>3. Items(hand') = {Head(queue)}
    BY <2>1 DEF Items
  <2>4. Streamed' = Streamed /\ Minted' = Minted
    BY <2>1 DEF Streamed, Minted
  <2>5. NoTwins'
    BY <2>1, <2>2 DEF NoTwins
  <2>6. OnePlace'
    BY <2>1, <2>2, <2>3, <2>4 DEF OnePlace
  <2>7. Known' \subseteq Known
    BY <2>1, <2>2, <2>3, <2>4 DEF Known
  <2> QED BY <1>0, <2>1, <2>5, <2>6, <2>7, FewerKeepOrder
<1>5. ASSUME BroadcastToPeers PROVE Goal
  <2>0. hand # << >>
    BY <1>5 DEF BroadcastToPeers, TypeOK
  <2>1. /\ hand # << >> /\ SentOver(Head(hand)) /\ hand' = << >>
        /\ UNCHANGED <<run, counter, held, queue, evq, checking, kept>>
    BY <1>5, <2>0 DEF BroadcastToPeers, receiverVars
  <2>2. Head(hand) \in Event /\ Head(hand) \in Items(hand)
    BY <2>1, ItemsOfTail DEF TypeOK
  <2>3. Head(hand) \notin Streamed
    BY <2>2 DEF OnePlace
  <2>4. /\ Streamed' \subseteq Streamed \cup {Head(hand)}
        /\ \A c, d \in Slots : c # d => Items(pipe'[c]) \cap Items(pipe'[d]) = {}
        /\ \A c \in Slots : Once(pipe'[c])
    BY <2>1, <2>2, <2>3, SentOverItems
  <2>5. Items(hand') = {} /\ Minted' = Minted
    BY <1>e, <2>1 DEF Minted
  <2>6. NoTwins'
    BY <2>1, <2>4 DEF NoTwins
  <2>7. OnePlace'
    BY <2>1, <2>2, <2>4, <2>5 DEF OnePlace
  <2>8. Known' \subseteq Known
    BY <2>1, <2>2, <2>4, <2>5 DEF Known
  <2> QED BY <1>0, <2>1, <2>6, <2>7, <2>8, FewerKeepOrder
<1>6. ASSUME Restart PROVE Goal
  <2>1. /\ run' = run + 1 /\ counter' \in 1 .. counter
        /\ held' = [t \in Tasks |-> None] /\ queue' = << >> /\ hand' = << >>
        /\ UNCHANGED <<pipe, evq, checking, kept>>
    BY <1>6 DEF Restart, receiverVars
  <2>2. Minted' = {} /\ Streamed' = Streamed
    BY <2>1 DEF Minted, Streamed
  <2>3. NoTwins'
    BY <1>e, <2>1 DEF NoTwins
  <2>4. OnePlace' /\ Known' \subseteq Known
    BY <1>e, <2>1, <2>2, FewerKeepPlaces
  <2>5. \A f \in Known' : f.run \in Nat /\ f.run <= run /\ 0 < f.counter
    BY <1>0, <2>4 DEF MintsInOrder, Event
  <2>6. MintsInOrder'
    BY <1>0, <2>1, <2>5 DEF MintsInOrder
  <2> QED BY <2>3, <2>4, <2>6
<1>7. ASSUME UNCHANGED <<run, counter, held, queue, hand, pipe, evq, checking, kept>> PROVE Goal
  <2>1. Minted' = Minted /\ Streamed' = Streamed
    BY <1>7 DEF Minted, Streamed
  <2>2. NoTwins'
    BY <1>7 DEF NoTwins
  <2>3. OnePlace' /\ Known' \subseteq Known
    BY <1>7, <2>1, FewerKeepPlaces
  <2> QED BY <1>0, <1>7, <2>2, <2>3, FewerKeepOrder
<1>8. ASSUME NEW c \in Slots, Read(c) PROVE Goal
  <2> DEFINE e == Head(pipe[c])
  <2>1. /\ pipe[c] # << >> /\ evq' = Append(evq, e) /\ pipe' = [pipe EXCEPT ![c] = Tail(@)]
        /\ UNCHANGED <<run, counter, held, queue, hand, checking, kept>>
    BY <1>8 DEF Read, senderVars, receiverVars
  <2>2. pipe \in [Slots -> Seq(Event)] /\ evq \in Seq(Event)
    BY DEF TypeOK
  <2>3. pipe'[c] = Tail(pipe[c]) /\ \A d \in Slots : d # c => pipe'[d] = pipe[d]
    BY <2>1, <2>2
  <2>4. /\ e \in Event /\ e \in Items(pipe[c])
        /\ Items(pipe[c]) = Items(Tail(pipe[c])) \cup {e}
        /\ Once(Tail(pipe[c])) /\ e \notin Items(Tail(pipe[c]))
    BY <2>1, <2>2, ItemsOfTail DEF NoTwins
  <2> HIDE DEF e
  <2>5. e \in Streamed
    BY <2>4 DEF Streamed
  <2>6. e \notin Items(evq)
    BY <2>5 DEF OnePlace
  <2>7. Items(evq') = Items(evq) \cup {e} /\ Once(evq')
    BY <2>1, <2>2, <2>4, <2>6, ItemsOfAppend DEF NoTwins
  <2>8. \A d \in Slots : Items(pipe'[d]) \subseteq Items(pipe[d]) /\ e \notin Items(pipe'[d])
    BY <2>3, <2>4 DEF NoTwins
  <2>9. Streamed' \subseteq Streamed \ {e} /\ Minted' = Minted
    BY <2>1, <2>8 DEF Streamed, Minted
  <2>10. NoTwins'
    BY <2>1, <2>3, <2>4, <2>7, <2>8 DEF NoTwins
  <2>11. OnePlace'
    BY <2>1, <2>5, <2>7, <2>9 DEF OnePlace
  <2>12. Known' \subseteq Known
    BY <2>1, <2>5, <2>7, <2>9 DEF Known
  <2> QED BY <1>0, <2>1, <2>10, <2>11, <2>12, FewerKeepOrder
<1>9. ASSUME NEW c \in Slots, LoseTail(c) PROVE Goal
  <2>1. /\ pipe' = [pipe EXCEPT ![c] = << >>]
        /\ UNCHANGED <<run, counter, held, queue, hand, evq, checking, kept>>
    BY <1>9 DEF LoseTail, senderVars, receiverVars
  <2>2. \A d \in Slots : pipe'[d] = pipe[d] \/ pipe'[d] = << >>
    BY <2>1 DEF TypeOK
  <2>3. \A d \in Slots : Items(pipe'[d]) \subseteq Items(pipe[d]) /\ Once(pipe'[d])
    BY <1>e, <2>2 DEF NoTwins
  <2>4. Streamed' \subseteq Streamed /\ Minted' = Minted
    BY <2>1, <2>3 DEF Streamed, Minted
  <2>5. NoTwins'
    BY <2>1, <2>3 DEF NoTwins
  <2>6. OnePlace' /\ Known' \subseteq Known
    BY <2>1, <2>4, FewerKeepPlaces
  <2> QED BY <1>0, <2>1, <2>5, <2>6, FewerKeepOrder
<1>10. ASSUME CheckMark PROVE Goal
  <2>1. /\ evq # << >> /\ evq' = Tail(evq) /\ checking = << >>
        /\ checking' = << >> \/ checking' = <<Head(evq)>>
        /\ UNCHANGED <<run, counter, held, queue, hand, pipe, kept>>
    BY <1>10 DEF CheckMark, senderVars
  <2>2. /\ Items(evq) = Items(Tail(evq)) \cup {Head(evq)}
        /\ Once(Tail(evq)) /\ Head(evq) \notin Items(Tail(evq))
    BY <2>1, ItemsOfTail DEF TypeOK, NoTwins
  <2>3. Items(checking') \subseteq {Head(evq)}
    BY <1>e, <2>1 DEF Items
  <2>4. Streamed' = Streamed /\ Minted' = Minted
    BY <2>1 DEF Streamed, Minted
  <2>5. NoTwins'
    BY <2>1, <2>2 DEF NoTwins
  <2>6. OnePlace'
    BY <2>1, <2>2, <2>3, <2>4 DEF OnePlace
  <2>7. Known' \subseteq Known
    BY <2>1, <2>2, <2>3, <2>4 DEF Known
  <2> QED BY <1>0, <2>1, <2>5, <2>6, <2>7, FewerKeepOrder
<1>11. ASSUME Insert PROVE Goal
  <2>1. /\ checking # << >> /\ checking' = << >> /\ kept' \subseteq kept \cup {Head(checking)}
        /\ UNCHANGED <<run, counter, held, queue, hand, pipe, evq>>
    BY <1>11 DEF Insert, senderVars
  <2>2. Head(checking) \in Items(checking) /\ Items(checking') = {}
    BY <1>e, <2>1, ItemsOfTail DEF TypeOK
  <2>3. Streamed' = Streamed /\ Minted' = Minted
    BY <2>1 DEF Streamed, Minted
  <2>4. NoTwins'
    BY <2>1 DEF NoTwins
  <2>5. OnePlace'
    BY <2>1, <2>2, <2>3 DEF OnePlace
  <2>6. Known' \subseteq Known
    BY <2>1, <2>2, <2>3 DEF Known
  <2> QED BY <1>0, <2>1, <2>4, <2>5, <2>6, FewerKeepOrder
<1>12. ASSUME ForgetMark PROVE Goal
  <2>1. kept' \subseteq kept /\ UNCHANGED <<run, counter, held, queue, hand, pipe, evq, checking>>
    BY <1>12 DEF ForgetMark, senderVars
  <2>2. Minted' = Minted /\ Streamed' = Streamed
    BY <2>1 DEF Minted, Streamed
  <2>3. NoTwins'
    BY <2>1 DEF NoTwins
  <2>4. OnePlace' /\ Known' \subseteq Known
    BY <2>1, <2>2, FewerKeepPlaces
  <2> QED BY <1>0, <2>1, <2>3, <2>4, FewerKeepOrder
<1>13. ASSUME \/ \E t \in Senders : SenderLocks(t)
              \/ \E c \in Slots : Connect(c)
              \/ WorkerLocks \/ SenderCleansUp \/ RemovePeer \/ ForgetSeen \/ ForgetOrder
              \/ UNCHANGED vars
       PROVE  Goal
  <2>1. UNCHANGED <<run, counter, held, queue, hand, pipe, evq, checking, kept>>
    BY <1>13 DEF SenderLocks, WorkerLocks, LockPeers, Connect, SenderCleansUp, RemovePeer,
                 ForgetSeen, ForgetOrder, vars, senderVars, receiverVars
  <2> QED BY <1>7, <2>1
<1> QED
  BY <1>1, <1>2, <1>3, <1>4, <1>5, <1>6, <1>8, <1>9, <1>10, <1>11, <1>12, <1>13
     DEF Next, SenderStep, LinkStep, ReceiverStep

\* One event with as large a counter as another is a cause to refuse the other.
LEMMA LargerIsACause ==
  ASSUME NEW a \in Event, NEW e \in Event, a # e, e.counter <= a.counter
  PROVE  MintedLater(a, e) \/ ClockSetBack(a, e)
<1>1. /\ a.run \in Nat /\ e.run \in Nat /\ a.counter \in Nat /\ e.counter \in Nat
      /\ a = [run |-> a.run, counter |-> a.counter] /\ e = [run |-> e.run, counter |-> e.counter]
  BY DEF Event
<1>2. a.run = e.run => a.counter > e.counter
  BY <1>1
<1> QED BY <1>1, <1>2 DEF MintedLater, ClockSetBack

\* What the DedupSet refuses it refuses for an event it remembers.
LEMMA RefusalStep ==
  ASSUME RelayInv, [Next]_vars, NEW e \in {refused'} \ {refused, None}
  PROVE  \E a \in kept : MintedLater(a, e) \/ ClockSetBack(a, e)
<1>0. TypeOK /\ MintsInOrder /\ OnePlace /\ Remembered /\ Known \subseteq Event
  BY KnownType DEF RelayInv
<1>1. CheckMark \/ Insert
  BY DEF Next, SenderStep, LinkStep, ReceiverStep, NextEventId, Broadcast, SenderLocks,
         WorkerLocks, LockPeers, SendToLinkedPeer, WorkerTakes, BroadcastToPeers, Restart,
         Connect, SenderCleansUp, Read, LoseTail, RemovePeer, ForgetSeen, ForgetOrder,
         ForgetMark, vars, receiverVars
<1>2. CASE CheckMark
  <2>1. evq # << >> /\ checking = << >> /\ e = Head(evq) /\ Stale(e.counter)
    BY <1>2 DEF CheckMark
  <2>2. e \in Items(evq)
    BY <1>0, <2>1, ItemsOfTail DEF TypeOK
  <2>3. e \in Known /\ e \notin kept
    BY <1>0, <2>2 DEF Known, OnePlace
  <2>4. e \in Event /\ e.counter \in Nat /\ 0 < e.counter /\ mark \in Nat
    BY <1>0, <2>3 DEF Event, MintsInOrder, TypeOK
  <2>5. PICK a \in kept : a.counter = mark
    BY <1>0, <2>1, <2>4, ItemsOfEmpty DEF Remembered, Stale
  <2>6. a \in Event /\ a # e /\ e.counter <= a.counter
    BY <1>0, <2>1, <2>3, <2>5 DEF TypeOK, Stale
  <2> QED BY <2>4, <2>6, LargerIsACause
<1>3. CASE Insert
  <2>1. checking # << >> /\ e = Head(checking) /\ e.counter \in seen
    BY <1>3 DEF Insert
  <2>2. e \in Items(checking)
    BY <1>0, <2>1, ItemsOfTail DEF TypeOK
  <2>3. e \in Event /\ e \notin kept
    BY <1>0, <2>2 DEF Known, OnePlace
  <2>4. PICK a \in kept : a.counter = e.counter
    BY <1>0, <2>1 DEF Remembered
  <2>5. a \in Event /\ a # e /\ e.counter <= a.counter
    BY <1>0, <2>3, <2>4 DEF TypeOK, Event
  <2> QED BY <2>3, <2>5, LargerIsACause
<1> QED BY <1>1, <1>2, <1>3

\* Checking, inserting and the steps of a forgetting keep what the DedupSet
\* knows on events it remembers.
LEMMA RememberedStep ==
  ASSUME RelayInv, [Next]_vars
  PROVE  Remembered'
<1>0. TypeOK /\ OnePlace /\ Remembered
  BY DEF RelayInv
<1>e. Items(<< >>) = {}
  BY ItemsOfEmpty
<1>1. ASSUME CheckMark PROVE Remembered'
  <2>1. /\ checking = << >> /\ UNCHANGED <<seen, kept, old, forgetting>>
        /\ \/ UNCHANGED <<mark, checking>>
           \/ mark' = Head(evq).counter /\ checking' = <<Head(evq)>>
    BY <1>1 DEF CheckMark
  <2>2. mark' = 0 \/ \E a \in kept' \cup Items(checking') : a.counter = mark'
    <3>1. CASE UNCHANGED <<mark, checking>>
      BY <1>0, <2>1, <3>1 DEF Remembered
    <3>2. CASE mark' = Head(evq).counter /\ checking' = <<Head(evq)>>
      <4>1. Head(evq) \in Items(checking')
        BY <3>2 DEF Items
      <4> QED BY <3>2, <4>1
    <3> QED BY <2>1, <3>1, <3>2
  <2> QED BY <1>0, <2>1, <2>2 DEF Remembered
<1>2. ASSUME Insert PROVE Remembered'
  <2> DEFINE e == Head(checking)
  <2>1. /\ checking # << >> /\ checking' = << >> /\ UNCHANGED <<mark, old, forgetting>>
        /\ \/ e.counter \in seen /\ UNCHANGED <<seen, kept>>
           \/ e.counter \notin seen /\ seen' = SeenWith(e.counter) /\ kept' = kept \cup {e}
    BY <1>2 DEF Insert
  <2>2. Len(checking) = 1 /\ Items(checking) = {e} /\ e \in Items(checking)
    <3>1. /\ e \in Items(checking) /\ Items(checking) = Items(Tail(checking)) \cup {e}
          /\ Tail(checking) \in Seq(Event) /\ Len(Tail(checking)) = Len(checking) - 1
      BY <1>0, <2>1, ItemsOfTail DEF TypeOK
    <3>2. checking \in Seq(Event) /\ Len(checking) \in Nat /\ Len(checking) <= 1
      BY <1>0, LenProperties DEF TypeOK
    <3>3. Len(checking) # 0
      BY <2>1, <3>2, EmptySeq
    <3>4. Len(checking) = 1 /\ Len(Tail(checking)) = 0
      BY <3>1, <3>2, <3>3
    <3>5. Tail(checking) = << >>
      BY <3>1, <3>4, EmptySeq
    <3> QED BY <1>e, <3>1, <3>4, <3>5
  <2>3. e \notin kept
    BY <1>0, <2>2 DEF OnePlace
  <2>4. SeenWith(e.counter) \subseteq seen \cup {e.counter}
    BY DEF SeenWith
  <2>5. mark' = 0 \/ \E a \in kept' \cup Items(checking') : a.counter = mark'
    <3>1. CASE mark = 0
      BY <2>1, <3>1
    <3>2. CASE mark # 0
      <4>1. PICK a \in kept \cup {e} : a.counter = mark
        BY <1>0, <2>2, <3>2 DEF Remembered
      <4>2. CASE e.counter \in seen /\ UNCHANGED <<seen, kept>>
        <5>1. PICK b \in kept : b.counter = e.counter
          BY <1>0, <4>2 DEF Remembered
        <5> QED BY <2>1, <4>1, <4>2, <5>1
      <4>3. CASE kept' = kept \cup {e}
        BY <2>1, <4>1, <4>3
      <4> QED BY <2>1, <4>2, <4>3
    <3> QED BY <3>1, <3>2
  <2>6. \A n \in seen' : \E a \in kept' : a.counter = n
    BY <1>0, <2>1, <2>4 DEF Remembered
  <2>7. forgetting' \in {"order", "mark"} => \A n \in seen' : \E a \in kept' \ old' : a.counter = n
    <3> SUFFICES ASSUME forgetting' \in {"order", "mark"}, NEW n \in seen'
                 PROVE  \E a \in kept' \ old' : a.counter = n
      OBVIOUS
    <3>1. \A m \in seen : \E a \in kept \ old : a.counter = m
      BY <1>0, <2>1 DEF Remembered
    <3>2. CASE n \in seen
      BY <2>1, <3>1, <3>2
    <3>3. CASE n \notin seen
      <4>1. n = e.counter /\ kept' = kept \cup {e}
        BY <2>1, <2>4, <3>3
      <4>2. e \notin old
        BY <1>0, <2>3 DEF Remembered
      <4> QED BY <2>1, <4>1, <4>2
    <3> QED BY <3>2, <3>3
  <2>8. old' \subseteq kept'
    BY <1>0, <2>1 DEF Remembered
  <2> QED BY <2>5, <2>6, <2>7, <2>8 DEF Remembered
<1>3. ASSUME ForgetSeen PROVE Remembered'
  BY <1>0, <1>3 DEF ForgetSeen, Remembered
<1>4. ASSUME ForgetMark PROVE Remembered'
  BY <1>0, <1>4 DEF ForgetMark, Remembered
<1>5. ASSUME ForgetOrder PROVE Remembered'
  BY <1>0, <1>5 DEF ForgetOrder, Remembered
<1>6. ASSUME RemovePeer PROVE Remembered'
  BY <1>0, <1>6 DEF RemovePeer, Remembered
<1>7. ASSUME UNCHANGED receiverVars PROVE Remembered'
  BY <1>0, <1>7 DEF receiverVars, Remembered
<1>8. \/ CheckMark \/ Insert \/ ForgetSeen \/ ForgetMark \/ ForgetOrder \/ RemovePeer
      \/ UNCHANGED receiverVars
  BY DEF Next, SenderStep, LinkStep, ReceiverStep, NextEventId, Broadcast, SenderLocks,
         WorkerLocks, LockPeers, SendToLinkedPeer, WorkerTakes, BroadcastToPeers, Restart,
         Connect, SenderCleansUp, Read, LoseTail, vars
<1> QED BY <1>1, <1>2, <1>3, <1>4, <1>5, <1>6, <1>7, <1>8

\* The invariant holds before anything is minted.
LEMMA RelayInit == Init => RelayInv
<1> SUFFICES ASSUME Init PROVE RelayInv
  OBVIOUS
<1>1. TypeOK
  BY InitType
<1>2. /\ Minted = {} /\ Streamed = {} /\ Items(queue) = {} /\ Items(hand) = {}
      /\ Items(evq) = {} /\ Items(checking) = {} /\ kept = {}
  BY ItemsOfEmpty DEF Init, Minted, Streamed
<1>3. MintsInOrder
  BY <1>2 DEF MintsInOrder, Known, Init
<1>4. NoTwins
  BY ItemsOfEmpty DEF NoTwins, Init
<1>5. OnePlace
  BY <1>2 DEF OnePlace
<1>6. Remembered
  BY DEF Remembered, Init
<1> QED BY <1>1, <1>3, <1>4, <1>5, <1>6 DEF RelayInv

\* The receiver refuses an event only on account of one that it admitted since
\* it last began to forget the peer: whatever the sender's clock does at a
\* restart, whatever the interleaving of tasks, worker, streams and the steps of
\* check_and_insert and remove_peer, and however often the link is dropped,
\* replaced or loses its tail.
THEOREM RefusesForCause == Spec => RefusedForCause
<1>1. RelayInv /\ [Next]_vars => RelayInv'
  <2> SUFFICES ASSUME RelayInv, [Next]_vars PROVE RelayInv'
    OBVIOUS
  <2>1. TypeOK'
    BY NextType DEF RelayInv
  <2>2. MintsInOrder' /\ NoTwins' /\ OnePlace'
    BY PlacesStep DEF RelayInv
  <2>3. Remembered'
    BY RememberedStep
  <2> QED BY <2>1, <2>2, <2>3 DEF RelayInv
<1> DEFINE Refusal == \A e \in {refused'} \ {refused, None} :
                        \E a \in kept : MintedLater(a, e) \/ ClockSetBack(a, e)
<1>2. RelayInv /\ [Next]_vars => [Refusal]_vars
  BY RefusalStep
<1>3. Spec => [][Refusal]_vars
  BY RelayInit, <1>1, <1>2, PTL DEF Spec
<1> QED BY <1>3 DEF RefusedForCause
=============================================================================
