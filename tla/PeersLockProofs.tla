-------------------------- MODULE PeersLockProofs --------------------------
(***************************************************************************)
(* Proofs about PeersLock, for any peers and capacities: the channels keep *)
(* within their capacities, and there are two ways to hold the peers lock  *)
(* for ever: a cleanup before a full event channel whose reader waits for  *)
(* the lock, and a send to a live peer that has stopped reading.           *)
(***************************************************************************)
EXTENDS PeersLock, QueueLemmas

Event == [from: Peers, kind: {"answered", "plain"}]

\* The lock is held by someone who is at a step that releases it.
HolderIsThere ==
  /\ lock = "handler" => \E p \in Peers : handler[p] \in {"hello", "notice"}
  /\ lock = "worker" => worker = "send"
  /\ lock = "processor" => proc # None

LockInv == TypeOK /\ HolderIsThere

-----------------------------------------------------------------------------
\* A send that returned left the write channels within their capacity.
LEMMA RoomAfterSend ==
  ASSUME TypeOK, NEW p \in Peers, SendReturns(p)
  PROVE  RoomAfter(p) \in [Peers -> 0 .. WriteCap]
<1>0. WriteCap \in Nat /\ room \in [Peers -> 0 .. WriteCap] /\ dead \in [Peers -> BOOLEAN]
  BY PeersLockAssumption DEF TypeOK
<1>1. CASE p \in entry /\ ~ dead[p]
  <2>1. room[p] \in 0 .. WriteCap /\ room[p] < WriteCap
    BY <1>0, <1>1 DEF SendReturns
  <2>2. room[p] + 1 \in 0 .. WriteCap
    BY <1>0, <2>1
  <2> QED BY <1>0, <1>1, <2>2 DEF RoomAfter
<1>2. CASE ~ (p \in entry /\ ~ dead[p])
  BY <1>0, <1>2 DEF RoomAfter
<1> QED BY <1>1, <1>2

\* A send to a peer returns, or its link's writer can make room, or the peer
\* has left everything unread.
LEMMA SendsReturn ==
  ASSUME TypeOK, NEW p \in Peers
  PROVE  Returns(p) \/ Unread(p)
<1>0. /\ WriteCap \in Nat /\ WriteCap > 0 /\ room[p] \in 0 .. WriteCap
      /\ StreamCap \in Nat /\ stream[p] \in 0 .. StreamCap
  BY PeersLockAssumption DEF TypeOK
<1>1. CASE SendReturns(p)
  BY <1>1 DEF Returns
<1>2. CASE ~ SendReturns(p)
  <2>1. p \in entry /\ ~ dead[p] /\ ~ (room[p] < WriteCap)
    BY <1>2 DEF SendReturns
  <2>2. room[p] > 0 /\ room[p] = WriteCap
    BY <1>0, <2>1
  <2>3. CASE stream[p] < StreamCap
    BY <2>1, <2>2, <2>3 DEF Returns, CanWrite
  <2>4. CASE ~ (stream[p] < StreamCap)
    <3>1. stream[p] = StreamCap
      BY <1>0, <2>4
    <3> QED BY <2>1, <2>2, <3>1 DEF Unread
  <2> QED BY <2>3, <2>4
<1> QED BY <1>1, <1>2

\* An event fits into the channel when it is not full.
LEMMA EventFits ==
  ASSUME TypeOK, NEW e \in Event, Len(evq) < EventCap
  PROVE  Append(evq, e) \in Seq(Event) /\ Len(Append(evq, e)) <= EventCap
<1>1. evq \in Seq(Event) /\ EventCap \in Nat
  BY PeersLockAssumption DEF TypeOK, Event
<1>2. Append(evq, e) \in Seq(Event) /\ Len(Append(evq, e)) = Len(evq) + 1 /\ Len(evq) \in Nat
  BY <1>1, ItemsOfAppend, LenProperties
<1> QED BY <1>1, <1>2

-----------------------------------------------------------------------------
\* At the start nobody holds the lock and every channel is empty.
LEMMA LockInvInit == Init => LockInv
<1> SUFFICES ASSUME Init PROVE LockInv
  OBVIOUS
<1>1. WriteCap \in Nat /\ EventCap \in Nat /\ 0 \in 0 .. WriteCap /\ 0 \in 0 .. StreamCap
  BY PeersLockAssumption
<1>2. << >> \in Seq(Event) /\ Len(<< >>) = 0
  OBVIOUS
<1>3. TypeOK
  BY <1>1, <1>2 DEF Init, TypeOK, Event
<1>4. HolderIsThere
  BY DEF Init, HolderIsThere
<1> QED BY <1>3, <1>4 DEF LockInv

\* Every step keeps the types, the capacities and the holder of the lock.
LEMMA LockInvNext == LockInv /\ [Next]_vars => LockInv'
<1> SUFFICES ASSUME LockInv, [Next]_vars PROVE LockInv'
  OBVIOUS
<1> USE DEF LockInv
<1>0. WriteCap \in Nat /\ EventCap \in Nat /\ 0 \in 0 .. WriteCap /\ 0 \in 0 .. StreamCap /\ None \notin Peers
  BY PeersLockAssumption
<1>1. ASSUME NEW p \in Peers, Register(p) PROVE LockInv'
  <2>1. TypeOK'
    BY <1>0, <1>1 DEF Register, TypeOK
  <2>2. HolderIsThere'
    BY <1>1 DEF Register, TypeOK, HolderIsThere
  <2> QED BY <2>1, <2>2
<1>2. ASSUME NEW p \in Peers, GreetLocks(p) PROVE LockInv'
  <2>1. TypeOK'
    BY <1>2 DEF GreetLocks, Acquire, TypeOK
  <2>2. HolderIsThere'
    BY <1>2 DEF GreetLocks, Acquire, TypeOK, HolderIsThere
  <2> QED BY <2>1, <2>2
<1>3. ASSUME NEW p \in Peers, Greet(p) PROVE LockInv'
  <2>1. room' \in [Peers -> 0 .. WriteCap]
    BY <1>3, RoomAfterSend DEF Greet
  <2>2. TypeOK'
    BY <1>3, <2>1 DEF Greet, Release, TypeOK
  <2>3. HolderIsThere'
    BY <1>3 DEF Greet, Release, HolderIsThere
  <2> QED BY <2>2, <2>3
<1>4. ASSUME NEW p \in Peers, LinkDies(p) PROVE LockInv'
  <2>1. TypeOK'
    BY <1>4 DEF LinkDies, TypeOK
  <2>2. HolderIsThere'
    BY <1>4 DEF LinkDies, HolderIsThere
  <2> QED BY <2>1, <2>2
<1>5. ASSUME NEW p \in Peers, CleanupLocks(p) PROVE LockInv'
  <2>1. TypeOK'
    BY <1>5 DEF CleanupLocks, Acquire, TypeOK
  <2>2. HolderIsThere'
    BY <1>5 DEF CleanupLocks, Acquire, TypeOK, HolderIsThere
  <2> QED BY <2>1, <2>2
<1>6. ASSUME NEW p \in Peers, PeerDisconnected(p) PROVE LockInv'
  <2>1. [from |-> p, kind |-> "plain"] \in Event
    BY DEF Event
  <2>2. evq' \in Seq(Event) /\ Len(evq') <= EventCap
    BY <1>6, <2>1, EventFits DEF PeerDisconnected
  <2>3. TypeOK'
    BY <1>6, <2>2 DEF PeerDisconnected, Release, TypeOK, Event
  <2>4. HolderIsThere'
    BY <1>6 DEF PeerDisconnected, Release, HolderIsThere
  <2> QED BY <2>3, <2>4
<1>7. ASSUME NEW p \in Peers, Read(p) PROVE LockInv'
  <2>1. PICK kind \in {"answered", "plain"} : evq' = Append(evq, [from |-> p, kind |-> kind])
    BY <1>7 DEF Read
  <2>2. [from |-> p, kind |-> kind] \in Event
    BY DEF Event
  <2>3. evq' \in Seq(Event) /\ Len(evq') <= EventCap
    BY <1>7, <2>1, <2>2, EventFits DEF Read
  <2>4. TypeOK'
    BY <1>7, <2>3 DEF Read, TypeOK, Event
  <2>5. HolderIsThere'
    BY <1>7 DEF Read, HolderIsThere
  <2> QED BY <2>4, <2>5
<1>8. ASSUME NEW p \in Peers, Write(p) PROVE LockInv'
  <2>1. room[p] - 1 \in 0 .. WriteCap /\ stream[p] + 1 \in 0 .. StreamCap
    BY <1>0, <1>8, PeersLockAssumption DEF Write, CanWrite, TypeOK
  <2>2. TypeOK'
    BY <1>8, <2>1 DEF Write, TypeOK
  <2>3. HolderIsThere'
    BY <1>8 DEF Write, HolderIsThere
  <2> QED BY <2>2, <2>3
<1>9. CASE Broadcast
  <2>1. TypeOK'
    BY <1>9 DEF Broadcast, TypeOK
  <2>2. HolderIsThere'
    BY <1>9 DEF Broadcast, HolderIsThere
  <2> QED BY <2>1, <2>2
<1>10. CASE WorkerLocks
  <2>1. TypeOK'
    BY <1>10 DEF WorkerLocks, Acquire, TypeOK
  <2>2. HolderIsThere'
    BY <1>10 DEF WorkerLocks, Acquire, HolderIsThere
  <2> QED BY <2>1, <2>2
<1>11. CASE WorkerSends
  <2>1. PICK p \in audience : SendReturns(p) /\ room' = RoomAfter(p) /\ audience' = audience \ {p}
    BY <1>11 DEF WorkerSends
  <2>2. p \in Peers
    BY DEF TypeOK
  <2>3. room' \in [Peers -> 0 .. WriteCap]
    BY <2>1, <2>2, RoomAfterSend
  <2>4. TypeOK'
    BY <1>11, <2>1, <2>3 DEF WorkerSends, TypeOK
  <2>5. HolderIsThere'
    BY <1>11 DEF WorkerSends, HolderIsThere
  <2> QED BY <2>4, <2>5
<1>12. CASE WorkerUnlocks
  <2>1. TypeOK'
    BY <1>12 DEF WorkerUnlocks, Release, TypeOK
  <2>2. HolderIsThere'
    BY <1>12 DEF WorkerUnlocks, Release, HolderIsThere
  <2> QED BY <2>1, <2>2
<1>13. CASE Process
  <2>1. evq \in Seq(Event) /\ evq # << >> /\ Len(evq) <= EventCap
    BY <1>13 DEF Process, TypeOK, Event
  <2>2. /\ Head(evq) \in Event /\ Tail(evq) \in Seq(Event)
        /\ Len(Tail(evq)) = Len(evq) - 1 /\ Len(evq) \in Nat
    BY <2>1, HeadTailProperties, LenProperties
  <2>3. evq' \in Seq(Event) /\ Len(evq') <= EventCap
    BY <1>0, <1>13, <2>1, <2>2 DEF Process
  <2>4. proc' \in Peers \cup {None}
    BY <1>13, <2>2 DEF Process, Event
  <2>5. TypeOK'
    BY <1>13, <2>3, <2>4 DEF Process, TypeOK, Event
  <2>6. HolderIsThere'
    BY <1>13 DEF Process, HolderIsThere
  <2> QED BY <2>5, <2>6
<1>14. CASE ProcessorLocks
  <2>1. TypeOK'
    BY <1>14 DEF ProcessorLocks, Acquire, TypeOK
  <2>2. HolderIsThere'
    BY <1>14 DEF ProcessorLocks, Acquire, HolderIsThere
  <2> QED BY <2>1, <2>2
<1>15. CASE Answer
  <2>1. proc \in Peers
    BY <1>15 DEF Answer, TypeOK
  <2>2. room' \in [Peers -> 0 .. WriteCap]
    BY <1>15, <2>1, RoomAfterSend DEF Answer
  <2>3. TypeOK'
    BY <1>15, <2>2 DEF Answer, Release, TypeOK
  <2>4. HolderIsThere'
    BY <1>15 DEF Answer, Release, HolderIsThere
  <2> QED BY <2>3, <2>4
<1>16. ASSUME NEW p \in Peers, PeerReads(p) PROVE LockInv'
  <2>1. stream[p] - 1 \in 0 .. StreamCap
    BY <1>16, PeersLockAssumption DEF PeerReads, TypeOK
  <2>2. TypeOK'
    BY <1>16, <2>1 DEF PeerReads, TypeOK
  <2>3. HolderIsThere'
    BY <1>16 DEF PeerReads, HolderIsThere
  <2> QED BY <2>2, <2>3
<1>17. CASE UNCHANGED vars
  <2>1. TypeOK'
    BY <1>17 DEF vars, TypeOK
  <2>2. HolderIsThere'
    BY <1>17 DEF vars, HolderIsThere
  <2> QED BY <2>1, <2>2
<1> QED
  BY <1>1, <1>2, <1>3, <1>4, <1>5, <1>6, <1>7, <1>8, <1>9, <1>10, <1>11, <1>12,
     <1>13, <1>14, <1>15, <1>16, <1>17 DEF Next

\* A holder that is there moves, but for the circle and the peers that do not
\* read.
LEMMA HolderStuck == LockInv => StuckForTwoReasons
<1> SUFFICES ASSUME LockInv, lock # "free", ~ HolderMoves
             PROVE  Circle \/ \E p \in SendingTo : Unread(p)
  BY DEF StuckForTwoReasons
<1> USE DEF LockInv
<1>1. CASE lock = "worker"
  <2>1. worker = "send" /\ audience \subseteq Peers
    BY <1>1 DEF HolderIsThere, TypeOK
  <2>2. PICK p \in audience : ~ Returns(p)
    BY <1>1, <2>1 DEF HolderMoves
  <2>3. Unread(p) /\ p \in SendingTo
    BY <1>1, <2>1, <2>2, SendsReturn DEF SendingTo
  <2> QED BY <2>3
<1>2. CASE lock = "processor"
  <2>1. proc # None /\ proc \in Peers
    BY <1>2 DEF HolderIsThere, TypeOK
  <2>2. ~ Returns(proc)
    BY <1>2, <2>1 DEF HolderMoves
  <2>3. Unread(proc) /\ proc \in SendingTo
    BY <1>2, <2>1, <2>2, SendsReturn DEF SendingTo
  <2> QED BY <2>3
<1>3. CASE lock = "handler"
  <2>1. PICK p \in Peers : handler[p] \in {"hello", "notice"}
    BY <1>3 DEF HolderIsThere
  <2>2. CASE handler[p] = "hello"
    <3>1. ~ Returns(p)
      BY <1>3, <2>2 DEF HolderMoves
    <3>2. Unread(p) /\ p \in SendingTo
      BY <1>3, <2>2, <3>1, SendsReturn DEF SendingTo
    <3> QED BY <3>2
  <2>3. CASE handler[p] = "notice"
    <3>1. ~ (Len(evq) < EventCap) /\ proc # None
      BY <1>3, <2>3 DEF HolderMoves
    <3>2. Len(evq) \in Nat /\ EventCap \in Nat /\ Len(evq) <= EventCap
      BY PeersLockAssumption, LenProperties DEF TypeOK
    <3>3. Len(evq) = EventCap
      BY <3>1, <3>2
    <3> QED BY <1>3, <2>3, <3>1, <3>3 DEF Circle
  <2> QED BY <2>1, <2>2, <2>3
<1> QED BY <1>1, <1>2, <1>3 DEF TypeOK

-----------------------------------------------------------------------------
\* Every channel keeps within its capacity and every variable has its type,
\* whatever the capacities: a send under the lock waits for room
\* (broadcast_to_peers, send_to_linked_peer, handle_s2s_connection).
THEOREM LockTypeCorrect == Spec => []TypeOK
<1>1. LockInv => TypeOK
  BY DEF LockInv
<1> QED BY <1>1, LockInvInit, LockInvNext, PTL DEF Spec

\* The peers lock is stuck for two reasons only: a cleanup at the end of
\* handle_s2s_connection waits for room in the event channel while the event
\* processor, the only one to empty it, waits for the lock; or the holder sends
\* to a live peer that has stopped reading (broadcast_to_peers,
\* send_to_linked_peer).  No capacity, number of peers or order of deaths and
\* sends makes another.
THEOREM TwoWaysToStick == Spec => []StuckForTwoReasons
  BY LockInvInit, LockInvNext, HolderStuck, PTL DEF Spec
=============================================================================
