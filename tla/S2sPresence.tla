---------------------------- MODULE S2sPresence ----------------------------
(***************************************************************************)
(* What the messages of a link do to one of the two servers, "me": the     *)
(* handshake, the members of the other server that its channels list       *)
(* (remote_members), and the notice that a link is gone.  Composes S2sLink *)
(* with the event channel and the one event processor that reads it        *)
(* (server.rs).  The other server does the same with the roles swapped, so *)
(* only its sending is modelled.                                           *)
(*                                                                         *)
(* The write channel, the QUIC stream and the bridge to the line reader    *)
(* are one sequence per connection, "pipe".  Hello stands for itself and   *)
(* the sync request sent right behind it; "roster" for any event that adds *)
(* a member of the sender: a join, or the response to a sync request.      *)
(***************************************************************************)
EXTENDS S2sLink, Sequences

CONSTANTS
  WriteCap,        \* the capacity of a link's write channel (256 in the code)
  EventCap         \* the capacity of the event channel (1024 in the code)

ASSUME S2sPresenceAssumption == {WriteCap, EventCap} \subseteq Nat \ {0}

VARIABLES
  me,       \* the server watched: fixed at the start
  pipe,     \* per slot: what is on its way to me
  owed,     \* the other server has a Hello of mine to answer
  evq,      \* my event channel
  auth,     \* the other server is in my authenticated_peers
  revoking, \* a REVOKEPEER of mine has taken the entry and not yet auth
  roster    \* some channel of mine lists a member of the other server

presenceVars == <<me, pipe, owed, evq, auth, revoking, roster>>
vars == <<linkVars, presenceVars>>

Init ==
  /\ LinkInit
  /\ me \in Servers
  /\ pipe = [c \in Slots |-> << >>]
  /\ owed = FALSE /\ evq = << >> /\ auth = FALSE /\ revoking = FALSE /\ roster = FALSE

\* Sending goes through whatever entry the map holds now; a message for a link
\* that is down, or whose writer has stopped, is lost.
Arrives(s) == peers[s] # None /\ Up(peers[s]) /\ wr[s][peers[s]] = "run"
SentToMe(kind) ==
  IF Arrives(Other(me))
  THEN [pipe EXCEPT ![peers[Other(me)]] = Append(@, kind)]
  ELSE pipe
\* A sender waits for room in the write channel.
HasRoom == Arrives(Other(me)) => Len(pipe[peers[Other(me)]]) < WriteCap

-----------------------------------------------------------------------------
\* A slot is dialled again only when no queued event came over its last use.
DialNew(s, c) ==
  /\ FirstUnused(c) /\ Dial(s, c)
  /\ \A i \in 1 .. Len(evq) : evq[i].via # c
  /\ pipe' = [pipe EXCEPT ![c] = << >>]
  /\ UNCHANGED <<me, owed, evq, auth, revoking, roster>>

Handshake(s, c) ==
  /\ Greet(s, c)
  /\ IF s = me
     THEN owed' = (owed \/ Arrives(me)) /\ UNCHANGED pipe
     ELSE HasRoom /\ pipe' = SentToMe("hello") /\ UNCHANGED owed
  /\ UNCHANGED <<me, evq, auth, revoking, roster>>

\* The other server's HelloAck: it accepts me if its allowlist has me.
AnswerHello ==
  /\ owed /\ HasRoom
  /\ owed' = FALSE
  /\ pipe' = SentToMe(IF Other(me) \in rejects THEN "nack" ELSE "ack")
  /\ UNCHANGED <<linkVars, me, evq, auth, revoking, roster>>

\* The other server's broadcast worker relays presence to me if it may; one
\* such message under way at a time bounds the model.
UnderWay ==
  \/ \E c \in Slots : \E i \in 1 .. Len(pipe[c]) : pipe[c][i] = "roster"
  \/ \E i \in 1 .. Len(evq) : evq[i].kind = "roster"
SendRoster ==
  /\ Arrives(Other(me)) /\ Other(me) \notin rejects /\ ~ UnderWay /\ HasRoom
  /\ pipe' = SentToMe("roster")
  /\ UNCHANGED <<linkVars, me, owed, evq, auth, revoking, roster>>

-----------------------------------------------------------------------------
\* My reader tasks, and the cleanup of a handler of mine.

Read(c) ==
  /\ rd[me][c] = "run" /\ pipe[c] # << >> /\ Len(evq) < EventCap
  /\ evq' = Append(evq, [kind |-> Head(pipe[c]), via |-> c])
  /\ pipe' = [pipe EXCEPT ![c] = Tail(@)]
  /\ UNCHANGED <<linkVars, me, owed, auth, revoking, roster>>

\* What had not arrived when the connection went down is lost.
LoseTail(c) ==
  /\ ~ Up(c) /\ pipe[c] # << >>
  /\ pipe' = [pipe EXCEPT ![c] = << >>]
  /\ UNCHANGED <<linkVars, me, owed, evq, auth, revoking, roster>>

\* A reader hands on every line that arrived before it ends.
ReaderEnds(s, c) ==
  /\ s = me => pipe[c] = << >>
  /\ ReadEnds(s, c) /\ UNCHANGED presenceVars

\* The notice is in the event channel before the peers lock is released, and
\* only when the entry was this generation's.
DisconnectNoticeAlways(s, c) == <<[kind |-> "disc", via |-> c]>>
DisconnectNoticeLate(s, c) ==
  IF peers[s] = c THEN <<[kind |-> "disc", via |-> EntryAfter(s, c)]>> ELSE << >>
DisconnectNotice(s, c) ==
  IF peers[s] = c THEN <<[kind |-> "disc", via |-> c]>> ELSE << >>
CleanUp(s, c) ==
  /\ HandlerEnds(s, c)
  /\ evq' = IF s = me THEN evq \o DisconnectNotice(s, c) ELSE evq
  /\ Len(evq') <= EventCap
  /\ UNCHANGED <<me, pipe, owed, auth, revoking, roster>>

-----------------------------------------------------------------------------
\* My event processor.  Anything but the handshake is dropped while the peer is
\* not authenticated, the notice that it is gone included.

\* A join or a sync response lists members of the peer; the notice wipes them.
AddsMembers(kind) == kind = "roster"
RosterAfter(kind) ==
  IF auth THEN (roster \/ AddsMembers(kind)) /\ kind # "disc" ELSE roster
\* A Hello is proof enough of who is at the other end; so is an accepting ack.
AuthAfter(kind) == auth \/ kind \in {"hello", "ack"}
MapAfter(kind) == IF kind = "nack" THEN [peers EXCEPT ![me] = None] ELSE peers

Process ==
  /\ evq # << >>
  /\ evq' = Tail(evq)
  /\ LET kind == Head(evq).kind
     IN  /\ auth' = AuthAfter(kind)
         /\ peers' = MapAfter(kind)
         /\ roster' = RosterAfter(kind)
  /\ UNCHANGED <<dials, rejects, dialer, conn, opened, hnd, rd, wr, loop, faults, me, pipe, owed, revoking>>

\* Past S2S_MAX_EVENTS_PER_SEC an event of any kind is dropped.
RateLimited ==
  /\ evq # << >> /\ Fault("limit")
  /\ evq' = Tail(evq)
  /\ UNCHANGED <<dials, rejects, dialer, conn, opened, hnd, rd, wr, peers, loop, me, pipe, owed, auth, revoking, roster>>

\* A crash of mine loses everything I hold; one of the other server, what it
\* was asked.
Restart(s) ==
  /\ Crash(s)
  /\ IF s = me
     THEN /\ pipe' = [c \in Slots |-> << >>]
          /\ evq' = << >> /\ auth' = FALSE /\ revoking' = FALSE /\ roster' = FALSE
          /\ UNCHANGED owed
     ELSE owed' = FALSE /\ UNCHANGED <<pipe, evq, auth, revoking, roster>>
  /\ UNCHANGED me

\* REVOKEPEER takes the entry under one lock and the peer's authentication under
\* another, and sends no notice.
RevokePeer(s) ==
  /\ Revoke(s)
  /\ revoking' = (revoking \/ s = me)
  /\ UNCHANGED <<me, pipe, owed, evq, auth, roster>>
RevokeAuth ==
  /\ revoking /\ revoking' = FALSE /\ auth' = FALSE
  /\ UNCHANGED <<linkVars, me, pipe, owed, evq, roster>>

LinkOnly(s, c) ==
  /\ Connected(s, c) \/ OpenFails(s, c) \/ Yield(s, c) \/ Register(s, c) \/ WriteEnds(s, c)
  /\ UNCHANGED presenceVars

Next ==
  \/ \E s \in Servers, c \in Slots :
       \/ DialNew(s, c) \/ LinkOnly(s, c) \/ Handshake(s, c)
       \/ ReaderEnds(s, c) \/ CleanUp(s, c)
  \/ \E c \in Slots : Read(c) \/ LoseTail(c)
  \/ AnswerHello \/ SendRoster \/ Process \/ RateLimited \/ RevokeAuth
  \/ \E s \in Servers : Restart(s) \/ RevokePeer(s)
  \/ Rejected(Other(me)) /\ UNCHANGED presenceVars
  \/ \E c \in Slots : Lose(c) /\ UNCHANGED presenceVars
Spec == Init /\ [][Next]_vars

-----------------------------------------------------------------------------
Kinds == {"hello", "ack", "nack", "roster", "disc"}

\* Every variable has its type.
PresenceTypeOK ==
  /\ LinkTypeOK
  /\ me \in Servers /\ pipe \in [Slots -> Seq(Kinds \ {"disc"})]
  /\ evq \in Seq([kind: Kinds, via: Slots])
  /\ owed \in BOOLEAN /\ auth \in BOOLEAN /\ revoking \in BOOLEAN /\ roster \in BOOLEAN

\* A disconnect notice never stands behind an event of the link that is now in
\* the map: it wipes what the old link taught, never what the new one did
\* (handle_s2s_connection sends it before it releases the peers lock).
WipesOnlyTheOld ==
  \A j \in 1 .. Len(evq) :
    evq[j].kind = "disc" => \A i \in 1 .. j : evq[i].via # peers[me]
=============================================================================
