------------------------------ MODULE S2sLink ------------------------------
(***************************************************************************)
(* The link between two federated servers (s2s.rs): the retry loop that    *)
(* dials, the handler of an incoming or outgoing connection with its       *)
(* reader and writer tasks, the tie-break between two simultaneous         *)
(* connections, and the cleanup by connection generation.  What the        *)
(* messages say is in S2sPresence; here a link only opens, is refused, is  *)
(* replaced, dies and is redialled.                                        *)
(*                                                                         *)
(* A connection is a slot.  A slot is dialled again only when nothing      *)
(* refers to its last use any more, so a slot stands for a generation and  *)
(* the model can redial for ever with finitely many states.                *)
(***************************************************************************)
EXTENDS Naturals

CONSTANTS
  Servers,         \* the two servers
  Lower,           \* the one whose endpoint ID is the smaller
  DialConfigs,     \* who lists the other in --s2s-peers: the sets to try
  RejectConfigs,   \* whose --s2s-allowed-peers leaves the other out: likewise
  Slots,           \* 1 .. n, the connections that can exist at once
  None,            \* no connection
  FaultKinds,      \* which of "crash", "loss", "revoke", "limit" may happen
  MaxFaults        \* bound: how many of them do

ASSUME S2sLinkAssumption ==
  /\ Lower \in Servers
  /\ \A s \in Servers : \E o \in Servers : Servers = {s, o} /\ s # o
  /\ DialConfigs \subseteq SUBSET Servers /\ RejectConfigs \subseteq SUBSET Servers
  /\ Slots \subseteq Nat /\ None \notin Slots
  /\ MaxFaults \in Nat

VARIABLES
  dials,    \* the servers that dial the other: fixed at the start
  rejects,  \* the servers that do not allow the other: fixed at the start
  dialer,   \* per slot: who dialled it
  conn,     \* per slot: FALSE once closed, lost or orphaned by a crash
  opened,   \* per slot: the dialler has sent over it, so its stream exists
  hnd,      \* per server and slot: where its handle_s2s_connection is
  rd, wr,   \* per server and slot: its read and write tasks
  peers,    \* the peers map: the slot of the entry for the other server
  loop,     \* the slot the retry loop is dialling or handling
  faults    \* how many faults are left

linkVars == <<dials, rejects, dialer, conn, opened, hnd, rd, wr, peers, loop, faults>>

Other(s) == CHOOSE o \in Servers : o # s
Incoming(s, c) == dialer[c] # s

\* An end has let go of the connection when its handler returned and neither
\* task holds a stream; QUIC closes a connection whose last handle is dropped.
LetGo(s, c) == hnd[s][c] = "none" /\ rd[s][c] = "done" /\ wr[s][c] = "done"
Up(c) == conn[c] /\ \A s \in Servers : ~ LetGo(s, c)

Idle(s, c) == hnd[s][c] = "none" /\ rd[s][c] # "run" /\ wr[s][c] # "run"
Unused(c) == \A s \in Servers : Idle(s, c)

LinkInit ==
  /\ dials \in DialConfigs /\ rejects \in RejectConfigs
  /\ dialer = [c \in Slots |-> Lower]
  /\ conn = [c \in Slots |-> FALSE]
  /\ opened = [c \in Slots |-> FALSE]
  /\ hnd = [s \in Servers |-> [c \in Slots |-> "none"]]
  /\ rd = [s \in Servers |-> [c \in Slots |-> "none"]]
  /\ wr = [s \in Servers |-> [c \in Slots |-> "none"]]
  /\ peers = [s \in Servers |-> None]
  /\ loop = [s \in Servers |-> None]
  /\ faults = MaxFaults

-----------------------------------------------------------------------------
\* The retry loop, and the handler up to its registration.

\* The loop dials only while the map has no entry; the dial takes a while.
Dial(s, c) ==
  /\ s \in dials /\ loop[s] = None /\ peers[s] = None
  /\ Unused(c)
  /\ loop' = [loop EXCEPT ![s] = c]
  /\ dialer' = [dialer EXCEPT ![c] = s]
  /\ conn' = [conn EXCEPT ![c] = TRUE]
  /\ opened' = [opened EXCEPT ![c] = FALSE]
  /\ hnd' = [hnd EXCEPT ![s][c] = "dialing"]
  /\ rd' = [x \in Servers |-> [rd[x] EXCEPT ![c] = "none"]]
  /\ wr' = [x \in Servers |-> [wr[x] EXCEPT ![c] = "none"]]
  /\ UNCHANGED <<dials, rejects, peers, faults>>

\* The connection is made; the accepting side checks its allowlist first.
Connected(s, c) ==
  /\ hnd[s][c] = "dialing"
  /\ hnd' = [hnd EXCEPT ![s][c] = "opening",
                         ![Other(s)][c] = IF Other(s) \in rejects THEN "none" ELSE "opening"]
  /\ conn' = [conn EXCEPT ![c] = @ /\ Other(s) \notin rejects]
  /\ UNCHANGED <<dials, rejects, dialer, opened, rd, wr, peers, loop, faults>>

LoopAfter(s, c) == IF loop[s] = c THEN [loop EXCEPT ![s] = None] ELSE loop

\* open_bi or accept_bi fails: the handler returns without touching the map.
OpenFails(s, c) ==
  /\ hnd[s][c] = "opening" /\ ~ Up(c)
  /\ hnd' = [hnd EXCEPT ![s][c] = "none"]
  /\ loop' = LoopAfter(s, c)
  /\ UNCHANGED <<dials, rejects, dialer, conn, opened, rd, wr, peers, faults>>

\* A QUIC stream reaches the accepting end with its first data or its end.
StreamOpen(s, c) == Incoming(s, c) => opened[c]

DuplicateLinkWinsNewest(s, c) == TRUE
DuplicateLinkWins(s, c) == Incoming(s, c) # (s = Lower)

YieldsTo(s, c) == peers[s] # None /\ ~ DuplicateLinkWins(s, c)

\* The duplicate that loses closes its connection and leaves the map alone.
Yield(s, c) ==
  /\ hnd[s][c] = "opening" /\ StreamOpen(s, c) /\ YieldsTo(s, c)
  /\ conn' = [conn EXCEPT ![c] = FALSE]
  /\ hnd' = [hnd EXCEPT ![s][c] = "none"]
  /\ loop' = LoopAfter(s, c)
  /\ UNCHANGED <<dials, rejects, dialer, opened, rd, wr, peers, faults>>

\* Replacing an entry drops its write_tx: that link's writer will end.
Register(s, c) ==
  /\ hnd[s][c] = "opening" /\ StreamOpen(s, c) /\ ~ YieldsTo(s, c)
  /\ peers' = [peers EXCEPT ![s] = c]
  /\ hnd' = [hnd EXCEPT ![s][c] = "greeting"]
  /\ rd' = [rd EXCEPT ![s][c] = "run"]
  /\ wr' = [wr EXCEPT ![s][c] = "run"]
  /\ UNCHANGED <<dials, rejects, dialer, conn, opened, loop, faults>>

\* The slots on which s's sending opens the stream.
Reaches(s, c) == Up(c) /\ wr[s][c] = "run" /\ dialer[c] = s

\* Hello goes out over the current entry, whichever connection that is by now.
Greet(s, c) ==
  /\ hnd[s][c] = "greeting"
  /\ hnd' = [hnd EXCEPT ![s][c] = "live"]
  /\ opened' = IF peers[s] # None /\ Reaches(s, peers[s])
               THEN [opened EXCEPT ![peers[s]] = TRUE] ELSE opened
  /\ UNCHANGED <<dials, rejects, dialer, conn, rd, wr, peers, loop, faults>>

-----------------------------------------------------------------------------
\* A live link: its reader, its writer and the end of its handler.

\* The reader is never aborted: it ends with its stream or the connection.
ReadEnds(s, c) ==
  /\ rd[s][c] = "run"
  /\ ~ Up(c) \/ wr[Other(s)][c] = "done"
  /\ rd' = [rd EXCEPT ![s][c] = "done"]
  /\ UNCHANGED <<dials, rejects, dialer, conn, opened, hnd, wr, peers, loop, faults>>

\* The writer ends when its entry is gone from the map, finishing the stream,
\* or when a write fails.
WriteEnds(s, c) ==
  /\ wr[s][c] = "run"
  /\ peers[s] # c \/ ~ Up(c)
  /\ wr' = [wr EXCEPT ![s][c] = "done"]
  /\ opened' = [opened EXCEPT ![c] = @ \/ Reaches(s, c)]
  /\ UNCHANGED <<dials, rejects, dialer, conn, hnd, rd, peers, loop, faults>>

\* Under the lock of the peers map: the entry goes only if it is still this
\* generation's.  A replacement's entry is left alone.
EntryAfterKeeps(s, c) == peers[s]
EntryAfterBlank(s, c) == IF peers[s] = c THEN 0 ELSE peers[s]
EntryAfter(s, c) == IF peers[s] = c THEN None ELSE peers[s]
HandlerEnds(s, c) ==
  /\ hnd[s][c] = "live" /\ (rd[s][c] = "done" \/ wr[s][c] = "done")
  /\ hnd' = [hnd EXCEPT ![s][c] = "none"]
  /\ loop' = LoopAfter(s, c)
  /\ peers' = [peers EXCEPT ![s] = EntryAfter(s, c)]
  /\ UNCHANGED <<dials, rejects, dialer, conn, opened, rd, wr, faults>>

\* The other server answered our Hello with a HelloAck that does not accept us.
Rejected(s) ==
  /\ Other(s) \in rejects
  /\ \E c \in Slots : peers[s] = c /\ hnd[s][c] = "live" /\ hnd[Other(s)][c] = "live"
  /\ peers' = [peers EXCEPT ![s] = None]
  /\ UNCHANGED <<dials, rejects, dialer, conn, opened, hnd, rd, wr, loop, faults>>

-----------------------------------------------------------------------------
\* Faults and the operator.

Fault(kind) == kind \in FaultKinds /\ faults > 0 /\ faults' = faults - 1

\* The process dies without a closing handshake and starts again.
Crash(s) ==
  /\ Fault("crash")
  /\ conn' = [c \in Slots |-> conn[c] /\ hnd[Other(s)][c] = "dialing"]
  /\ hnd' = [hnd EXCEPT ![s] = [c \in Slots |-> "none"]]
  /\ rd' = [rd EXCEPT ![s] = [c \in Slots |-> "none"]]
  /\ wr' = [wr EXCEPT ![s] = [c \in Slots |-> "none"]]
  /\ peers' = [peers EXCEPT ![s] = None]
  /\ loop' = [loop EXCEPT ![s] = None]
  /\ UNCHANGED <<dials, rejects, dialer, opened>>

\* The path dies: each end notices within S2S_MAX_IDLE.
Lose(c) ==
  /\ Fault("loss") /\ Up(c) /\ \A s \in Servers : hnd[s][c] # "dialing"
  /\ conn' = [conn EXCEPT ![c] = FALSE]
  /\ UNCHANGED <<dials, rejects, dialer, opened, hnd, rd, wr, peers, loop>>

\* REVOKEPEER takes the entry out of the map.
Revoke(s) ==
  /\ Fault("revoke") /\ peers[s] # None
  /\ peers' = [peers EXCEPT ![s] = None]
  /\ UNCHANGED <<dials, rejects, dialer, conn, opened, hnd, rd, wr, loop>>

-----------------------------------------------------------------------------
FirstUnused(c) == \A d \in Slots : Unused(d) => c <= d

HandlerStep(s, c) ==
  \/ Connected(s, c) \/ OpenFails(s, c) \/ Yield(s, c) \/ Register(s, c)
  \/ Greet(s, c) \/ HandlerEnds(s, c)

LinkNext ==
  \/ \E s \in Servers, c \in Slots : FirstUnused(c) /\ Dial(s, c)
  \/ \E s \in Servers, c \in Slots :
       \/ Connected(s, c) \/ OpenFails(s, c) \/ Yield(s, c) \/ Register(s, c)
       \/ Greet(s, c) \/ HandlerEnds(s, c) \/ ReadEnds(s, c) \/ WriteEnds(s, c)
  \/ \E s \in Servers : Rejected(s) \/ Crash(s) \/ Revoke(s)
  \/ \E c \in Slots : Lose(c)

\* Every task is spawned and scheduled by tokio, the retry loop never stops,
\* a HelloAck is delivered, and a dead connection is noticed by its idle
\* timeout.  Nothing obliges a fault or an operator to act.
LinkFairness ==
  \A s \in Servers :
    /\ WF_linkVars(\E c \in Slots : FirstUnused(c) /\ Dial(s, c))
    /\ WF_linkVars(Rejected(s))
    /\ \A c \in Slots :
         /\ WF_linkVars(HandlerStep(s, c))
         /\ WF_linkVars(ReadEnds(s, c))
         /\ WF_linkVars(WriteEnds(s, c))
LinkSpec == LinkInit /\ [][LinkNext]_linkVars /\ LinkFairness

-----------------------------------------------------------------------------
\* Every variable has its type.
LinkTypeOK ==
  /\ dials \in DialConfigs /\ rejects \in RejectConfigs
  /\ dialer \in [Slots -> Servers]
  /\ conn \in [Slots -> BOOLEAN] /\ opened \in [Slots -> BOOLEAN]
  /\ hnd \in [Servers -> [Slots -> {"none", "dialing", "opening", "greeting", "live"}]]
  /\ rd \in [Servers -> [Slots -> {"none", "run", "done"}]]
  /\ wr \in [Servers -> [Slots -> {"none", "run", "done"}]]
  /\ peers \in [Servers -> Slots \cup {None}] /\ loop \in [Servers -> Slots \cup {None}]
  /\ faults \in Nat

\* An entry of the peers map always belongs to a handler that is still running
\* and will take it out: the retry loop does not dial while an entry exists, so
\* an entry nobody serves would keep the two servers apart for ever.
EntryIsServed ==
  \A s \in Servers : peers[s] # None => hnd[s][peers[s]] \in {"greeting", "live"}

Agreed(c) == (\A s \in Servers : peers[s] = c /\ hnd[s][c] = "live") /\ Up(c)

Settled == \E c \in Slots : Agreed(c)

\* Whoever dials, and whatever crashed or was lost, two servers that allow each
\* other end up with the same live connection in their maps and keep it
\* (duplicate_link_wins: "Both sides evaluate this and arrive at the same
\* surviving connection"; otherwise "the two servers trade teardowns forever").
LinkSettles == rejects = {} => <>[]Settled

\* The link both sides keep is never given up for a duplicate: once both maps
\* hold a connection the lower server dialled, only a fault takes it out, or an
\* older connection from that server which the other has yet to accept.
AgreedLinkKept ==
  [][\A c \in Slots :
       /\ Agreed(c) /\ dialer[c] = Lower /\ rejects = {} /\ faults' = faults
       /\ \A d \in Slots : dialer[d] = Lower => hnd[Other(Lower)][d] # "opening"
       => Agreed(c)']_linkVars
=============================================================================
