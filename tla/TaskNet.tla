-------------------------------- MODULE TaskNet --------------------------------
(***************************************************************************)
(* One task shared by several servers.  The server it was opened on (its   *)
(* home) referees it; every other server files a participant's move        *)
(* unconfirmed, asks the home for its ruling until one comes, and follows  *)
(* the home's receipts.  Models db.rs `apply_act_event` and what it calls, *)
(* connection/act.rs `gate`, `mint_receipt` and the sweeps, and server.rs  *)
(* `judge_relayed_task_event`, the defer queue's waits, the routes home    *)
(* and catch-up.                                                           *)
(*                                                                         *)
(* A server runs several tasks at once: the S2S event processor (`proc`),  *)
(* the task a signing key's arrival wakes (`lookup`) and a sender's own    *)
(* connection (`conn`).  Each holds the database or the queue's lock for   *)
(* one call at a time, so what a handler still has to do is a stack of     *)
(* steps, and the steps of different tasks interleave.                     *)
(*                                                                         *)
(* Abstracted: signatures (an event either verifies, or its signer's key   *)
(* is not here yet), the venue (all events are in the task's own), referees *)
(* named by the opener (act-home), the ceiling of the routes, and the 24   *)
(* hours and 500 events a catch-up spans (it spans the whole log).         *)
(***************************************************************************)
EXTENDS ActTransitions, Sequences, FiniteSets

CONSTANTS
    Servers, Home,    \* the servers, and the one the task is opened on
    Kind,             \* "handoff" or "bounty"
    Moves, Opener,    \* the events that may happen, receipts aside
    Verb, Actor, At,  \* of a move: its verb, its author, where they connect
    Late,             \* of a move: minted past the deadline that bounds it
    Accepts,          \* of a move: the bid it names, or NoOne
    Offeree, NoOne,   \* whom the opener names, or nobody
    Known,            \* of a server: the authors whose key it starts with
    ActDeferMaxPerOrigin, ActDeferMaxTotal,  \* the defer queue's ceilings
    MaxMoves,         \* bound: how many of the moves happen, the opener too
    MaxFaults         \* bound: how many messages are lost or servers restart

VARIABLES
    conf,     \* of a server, an event: its log row's confirm_state, or "absent"
    row,      \* of a server: the live task row, or NoRow
    keys,     \* of a server: the authors whose signing key is on file
    parked,   \* of a server: its defer queue, in park order
    work,     \* of a server, a task: the steps its handler still has to do
    routes,   \* of a server: moves it keeps asking the home about
    net,      \* messages in flight
    minted,   \* every event made so far, in the order of their ids
    owed,     \* pairs of servers whose link came up: the first catches up
    faults,   \* faults so far
    past      \* history: what the home's row has been

vars == <<conf, row, keys, parked, work, routes, net, minted, owed, faults, past>>

Move(m) == <<m, "move">>
Receipt(m) == <<m, "confirm">>
Ids == Moves \X {"move", "confirm"}
IsReceipt(id) == id[2] = "confirm"
IsSystem(m) == Actor[m] \in Servers
Signer(id) == IF IsReceipt(id) THEN Home ELSE Actor[id[1]]
Tasks == {"proc", "lookup", "conn"}
NoRow == [state |-> "none", assignee |-> NoOne]
ConfirmStates ==
    {"absent", "record", "confirmed", "unconfirmed", "superseded", "ignored"}

Authors == {Actor[m] : m \in Moves}

\* A task's home is the server it is opened on, by a verb that is no move of
\* its kind; only a handoff can be offered to one person.
ASSUME TaskAssumption ==
    /\ Kind \in {"handoff", "bounty"} /\ (Kind = "bounty" => Offeree = NoOne)
    /\ Home \in Servers
    /\ Opener \in Moves /\ \A r \in Transitions[Kind] : r.verb # Verb[Opener]
    /\ At \in [Moves -> Servers] /\ At[Opener] = Home
    /\ Accepts \in [Moves -> Moves \cup {NoOne}]
    /\ Known \in [Servers -> SUBSET (Authors \cup Servers)]
    /\ NoOne \notin Authors \cup Servers \cup Moves
    /\ Ids \cap (Authors \cup Servers \cup {NoOne}) = {}
    /\ ActDeferMaxPerOrigin \in Nat \ {0} /\ ActDeferMaxTotal \in Nat \ {0}
    /\ MaxMoves \in Nat /\ MaxFaults \in Nat

-------------------------------------------------------------------------------
(* A server's log and view, and what a write does to them.                 *)

Store(s) == [conf |-> conf[s], row |-> row[s]]
OnFile(st, id) == st.conf[id] # "absent"

\* The bid a move names, if this server's log holds it as a bid.
BidAuthor(st, m) ==
    LET named == Accepts[m]
    IN IF named # NoOne /\ OnFile(st, Move(named)) /\ Verb[named] = "bid"
       THEN Actor[named] ELSE NoOne

AsEvent(st, m, system) ==
    [verb |-> Verb[m], actor |-> Actor[m], system |-> system,
     bidder |-> BidAuthor(st, m), late |-> Late[m]]

\* Where the rules take this server's task under move m, if anywhere.
Lands(st, m, system) ==
    IF st.row = NoRow THEN {}
    ELSE Check(Kind,
               [state |-> st.row.state, assignee |-> st.row.assignee,
                offerer |-> Actor[Opener], offeree |-> Offeree],
               AsEvent(st, m, system), NoOne)

FileAs(st, id, state) == [st EXCEPT !.conf[id] = state]

\* Mutant: the assignee is the bid an award names, not its author.
MaterializeBid(st, m, to) ==
    [st EXCEPT !.row =
        IF IsTerminal(Kind, to) THEN NoRow
        ELSE [state |-> to,
              assignee |-> IF st.row.assignee = NoOne /\ to = "assigned"
                           THEN Accepts[m] ELSE st.row.assignee]]

\* The view after a move: a finished task leaves it, and only the first step
\* into `assigned` names the assignee.
Materialize(st, m, to) ==
    [st EXCEPT !.row =
        IF IsTerminal(Kind, to) THEN NoRow
        ELSE [state |-> to,
              assignee |-> IF st.row.assignee = NoOne /\ to = "assigned"
                           THEN AssigneeSource(Kind, AsEvent(st, m, FALSE))
                           ELSE st.row.assignee]]

\* Every unconfirmed move the rules no longer admit leaves the pending set.
SupersedeRefused(st, keep) ==
    [st EXCEPT !.conf =
        [id \in Ids |->
            IF /\ st.conf[id] = "unconfirmed"
               /\ id # Move(keep)
               /\ Lands(st, id[1], IsSystem(id[1])) = {}
            THEN "superseded" ELSE st.conf[id]]]

\* The end a move brings its task to, or "none".
EndsIn ==
    [m \in Moves |->
        IF \E r \in Transitions[Kind] : r.verb = Verb[m] /\ IsTerminal(Kind, r.to)
        THEN (CHOOSE r \in Transitions[Kind] :
                r.verb = Verb[m] /\ IsTerminal(Kind, r.to)).to
        ELSE "none"]

\* What a reader of this log and view sees: the live row, nothing before the
\* opener is filed, and the end the task came to after that.
ViewOf(c, r) ==
    IF r # NoRow \/ c[Move(Opener)] = "absent" THEN r
    ELSE [state |-> EndsIn[CHOOSE m \in Moves :
                        EndsIn[m] # "none" /\ c[Move(m)] = "confirmed"],
          assignee |-> NoOne]

Applied(st, m, to) ==
    SupersedeRefused(Materialize(FileAs(st, Move(m), "confirmed"), m, to), m)

Write(out, st) == [out |-> out, st |-> st]

\* Mutant: the home's word is taken without running the rules.
ConfirmedAnyway(st, m) == {r.to : r \in {x \in Transitions[Kind] : x.verb = Verb[m]}}

\* Where the rules take the task under a move its home confirms.
ConfirmedMove(st, m) == Lands(st, m, IsSystem(m))

\* A receipt: one server's word that the move it names won.  `peer` is the
\* link it came on, the server itself for its own.
ApplyReceipt(s, m, peer) ==
    LET st == Store(s)
        to == ConfirmedMove(st, m)
    IN IF ~OnFile(st, Move(Opener)) THEN Write("before-subject", st)
       ELSE IF peer # Home THEN
            IF OnFile(st, Receipt(m)) THEN Write("duplicate", st)
            ELSE Write("ignored", FileAs(st, Receipt(m), "ignored"))
       ELSE IF ~OnFile(st, Move(m)) THEN Write("before-subject", st)
       ELSE IF OnFile(st, Receipt(m)) THEN Write("duplicate", st)
       ELSE LET noted == FileAs(st, Receipt(m), "record")
            IN IF conf[s][Move(m)] # "unconfirmed" THEN Write("recorded", noted)
               ELSE IF to = {} THEN Write("receipt-refused", noted)
               ELSE Write("confirmed", Applied(noted, m, CHOOSE x \in to : TRUE))

\* Mutant: a server with a row rules on its own.
OthersToRuleNever(s, m, peer) == FALSE

\* The move changes another server's task and is not that server's own word.
OthersToRule(s, m, peer) ==
    /\ s # Home
    /\ ~(peer = Home /\ IsSystem(m))
    /\ ~IsAdditive(Kind, Verb[m])

\* A move, or the opener.
ApplyMove(s, m, peer) ==
    LET st == Store(s)
        to == Lands(st, m, IsSystem(m) /\ peer \in {s, Home})
        opened == CheckOpen(Kind, Offeree # NoOne)
    IN IF m = Opener THEN
            IF OnFile(st, Move(m)) THEN Write("duplicate", st)
            ELSE Write("filed",
                [FileAs(st, Move(m), "confirmed") EXCEPT !.row =
                    [state |-> CHOOSE x \in opened : TRUE, assignee |-> NoOne]])
       ELSE IF st.row = NoRow THEN
            Write(IF OnFile(st, Move(Opener)) THEN "refused" ELSE "unknown-task", st)
       ELSE IF OthersToRule(s, m, peer) THEN
            IF OnFile(st, Move(m)) THEN Write("duplicate", st)
            ELSE Write("stored", FileAs(st, Move(m), "unconfirmed"))
       ELSE IF to = {} THEN Write("refused", st)
       ELSE IF OnFile(st, Move(m)) THEN Write("duplicate", st)
       ELSE Write("filed", Applied(st, m, CHOOSE x \in to : TRUE))

ApplyActEvent(s, id, peer) ==
    IF IsReceipt(id) THEN ApplyReceipt(s, id[1], peer)
    ELSE ApplyMove(s, id[1], peer)

\* The home owes a receipt for a participant's move that changed its task.
OwesReceipt(s, id, w) ==
    /\ s = Home
    /\ w.out = "filed"
    /\ id[1] # Opener
    /\ w.st.row.state # row[s].state
    /\ ~IsSystem(id[1])

-------------------------------------------------------------------------------
(* Messages, and the steps a handler has left.                             *)

Relay(id, from, to) == [kind |-> "relay", id |-> id, from |-> from, to |-> to]
Ask(m, s) == [kind |-> "ask", id |-> Move(m), from |-> s, to |-> Home]
Broadcast(id, s) == {Relay(id, s, p) : p \in Servers \ {s}}

\* op: what is left to do.  id: the event.  peer: the link it came on.
\* on: what it waits for.  quiet: it came from a catch-up.
Step(op, id, peer, on, quiet) ==
    [op |-> op, id |-> id, peer |-> peer, on |-> on, quiet |-> quiet]
Release(id) == Step("release", id, NoOne, NoOne, FALSE)
Mint(id) == Step("mint", id, NoOne, NoOne, FALSE)
Park(it, on) == [it EXCEPT !.op = "park", !.on = on]
Look(it) == [it EXCEPT !.op = "look"]
TakeKey(a) == Step("takekey", NoOne, NoOne, a, FALSE)
Judge(it) == [it EXCEPT !.op = "judge", !.on = NoOne]
Judges(seq) == [i \in DOMAIN seq |-> Judge(seq[i])]

\* What is at the positions I of a sequence, in its order.
Nth(I, n) == CHOOSE i \in I : Cardinality({j \in I : j <= i}) = n
Picked(seq, I) == [n \in 1..Cardinality(I) |-> seq[Nth(I, n)]]

\* Room is made by the oldest event of the pool that is no receipt, and only
\* among receipts by the oldest of those.
First(I) == CHOOSE i \in I : \A j \in I : i <= j
Victim(queue, pool) ==
    LET ordinary == {i \in pool : ~IsReceipt(queue[i].id)}
    IN First(IF ordinary # {} THEN ordinary ELSE pool)
Within(queue, pool, ceiling) ==
    IF Cardinality(pool) <= ceiling THEN queue
    ELSE Picked(queue, DOMAIN queue \ {Victim(queue, pool)})

\* The defer queue with one more event: its peer's share of it is made to fit
\* first, then the whole.
Parked(queue, it) ==
    LET all == Append(queue, it)
        shared == Within(all, {i \in DOMAIN all : all[i].peer = it.peer},
                         ActDeferMaxPerOrigin)
    IN Within(shared, DOMAIN shared, ActDeferMaxTotal)

Stored(s, st) ==
    /\ conf' = [conf EXCEPT ![s] = st.conf]
    /\ row' = [row EXCEPT ![s] = st.row]
    /\ past' = IF s = Home THEN past \cup {ViewOf(st.conf, st.row)} ELSE past

\* The event speaks for the task's home: a receipt, or signed by a server.
SpeaksForHome(id) == IsReceipt(id) \/ IsSystem(id[1])

\* The home's word held by a catch-up counts on the home's own link only.
NotItsToCarry(s, id, peer) ==
    /\ SpeaksForHome(id)
    /\ s # Home
    /\ conf[s][Move(Opener)] # "absent"
    /\ peer # Home

\* What follows the write of an event that arrived live: a wait for what it
\* lacks, the receipt the home owes, the release of what waited for it.
AfterLive(s, it, w) ==
    CASE w.out = "before-subject" -> <<Park(it, Move(it.id[1]))>>
      [] w.out = "unknown-task" -> <<Park(it, Move(Opener))>>
      [] w.out = "refused" /\ s = Home -> << >>
      [] OwesReceipt(s, it.id, w) -> <<Mint(it.id), Release(it.id)>>
      [] OTHER -> <<Release(it.id)>>

\* Mutant: only a ruling made just now is answered.
AnswerNothing(s, it) == {}

\* An ask that makes no new ruling is answered with the receipt on file.
Answer(s, it) ==
    IF it.op = "ask" /\ conf[s][Receipt(it.id[1])] # "absent"
    THEN {Relay(Receipt(it.id[1]), s, it.peer)} ELSE {}

\* Judging one relayed event, for a task with `rest` still to do.
JudgeLive(s, t, it, rest, flying) ==
    IF it.quiet /\ NotItsToCarry(s, it.id, it.peer)
    THEN /\ work' = [work EXCEPT ![s][t] = <<Release(it.id)>> \o rest]
         /\ net' = flying
         /\ UNCHANGED <<conf, row, past, routes>>
    ELSE IF Signer(it.id) \notin keys[s]
    THEN /\ work' = [work EXCEPT ![s][t] = <<Park(it, Signer(it.id))>> \o rest]
         /\ net' = flying \cup Answer(s, it)
         /\ UNCHANGED <<conf, row, past, routes>>
    ELSE LET w == ApplyActEvent(s, it.id, it.peer)
             m == it.id[1]
         IN /\ Stored(s, w.st)
            /\ work' = [work EXCEPT ![s][t] = AfterLive(s, it, w) \o rest]
            /\ routes' = IF w.out = "stored"
                         THEN [routes EXCEPT ![s] = @ \cup {m}] ELSE routes
            /\ net' = flying \cup (IF OwesReceipt(s, it.id, w) THEN {} ELSE Answer(s, it))
                             \cup (IF w.out = "stored" THEN {Ask(m, s)} ELSE {})

-------------------------------------------------------------------------------
(* The actions.                                                            *)

Init ==
    /\ conf = [s \in Servers |-> [id \in Ids |-> "absent"]]
    /\ row = [s \in Servers |-> NoRow]
    /\ keys = Known
    /\ parked = [s \in Servers |-> << >>]
    /\ work = [s \in Servers |-> [t \in Tasks |-> << >>]]
    /\ routes = [s \in Servers |-> {}]
    /\ net = {}
    /\ minted = << >>
    /\ owed = {}
    /\ faults = 0
    /\ past = {NoRow}

Minted(id) == \E i \in DOMAIN minted : minted[i] = id

MayMint(m) ==
    /\ ~Minted(Move(m))
    /\ Cardinality({x \in Moves : Minted(Move(x))}) < MaxMoves

\* A sender's own move, at the door of the server they are connected to.  One
\* the rules refuse is answered and goes nowhere.
Post(m) ==
    LET s == At[m]
        w == ApplyMove(s, m, s)
    IN /\ MayMint(m)
       /\ ~IsSystem(m)
       /\ work[s]["conn"] = << >>
       /\ w.out \in {"filed", "stored"}
       /\ Stored(s, w.st)
       /\ minted' = Append(minted, Move(m))
       /\ IF OwesReceipt(s, Move(m), w)
          THEN /\ work' = [work EXCEPT ![s]["conn"] = <<Mint(Move(m))>>]
               /\ UNCHANGED <<net, routes>>
          ELSE /\ net' = net \cup Broadcast(Move(m), s)
                             \cup (IF w.out = "stored" THEN {Ask(m, s)} ELSE {})
               /\ routes' = IF w.out = "stored"
                            THEN [routes EXCEPT ![s] = @ \cup {m}] ELSE routes
               /\ UNCHANGED work
       /\ UNCHANGED <<keys, parked, owed, faults>>

\* The home's own sweeps: an idle task expires, one left in review is taken.
Sweep(m) ==
    LET w == ApplyMove(Home, m, Home)
    IN /\ MayMint(m)
       /\ IsSystem(m)
       /\ (Verb[m] = "auto-accept") <=> (row[Home].state = "under_review")
       /\ w.out = "filed"
       /\ Stored(Home, w.st)
       /\ minted' = Append(minted, Move(m))
       /\ net' = net \cup Broadcast(Move(m), Home)
       /\ UNCHANGED <<keys, parked, work, routes, owed, faults>>

\* The processor takes one message off a link.
Receive(msg) ==
    LET s == msg.to
        it == Step(IF msg.kind = "ask" THEN "ask" ELSE "judge",
                   msg.id, msg.from, NoOne, FALSE)
    IN /\ msg \in net
       /\ work[s]["proc"] = << >>
       /\ JudgeLive(s, "proc", it, << >>, net \ {msg})
       /\ UNCHANGED <<keys, parked, minted, owed, faults>>

Busy(s, t, op) == work[s][t] # << >> /\ Head(work[s][t]).op = op

\* One event out of the defer queue.
JudgeParked(s, t) ==
    /\ Busy(s, t, "judge")
    /\ JudgeLive(s, t, Head(work[s][t]), Tail(work[s][t]), net)
    /\ UNCHANGED <<keys, parked, minted, owed, faults>>

\* Mutant: holding an event is the end of it.
AfterParkNothing(it) == << >>

\* One that lacked a key asks the store once more after it is held.
AfterPark(it) == IF it.on \in Ids THEN << >> ELSE <<TakeKey(it.on)>>

\* What lacked something is put in the queue, in a step of its own.
ParkIt(s, t) ==
    LET it == Head(work[s][t])
    IN /\ Busy(s, t, "park")
       /\ parked' = [parked EXCEPT ![s] = Parked(@, it)]
       /\ work' = [work EXCEPT ![s][t] = AfterPark(it) \o Tail(@)]
       /\ UNCHANGED <<conf, row, keys, routes, net, minted, owed, faults, past>>

\* Take out of the queue what waits for `on`, and judge it in park order.
TakeWaiting(s, t, on) ==
    LET wanted == {i \in DOMAIN parked[s] : parked[s][i].on = on}
    IN /\ parked' = [parked EXCEPT ![s] = Picked(@, DOMAIN @ \ wanted)]
       /\ work' = [work EXCEPT ![s][t] = Judges(Picked(parked[s], wanted)) \o Tail(@)]

\* The event just judged is on file: what waited for it is judged again.
ReleaseIt(s, t) ==
    /\ Busy(s, t, "release")
    /\ TakeWaiting(s, t, Head(work[s][t]).id)
    /\ UNCHANGED <<conf, row, keys, routes, net, minted, owed, faults, past>>

\* The queue is asked for what waits on a key that is, or may be, on file.
TakeForKey(s, t) ==
    LET a == Head(work[s][t]).on
    IN /\ Busy(s, t, "takekey")
       /\ IF a \in keys[s] THEN TakeWaiting(s, t, a)
          ELSE /\ work' = [work EXCEPT ![s][t] = Tail(@)]
               /\ UNCHANGED parked
       /\ UNCHANGED <<conf, row, keys, routes, net, minted, owed, faults, past>>

\* The home signs and files its receipt, and sends it after the move it names.
MintReceipt(s, t) ==
    LET m == Head(work[s][t]).id[1]
    IN /\ Busy(s, t, "mint")
       /\ conf' = [conf EXCEPT ![s][Receipt(m)] = "record"]
       /\ minted' = Append(minted, Receipt(m))
       /\ net' = net \cup Broadcast(Receipt(m), s)
                     \cup (IF At[m] = s THEN Broadcast(Move(m), s) ELSE {})
       /\ work' = [work EXCEPT ![s][t] = Tail(@)]
       /\ UNCHANGED <<row, keys, parked, routes, owed, faults, past>>

\* A lookup the miss started is under way: its event is held, or about to be.
LookedUp(s, a) ==
    \/ \E i \in DOMAIN parked[s] : parked[s][i].on = a
    \/ \E t \in Tasks : Busy(s, t, "park") /\ Head(work[s][t]).on = a

\* A lookup files a key and then releases what waited for it.  One that
\* outlives the event it was made for releases nothing and is left out.
KeyLands(s, a) ==
    /\ a \notin keys[s]
    /\ LookedUp(s, a)
    /\ work[s]["lookup"] = << >>
    /\ keys' = [keys EXCEPT ![s] = @ \cup {a}]
    /\ work' = [work EXCEPT ![s]["lookup"] = <<TakeKey(a)>>]
    /\ UNCHANGED <<conf, row, parked, routes, net, minted, owed, faults, past>>

\* A move that waited too long for its task's post is delivered unfiled.
TaskWaitOverdue(s) ==
    LET overdue == {i \in DOMAIN parked[s] :
                        /\ parked[s][i].on = Move(Opener)
                        /\ ~IsReceipt(parked[s][i].id)}
    IN /\ overdue # {}
       /\ parked' = [parked EXCEPT ![s] = Picked(@, DOMAIN @ \ overdue)]
       /\ UNCHANGED <<conf, row, keys, work, routes, net, minted, owed, faults, past>>

\* A route comes due, each in its own time and whatever else is under way: its
\* move is asked about again while it is unconfirmed here, and let go of once
\* it is not.  As `net` is a set, at most one ask per move is in flight.
FlushRoute(s, m) ==
    LET pending == conf[s][Move(m)] = "unconfirmed"
    IN /\ m \in routes[s]
       /\ routes' = IF pending THEN routes ELSE [routes EXCEPT ![s] = @ \ {m}]
       /\ net' = IF pending THEN net \cup {Ask(m, s)} ELSE net
       /\ UNCHANGED <<conf, row, keys, parked, work, minted, owed, faults, past>>

-------------------------------------------------------------------------------
(* Links going down, catch-up, and restarts.                               *)

\* A broadcast is best-effort: a full queue or a number overtaken loses one.
Lose(msg) ==
    /\ faults < MaxFaults
    /\ faults' = faults + 1
    /\ net' = net \ {msg}
    /\ UNCHANGED <<conf, row, keys, parked, work, routes, minted, owed, past>>

\* A server restarts: its log, view and keys persist, its queues do not, and
\* every link it had comes up again, which starts a catch-up each way.
Restart(s) ==
    /\ faults < MaxFaults
    /\ faults' = faults + 1
    /\ parked' = [parked EXCEPT ![s] = << >>]
    /\ work' = [work EXCEPT ![s] = [t \in Tasks |-> << >>]]
    /\ routes' = [routes EXCEPT ![s] = {}]
    /\ net' = {msg \in net : msg.from # s /\ msg.to # s}
    /\ owed' = owed \cup {<<s, p>> : p \in Servers \ {s}}
                    \cup {<<p, s>> : p \in Servers \ {s}}
    /\ UNCHANGED <<conf, row, keys, minted, past>>

\* Catch-up: the peer's log in the order of the ids, the opener first.
CatchUp(s, p) ==
    LET held == {i \in DOMAIN minted :
                    conf[p][minted[i]] # "absent" /\ minted[i] # Move(Opener)}
        ids == (IF conf[p][Move(Opener)] # "absent" THEN <<Move(Opener)>> ELSE << >>)
               \o Picked(minted, held)
    IN /\ <<s, p>> \in owed
       /\ work[s]["proc"] = << >>
       /\ owed' = owed \ {<<s, p>>}
       /\ work' = [work EXCEPT ![s]["proc"] =
                    [i \in DOMAIN ids |-> Step("replay", ids[i], p, NoOne, TRUE)]]
       /\ UNCHANGED <<conf, row, keys, parked, routes, net, minted, faults, past>>

\* What follows the write of a replayed event.  A receipt ahead of the move it
\* names is held, on the column the log calls its subject, which is the task.
AfterReplay(s, it, w) ==
    CASE OwesReceipt(s, it.id, w) -> <<Mint(it.id), Release(it.id)>>
      [] /\ w.out \in {"filed", "confirmed", "stored"}
         /\ ~OwesReceipt(s, it.id, w) -> <<Release(it.id)>>
      [] w.out = "before-subject" -> <<Look(it)>>
      [] OTHER -> << >>

\* One event of a catch-up: what is held already is left alone, and so is what
\* the peer may not speak for.  What this server has no key to check is
\* skipped, a receipt excepted.
Replay(s, t) ==
    LET it == Head(work[s][t])
        unusable == conf[s][it.id] # "absent" \/ NotItsToCarry(s, it.id, it.peer)
        keyless == Signer(it.id) \notin keys[s]
        w == ApplyActEvent(s, it.id, it.peer)
        next == CASE unusable -> << >>
                  [] ~unusable /\ keyless /\ IsReceipt(it.id) -> <<Look(it)>>
                  [] ~unusable /\ keyless /\ ~IsReceipt(it.id) -> << >>
                  [] OTHER -> AfterReplay(s, it, w)
    IN /\ Busy(s, t, "replay")
       /\ Stored(s, IF unusable \/ keyless THEN Store(s) ELSE w.st)
       /\ work' = [work EXCEPT ![s][t] = next \o Tail(@)]
       /\ UNCHANGED <<keys, parked, routes, net, minted, owed, faults>>

\* A replayed receipt that cannot be used yet is held for its signer's key, or
\* for the task when a second look, after the replay's own, finds the key.
ParkReplayedReceipt(s, t) ==
    LET it == Head(work[s][t])
        on == IF Signer(it.id) \in keys[s] THEN Move(Opener) ELSE Signer(it.id)
    IN /\ Busy(s, t, "look")
       /\ work' = [work EXCEPT ![s][t] = <<Park(it, on)>> \o Tail(@)]
       /\ UNCHANGED <<conf, row, keys, parked, routes, net, minted, owed, faults, past>>

TaskStep(s, t) ==
    \/ JudgeParked(s, t)
    \/ ParkIt(s, t)
    \/ ReleaseIt(s, t)
    \/ TakeForKey(s, t)
    \/ MintReceipt(s, t)
    \/ Replay(s, t)
    \/ ParkReplayedReceipt(s, t)

\* What the servers do of themselves once something has been posted.
Progress ==
    \/ \E msg \in net : Receive(msg)
    \/ \E s \in Servers, t \in Tasks : TaskStep(s, t)
    \/ \E s, p \in Servers : CatchUp(s, p)

Next ==
    \/ \E m \in Moves : Post(m) \/ Sweep(m)
    \/ Progress
    \/ \E s \in Servers : \E a \in Authors \cup {Home} : KeyLands(s, a)
    \/ \E s \in Servers, m \in Moves : FlushRoute(s, m)
    \/ \E s \in Servers : TaskWaitOverdue(s) \/ Restart(s)
    \/ \E msg \in net : Lose(msg)

\* Nothing is on its way and nobody is at work.
Calm ==
    /\ net = {} /\ owed = {}
    /\ \A s \in Servers, t \in Tasks : work[s][t] = << >>

\* Ticks come thirty seconds apart: if they go on for ever, the servers get
\* through what is under way between two of them again and again.
TicksAreSlow ==
    []<><<\E s \in Servers, m \in Moves : FlushRoute(s, m)>>_vars => []<>Calm

\* The processor and the links go on working, and every route comes due.
\* Nothing is promised about posts, sweeps, keys or faults.
Fairness ==
    /\ WF_vars(Progress)
    /\ \A s \in Servers \ {Home}, m \in Moves : WF_vars(FlushRoute(s, m))
    /\ TicksAreSlow

Spec == Init /\ [][Next]_vars /\ Fairness

-------------------------------------------------------------------------------
(* Properties.                                                             *)

Messages == [kind : {"relay", "ask"}, id : Ids, from : Servers, to : Servers]
StepsLeft ==
    [op : {"judge", "ask", "park", "release", "takekey", "mint", "replay", "look"},
     id : Ids \cup {NoOne}, peer : Servers \cup {NoOne},
     on : Ids \cup {NoOne} \cup Authors \cup Servers, quiet : BOOLEAN]
Rows == [state : UNION {Terminal[Kind], NonTerminal[Kind], {"none"}},
         assignee : Authors \cup {NoOne}]

\* Every variable has its type: what is queued, held or on its way is a step or a
\* message the servers know.
TypeOK ==
    /\ conf \in [Servers -> [Ids -> ConfirmStates]]
    /\ row \in [Servers -> Rows]
    /\ keys \in [Servers -> SUBSET (Authors \cup Servers)]
    /\ \A s \in Servers :
        /\ parked[s] \in Seq(StepsLeft)
        /\ \A t \in Tasks : work[s][t] \in Seq(StepsLeft)
    /\ routes \in [Servers -> SUBSET Moves]
    /\ net \subseteq Messages
    /\ minted \in Seq(Ids)
    /\ owed \subseteq Servers \X Servers
    /\ faults \in 0..MaxFaults
    /\ past \subseteq Rows

\* What a server that does not own the task has applied of a participant's
\* moves, the home has applied too: whatever is lost, late, parked, replayed
\* or posted at once elsewhere, no other server decides a race by itself
\* (db.rs `apply_act_event`, whose task is it).
FollowersOnlyFollow ==
    \A s \in Servers, m \in Moves :
        conf[s][Move(m)] = "confirmed" /\ ~IsAdditive(Kind, Verb[m]) =>
            conf[Home][Move(m)] = "confirmed"

\* Every server's readers see the task as TaskReferee promises: the home alone
\* moves it, by the rules, and nobody shows what the home never had.
Referee == INSTANCE TaskReferee
    WITH view <- [s \in Servers |-> ViewOf(conf[s], row[s])], past <- past
RefereedByHome == Referee!Spec

\* An event held for a key that is on file is about to be taken out again:
\* the key's arrival between the look and the hold loses nothing
\* (server.rs `park_for_key`).
NoLostKey ==
    \A s \in Servers : \A i \in DOMAIN parked[s] :
        parked[s][i].on \in keys[s] =>
            \E t \in Tasks : \E j \in DOMAIN work[s][t] :
                work[s][t][j] = TakeKey(parked[s][i].on)

\* A server goes on asking about a move it holds unconfirmed.
Asking(s, m) == conf[s][Move(m)] = "unconfirmed" /\ m \in routes[s]

\* The home's receipt is on file here and was refused when it came: it arrived
\* ahead of a ruling it builds on.
ReceiptCameEarly(s, m) ==
    conf[s][Receipt(m)] = "record" /\ conf[s][Move(m)] = "unconfirmed"

\* The home took the move and stopped before it wrote the receipt.
ReceiptNeverWritten(m) ==
    conf[Home][Move(m)] = "confirmed" /\ conf[Home][Receipt(m)] = "absent"

\* The home has not taken the move, and as its task stands will not.
HomeRefuses(m) ==
    conf[Home][Move(m)] = "absent" /\ Lands(Store(Home), m, FALSE) = {}

\* A server that asks for ever asks about a move the home refuses for ever,
\* or about one whose receipt came early or was never written: any other
\* move is ruled on and the ruling heard, whatever was lost or restarted
\* (server.rs `flush_pending_routes`, `answer_with_stored_receipt`).
AskingEnds ==
    \A s \in Servers \ {Home}, m \in Moves \ {Opener} :
        <>[]Asking(s, m) =>
            <>[](\/ HomeRefuses(m)
                 \/ ReceiptCameEarly(s, m)
                 \/ ReceiptNeverWritten(m))
===============================================================================
