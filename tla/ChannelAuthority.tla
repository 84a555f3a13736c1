--------------------------- MODULE ChannelAuthority ---------------------------
(***************************************************************************)
(* Who may run one channel, on two federated servers.  Each keeps its own  *)
(* founder and list of operator accounts (server.rs `ChannelState`, saved  *)
(* by db.rs `save_channel`) and a replica of the cluster document (crdt.rs *)
(* `ClusterDoc`).  Three things carry changes between them: S2S events,    *)
(* the snapshot a link that comes up asks for, and the document's own      *)
(* sync; a task reconciles the local lists with the document once a        *)
(* minute, and another compacts the document every half hour.              *)
(*                                                                         *)
(* A handler writes the channel under its lock and the document in a task  *)
(* it spawns: `chores` are the document writes not done yet, in no order.  *)
(* The document is in memory only.                                         *)
(*                                                                         *)
(* The document is Automerge's: a set of changes, merged by union.  A      *)
(* write overwrites the values its writer sees; of several values nobody   *)
(* overwrote the one with the largest operation id counts.  A change that  *)
(* comes before one it builds on waits for it.  One change holds one write *)
(* here.  A replica remembers what it sent its peer, for as long as it     *)
(* lives: the server never forgets that when the link is lost.             *)
(*                                                                         *)
(* Abstracted: sessions and rosters, so that whoever may set modes may be  *)
(* anyone of a channel's server: an operator's account, a session that is  *)
(* operator without one, a server operator; topics, bans and other modes.  *)
(* A reconciliation is one step, and so is a task's write with the sync    *)
(* message it sends.                                                       *)
(***************************************************************************)
EXTENDS Naturals, Sequences, FiniteSets, FiniteSetsExt

CONSTANTS
    Servers, Rank,       \* two servers, and the order of their actor ids
    Dids, Nobody,        \* the accounts, and no account
    Home,                \* of an account: the server it connects to
    RequireDidForOps,    \* the servers that run with --require-did-for-ops
    Founders, Guests,    \* bound: the accounts, and the servers whose guests,
                         \* that may create the channel
    Roled,               \* bound: the accounts a policy gives an operator's role
    Orders,              \* bound: the modes set, in turn, each <<by, did, add>>
    MaxDeeds,            \* bound: creations and modes together
    Restarting, Compacting,  \* bound: which servers restart, which compact
    MaxFaults            \* bound: lost links, restarts and compactions

VARIABLES
    chan,      \* of a server: the channel, in memory
    db,        \* of a server: the channel, as last saved
    doc,       \* of a server: its replica
    told,      \* of a server: its replica is as in its last sync message
    sent,      \* of a server: changes it sent, and has not seen arrive
    chores,    \* of a server: document writes its spawned tasks have to do
    inbox,     \* of a server: S2S events on their way to it
    syncs,     \* of a server: the sync messages on their way to it, as one
    saved,     \* of a server: what a compaction under way saved, << >> without one
    clearing,  \* servers whose compaction has yet to clear the sync states
    modes,     \* how many modes were set
    faults,    \* how many faults there were
    written,   \* history: all the changes ever made to a replica
    unheard,   \* history: servers whose last sync message was lost with its link
    created,   \* history: accounts that created the channel
    granted,   \* history: accounts last made operator
    revoked,   \* history: accounts ever unmade
    denied,    \* history: accounts --require-did-for-ops ever turned away
    lost       \* history: a compaction has dropped a change

vars == <<chan, db, doc, told, sent, chores, inbox, syncs, saved, clearing, modes,
          faults, written, unheard, created, granted, revoked, denied, lost>>

ASSUME ServersAssumption == \E s, p \in Servers : s # p /\ Servers = {s, p}
ASSUME RankAssumption ==
    /\ Rank \in [Servers -> Nat]
    /\ \A s, p \in Servers : Rank[s] = Rank[p] => s = p
ASSUME AccountsAssumption ==
    /\ Nobody \notin Dids /\ Home \in [Dids -> Servers] /\ Founders \subseteq Dids
    /\ Guests \subseteq Servers /\ Roled \subseteq Dids
    /\ Orders \in Seq(Dids \X Dids \X BOOLEAN)
ASSUME BoundsAssumption == MaxDeeds \in Nat /\ MaxFaults \in Nat

Other(s) == CHOOSE p \in Servers : p # s
NoChannel == [known |-> FALSE, founder |-> Nobody, ops |-> {}]

IsAuthority(s, d) == d = chan[s].founder \/ d \in chan[s].ops

-------------------------------------------------------------------------------
(* The document.                                                           *)

FounderKey == <<"founder">>
OpKey(d) == <<"did_op", d>>

\* A change: `val` is Nobody for a delete, `by` who granted, `deps` the
\* changes its writer had.
Id(c) == <<c.ctr, c.actor>>
Ready(D) ==
    LET ids == {Id(e) : e \in D}
    IN {c \in D : c.deps \subseteq ids}
Values(D, k) ==
    LET writes == {c \in Ready(D) : c.key = k}
    IN {c \in writes : c.val # Nobody /\ \A e \in writes : Id(c) \notin e.deps}
Newer(c, e) ==
    c.ctr > e.ctr \/ (c.ctr = e.ctr /\ Rank[c.actor] > Rank[e.actor])
Get(D, k) ==
    LET live == Values(D, k)
    IN {c \in live : \A e \in live \ {c} : Newer(c, e)}

\* Mutant: a change does not count as later than those it builds on.
NextCtrSame(D) == Max({1} \cup {c.ctr : c \in D})

NextCtr(D) == 1 + Max({0} \cup {c.ctr : c \in D})

NextSeq(D, s) == 1 + Cardinality({c \in D : c.actor = s})
Put(D, s, k, v, by) ==
    LET R == Ready(D)
    IN D \cup {[key |-> k, val |-> v, by |-> by, actor |-> s, ctr |-> NextCtr(R),
                seq |-> NextSeq(R, s), deps |-> {Id(c) : c \in R}]}

DocFounder(D) == {c.val : c \in Get(D, FounderKey)}
DocOps(D) == {d \in Dids : Values(D, OpKey(d)) # {}}

\* The founder is written when there is none, or over a larger actor's.
SetFounder(D, s, d) ==
    IF \E c \in Get(D, FounderKey) : Rank[s] >= Rank[c.actor] THEN D
    ELSE Put(D, s, FounderKey, d, Nobody)

\* Writing again what is there changes nothing.
GrantOp(D, s, d, by) ==
    LET was == Values(D, OpKey(d))
    IN IF \E c \in was : was = {c} /\ c.actor = s /\ c.by = by THEN D
       ELSE Put(D, s, OpKey(d), d, by)

RevokeOp(D, s, d) ==
    IF Values(D, OpKey(d)) = {} THEN D ELSE Put(D, s, OpKey(d), Nobody, Nobody)

\* Two histories of one actor: a merge of such replicas is an error.
Clash(D, E) ==
    \E c \in D, e \in E : c.actor = e.actor /\ c.seq = e.seq /\ c # e

-------------------------------------------------------------------------------
Event(kind, by, did, add, ch) ==
    [kind |-> kind, by |-> by, did |-> did, add |-> add, ch |-> ch]
Created(ch) == Event("created", Nobody, Nobody, TRUE, ch)
Mode(by, d, add) == Event("mode", by, d, add, NoChannel)
SyncRequest == Event("request", Nobody, Nobody, TRUE, NoChannel)
SyncResponse(ch) == Event("response", Nobody, Nobody, TRUE, ch)

Init ==
    /\ chan = [s \in Servers |-> NoChannel]
    /\ db = [s \in Servers |-> NoChannel]
    /\ doc = [s \in Servers |-> {}]
    /\ told = [s \in Servers |-> TRUE]
    /\ sent = [s \in Servers |-> {}]
    /\ chores = [s \in Servers |-> {}]
    /\ inbox = [s \in Servers |-> << >>]
    /\ syncs = [s \in Servers |-> << >>]
    /\ saved = [s \in Servers |-> << >>]
    /\ clearing = {}
    /\ modes = 0
    /\ faults = 0
    /\ written = {}
    /\ unheard = {}
    /\ created = {}
    /\ granted = {}
    /\ revoked = {}
    /\ denied = {}
    /\ lost = FALSE

Send(s, ev) == inbox' = [inbox EXCEPT ![Other(s)] = Append(@, ev)]

\* A sync message names the sender's changes and holds those it has not
\* sent before; it joins what is on its way already.
Message(s, D) == [changes |-> Ready(D) \ sent[s], heads |-> Ready(D)]
Add(pending, m) ==
    IF pending = << >> THEN <<m>>
    ELSE <<[changes |-> pending[1].changes \cup m.changes, heads |-> m.heads]>>

\* Send the peer replica D, unless it is as in the last sync message.
Offer(s, D) ==
    IF told[s] /\ D = doc[s] THEN UNCHANGED <<syncs, told, sent, unheard>>
    ELSE /\ syncs' = [syncs EXCEPT ![Other(s)] = Add(@, Message(s, D))]
         /\ told' = [told EXCEPT ![s] = TRUE]
         /\ sent' = [sent EXCEPT ![s] = @ \cup Ready(D)]
         /\ unheard' = unheard \ {s}

\* An account joins a channel its server does not know, and is its founder.
Create(d) ==
    LET s == Home[d]
        ch == [known |-> TRUE, founder |-> d, ops |-> {d}]
    IN /\ ~chan[s].known
       /\ chan' = [chan EXCEPT ![s] = ch]
       /\ db' = [db EXCEPT ![s] = ch]
       /\ chores' = [chores EXCEPT ![s] = @ \cup {<<"found", d, d>>}]
       /\ Send(s, Created(ch))
       /\ created' = created \cup {d}
       /\ UNCHANGED <<doc, told, sent, syncs, saved, clearing, modes, faults, written,
                      unheard, granted, revoked, denied, lost>>

\* A guest joins such a channel: it has no founder, and the document no word of it.
CreateAsGuest(s) ==
    LET ch == [NoChannel EXCEPT !.known = TRUE]
    IN /\ ~chan[s].known
       /\ chan' = [chan EXCEPT ![s] = ch]
       /\ db' = [db EXCEPT ![s] = ch]
       /\ Send(s, Created(ch))
       /\ UNCHANGED <<doc, told, sent, chores, syncs, saved, clearing, modes, faults,
                      written, unheard, created, granted, revoked, denied, lost>>

\* An account joins a known channel whose policy gives it an operator's role:
\* it is listed in memory, and nothing is sent, written or saved.
JoinWithRole(d) ==
    LET s == Home[d]
    IN /\ chan[s].known
       /\ chan' = [chan EXCEPT ![s].ops = @ \cup {d}]
       /\ UNCHANGED <<db, doc, told, sent, chores, inbox, syncs, saved, clearing, modes,
                      faults, written, unheard, created, granted, revoked, denied, lost>>

\* The list of operators after a mode, which the founder is proof against.
OpsAfter(ch, d, add) ==
    IF add THEN ch.ops \cup {d}
    ELSE IF d = ch.founder THEN ch.ops ELSE ch.ops \ {d}

\* MODE +o or -o on the setter's own server, by a session that is operator
\* there, whatever its account, or by a server operator.
SetMode(by, d, add) ==
    LET s == Home[by]
        ch == [chan[s] EXCEPT !.ops = OpsAfter(chan[s], d, add)]
        spared == ~add /\ d = chan[s].founder
    IN /\ chan[s].known
       /\ modes' = modes + 1
       /\ chan' = [chan EXCEPT ![s] = ch]
       /\ db' = [db EXCEPT ![s] = ch]
       /\ chores' = [chores EXCEPT ![s] =
                        IF spared /\ Home[d] = s THEN @
                        ELSE @ \cup {<<IF add THEN "grant" ELSE "revoke", d, by>>}]
       /\ Send(s, Mode(by, d, add))
       /\ granted' = IF add THEN granted \cup {d} ELSE granted \ {d}
       /\ revoked' = IF add THEN revoked ELSE revoked \cup {d}
       /\ UNCHANGED <<doc, told, sent, syncs, saved, clearing, faults, written, unheard,
                      created, denied, lost>>

\* A spawned task writes the document; after a mode it offers it to the peer.
DoChore(s, chore) ==
    LET d == chore[2]
        D == CASE chore[1] = "found" ->
                      GrantOp(SetFounder(doc[s], s, d), s, d, Nobody)
               [] chore[1] = "grant" -> GrantOp(doc[s], s, d, chore[3])
               [] OTHER -> RevokeOp(doc[s], s, d)
    IN /\ chore \in chores[s]
       /\ chores' = [chores EXCEPT ![s] = @ \ {chore}]
       /\ doc' = [doc EXCEPT ![s] = D]
       /\ written' = written \cup D
       /\ IF chore[1] = "found"
          THEN /\ UNCHANGED <<syncs, sent, unheard>>
               /\ told' = [told EXCEPT ![s] = @ /\ D = doc[s]]
          ELSE Offer(s, D)
       /\ UNCHANGED <<chan, db, inbox, saved, clearing, modes, faults, created, granted,
                      revoked, denied, lost>>

-------------------------------------------------------------------------------
(* The event processor.                                                    *)

FounderAfter(mine, peer) == IF mine.founder = Nobody THEN peer.founder ELSE mine.founder

\* Mutant: a peer's operators are taken only with its founder.
MergedOnce(s, mine, peer) ==
    [known |-> TRUE,
     founder |-> FounderAfter(mine, peer),
     ops |-> IF mine.founder = Nobody THEN peer.ops ELSE mine.ops]

\* A peer's founder counts where there is none, its operators always, unless
\* the server wants an authority behind them and neither side has one.
Merged(s, mine, peer) ==
    LET refused == s \in RequireDidForOps /\ FounderAfter(mine, peer) = Nobody /\ mine.ops = {}
    IN [known |-> TRUE,
        founder |-> FounderAfter(mine, peer),
        ops |-> IF refused THEN {} ELSE mine.ops \cup peer.ops]

\* The channel's creation on the peer is written into this replica too; its
\* one operator then is its founder, and without one there is nothing to write.
Adopted(D, s, ch) ==
    IF ch.founder = Nobody THEN D
    ELSE GrantOp(SetFounder(D, s, ch.founder), s, ch.founder, ch.founder)

\* A mode counts when its setter's account is an authority or the roster has
\* the setter as an operator (`asOp`), and when its target is a local session
\* or in the roster (`found`).
ChannelAfter(s, ev, asOp, found) ==
    CASE ev.kind = "created" -> Merged(s, chan[s], ev.ch)
      [] ev.kind = "response" /\ ev.ch.known -> Merged(s, chan[s], ev.ch)
      [] ev.kind = "mode" /\ chan[s].known /\ (asOp \/ IsAuthority(s, ev.by)) /\ found ->
             [chan[s] EXCEPT !.ops = OpsAfter(chan[s], ev.did, ev.add)]
      [] OTHER -> chan[s]

Process(s) ==
    LET ev == Head(inbox[s])
    IN /\ inbox[s] # << >>
       /\ \E asOp, found \in (IF ev.kind = "mode" THEN BOOLEAN ELSE {TRUE}) :
              chan' = [chan EXCEPT ![s] = ChannelAfter(s, ev, asOp, found)]
       /\ denied' = denied \cup (ev.ch.ops \ chan'[s].ops)
       /\ doc' = IF ev.kind = "created"
                 THEN [doc EXCEPT ![s] = Adopted(@, s, ev.ch)] ELSE doc
       /\ written' = written \cup doc'[s]
       /\ IF ev.kind = "request"
          THEN /\ inbox' = [inbox EXCEPT ![s] = Tail(@),
                                         ![Other(s)] = Append(@, SyncResponse(chan[s]))]
               /\ Offer(s, doc[s])
          ELSE /\ inbox' = [inbox EXCEPT ![s] = Tail(@)]
               /\ told' = [told EXCEPT ![s] = @ /\ doc'[s] = doc[s]]
               /\ UNCHANGED <<syncs, sent, unheard>>
       /\ UNCHANGED <<db, chores, saved, clearing, modes, faults, created, granted,
                      revoked, lost>>

\* A sync message is merged, and answered where it changed the replica or
\* the peer lacks something; one that cannot be merged is dropped.  A peer
\* that has nothing is sent everything again.
ReceiveSync(s) ==
    LET m == Head(syncs[s])
        D == doc[s] \cup m.changes
        unseen == IF m.heads = {} THEN {} ELSE sent[s] \ m.heads
        owed == Ready(D) \ (m.heads \cup unseen)
    IN /\ syncs[s] # << >>
       /\ IF Clash(doc[s], m.changes)
          THEN /\ syncs' = [syncs EXCEPT ![s] = << >>]
               /\ UNCHANGED <<doc, told, sent, unheard>>
          ELSE /\ doc' = [doc EXCEPT ![s] = D]
               /\ IF D = doc[s] /\ owed = {}
                  THEN /\ syncs' = [syncs EXCEPT ![s] = << >>]
                       /\ sent' = [sent EXCEPT ![s] = unseen]
                       /\ UNCHANGED <<told, unheard>>
                  ELSE /\ syncs' = [syncs EXCEPT ![s] = << >>, ![Other(s)] =
                                       Add(@, [changes |-> owed, heads |-> Ready(D)])]
                       /\ sent' = [sent EXCEPT ![s] = unseen \cup owed]
                       /\ told' = [told EXCEPT ![s] = TRUE]
                       /\ unheard' = unheard \ {s}
       /\ UNCHANGED <<chan, db, chores, inbox, saved, clearing, modes, faults, written,
                      created, granted, revoked, denied, lost>>

\* Mutant: a founder, once known, stays.
ReconciledFirst(ch, D) ==
    IF ~ch.known THEN ch
    ELSE [ch EXCEPT !.founder = IF DocFounder(D) = {} \/ @ # Nobody THEN @
                                ELSE CHOOSE d \in DocFounder(D) : TRUE,
                    !.ops = @ \cup DocOps(D)]

\* The local lists are brought in line with the document: its founder
\* replaces the local one, its operators are added.
Reconciled(ch, D) ==
    IF ~ch.known THEN ch
    ELSE [ch EXCEPT !.founder = IF DocFounder(D) = {} THEN @
                                ELSE CHOOSE d \in DocFounder(D) : TRUE,
                    !.ops = @ \cup DocOps(D)]

Reconcile(s) ==
    /\ chan' = [chan EXCEPT ![s] = Reconciled(@, doc[s])]
    /\ UNCHANGED <<db, doc, told, sent, chores, inbox, syncs, saved, clearing, modes,
                   faults, written, unheard, created, granted, revoked, denied, lost>>

-------------------------------------------------------------------------------
(* Faults and maintenance.                                                 *)

\* What was on the link is gone; one that comes up asks both ways for a snapshot.
LinkComesUp ==
    /\ inbox' = [s \in Servers |-> <<SyncRequest>>]
    /\ syncs' = [s \in Servers |-> << >>]
    /\ unheard' = unheard \cup {s \in Servers : syncs[Other(s)] # << >>}

\* The link is lost with all that was on it, and comes back.
Flap ==
    /\ faults < MaxFaults
    /\ faults' = faults + 1
    /\ LinkComesUp
    /\ UNCHANGED <<chan, db, doc, told, sent, chores, saved, clearing, modes, written,
                   created, granted, revoked, denied, lost>>

\* A server restarts with the channel it saved and an empty document.
Restart(s) ==
    /\ faults < MaxFaults
    /\ faults' = faults + 1
    /\ chan' = [chan EXCEPT ![s] = db[s]]
    /\ doc' = [doc EXCEPT ![s] = {}]
    /\ told' = [told EXCEPT ![s] = FALSE]
    /\ sent' = [sent EXCEPT ![s] = {}]
    /\ chores' = [chores EXCEPT ![s] = {}]
    /\ saved' = [saved EXCEPT ![s] = << >>]
    /\ clearing' = clearing \ {s}
    /\ LinkComesUp
    /\ UNCHANGED <<db, modes, written, created, granted, revoked, denied, lost>>

\* Compaction saves the document, puts back later what it saved, and then
\* clears the sync states: three locks in turn, with any task in between.
CompactSave(s) ==
    /\ faults < MaxFaults
    /\ faults' = faults + 1
    /\ saved[s] = << >> /\ s \notin clearing
    /\ saved' = [saved EXCEPT ![s] = <<doc[s]>>]
    /\ UNCHANGED <<chan, db, doc, told, sent, chores, inbox, syncs, clearing, modes,
                   written, unheard, created, granted, revoked, denied, lost>>

CompactSwap(s) ==
    /\ saved[s] # << >>
    /\ doc' = [doc EXCEPT ![s] = saved[s][1]]
    /\ saved' = [saved EXCEPT ![s] = << >>]
    /\ clearing' = clearing \cup {s}
    /\ told' = [told EXCEPT ![s] = @ /\ doc[s] = saved[s][1]]
    /\ lost' = (lost \/ doc[s] # saved[s][1])
    /\ UNCHANGED <<chan, db, sent, chores, inbox, syncs, modes, faults, written, unheard,
                   created, granted, revoked, denied>>

CompactClear(s) ==
    /\ s \in clearing
    /\ clearing' = clearing \ {s}
    /\ told' = [told EXCEPT ![s] = FALSE]
    /\ sent' = [sent EXCEPT ![s] = {}]
    /\ UNCHANGED <<chan, db, doc, chores, inbox, syncs, saved, modes, faults, written,
                   unheard, created, granted, revoked, denied, lost>>

\* The bound on what people do; a guest creates the channel once per server.
MayAct == Cardinality(created) + modes < MaxDeeds

Next ==
    \/ \E d \in Founders : MayAct /\ Create(d)
    \/ \E s \in Guests : CreateAsGuest(s)
    \/ \E d \in Roled : JoinWithRole(d)
    \/ MayAct /\ modes < Len(Orders)
       /\ SetMode(Orders[modes + 1][1], Orders[modes + 1][2], Orders[modes + 1][3])
    \/ \E s \in Servers :
        \/ \E chore \in chores[s] : DoChore(s, chore)
        \/ Process(s)
        \/ ReceiveSync(s)
        \/ Reconcile(s)
        \/ s \in Restarting /\ Restart(s)
        \/ s \in Compacting /\ CompactSave(s)
        \/ CompactSwap(s)
        \/ CompactClear(s)
    \/ Flap

Spec == Init /\ [][Next]_vars

-------------------------------------------------------------------------------
(* Properties.                                                             *)

Channels == [known : BOOLEAN, founder : Dids \cup {Nobody}, ops : SUBSET Dids]
IsChange(c) ==
    /\ c.key = FounderKey \/ \E d \in Dids : c.key = OpKey(d)
    /\ c.val \in Dids \cup {Nobody} /\ c.by \in Dids \cup {Nobody}
    /\ c.actor \in Servers
    /\ c.ctr \in Nat \ {0} /\ c.seq \in Nat \ {0}
    /\ \A id \in c.deps : id[1] < c.ctr

\* Channels, chores and counters have their types; a replica, a sync message and
\* what counts as sent hold changes that were made, each later than its grounds.
TypeOK ==
    /\ chan \in [Servers -> Channels] /\ db \in [Servers -> Channels]
    /\ IsFiniteSet(written) /\ \A c \in written : IsChange(c)
    /\ \A s \in Servers :
        /\ doc[s] \subseteq written /\ sent[s] \subseteq written
        /\ \A i \in DOMAIN syncs[s] :
            syncs[s][i].changes \subseteq written /\ syncs[s][i].heads \subseteq written
        /\ told[s] \in BOOLEAN
        /\ s \in clearing => saved[s] = << >>
        /\ chores[s] \subseteq {"found", "grant", "revoke"} \X Dids \X Dids
    /\ modes \in 0..Len(Orders) /\ faults \in 0..MaxFaults

\* Nothing is under way, and another round of the reconciler changes nothing.
Quiet ==
    \A s \in Servers :
        /\ chores[s] = {} /\ inbox[s] = << >> /\ syncs[s] = << >> /\ saved[s] = << >>
        /\ s \notin clearing
        /\ Reconciled(chan[s], doc[s]) = chan[s]

\* Two histories of one actor are about: its replica lost changes it had made,
\* and it gave their numbers to others.
Forked ==
    \E c, e \in written :
        c # e /\ c.actor = e.actor /\ (c.seq = e.seq \/ c.ctr = e.ctr)

\* Changes were lost with a link, and their sender takes them for sent.
Stranded == \E s \in Servers : ~(sent[s] \subseteq doc[Other(s)])

\* The replicas say the same, whatever changes wait in them.
Alike == \A s, p \in Servers : Ready(doc[s]) = Ready(doc[p])

\* When all is quiet and neither replica has changed since it was last
\* offered, the replicas are alike and both servers name the founder they
\* name, whoever created the channel where (server.rs
\* `crdt_broadcast_sync`, `reconcile_crdt_to_local`); only a message lost with
\* its link, or an actor that lost its own changes, keeps them apart.
SettledAlike ==
    Quiet /\ ~Forked /\ ~Stranded /\ unheard = {} /\ (\A s \in Servers : told[s]) =>
        /\ Alike
        /\ \A s, p \in Servers :
            DocFounder(doc[s]) # {} => chan[s].founder = chan[p].founder

\* When all is quiet, the replicas are alike and no compaction has dropped a
\* change, an account that created the channel or was made an operator, that
\* no order ever unmade and --require-did-for-ops never turned away, is one on
\* both servers: by the event, the snapshot or the document, of which a lost
\* link, a restart, a race of rights or a roster without its target can each
\* take one away (server.rs `process_s2s_message`, `reconcile_crdt_to_local`).
GrantsSpread ==
    Quiet /\ Alike /\ ~lost =>
        \A d \in (created \cup granted) \ (revoked \cup denied), s \in Servers :
            d \in chan[s].ops

\* The servers on which modes are set.
Ordering == {Home[Orders[i][1]] : i \in DOMAIN Orders}

\* What the reconciler's comment says, that the document is the source of
\* truth for operators: on a server whose people gave the orders, an account
\* they unmade and did not make again is no operator once the document does
\* not list it.
RevocationHolds ==
    Quiet => \A d \in revoked \ granted, s \in Ordering :
        d \notin DocOps(doc[s]) => d \notin chan[s].ops
===============================================================================
