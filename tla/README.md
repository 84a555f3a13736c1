# freeq: a TLA+ verification project

freeq is an IRC server for people and agents, written in Rust. Accounts are
AT Protocol identities, messages and task events are signed, and servers
federate over QUIC (iroh). This directory holds TLA+ modules that model the
parts of the server where the order of events decides the outcome, TLC
configurations that check them on small instances, and proofs that TLAPS checks
for instances of every size. Paths below are relative to the repository.

To check a run: `tlc -config S2sLink.cfg MCS2sLink`. To check a proof module:
`tlapm S2sPresenceProofs.tla`. `PROJECT.json` lists every run, the lines each
definition models, a mutation of the code that each property rejects, the
hazards, the disagreements found and the theorems.

## 1. The system

### Components, their state and how they interact

| component | state | operations | talks to |
|---|---|---|---|
| S2S links, `freeq-server/src/s2s.rs` | the peers map (entry = write channel + generation), one reader and one writer task per connection, one retry loop per configured peer | dial, accept, tie-break, register, Hello, read, write, clean up, REVOKEPEER | QUIC; puts events and disconnect notices on the event channel |
| event relay, `s2s.rs`, `connection/helpers.rs` | event counter, broadcast queue, per-peer high-water mark and ring (`DedupSet`) | mint an ID, queue, broadcast, addressed send, admit or refuse | client connections in, links out; the event processor asks the `DedupSet` |
| event processor, `server.rs` `process_s2s_event` | authenticated peers, rate limits; changes channels, history, tasks | one arm per message type, one task for all peers | everything below |
| held relays, `held_relay.rs` | per-origin deques of edits whose signer's key is missing, per-key retry schedule, counters | hold, take for a signer, expire, retries due | event processor, key lookups, a sweep |
| peer keys, `peer_keys.rs` | lookups in flight, own-host answers, keys on file | fetch on miss, fetch again, key landed, settled | release of held relays and deferred task events |
| task relay, `act_relay.rs` and its users in `server.rs` | `DeferQueue` (events that wait for a key, a subject or a post), `RouteQueue` (moves the home is asked about) | park, take, judge, route, retry, catch up | event processor, key lookups, task log |
| task state machine, `spec/act-transitions.json`, `freeq-sdk/src/act_transitions.rs`, `connection/act.rs`, `db.rs` | the event log with a confirm state per event, the live row of each task | post, claim, bid, award, complete, review, confirm, expire | task log, receipts to peers |
| cluster document, `crdt.rs` | an automerge document of topics, founders, operators, bans; a sync state per peer | set, merge, compact, re-key | links (sync messages), reconciliation into channels |
| channels and sessions, `connection/channel.rs`, `connection/mod.rs` | members, modes, bans, remote members, sessions per account | join, part, kick, mode, nick, quit | relay, policies, database |
| messaging, `connection/messaging.rs`, `events.rs` | history, edits, reactions, pins, read markers | send, edit, delete, react, catch up | relay, database |
| login, `sasl.rs`, `connection/login.rs`, `connection/registration.rs` | SASL challenges, registration state | challenge, verify, register | identity resolution, keys |
| policies, `policy/` | channel policies, attestations | evaluate, attest, expire | channel joins |
| rooms, `rooms.rs`; AV sessions, `av.rs` | invitations, sessions | create, join, leave, end | relay |
| auth broker, `freeq-auth-broker` | OAuth sessions and tokens | log in, refresh, sign out | server web API |
| encryption, `freeq-sdk/src/ratchet.rs`, `x3dh.rs` | ratchet chains, skipped keys | encrypt, decrypt | clients |

Interfaces, apps, media transport, agent assistance, plugins and the web API are
listed in `PROJECT.json` with the reason they are left out: they hold no
protocol state that several actors change.

### What is hard here

The server is a tokio program: every client connection, every link's reader and
writer, every lookup and every sweep is a task of its own, and locks are taken
and released between the steps of one operation. Servers referee their own
tasks, merge each other's channels and answer over links that lose what was on
them. Eight kinds of trouble follow.

* *Two ends decide alone.* Two servers that dial each other must pick the same
  connection to keep, from what each sees at its own moment.
* *Checked, then used.* The retry loop reads "no entry" and dials for seconds; a
  released edit asks "is there a newer one?" under one lock and writes under
  another; a task event is found to lack its subject and parked afterwards.
* *Old tasks live on.* A replaced link's reader is never aborted; what it still
  hands on arrives after its link's cleanup.
* *Bounded channels under a lock.* The cleanup and the broadcast worker await
  room in a channel while they hold the mutex that the channel's consumer needs.
* *Hand-kept counts.* The bounded queues keep a total, per-key counts and
  deques that every exit must update together.
* *One referee, many copies.* Two people claim a task on two servers at once;
  only its home may decide, and its decision travels as a receipt that can come
  early, late, twice or never.
* *Three carriers of one truth.* Who runs a channel travels by events, by
  snapshots and by a merged document, each of which a lost link, a restart or a
  compaction can cut off.
* *State moved before the message is checked.* A ratchet session changes before
  the message that changes it has been authenticated.

### What makes each part correct

Links: an entry of the peers map is always served by a running handler; the pair
settles on one link and keeps it; a dead link leaves the map. Presence: a
disconnect notice wipes only what its own link brought, and nothing outlives it.
Relay: an event is refused only on account of one admitted since the receiver
last forgot the peer. Held relays: counts exact, ceilings kept, no lost wakeup,
nothing applied twice or unchecked, every edit's key asked for again while it
waits, everything settles, an overtaken edit stays behind. Tasks: the home
alone moves a task and by its table, every other server shows only what the home
has had, nothing waits for a key that is there, and a server stops asking once
the home has ruled. Channels: once all is quiet the replicas are alike and the
servers name the same founder, and a grant has reached both unless a server's
rules turned it away. Lock: who holds it can move, with two exceptions that are
named. Ratchet: a message that comes once opens, however late; an opened one can never be read again; no
key closes two messages; what is kept is owed. For parts not yet modelled the
intended properties are in the plan below.

## 2. The modules

### HeldQueue, HeldRelays

`HeldQueue` is the struct of `held_relay.rs`: `held` for the items of every
origin's deque, ordered by their `seq`; `total`; and `retries` for the
per-(origin, signer, kid) `KeyRetry` table. `Hold`,
`TakeForSigner`, `Expire` and `RetriesDue` are its methods, each with every loop
it runs (a `Hold` evicts until both ceilings are met). Time is a counter that
`Tick` advances.

`HeldRelays` composes that queue with its users in `server.rs` and
`peer_keys.rs`: the event processor that holds an edit whose key is missing and
looks once more after holding (`hold_relay`), lookups that file a key or miss,
release tasks that pop, verify, check `edit_overtaken`, file and apply in
separate steps, and the sweep that asks again and expires. A checked edit can
still be refused: its actor is not the author (`federated_edit_authorized`), the
channel is `+n` or `+m`, or the store does not take its msgid; these are choices
of the processor and of a release. The clock runs whatever the tasks are at, also
between the check that misses a key and the hold. `asked` is a history variable:
a row of the retry table serves all edits of one origin and key, so only it can
say whose key was asked for *while that edit waited*.

### S2sLink

Two servers. A slot is a connection generation; it is dialled again only when no
handler or task of its last use is left, so the model redials for ever with
finitely many states. Per server and slot, `hnd` is the place in
`handle_s2s_connection`: `dialing` (the retry loop is in `dial_peer`), `opening`
(in `open_bi` or `accept_bi`), `greeting` (registered, Hello not yet sent),
`live` (in the `select!`). `rd` and `wr` are the two spawned tasks. `peers` is
the map and `loop` the slot the retry loop is busy with.

| action | code |
|---|---|
| `Dial` | an iteration of `connect_peer_with_retry` that finds no entry |
| `Connected` | the dial succeeds; `handle_incoming_s2s` applies the allowlist at the other end |
| `OpenFails`, `Yield`, `Register` | the handler up to the peers map, with `duplicate_link_wins` |
| `Greet` | Hello and the sync request, sent over whatever entry the map holds by then |
| `ReadEnds`, `WriteEnds` | the ends of the two tasks; dropping an entry ends its writer |
| `HandlerEnds` | the generation-checked cleanup |
| `Rejected` | a HelloAck that does not accept, in the event processor |
| `Revoke`, `Crash`, `Lose` | REVOKEPEER, the death of a process, the death of a path |

An accepting end sees the stream only once the dialler has written to it
(`opened`), as QUIC does; a connection closes when one end has dropped its last
handle (`LetGo`).

### S2sPresence

Extends `S2sLink` with what travels over the links towards one watched server:
the handshake, rosters (a join or a sync response, anything that adds a remote
member), and the notice the cleanup puts on the event channel before it releases
the peers lock. `Process` is the event processor: the authentication gate comes
first and covers the notice as well. REVOKEPEER takes the entry under one lock
and the authentication under another (`RevokePeer`, then `RevokeAuth`), with
anything in between. `RateLimited` is the per-peer limit of 100
events a second, which can drop any event. The other server is symmetric, so
only what it sends is modelled.

### EventRelay

One direction of a pair. An event carries the incarnation of the process that
minted it and its counter; the receiver compares counters only. Clients mint,
then queue with `try_send`; addressed senders (routed transitions, receipts)
mint and send straight to the link, past the queue. The worker and these senders
take the peers lock first and keep it until the send returns (`SenderLocks`,
`WorkerLocks`), and a link that comes up or goes waits for it.

`check_and_insert` is two steps, as in the code: `CheckMark` compares and moves
the mark under its lock, `Insert` looks into `seen` and `order` afterwards.
`RemovePeer`, at cleanup or REVOKEPEER, is four: the entry, `seen`, `order`, the
mark, and the processor may run between any two. `Connect` replaces an entry
without a reset, as a registration over an existing entry does. A restarted
sender's counter is its wall clock, which may have been set back: `Restart`
chooses any value up to the last one used. `kept` and `old` record which admitted
events the receiver has not forgotten; no guard reads them.

### PeersLock

The peers mutex and who awaits what while holding it. A channel is a count. The
handler of each link registers, says Hello and cleans up under the lock; the
broadcast worker sends to every entry in turn under it; the event processor
takes it to answer. Rust keeps the guard of `if let Some(e) = peers.lock().await.get(..)`
until the end of the body, so the awaits in those bodies happen under the lock.
`stream` is what was written to a link and not read by the peer. Flow control
lets only so much stand there, so `Write` waits for the peer's reader, which may
itself be parked on a full event channel at its end: nothing obliges a peer to
read (`PeerReads` has no fairness in `Spec`). `StuckForTwoReasons` asks whoever
holds the lock whether it can move, or waits for a task that can and that does
not want the lock.

### ActTransitions, TaskReferee, TaskNet

`ActTransitions` holds the handoff and bounty tables of
`spec/act-transitions.json` and the checker of `act_transitions.rs` (`CheckOpen`,
`Check`, who may act, who becomes the assignee) as operators.

`TaskReferee` is what a shared task promises its readers, in two actions: the
home opens or moves the task along a row of the table (`Decide`), another server
comes to show what the home has had (`Follow`), and a task shown as finished
stays so.

`TaskNet` is the protocol that implements it. Per server: `conf`, the log with
each event's confirm state; `row`, the live row; `parked`, the defer queue in
park order; `routes`, the moves it asks about; `work`, a stack of steps left for
each of three tasks that run at once (the event processor, a key lookup's task, a
sender's connection). A step holds the database or the queue's lock for one
call, so a park is a step apart from the look that found something missing. A
park makes room as `DeferQueue` does: the oldest lesser event of the origin's
share, then of the whole queue, and a receipt only where there is nothing else
(`Victim`, `Within`, `ActDeferMaxPerOrigin`, `ActDeferMaxTotal`).

| action | code |
|---|---|
| `Post`, `Sweep` | a participant's move at its own server's gate, and the home's own expiry and auto-accept |
| `Receive` | `judge_relayed_task_event` for a relay, `ActRoute` for an ask; whenever an ask makes no new receipt, also when it parks, the stored one is sent (`Answer`) |
| `JudgeParked`, `ParkIt`, `ReleaseIt`, `TakeForKey` | the defer queue: `park_for_key`'s second look, releases in park order |
| `MintReceipt` | `mint_receipt`, in a transaction after the move's |
| `FlushRoute`, `TaskWaitOverdue` | the thirty-second route tick for one move, whatever else is under way; the wait that ends unfiled |
| `KeyLands` | a lookup that files a key and releases what waited |
| `CatchUp`, `Replay` | the window a peer asks for when its link comes up, event by event |
| `ParkReplayedReceipt` | `park_replayed_receipt`: a replayed receipt whose key is missing, or that is ahead of its move, is looked at again and held, for the key or on the task |
| `Lose`, `Restart` | a lost message; a restart that keeps the log and loses the queues |

`ApplyActEvent` is `db.rs`'s function of that name in two parts, receipts and
moves, with its outcomes named as there. `past` records what the home's row has
been; it is the only history variable and the refinement mapping needs it.

### ChannelAuthority

One channel on two servers: founder and operators in memory (`chan`) and as saved
(`db`), and the replica of the cluster document (`doc`). Automerge is external
and abstract: a replica is a set of changes, a merge is a union, a put overwrites
what its writer sees, of several values the largest operation id counts, a change
waits for those it depends on. A change carries its actor's sequence number,
because two changes of one actor with one number cannot be merged (`Clash`).
`sent` is automerge's per-peer sync state: what was sent is not sent again, and
the server never resets it when a link is lost. `written` (every change ever
made) and `unheard` (who lost a sync message with its link) are history
variables, as are `created`, `granted`, `revoked`, `denied` and `lost`: apart from the bound
on deeds, which counts `created`, no guard reads them; the properties need them
to say which states they exempt.

| action | code |
|---|---|
| `Create`, `CreateAsGuest` | `handle_join` of a new channel, by an account or by a guest, whose channel has no founder |
| `JoinWithRole` | the operator's role a policy gives at a join: in memory only, nothing sent, written or saved |
| `SetMode` | `MODE +o` and `-o` by anyone the code lets: an operator's account, a session that is operator without one, a server operator |
| `DoChore` | the task those handlers spawn: document write, then `crdt_broadcast_sync` after a mode |
| `Process` | `ChannelCreated`, `Mode`, `SyncRequest`, `SyncResponse` in the event processor. A mode is refused when its setter is no authority here and no operator in the roster, and comes to nothing when its target is not found; operators without an authority are turned away under `--require-did-for-ops` |
| `ReceiveSync` | `CrdtSync`: merge, then the answer to its sender |
| `Reconcile` | `reconcile_crdt_to_local`, once a minute |
| `CompactSave`, `CompactSwap`, `CompactClear` | `compact`: what is saved under the lock replaces the document later, and the sync states are cleared after that under a third lock |
| `Flap`, `Restart` | a lost link; a restart with the saved channel and an empty document |

### Ratchet

`Session` of `ratchet.rs` at both ends, with symbolic keys: a ratchet key is its
owner and a number, a root key the sequence of agreements in it, a chain key its
root and a step count. `Encrypt` and `Receive` are the two operations; `Decrypt`
is the code's, path by path: a kept key first, then a new ratchet key (skip the
rest of the old chain, ratchet), then the chain itself. What the code has changed
before it returns an error stays changed. Any message may be delivered at any
time, never, or again.

## 3. The runs

| run | checks | result |
|---|---|---|
| `held_queue` | counts, ceilings, expiry, eviction, and that every item leaves | holds |
| `held_relays` | no lost wakeup, nothing twice, nothing unchecked, every edit's key asked for again before it is given up, every edit settles, an edit overtaken while it waited stays behind | holds |
| `s2s_link` | every entry served, the pair settles, the agreed link is kept | holds |
| `s2s_presence` | a notice wipes only what is old | holds |
| `event_relay` | an event is refused only on account of one admitted since the peer was last forgotten, whatever the clock does | holds |
| `peers_lock` | the holder of the lock can move but for two reasons, and but for these the lock is handed on and dead links leave | holds |
| `peers_lock_full` | dead links leave, when every peer goes on reading | violated: finding 1 |
| `task_bounty` | other servers only follow the home, no event waits for a key that is there, and `TaskNet` implements `TaskReferee` | holds |
| `task_asks` | a server asks for ever only about a move the home refuses, or whose receipt came early or was never written | holds |
| `channel_authority` | once quiet: replicas alike, one founder, grants on both servers | holds |
| `channel_authority_revoked` | the document is the source of truth for operators | violated: finding 2 |
| `ratchet` | messages open, opened ones are forgotten, keys used once, kept keys owed | holds |

### Bounds

*Held relays.* A unit of time is thirty seconds. For the queue: two origins, two
keys (one of them no lookup can find), ceilings of two and three, four holds and
four ticks, enough for both ceilings to be hit together, for an eviction of
another origin's item and for an item to expire while its retry is due. For its
users: three edits of one message under one key, two of them over one link, so
that they share a row of the retry table, the third forged and over another;
ceilings of two and two, and five units of time, in which an edit can join a key
already asked for twice.

*Links.* Two slots: a duplicate needs two, and a replaced connection that is
still winding down occupies one while the next is in use. Two faults of any kind
let a crash strike the recovery from a loss. Both servers dialling, or either
alone; both allowing each other, or the lower one leaving the other out.

*Presence.* One dialling server, two slots, one fault out of four kinds, a write
channel of one place and an event channel of two, so that a reader can be blocked
on a full event channel while its link is replaced. Either server is watched.

*Relay.* Two clients and an addressed sender, event counters up to two, two
connections over two slots, two restarts each with any clock, every channel and
the ring of one place: an event can wait in each stage while a later one, or one
of another incarnation, overtakes it, and the ring evicts. The clients are
interchangeable, so the run uses their symmetry (there is no liveness property).

*Lock.* Two peers, because the circle needs a second dead link to be seen from
outside; every channel and stream of one place, so that every send can block and
the event channel fills; two links and two messages, in `peers_lock_full` three.

*Tasks.* Two servers: a third would follow the home as the second does, its
receipts counting on the home's own link only. Both runs have three moves, one
lost message or restart, and a defer queue of two places. `task_bounty` (750,000
states): a bounty offered, bid for and awarded on the home, cancelled by its
poster on the other server or expired by the home, so that it reaches an end; the
other server starts without the bidder's key and without the home's, so that
every kind of wait happens, that of a replayed receipt included. `task_asks`
(200,000 states): two claims at once on two servers and a completion on the home
behind the one made elsewhere, every key known, under fairness.

*Channels.* One account on each server, either or both of which create the
channel, or a guest on the first; the first account makes the second an operator
and unmakes it; three of these deeds; a policy may give the second account its
role at any time; the second server runs with `--require-did-for-ops`; and one
lost link, one restart or one compaction on the first, at any point: 1.2 million
states. `channel_authority_revoked` has no fault, guest or role.

*Ratchet.* Four messages each way give three changes of direction with a gap in
each; with gaps of one skipped, both refusals happen; two messages come twice.

### Fairness

Weak fairness for every step of a task that tokio has spawned: it runs when it
can. The retry loop never ends, so dialling is fair. A dead connection is
noticed by the idle timeout, so the tasks of a dead link are fair. In
`PeersLock` taking the mutex is strongly fair: tokio's mutex is first come,
first served. That a peer reads is not assumed there, because its reader may be
parked; only `peers_lock_full` assumes it (`ReadingSpec`), so that its
counterexample is the circle and not a silent peer. In `TaskNet` the servers' own
steps are weakly fair together (a link that is up delivers, the processor goes
on), and so is the route tick for each move of a server that does not own the
task. Ticks come thirty seconds apart, at any moment; `TicksAreSlow` says of
behaviours with endlessly many of them that the servers get through what is
under way again and again. Keys have no fairness.
`EventRelay`, `ChannelAuthority` and `Ratchet` state no fairness: their
properties are about every state or step, or about states in which nothing is
under way. Clients, operators,
faults, restarts, new links and peers' chatter have no fairness. Runs whose system may come to rest turn deadlock checking off:
a pair of servers with a settled link and no fault left has nothing to do.

### Findings

Runs with `"expect": "violation"`; `PROJECT.json` quotes the comment each
contradicts.

1. *Cleanup and event processor wait on each other* (`s2s.rs` 2203,
   `server.rs` 6438) once the event channel is full, with every peer reading.
   `TwoWaysToStick` proves that there is one other way to hold the peers lock for
   ever: a send to a live peer that has stopped reading.
2. *A revoked operator comes back* (`server.rs` 9350). `-o` takes the account off
   the local list at once and off the document in a spawned task. The reconciler
   in between copies it back from the document, and it only ever adds: when the
   document's key is gone the account stays an operator.

### Observations

Behaviours the models reach that a comment of the code would not lead one to
expect, and that the properties above leave room for on purpose.

* *A released edit can bring back an older text* (`server.rs` 6884–6977).
  `edit_overtaken` is asked, the edit filed and the history written in three
  steps beside the event processor. `OvertakenStaysBehind` covers revisions
  filed before the question, not those filed during these steps.
* *Dialled but not allowlisted* (`server.rs` 2367, 6432). The start-up warning
  says such a peer can be connected to outbound; the Hello handler refuses it,
  the peer drops its entry, and the dialler starts again for ever. `LinkSettles`
  is about servers that allow each other.
* *Ghost members* (`s2s.rs` 2187–2211). The read task of a link whose writer
  ended first goes on after the disconnect notice, and what it lists stays.
* *IDs are queued out of order* (`connection/helpers.rs` 180). Minting and
  queueing are separate steps of concurrent tasks; the receiver's mark refuses
  the lower ID on a link that never faltered. It is what "overtaken" allows for.
* *The mark outlives a quick restart* (`s2s.rs` 2194). A replaced entry is never
  cleaned up, so a peer that is back with an earlier clock is not heard until its
  counter has caught up: the reset of the mark that `s2s.rs` 1062 describes comes
  with a cleanup or a REVOKEPEER, not with every reconnection. It is what
  `ClockSetBack` in `RefusedForCause` allows for.
* *An ID nothing evicts* (`s2s.rs` 1037, 1059). `check_and_insert` may run between
  two steps of `remove_peer`; an ID then stays in `seen` and is missing in
  `order`, and the ring outgrows its capacity by it.
* *Two servers can park each other* (`s2s.rs` 2079, 2121). A reader waits for room
  in a full event channel; the peer's writer then waits on flow control, and
  whoever sends to that peer waits under the peers lock, the processor that
  should empty the peer's own event channel among them. Two such servers that
  answer each other wait for as long as the link is up, and keep-alives keep it
  up. It is the second reason in `StuckForTwoReasons`.
* *Receipts can be dropped* (`act_relay.rs` 347–372, 391). `server.rs` 5691 says
  a receipt in the defer queue is "never evicted and never refused"; one is
  evicted for another receipt when the share or the queue holds nothing else.
  `AskingEnds` shows that asking makes up for it.
* *A replayed receipt that waits for what is there* (`server.rs` 4222, 4259). A
  key that lands between the replay's check and the second look leaves the
  receipt held on the task, which is on file already: nothing releases it.
* *A ruling without a receipt* (`connection/act.rs` 421). A home that stops
  between applying a move and filing its receipt never writes it, and the server
  that holds the move asks for ever: `ReceiptNeverWritten` in `AskingEnds`.
* *A receipt that comes early* (`db.rs` 9889) is filed as refused, and every
  later copy is a duplicate: `ReceiptCameEarly`.
* *Changes lost with a link* (`crdt.rs` 556). Nobody calls
  `remove_peer_sync_state`, and the timer `server.rs` 9111 speaks of does not
  exist: such a change reaches the peer only with a later one, a restart or a
  compaction. Operators still spread, by the snapshot of the new link; the
  replicas stay apart (`Stranded`).
* *Compaction and restarts reuse numbers* (`crdt.rs` 174, `server.rs` 2268). A
  write that falls into a compaction is lost, and an actor that lost its changes
  numbers new ones as before: such replicas never merge again (`Forked`).
* *The larger operation id founds the channel* (`crdt.rs` 352, `README.md` 314).
  Both say that of concurrent claims the minimum actor wins. `set_founder`
  compares actors only when it sees the other's claim; of two claims written
  unseen Automerge keeps the one with the larger operation id, which with equal
  counters is the larger actor's. `SettledAlike` says that both servers agree,
  not on whom.
* *A grant that reaches the other server by nothing* (`server.rs` 8422). With
  `--require-did-for-ops` a server refuses the operators of a channel nobody
  founded, and a restart can cut off the document write: `denied` in
  `GrantsSpread`.
* *An operator on one server only* (`connection/channel.rs` 374). A role by policy
  is listed in memory and neither sent nor written nor saved. No order made the
  account an operator, and `GrantsSpread` does not speak of it.
* *Orders the peer refuses* (`connection/channel.rs` 859, `server.rs` 8670). The
  `+o` of a server operator takes effect at home and is refused by the peer; the
  grant arrives there with the reconciler, by the document.
* *A message that comes twice harms the session* (`ratchet.rs` 488–503). The
  chain is wound on before the message fails to authenticate, so later messages
  of that chain may not open. Neither secrecy nor the use of keys suffers.
* *`MAX_SKIP` bounds each gap* (`ratchet.rs` 117, 517), not "the number of
  skipped message keys to store per session": with a limit of one a session is
  seen to keep more than one.

## 4. The proofs

### HeldRelaysProofs

*The queue.* For all origins, signers, ceilings and limits. The invariant is `TypeOK` and
`Accounting` with what they need: sequence numbers are distinct (`SeqUnique`),
below the next one (`SeqFresh`), and in the order of arrival times
(`SeqIsAgeOrder`). Order is what makes a scan that stops at the first young item
complete (`ExpiryLeavesNoneOverdue`); exact counts are what keep the decrements
above zero (`TypeOK`) and let the loops that make room stop at the ceilings
(`WithinCeilings`).
`EvictsOnlyTheOldest` is an action property proved from the same invariant.

*Its users.* For all edits, keys, forgeries and ceilings. `RInv` is the queue's invariant
(the queue's own proof is reused: each of its operations is a step of the
composition), `NoLostWakeup`, `OnlyCheckedEditsFiled`, and

* `InHandChecked` – what a task holds past its check was checked; without it
  nothing says that what a release files later had a key;
* `Apart`, `HeldOnce`, `TodoOnce` – every edit is in one place: not yet
  received, in the processor's hand, in the queue, in one release's work, or
  dropped;
* `FiledApart`, `ShownApart` – what is on file is in nobody's hand unless it is
  shown next, and what is shown is in nobody's hand. These two make
  `NeverTwice` inductive.

`TakeForSigner` hands its items over in the order they were held (`HoldOrder`);
the lemmas on `Sorts` show that this order lists each item once. Two action
properties follow. `OvertakenStaysBehind` needs `LeftBehind`, which follows an
overtaken edit to the store. `AskedBeforeGivenUp` is about each edit, not about
the row its key shares. It needs `AskInv`: the first two retries of a row are
never further off than the time an edit is held, so they fall within the minute
of any edit that joins the row, and a sweep has asked for all that was due when
it read the clock. After two retries in vain the next is further off, and an edit
that joins then may be given up unasked: the exception in the property. Assumed
is `FirstRetry # 0` and `2 * FirstRetry <= HoldLimit`: `FIRST_RETRY` is 30 s,
`HOLD_LIMIT` 60 s.

### S2sPresenceProofs

*The link.* For any set of slots and any number of faults. Assumed is only what
`S2sLinkAssumption` says of the constants: two servers, one of them lower. The
inductive invariant `LinkInv` adds to the types:

* `EntryIsServed` – an entry's handler is past registration and not gone;
* `DialIsFresh` – a connection being dialled is unknown to the other end and has
  no tasks, so no step of the other end can touch it;
* `OpeningIsFresh` – a handler before registration has no tasks;
* `LoopOwns` – a server's handler of a connection it dialled is the one its
  retry loop waits for, so a server never has two outgoing handlers;
* `TasksRun` – both tasks of an entry run while the connection is intact and the
  other end has it in its map or is about to.

`EntriesAreServed` needs the first three. `KeptLinkStays` needs all: a second
registration over the kept link would be a connection the lower server dialled,
which `LoopOwns` excludes at the lower server and the property's hypothesis at
the other; and no task of the kept link has ended, by `TasksRun`, so no cleanup
removes it.

*What travels over it.* For any number of slots, faults and capacities. The link's invariant carries over:
every step of the composition is a step of `S2sLink` or one of the two things
only the processor and the rate limiter do. `WipesOnlyTheOld` follows a slot from the
dial, through the handler that opens it, to its reader: a connection enters the
map before its reader starts, so it must be known that no event already in the
channel came over it (`UnreadIsSilent`), and that a handler of a registered
connection has started its reader (`ServedIsRead`); the cleanup queues its notice
before it lets go of the peers lock, so nothing of the next connection is ahead
of it. `EntriesAreServedWithPresence` restates the link's main
invariant for the composition, where the processor removes entries as well.

### EventRelayProofs

For any number of senders, links, restarts and queue sizes, and any clock.
`RelayInv` says that the counters of one incarnation grow with every mint
(`MintsInOrder`), that no event is in two places or twice in one (`NoTwins`,
`OnePlace`), and that what the `DedupSet` knows comes from events admitted since
it last began to forget the peer, or from the one it is looking up
(`Remembered`), at each of the steps in which it forgets. `RefusesForCause`
follows: the mark that refuses an event is that of another event, minted later
or by an incarnation whose clock was ahead; and one the ring refuses would be in
two places.

### RatchetProofs

For any number of messages, duplicates and kept keys. On the sending side a key
that closed a message is behind the sending chain (`Spent`), and the two ends
take turns with the parity of their root's length (`OnTurn`), so neither sends
under a key of the other: `NoKeyTwice`. On the receiving side a key that opened a
message is behind the receiving chain and not kept (`OpenedIsPast`):
`ForwardSecrecy`. `NoneAssumption` says that the mark for "no chain yet" and "no
key yet" is neither a chain nor a key.

`LateMessagesOpen` and `NothingKeptInVain` relate the two ends, until a message
comes twice (`EndsInStep`). One end is ahead: its root is the other's and one
agreement more, and it reads the chain the other sends in (`Ahead`); the other
reads the chain before. Every number up to the end of the chain that is read is
written (`Reads`), every kept key is that of a message behind that has not opened
(`Keeps`), and a message that has not come has its key kept, lies ahead in the
chain that is read, or is in the one that will be read next (`InReach`). A
message's delivery is then winding the chain on, taking the turn and opening the
next message, in this order and each where it applies (`Wind`, `TakeTurn`,
`OpenNext`, `OpenKept`), and each keeps the ends in step. What is refused is
refused for a gap in the numbers, and every number in it is a message that has
not opened (`TooFarIsMissing`). A message that comes twice sets the receiving
counter back, in the model as in the code: from then on none of this holds, and
the properties do not claim it.

### TaskNetProofs

For every set of servers, authors and moves, either kind of task, and every
schedule of losses and restarts. `TaskAssumption` fixes what the model's
parameters mean: the opener is posted at the home, with a verb that is no move.
A server applies a participant's move only on the home's word, a receipt or a
move the home signed itself. That the word is true is a fact about everything it
passes through, so `TaskInv` says of every trace of it, in messages in flight
(`NetOK`), in the steps a handler has left and in the defer queue (`StepsOK`),
and in the logs a catch-up is read from (`LogsOK`), that the home has given it.
`OnlyTheHomeDecides` follows. `KeyNeverLost` follows from `KeysAwaited`, where
the hard steps are the two that race: the park after a look that found no key,
and the key's arrival. It covers the receipts a catch-up holds, whichever keys a
server has, and the queue's ceilings: what is evicted waits for nothing.

`HomeReferees` is the refinement of `TaskReferee`. Receipts arrive in any order
and some not at all, so a follower's log is any part of the home's, not a
prefix of it, and its row need not be the home's row of any one moment with the
same moves confirmed. The proof rests on `ViewInv`. At every server the
confirmed moves determine the row (`Consistent`): at most one of them assigns the work and one ends it, and the
others land in a state. And `past`, the rows the home has had, holds every row
the home's confirmed moves can be read as (`OnRecord`), however many of them a
follower knows. Each write is nothing, the opening or one row of the table
(`Writes`); the home's is the referee's move (`HomeDecides`), another server's
is a row from `past` that does not undo an end (`OthersFollow`).

### ChannelAuthorityProofs

For any accounts, guests, roles, homes and orders, and any number of creations,
modes, lost links, restarts and compactions, with either server under
`--require-did-for-ops` or neither. Assumed are two servers with different actor
ids, accounts that have a home, and a finite list of orders
(`ServersAssumption`, `RankAssumption`, `AccountsAssumption`,
`BoundsAssumption`). The invariant `CoreInv` has a part for each carrier.

* *The document* (`DocInv`). Every change is among those ever written, builds
  only on written ones (`Grounded`), and on all that those build on (`Closed`, as
  long as no actor has reused a number). A merge of such replicas is one again,
  and what a replica holds ready it holds with its grounds. A read takes the
  largest operation id, and two different changes never have the same one unless
  an actor forked: replicas with the same ready changes read alike.
* *Its sync* (`SyncInv`). The last message of a replica that has not changed
  since names what it holds (`HeadsTrue`), and a server that took such a message
  in has sent everything the peer lacks (`NothingOwed`): whoever writes later
  counts as not yet told. In a quiet state both have sent everything, and what
  was sent has arrived unless it is `Stranded`.
* *Events and snapshots* (`EventInv`, `OpsCarried`). What is on the link tells
  only what its sender knows (`Truthful`); a channel one side knows the other
  will hear of (`KnownSpreads`); and an operator whom an order or a creation made
  and none unmade (`Made`) is listed on the other side, or named in a snapshot
  that is under way or asked for, or in the document or about to be written there
  (`Carried`). The last two are needed because the receiver of a mode may refuse
  it, or find no session for its target. Who was made is listed and saved
  somewhere (`MadeListed`), so that a restart forgets nobody; an account listed
  by a role alone is not among them.

`QuietServersAgree` follows from the first two, `GrantsReachBothServers` from all.

### PeersLockProofs

For any peers and capacities. The channels keep within their capacities
(`LockTypeCorrect`), and the lock, when it is held, is held by a task at the step
that releases it (`HolderIsThere`). A send that waits then has messages of a
living link before it, which the link's writer takes without the lock unless the
stream is full; a cleanup that waits has a full event channel before it, which
the processor empties unless it waits for the lock. These are the two exceptions
(`TwoWaysToStick`), and there is no third. That the lock is then really handed on
is liveness.

`QueueLemmas` holds what these proofs need to know about queues: the items of a
queue after an append, a tail or a concatenation, and when each is there once.

### Only model-checked

*Liveness* (`LinkSettles`, `DeadLinkLeavesUnlessStuck`, `LockIsHandedOn`,
`EveryItemLeaves`, `EveryEditSettles`, `AskingEnds`): it is beyond TLAPS's
backends.

*Disagreements* (`RevocationHolds`, and `DeadLinkLeaves` with a full event
channel): they are false of the code, and TLC's trace is the result.

Every safety property that a passing run checks is proved.

## 5. What is left out

*Inside the modelled parts.* Message contents, signatures and envelopes: a
message arrives whole, and its signature is good, bad or not yet checkable.
Capabilities. Trust levels. Backoff durations: loops are fair, not timed. Third
servers: dedup state, map entries and sync states are per peer, and links to
different peers meet only in the peers lock and the event channel, which
`PeersLock` models. In `S2sPresence` the cleanup's wait for room does not block
the others; that is what `PeersLock` is for. In `EventRelay` the receiver's
cleanup and processor take no peers lock of their own; `PeersLock` has the waits
that follow from it, and `EventRelay` claims nothing about progress. Of tasks:
reviving one, budgets, referees an opener names. Of channels: a creation or a
snapshot turned away by the relay's dedup or a full queue while its link stays up
(a mode that comes to nothing is modelled), sessions of one account on several
devices, topics, bans, kicks, invitations, the other
modes, the actor's re-keying when the endpoint id is known. Of encryption: the
key agreement, groups, saved sessions, the wire format.

*Parts not modelled yet* are in the plan. *Parts not to be modelled*: user
interfaces, media transport, SQL, the mathematics of cryptography, HTTP
formatting. The repository is mostly of that kind and of tests; the modules are
about the few thousand lines in which several actors share state.

## 6. Plan

1. **Channels**: several sessions per account, kicks and bans against the
   sync-response merge.
2. **Login, policies, rooms, AV sessions, broker**: the races of expiry,
   sign-out and refresh.
