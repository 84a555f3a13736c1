----------------------------- MODULE HeldRelays -----------------------------
(***************************************************************************)
(* How relayed edits of one message pass through the held queue            *)
(* (server.rs: hold_relay, release_held_relays, the sweep, and the edit    *)
(* branch of process_s2s_event; peer_keys.rs: key lookups).                *)
(*                                                                         *)
(* Four kinds of task share the queue, the key store, the message store    *)
(* and the channel history, each behind a lock of its own, and the runtime *)
(* has many threads: the event processor (one), a lookup per key, a task   *)
(* per release, and the sweep.  A step here is what one task does under    *)
(* one lock.  An edit is named by its msgid, a ULID: a larger one was      *)
(* written later.                                                          *)
(***************************************************************************)
EXTENDS HeldQueue, Sequences, Functions

CONSTANTS
  EditKey,      \* the (signer, kid) each edit names
  EditOrigin,   \* the peer that relays it
  Forged        \* edits whose signature does not verify against their key

Edits == Relays
None == 0

ASSUME HeldRelaysAssumption ==
  /\ Edits \subseteq Nat \ {None}
  /\ EditKey \in [Edits -> Keys] /\ EditOrigin \in [Edits -> Origins]
  /\ Forged \subseteq Edits

VARIABLES
  pending,    \* edits the peers have still to relay
  proc,       \* the event processor: the edit in hand and what it does next
  keysOnFile, \* the signing-key store
  looking,    \* keys a lookup is running for
  settling,   \* keys whose lookup has its answer and has yet to release
  tasks,      \* the release tasks, each with the edits left to it
  sweep,      \* the sweep: its step and the time it read
  asked,      \* history: the edits whose key was asked for again while they waited
  onFile,     \* rows of the message store
  indexed,    \* the text the search index holds
  current,    \* the text the channel's history shows
  shown,      \* the edits delivered to local members, in order
  dropped     \* edits given up: forged, uncheckable, evicted or expired

relayVars == <<pending, proc, keysOnFile, looking, settling, tasks, sweep, asked,
               onFile, indexed, current, shown, dropped>>
allVars == <<held, retries, total, next_seq, now, pending, proc, keysOnFile, looking,
             settling, tasks, sweep, asked, onFile, indexed, current, shown, dropped>>

InHeld == {i.relay : i \in held}

\* The signature checks out against a key on file.
Verifies(e) == EditKey[e] \in keysOnFile /\ e \notin Forged

RInit ==
  /\ Init
  /\ pending = Edits /\ proc = [pc |-> "idle", edit |-> None]
  /\ keysOnFile = {} /\ looking = {} /\ settling = {}
  /\ tasks = {} /\ sweep = [pc |-> "asleep", at |-> 0] /\ asked = {}
  /\ onFile = {} /\ indexed = None /\ current = None /\ shown = << >> /\ dropped = {}

(***************************************************************************)
(* The event processor                                                     *)
(***************************************************************************)

\* An edit arrives, in the order its origin sent it, and its signature is
\* checked.  With no key on file a lookup starts, unless one is running, and
\* the edit is to be held.  It is refused when the signature does not verify,
\* and also when sanitizing changed the signed bytes, when the actor is not the
\* author, or when +n or +m shuts the channel to it.
Receive(e) ==
  /\ proc.pc = "idle" /\ e \in pending
  /\ now + HoldLimit <= MaxNow
  /\ \A f \in pending : EditOrigin[f] = EditOrigin[e] => e <= f
  /\ pending' = pending \ {e}
  /\ \/ /\ EditKey[e] \notin keysOnFile
        /\ proc' = [pc |-> "hold", edit |-> e]
        /\ looking' = looking \cup {EditKey[e]}
        /\ UNCHANGED dropped
     \/ /\ Verifies(e)
        /\ proc' = [pc |-> "file", edit |-> e]
        /\ UNCHANGED <<looking, dropped>>
     \/ /\ proc' = [pc |-> "idle", edit |-> None]
        /\ dropped' = dropped \cup {e}
        /\ UNCHANGED looking
  /\ UNCHANGED <<held, retries, total, next_seq, now, keysOnFile, settling, tasks,
                 sweep, asked, onFile, indexed, current, shown>>

\* hold_relay, under the queue's lock.
HoldRelay ==
  /\ proc.pc = "hold"
  /\ Hold(proc.edit, EditOrigin[proc.edit], EditKey[proc.edit])
  /\ proc' = [proc EXCEPT !.pc = "recheck"]
  /\ dropped' = dropped \cup (InHeld \ {i.relay : i \in held'})
  /\ UNCHANGED <<pending, keysOnFile, looking, settling, tasks, sweep, asked,
                 onFile, indexed, current, shown>>

\* release_held_relays: what waits for k leaves the queue in hold order and
\* goes to a task of its own.
RelaysOf(s) == [n \in 1 .. Len(s) |-> s[n].relay]
HoldOrder(S) ==
  CHOOSE s \in [1 .. Cardinality(S) -> S] :
    \A m, n \in 1 .. Cardinality(S) : m < n => s[m].seq < s[n].seq

ReleaseHeldRelays(k) ==
  \/ /\ TakeForSigner(k)
     /\ tasks' = tasks \cup {[todo |-> RelaysOf(HoldOrder(ForKey(held, k))), pc |-> "verify", overtaken |-> FALSE]}
  \/ /\ ForKey(held, k) = {}
     /\ UNCHANGED <<held, retries, total, next_seq, now, tasks>>

\* The lookup may have filed its key, and released, before the edit was held:
\* the store is asked once more.
RecheckNever ==
  /\ proc.pc = "recheck" /\ proc' = [pc |-> "idle", edit |-> None]
  /\ UNCHANGED <<held, retries, total, next_seq, now, tasks, pending, keysOnFile, looking,
                 settling, sweep, asked, onFile, indexed, current, shown, dropped>>
Recheck ==
  /\ proc.pc = "recheck"
  /\ proc' = [pc |-> "idle", edit |-> None]
  /\ \/ EditKey[proc.edit] \in keysOnFile /\ ReleaseHeldRelays(EditKey[proc.edit])
     \/ /\ EditKey[proc.edit] \notin keysOnFile
        /\ UNCHANGED <<held, retries, total, next_seq, now, tasks>>
  /\ UNCHANGED <<pending, keysOnFile, looking, settling, sweep, asked, onFile, indexed,
                 current, shown, dropped>>

\* A checked edit is filed in the message store, which moves the search index
\* to it, and then becomes the entry's text and is delivered.  One whose msgid
\* the store refuses (a re-delivery, a conflicting claim) goes no further.
FileLive ==
  /\ proc.pc = "file"
  /\ \/ /\ proc' = [proc EXCEPT !.pc = "apply"]
        /\ onFile' = onFile \cup {proc.edit}
        /\ indexed' = proc.edit
        /\ UNCHANGED dropped
     \/ /\ proc' = [pc |-> "idle", edit |-> None]
        /\ dropped' = dropped \cup {proc.edit}
        /\ UNCHANGED <<onFile, indexed>>
  /\ UNCHANGED <<held, retries, total, next_seq, now, pending, keysOnFile, looking,
                 settling, tasks, sweep, asked, current, shown>>

ApplyLive ==
  /\ proc.pc = "apply"
  /\ proc' = [pc |-> "idle", edit |-> None]
  /\ current' = proc.edit
  /\ shown' = Append(shown, proc.edit)
  /\ UNCHANGED <<held, retries, total, next_seq, now, pending, keysOnFile, looking,
                 settling, tasks, sweep, asked, onFile, indexed, dropped>>

(***************************************************************************)
(* Key lookups (peer_keys.rs)                                              *)
(***************************************************************************)

\* A lookup finds the key and files it (key_landed); a session registering
\* its own key does the same without a lookup.
KeyFiled(k) ==
  /\ k \notin keysOnFile
  /\ keysOnFile' = keysOnFile \cup {k}
  /\ settling' = settling \cup {k}
  /\ looking' = looking \ {k}
  /\ UNCHANGED <<held, retries, total, next_seq, now, pending, proc, tasks, sweep, asked,
                 onFile, indexed, current, shown, dropped>>

\* A lookup finds nothing, and is remembered as a miss: nothing is released.
LookupMissed(k) ==
  /\ k \in looking
  /\ looking' = looking \ {k}
  /\ UNCHANGED <<held, retries, total, next_seq, now, pending, proc, keysOnFile, settling,
                 tasks, sweep, asked, onFile, indexed, current, shown, dropped>>

\* An answered lookup releases what waits (lookup_settled,
\* retry_deferred_task_events).
KeySettled(k) ==
  /\ k \in settling
  /\ settling' = settling \ {k}
  /\ ReleaseHeldRelays(k)
  /\ UNCHANGED <<pending, proc, keysOnFile, looking, sweep, asked, onFile, indexed, current,
                 shown, dropped>>

(***************************************************************************)
(* A release task: each edit through the relay path again, from the top    *)
(***************************************************************************)
PoppedStops(t) == {}
PoppedEmpty(t) == {[todo |-> Tail(t.todo), pc |-> "verify", overtaken |-> FALSE]}
PoppedAgain(t) == IF Len(t.todo) = 1 THEN {[t EXCEPT !.pc = "verify"]} ELSE {}
Popped(t) == IF Len(t.todo) = 1 THEN {}
             ELSE {[todo |-> Tail(t.todo), pc |-> "verify", overtaken |-> FALSE]}

\* A released edit is never held again: one that cannot be checked is dropped,
\* and so is one refused on any of the processor's other grounds.
VerifyReleasedNever(t) ==
  /\ t \in tasks /\ t.pc = "verify"
  /\ tasks' = (tasks \ {t}) \cup {[t EXCEPT !.pc = "check"]}
  /\ UNCHANGED <<held, retries, total, next_seq, now, pending, proc, keysOnFile, looking,
                 settling, sweep, asked, onFile, indexed, current, shown, dropped>>
VerifyReleased(t) ==
  /\ t \in tasks /\ t.pc = "verify"
  /\ \/ /\ Verifies(Head(t.todo))
        /\ tasks' = (tasks \ {t}) \cup {[t EXCEPT !.pc = "check"]}
        /\ UNCHANGED dropped
     \/ /\ tasks' = (tasks \ {t}) \cup Popped(t)
        /\ dropped' = dropped \cup {Head(t.todo)}
  /\ UNCHANGED <<held, retries, total, next_seq, now, pending, proc, keysOnFile, looking,
                 settling, sweep, asked, onFile, indexed, current, shown>>

\* edit_overtaken: is a later revision on file?
EditOvertakenByNext(e) == e + 1 \in onFile
EditOvertaken(e) == \E f \in onFile : f > e
CheckOvertaken(t) ==
  /\ t \in tasks /\ t.pc = "check"
  /\ tasks' = (tasks \ {t}) \cup {[t EXCEPT !.pc = "file", !.overtaken = EditOvertaken(Head(t.todo))]}
  /\ UNCHANGED <<held, retries, total, next_seq, now, pending, proc, keysOnFile, looking,
                 settling, sweep, asked, onFile, indexed, current, shown, dropped>>

\* An overtaken edit is filed without moving the index, and goes no further;
\* neither does one the store refuses.
FileReleased(t) ==
  LET e == Head(t.todo)
  IN  /\ t \in tasks /\ t.pc = "file"
      /\ \/ /\ tasks' = (tasks \ {t}) \cup (IF t.overtaken THEN Popped(t) ELSE {[t EXCEPT !.pc = "apply"]})
            /\ onFile' = onFile \cup {e}
            /\ indexed' = IF t.overtaken THEN indexed ELSE e
            /\ UNCHANGED dropped
         \/ /\ tasks' = (tasks \ {t}) \cup Popped(t)
            /\ dropped' = dropped \cup {e}
            /\ UNCHANGED <<onFile, indexed>>
      /\ UNCHANGED <<held, retries, total, next_seq, now, pending, proc, keysOnFile, looking,
                     settling, sweep, asked, current, shown>>

ApplyReleased(t) ==
  /\ t \in tasks /\ t.pc = "apply"
  /\ tasks' = (tasks \ {t}) \cup Popped(t)
  /\ current' = Head(t.todo)
  /\ shown' = Append(shown, Head(t.todo))
  /\ UNCHANGED <<held, retries, total, next_seq, now, pending, proc, keysOnFile, looking,
                 settling, sweep, asked, onFile, indexed, dropped>>

(***************************************************************************)
(* The sweep and the clock                                                 *)
(***************************************************************************)

\* The sweep reads the clock once, asks again for the keys that are due
\* (fetch_again forgets a remembered miss, so the lookup runs), and then
\* drops what has waited its minute by the time it read.
SweepAsks ==
  /\ sweep.pc = "asleep"
  /\ sweep' = [pc |-> "expire", at |-> now]
  /\ \/ /\ RetriesDue(now)
        /\ looking' = looking \cup {k.key : k \in DueKeys(now)}
        /\ asked' = asked \cup {i.relay : i \in {j \in held : RetryKeyOf(j) \in DueKeys(now)}}
     \/ /\ DueKeys(now) = {} /\ ExpiredPrefix(now) # {}
        /\ UNCHANGED <<held, retries, total, next_seq, now, looking, asked>>
  /\ UNCHANGED <<pending, proc, keysOnFile, settling, tasks, onFile, indexed, current,
                 shown, dropped>>

SweepExpires ==
  /\ sweep.pc = "expire"
  /\ sweep' = [sweep EXCEPT !.pc = "asleep"]
  /\ \/ Expire(sweep.at)
     \/ ExpiredPrefix(sweep.at) = {} /\ UNCHANGED <<held, retries, total, next_seq, now>>
  /\ dropped' = dropped \cup (InHeld \ {i.relay : i \in held'})
  /\ UNCHANGED <<pending, proc, keysOnFile, looking, settling, tasks, asked, onFile,
                 indexed, current, shown>>

\* Time passes whatever the tasks are at.  The bound on it: an edit about to be
\* held must still see out its minute.
RoomToHold == proc.pc = "hold" => now + HoldLimit < MaxNow
Clock == RoomToHold /\ Tick /\ UNCHANGED relayVars

ReleaseTask(t) == VerifyReleased(t) \/ CheckOvertaken(t) \/ FileReleased(t) \/ ApplyReleased(t)
Processor == HoldRelay \/ Recheck \/ FileLive \/ ApplyLive
Sweep == SweepAsks \/ SweepExpires

RNext ==
  \/ \E e \in Edits : Receive(e)
  \/ Processor
  \/ \E k \in Keys : KeyFiled(k) \/ LookupMissed(k) \/ KeySettled(k)
  \/ \E t \in tasks : ReleaseTask(t)
  \/ Sweep
  \/ Clock

\* Every task that has started is scheduled again, the sweep's timer fires and
\* the clock runs.  That a peer sends, and that a lookup finds a key, is
\* nowhere assumed.
RFairness ==
  /\ WF_allVars(Processor)
  /\ \A k \in Keys : WF_allVars(KeySettled(k))
  /\ WF_allVars(\E t \in tasks : ReleaseTask(t))
  /\ WF_allVars(SweepExpires) /\ WF_allVars(SweepAsks)
  /\ WF_allVars(Clock)

RSpec == RInit /\ [][RNext]_allVars /\ RFairness

-----------------------------------------------------------------------------
InTasks == UNION {Range(t.todo) : t \in tasks}
InProc == IF proc.pc \in {"hold", "file", "apply"} THEN {proc.edit} ELSE {}

\* Every variable has its type.
RTypeOK ==
  /\ TypeOK
  /\ pending \subseteq Edits /\ onFile \subseteq Edits /\ dropped \subseteq Edits
  /\ asked \subseteq Edits
  /\ proc \in [pc: {"idle", "hold", "recheck", "file", "apply"}, edit: Edits \cup {None}]
  /\ keysOnFile \subseteq Keys /\ looking \subseteq Keys /\ settling \subseteq Keys
  /\ \A t \in tasks : /\ t.todo \in Seq(Edits) \ {<< >>}
                      /\ t.pc \in {"verify", "check", "file", "apply"}
                      /\ t.overtaken \in BOOLEAN
  /\ sweep \in [pc: {"asleep", "expire"}, at: Nat]
  /\ indexed \in Edits \cup {None} /\ current \in Edits \cup {None}
  /\ shown \in Seq(Edits)

\* No lost wakeup (hold_relay): an edit never sits in the queue with its key
\* already on file unless a release for that key is still to run.  The key can
\* land between the check that missed it and the hold; the second look at the
\* store is what covers that.
NoLostWakeup ==
  \A i \in held : i.key \in keysOnFile =>
    \/ i.key \in settling
    \/ proc.pc = "recheck" /\ EditKey[proc.edit] = i.key

\* No edit is in two hands at once, given up and filed, or shown twice:
\* concurrent releases of one key, the sweep and an eviction share out the
\* held edits, and none of them takes what another took.
NeverTwice ==
  /\ \A e \in Edits : Cardinality({p \in 1 .. 5 :
        e \in <<pending, InProc, InHeld, InTasks, dropped>>[p]}) <= 1
  /\ \A t, u \in tasks : t # u => Range(t.todo) \cap Range(u.todo) = {}
  /\ dropped \cap onFile = {}
  /\ IsInjective(shown)

\* An edit this server could not check is not applied (held_relay.rs): what is
\* filed carries a signature that verified, with its key on file.
OnlyCheckedEditsFiled ==
  \A e \in onFile : e \notin Forged /\ EditKey[e] \in keysOnFile

\* An edit dropped for its age had its key asked for again while that edit
\* waited: the first two retries fall within a minute of what set them, and the
\* sweep asks before it expires (spawn_held_relay_sweep).  The one exception
\* joined a key that had already been asked for twice in vain, whose next retry
\* is further off than the edit's minute.
AskedBeforeGivenUp ==
  [][SweepExpires => \A i \in held \ held' : i.key \notin UnnamedKeys =>
       i.relay \in asked \/ retries[RetryKeyOf(i)].attempts >= 2]_allVars

\* Every edit a peer relayed is settled: filed or given up, never left in the
\* queue or in a task for ever.
EveryEditSettles ==
  \A e \in Edits : (e \notin pending) ~> (e \in onFile \cup dropped)

\* A released edit that finds a later revision on file when it asks is never
\* shown and never becomes the text, whatever the processor and the other
\* releases file and show meanwhile (edit_overtaken: it "must not become the
\* current text or be shown as news").  One filed after it asked does not count.
OvertakenStaysBehind ==
  \A e \in Edits :
    []((\E t \in tasks, f \in onFile : t.pc = "check" /\ Head(t.todo) = e /\ f > e)
         => [](e # current /\ e \notin Range(shown)))
=============================================================================
