----------------------------- MODULE HeldQueue -----------------------------
(***************************************************************************)
(* The queue of relayed edits and mutations that wait for the key which    *)
(* would check them (held_relay.rs).  An item waits for one key, for at    *)
(* most HoldLimit, under two ceilings: a share per origin and a total.     *)
(*                                                                         *)
(* The code keeps one VecDeque per origin, filled in hold order; here the  *)
(* items are one set, and the order of a deque is the order of "seq".      *)
(* Every method runs under the queue's mutex, so it is one action.         *)
(***************************************************************************)
EXTENDS Naturals, FiniteSets

CONSTANTS
  Origins,            \* peers that relay edits and mutations
  Keys,               \* a (signer, kid) pair
  UnnamedKeys,        \* the pairs whose signer or kid is the empty string
  Relays,             \* the relayed message, kept whole and never looked at
  ActDeferMaxPerOrigin, ActDeferMaxTotal,  \* the configured ceilings
  HoldLimit,          \* HOLD_LIMIT
  FirstRetry,         \* FIRST_RETRY
  MaxRetry,           \* MAX_RETRY
  MaxSeq,             \* bound: how many items are ever held
  MaxNow              \* bound: how far the clock runs

ASSUME HeldQueueAssumption ==
  /\ UnnamedKeys \subseteq Keys
  /\ ActDeferMaxPerOrigin \in Nat /\ ActDeferMaxTotal \in Nat
  /\ HoldLimit \in Nat /\ FirstRetry \in Nat /\ MaxRetry \in Nat
  /\ MaxSeq \in Nat /\ MaxNow \in Nat

VARIABLES
  held,       \* by_origin: the items, in the order of their seq
  retries,    \* per (origin, key) with items waiting: when to ask again
  total,      \* the count the total ceiling is enforced with
  next_seq,   \* the hold order across every origin
  now         \* the monotonic clock

queueVars == <<held, retries, total, next_seq>>
vars == <<held, retries, total, next_seq, now>>

\* A ceiling of zero is raised to one (HeldQueue::new).
AtLeastOne(n) == IF n = 0 THEN 1 ELSE n
MaxPerOrigin == AtLeastOne(ActDeferMaxPerOrigin)
MaxTotal == AtLeastOne(ActDeferMaxTotal)

HeldRelay == [relay: Relays, origin: Origins, key: Keys, held_at: Nat, seq: Nat]
RetryKey == [origin: Origins, key: Keys]
KeyRetry == [waiting: Nat, attempts: Nat, next_attempt: Nat]

OfOrigin(S, o) == {i \in S : i.origin = o}
RetryKeyOf(i) == [origin |-> i.origin, key |-> i.key]
WaitingFor(S, k) == {i \in S : RetryKeyOf(i) = k}
Oldest(S) == {i \in S : \A j \in S : i.seq <= j.seq}

\* FIRST_RETRY doubled per unanswered ask, five doublings and MAX_RETRY at most.
RetryBackoffSteep(attempts) ==
  LET grown == FirstRetry * <<1, 4, 16, 64, 256, 1024>>[IF attempts < 5 THEN attempts + 1 ELSE 6]
  IN  IF grown < MaxRetry THEN grown ELSE MaxRetry
RetryBackoff(attempts) ==
  LET doubled == FirstRetry * <<1, 2, 4, 8, 16, 32>>[IF attempts < 5 THEN attempts + 1 ELSE 6]
  IN  IF doubled < MaxRetry THEN doubled ELSE MaxRetry

\* Account for items that left without being released: a key nothing waits for
\* any more is not asked for again.
ForgetRetriesKeepZero(R, gone) ==
  [k \in DOMAIN R |-> [R[k] EXCEPT !.waiting = @ - Cardinality(WaitingFor(gone, k))]]
ForgetRetriesTwice(R, gone) ==
  [k \in DOMAIN R |-> [R[k] EXCEPT !.waiting = @ - 2 * Cardinality(WaitingFor(gone, k))]]
ForgetRetries(R, gone) ==
  LET left(k) == R[k].waiting - Cardinality(WaitingFor(gone, k))
  IN  [k \in {k \in DOMAIN R : left(k) # 0} |-> [R[k] EXCEPT !.waiting = left(k)]]

Init ==
  /\ held = {} /\ retries = << >> /\ total = 0 /\ next_seq = 0 /\ now = 0

(***************************************************************************)
(* Hold one item, then make room.  The queue was inside both ceilings      *)
(* before the push (WithinCeilings), so each of the two loops that make    *)
(* room runs its body at most once: first for this origin's share, then    *)
(* for the total, which costs the oldest item of any origin.               *)
(***************************************************************************)
Pushed(r, o, k) ==
  held \cup {[relay |-> r, origin |-> o, key |-> k, held_at |-> now, seq |-> next_seq]}

ShareDropLate(S, o) ==
  IF Cardinality(OfOrigin(S, o)) > MaxPerOrigin + 1 THEN Oldest(OfOrigin(S, o)) ELSE {}
ShareDrop(S, o) ==
  IF Cardinality(OfOrigin(S, o)) > MaxPerOrigin THEN Oldest(OfOrigin(S, o)) ELSE {}

TotalDropEarly(S, count) ==
  IF count >= MaxTotal THEN Oldest(S) ELSE {}
TotalDrop(S, count) ==
  IF count > MaxTotal THEN Oldest(S) ELSE {}

RetriesWith(k) ==
  [q \in DOMAIN retries \cup {k} |->
     IF q # k THEN retries[q]
     ELSE IF k \in DOMAIN retries THEN [retries[k] EXCEPT !.waiting = @ + 1]
     ELSE [waiting |-> 1, attempts |-> 0, next_attempt |-> now + FirstRetry]]

Hold(r, o, k) ==
  LET pushed  == Pushed(r, o, k)
      share   == ShareDrop(pushed, o)
      over    == TotalDrop(pushed \ share, total + 1 - Cardinality(share))
      dropped == share \cup over
  IN  /\ next_seq < MaxSeq
      /\ now + HoldLimit <= MaxNow
      /\ next_seq' = next_seq + 1
      /\ held' = pushed \ dropped
      /\ total' = total + 1 - Cardinality(dropped)
      /\ retries' = ForgetRetries(RetriesWith([origin |-> o, key |-> k]), dropped)
      /\ UNCHANGED now

\* Everything this key could settle leaves, and the key is asked for no more.
ForKey(S, k) == {i \in S : i.key = k}
TakeForSigner(k) ==
  /\ ForKey(held, k) # {}
  /\ held' = held \ ForKey(held, k)
  /\ total' = total - Cardinality(ForKey(held, k))
  /\ retries' = [q \in {q \in DOMAIN retries : q.key # k} |-> retries[q]]
  /\ UNCHANGED <<next_seq, now>>

\* Each deque gives up its expired prefix: an item goes only when everything
\* ahead of it in its own deque has waited long enough too.
ExpiredStrictly(i, t) == t > i.held_at + HoldLimit
Expired(i, t) == t >= i.held_at + HoldLimit
ExpiredPrefix(t) ==
  {i \in held : \A j \in OfOrigin(held, i.origin) : j.seq <= i.seq => Expired(j, t)}
Expire(t) ==
  LET gone == ExpiredPrefix(t)
  IN  /\ gone # {}
      /\ held' = held \ gone
      /\ total' = total - Cardinality(gone)
      /\ retries' = ForgetRetries(retries, gone)
      /\ UNCHANGED <<next_seq, now>>

\* The keys it is time to ask for again, each put back on its own backoff.
DueKeys(t) == {k \in DOMAIN retries : k.key \notin UnnamedKeys /\ retries[k].next_attempt <= t}
RetriesDue(t) ==
  /\ DueKeys(t) # {}
  /\ retries' = [k \in DOMAIN retries |->
                   IF k \in DueKeys(t)
                   THEN [waiting |-> retries[k].waiting,
                         attempts |-> retries[k].attempts + 1,
                         next_attempt |-> t + RetryBackoff(retries[k].attempts + 1)]
                   ELSE retries[k]]
  /\ UNCHANGED <<held, total, next_seq, now>>

Tick ==
  /\ now < MaxNow
  /\ now' = now + 1
  /\ UNCHANGED queueVars

Next ==
  \/ \E r \in Relays, o \in Origins, k \in Keys : Hold(r, o, k)
  \/ \E k \in Keys : TakeForSigner(k)
  \/ Expire(now)
  \/ RetriesDue(now)
  \/ Tick

\* The sweep (spawn_held_relay_sweep) runs on an interval for as long as the
\* server does, and the clock runs.
Fairness == WF_vars(Tick) /\ WF_vars(Expire(now))
Spec == Init /\ [][Next]_vars /\ Fairness

-----------------------------------------------------------------------------
\* Every variable has its type; in particular no counter goes below zero (the
\* code's are unsigned: "waiting -= 1" and "total -= 1" would wrap or panic).
TypeOK ==
  /\ held \in SUBSET HeldRelay /\ IsFiniteSet(held)
  /\ DOMAIN retries \subseteq RetryKey
  /\ \A k \in DOMAIN retries : retries[k] \in KeyRetry
  /\ total \in Nat /\ next_seq \in Nat /\ now \in Nat

\* The three records of what waits agree, however items left: "total" counts
\* the items held (hold, forget and take_for_signer keep it by hand), and the
\* retry table lists exactly the (origin, key) pairs with something waiting,
\* each with how many.  A pair left behind would be asked for for ever.
Accounting ==
  /\ total = Cardinality(held)
  /\ DOMAIN retries = {RetryKeyOf(i) : i \in held}
  /\ \A k \in DOMAIN retries : retries[k].waiting = Cardinality(WaitingFor(held, k))

\* No origin holds more than its share and the queue no more than its total,
\* whatever the order of holds, releases and expiries (HeldQueue::hold).
WithinCeilings ==
  /\ \A o \in Origins : Cardinality(OfOrigin(held, o)) <= MaxPerOrigin
  /\ Cardinality(held) <= MaxTotal

\* Expiring only the prefix of each deque is enough ("the expired ones are a
\* prefix", HeldQueue::expire): seq order is age order within an origin, so
\* nothing overdue is left hidden behind a younger item.
ExpiryLeavesNoneOverdue ==
  [][Expire(now) => \A i \in held' : ~ (now >= i.held_at + HoldLimit)]_vars

\* Making room costs the oldest item only, and another origin's item only when
\* the whole queue is full: one noisy peer does not push out a quiet one's
\* items before that (HeldQueue::hold, "making room always costs the oldest").
EvictsOnlyTheOldest ==
  [][\A r \in Relays, o \in Origins, k \in Keys : Hold(r, o, k) =>
       \A i \in held \ held' :
          /\ \A j \in held' : j.origin = i.origin => i.seq < j.seq
          /\ i.origin # o => total = MaxTotal /\ \A j \in held' : i.seq < j.seq]_vars

\* Every item held leaves: released by its key, evicted or expired; none waits
\* for ever behind a key that never comes (HOLD_LIMIT and the sweep).
EveryItemLeaves ==
  \A n \in 0 .. MaxSeq - 1 :
    (\E i \in held : i.seq = n) ~> ~ (\E i \in held : i.seq = n)
=============================================================================
