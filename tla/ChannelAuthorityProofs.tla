----------------------- MODULE ChannelAuthorityProofs -----------------------
(***************************************************************************)
(* Theorems about who may run a channel, for any accounts and orders and   *)
(* any number of lost links, restarts and compactions.                     *)
(*                                                                         *)
(* The invariant has a part for each thing that carries an operator to the *)
(* other server: the document (what its changes hold and build on), its    *)
(* sync (what either replica may still lack), and the events and snapshots *)
(* on the link (what those under way still have to tell).                  *)
(***************************************************************************)
EXTENDS ChannelAuthority, QueueLemmas, FiniteSetTheorems

-----------------------------------------------------------------------------
(***************************************************************************)
(* The invariant.                                                          *)
(***************************************************************************)
Accounts == Dids \cup {Nobody}
Chores == {"found", "grant", "revoke"} \X Dids \X Dids
Known == {ch \in Channels : ~ ch.known => ch = NoChannel}
IsEvent(ev) ==
  /\ ev.kind = "mode" => ev.by \in Dids /\ ev.did \in Dids /\ ev.ch = NoChannel
  /\ ev.kind = "request" => ev.ch = NoChannel
  /\ ev.kind = "created" => ev.ch.known
Events ==
  {ev \in [kind : {"created", "mode", "request", "response"}, by : Accounts,
           did : Accounts, add : BOOLEAN, ch : Known] : IsEvent(ev)}
IsPending(q, W) ==
  q = << >> \/ (q = <<q[1]>> /\ q[1] \in [changes : SUBSET W, heads : SUBSET W])
IsSaved(q, W) == q = << >> \/ (q = <<q[1]>> /\ q[1] \in SUBSET W)

Changes(D) == IsFiniteSet(D) /\ \A c \in D : IsChange(c)

\* The type invariant, with the types it leaves out.
Shape ==
  /\ chan \in [Servers -> Known] /\ db \in [Servers -> Known]
  /\ Changes(written)
  /\ doc \in [Servers -> SUBSET written] /\ sent \in [Servers -> SUBSET written]
  /\ told \in [Servers -> BOOLEAN]
  /\ chores \in [Servers -> SUBSET Chores]
  /\ inbox \in [Servers -> Seq(Events)]
  /\ DOMAIN syncs = Servers /\ \A s \in Servers : IsPending(syncs[s], written)
  /\ DOMAIN saved = Servers /\ \A s \in Servers : IsSaved(saved[s], written)
  /\ clearing \subseteq Servers /\ \A s \in clearing : saved[s] = << >>
  /\ modes \in 0 .. Len(Orders) /\ faults \in 0 .. MaxFaults

\* What a change builds on was written, and with it all that builds on.
Grounded(W) == \A c \in W : \A id \in c.deps : \E e \in W : Id(e) = id
Closed(W) == \A c, e \in W : Id(e) \in c.deps => e.deps \subseteq c.deps
Twice(W) ==
  \E c, e \in W : c # e /\ c.actor = e.actor /\ (c.seq = e.seq \/ c.ctr = e.ctr)
History(W) == Grounded(W) /\ (~ Twice(W) => Closed(W))

\* The last sync message of a replica that has not changed since names what
\* the replica holds.
HeadsTrue ==
  \A s \in Servers : told[Other(s)] /\ syncs[s] # << >> =>
      syncs[s][1].heads = Ready(doc[Other(s)])

\* A server that has taken in such a message of its peer has sent all that the
\* peer lacks.
HasSent(s) ==
  told[s] /\ told[Other(s)] /\ Other(s) \notin unheard /\ syncs[s] = << >> =>
      Ready(doc[s]) \subseteq sent[s] \cup doc[Other(s)]
NothingOwed == ~ Forked => \A s \in Servers : HasSent(s)

\* The accounts an event makes operators, where it is accepted.
Names(ev) == ev.ch.ops \cup (IF ev.kind = "mode" THEN {ev.did} ELSE {})
Waiting(s) == Items(inbox[s])
Asked(s) == \E ev \in Waiting(s) : ev.kind = "request"

\* What is on the link tells only what its sender knows.
Fits(s, ev) ==
  /\ ev.kind = "mode" /\ ~ ev.add => ev.did \in revoked
  /\ ev.ch.known => chan[Other(s)].known
  /\ Names(ev) \subseteq chan[Other(s)].ops \cup revoked
Truthful ==
  \A s \in Servers : (db[s].known => chan[s].known) /\ \A ev \in Waiting(s) : Fits(s, ev)

\* A channel one server knows the other knows, or will hear of.
KnownSpreads ==
  /\ \A s \in Servers : chan[s].known =>
        chan[Other(s)].known \/ Asked(s) \/ \E ev \in Waiting(Other(s)) : ev.ch.known
  /\ \/ \E s \in Servers : db[s].known
     \/ written = {} /\ \A s \in Servers : chores[s] = {} /\ ~ chan[s].known

\* Only an order that unmade an account deletes its key.
Deletions ==
  /\ \A s \in Servers : \A chore \in chores[s] : chore[1] = "revoke" => chore[2] \in revoked
  /\ \A c \in written : c.val = Nobody => \E d \in revoked : c.key = OpKey(d)

\* Who was made operator, and was never unmade nor turned away.
Made == (created \cup granted) \ (revoked \cup denied)

\* Such an operator of one server is one of the other, or will be named in a
\* snapshot, or is in the document or about to be.
Carried(s, d) ==
  \/ d \in chan[Other(s)].ops
  \/ Asked(s)
  \/ \E ev \in Waiting(Other(s)) : d \in ev.ch.ops
  \/ lost
  \/ \E chore \in chores[s] : chore[1] # "revoke" /\ chore[2] = d
  \/ \E c \in Ready(doc[s]) : c.key = OpKey(d)
AllCarried == \A s \in Servers : \A d \in chan[s].ops \cap Made : Carried(s, d)
\* Who was made operator is one in memory and on disk, somewhere.
MadeListed ==
  \A d \in (created \cup granted) \ revoked :
      \E s \in Servers : d \in chan[s].ops /\ d \in db[s].ops
OpsCarried == AllCarried /\ MadeListed

SyncInv == HeadsTrue /\ NothingOwed
EventInv == Truthful /\ KnownSpreads

-----------------------------------------------------------------------------
(***************************************************************************)
(* The document.                                                           *)
(***************************************************************************)
\* There are exactly two servers, so "the other one" is well defined.
LEMMA OtherServer ==
  ASSUME NEW s \in Servers
  PROVE  /\ Other(s) \in Servers /\ Other(s) # s /\ Other(Other(s)) = s
         /\ \A x \in Servers : x = s \/ x = Other(s)
<1>1. PICK o \in Servers : Servers = {s, o} /\ s # o
  BY ServersAssumption
<1>2. Other(s) = o
  BY <1>1 DEF Other
<1>3. Other(o) = s
  BY <1>1 DEF Other
<1> QED BY <1>1, <1>2, <1>3

\* Of finitely many numbers one is the largest: a set of them with fewest
\* numbers above it, taken for each of its elements.
LEMMA LargestExists ==
  ASSUME NEW S \in SUBSET Nat, IsFiniteSet(S), S # {}
  PROVE  Max(S) \in S /\ \A y \in S : Max(S) >= y
<1> DEFINE above(i) == {j \in S : j > i}
           T == {above(i) : i \in S}
<1>1. IsWellFoundedOn(StrictSubsetOrdering(S), FiniteSubsetsOf(S))
  BY FS_StrictSubsetOrderingWellFounded
<1>2. T \subseteq FiniteSubsetsOf(S)
  <2>1. \A i \in S : above(i) \in SUBSET S
    OBVIOUS
  <2>2. \A i \in S : IsFiniteSet(above(i))
    BY <2>1, FS_Subset
  <2> QED BY <2>1, <2>2 DEF FiniteSubsetsOf
<1>3. T # {}
  OBVIOUS
<1>4. PICK x \in T : \A y \in T : ~ (<<y, x>> \in StrictSubsetOrdering(S))
  <2> HIDE DEF T
  <2> QED BY <1>1, <1>2, <1>3, WFMin
<1>5. PICK i \in S : x = above(i)
  BY <1>4
<1>6. ASSUME NEW j \in S, ~ (i >= j)
      PROVE  FALSE
  <2>1. j > i
    BY <1>6
  <2>2. above(j) \subseteq above(i) /\ j \in above(i) /\ j \notin above(j)
    <3>1. i \in Nat /\ j \in Nat /\ \A n \in S : n \in Nat
      OBVIOUS
    <3>2. \A n \in S : n > j => n > i
      BY <2>1, <3>1
    <3>3. ~ (j > j)
      BY <3>1
    <3> QED BY <2>1, <3>2, <3>3
  <2>3. above(j) \in T
    OBVIOUS
  <2>4. <<above(j), above(i)>> \in StrictSubsetOrdering(S)
    BY <2>2 DEF StrictSubsetOrdering
  <2> QED BY <1>4, <1>5, <2>3, <2>4
<1>7. \E m \in S : \A y \in S : m >= y
  BY <1>6
<1> QED BY <1>7 DEF Max

\* What is ready stays ready as a replica grows.
LEMMA ReadyGrows ==
  ASSUME NEW D, NEW E, D \subseteq E
  PROVE  Ready(D) \subseteq D /\ Ready(D) \subseteq Ready(E)
BY DEF Ready

IsKey(k) == k = FounderKey \/ \E d \in Dids : k = OpKey(d)

\* The change a write adds, and what is to be known of it.
Change(D, s, k, v, by) ==
  [key |-> k, val |-> v, by |-> by, actor |-> s, ctr |-> NextCtr(Ready(D)),
   seq |-> NextSeq(Ready(D), s), deps |-> {Id(c) : c \in Ready(D)}]
IsWrite(D, k, v, n) ==
  /\ IsChange(n) /\ n.key = k /\ n.val = v /\ n.deps = {Id(e) : e \in Ready(D)}
  /\ n \in Ready(D \cup {n})

\* A write is a change numbered after all that its writer has, and ready there.
LEMMA PutAdds ==
  ASSUME NEW D, Changes(D), NEW s \in Servers, NEW k, IsKey(k),
         NEW v \in Accounts, NEW by \in Accounts
  PROVE  /\ Put(D, s, k, v, by) = D \cup {Change(D, s, k, v, by)}
         /\ IsWrite(D, k, v, Change(D, s, k, v, by))
<1> USE DEF Changes
<1> DEFINE R == Ready(D)
           ctrs == {0} \cup {c.ctr : c \in R}
           n == Change(D, s, k, v, by)
<1>1. R \subseteq D /\ IsFiniteSet(R)
  BY FS_Subset, ReadyGrows
<1>2. NextCtr(R) \in Nat \ {0} /\ \A c \in R : c.ctr < NextCtr(R)
  <2>1. IsFiniteSet({c.ctr : c \in R})
    <3> DEFINE im == {c.ctr : c \in R}
               f == [c \in R |-> c.ctr]
    <3>1. f \in Surjection(R, im)
      BY DEF Surjection
    <3> HIDE DEF f, im
    <3>2. IsFiniteSet(im)
      BY <1>1, <3>1, FS_Surjection
    <3> QED BY <3>2 DEF im
  <2>2. IsFiniteSet(ctrs)
    <3> DEFINE im == {c.ctr : c \in R}
    <3>1. IsFiniteSet(im \cup {0})
      <4> HIDE DEF im
      <4> QED BY <2>1, FS_AddElement DEF im
    <3>2. im \cup {0} = ctrs
      OBVIOUS
    <3> QED BY <3>1, <3>2
  <2>3. ctrs \in SUBSET Nat
    BY <1>1 DEF IsChange
  <2>4. Max(ctrs) \in ctrs /\ \A y \in ctrs : Max(ctrs) >= y
    <3> HIDE DEF ctrs
    <3>1. 0 \in ctrs
      BY DEF ctrs
    <3> QED BY <2>2, <2>3, <3>1, LargestExists
  <2>5. NextCtr(R) = 1 + Max(ctrs)
    BY DEF NextCtr
  <2>6. \A c \in R : c.ctr \in ctrs
    OBVIOUS
  <2>7. Max(ctrs) \in Nat /\ \A c \in R : c.ctr \in Nat /\ Max(ctrs) >= c.ctr
    <3> HIDE DEF ctrs, R
    <3> QED BY <2>3, <2>4, <2>6
  <2> HIDE DEF ctrs, R
  <2> QED BY <2>5, <2>7
<1>3. NextSeq(R, s) \in Nat \ {0}
  <2> DEFINE own == {c \in R : c.actor = s}
  <2>1. IsFiniteSet(own)
    BY <1>1, FS_Subset
  <2>2. Cardinality(own) \in Nat
    <3> HIDE DEF own
    <3> QED BY <2>1, FS_CardinalityType
  <2> QED BY <2>2 DEF NextSeq
<1>4. Put(D, s, k, v, by) = D \cup {n}
  BY DEF Put, Change
<1>5. n.key = k /\ n.val = v /\ n.by = by /\ n.actor = s /\ n.ctr = NextCtr(R)
      /\ n.seq = NextSeq(R, s) /\ n.deps = {Id(c) : c \in R}
  BY DEF Change
<1> HIDE DEF n
<1>6. \A id \in n.deps : id[1] < n.ctr
  BY <1>2, <1>5 DEF Id
<1>7. IsChange(n)
  BY <1>2, <1>3, <1>5, <1>6 DEF IsChange, IsKey, Accounts
<1>8. n \in Ready(D \cup {n})
  BY <1>1, <1>5 DEF Ready
<1> QED BY <1>4, <1>5, <1>7, <1>8 DEF IsWrite, n

\* A replica D of the changes W has become E, and all is still in order.
Extended(W, D, E) ==
  D \subseteq E /\ Changes(W \cup E) /\ History(W \cup E)

LEMMA Unextended ==
  ASSUME NEW W, Changes(W), History(W), NEW D, D \subseteq W
  PROVE  Extended(W, D, D)
<1>1. W \cup D = W
  OBVIOUS
<1> QED BY <1>1 DEF Extended

LEMMA ExtendedTwice ==
  ASSUME NEW W, NEW D, NEW E, NEW F, Extended(W, D, E), Extended(W \cup E, E, F)
  PROVE  Extended(W, D, F)
<1>1. (W \cup E) \cup F = W \cup F
  BY DEF Extended
<1> QED BY <1>1 DEF Extended

\* What a replica has ready, it has with all that it builds on ready.
LEMMA ReadyClosed ==
  ASSUME NEW W, Closed(W), NEW D, D \subseteq W, NEW c \in Ready(D), NEW id \in c.deps
  PROVE  \E e \in Ready(D) : Id(e) = id
<1>1. c \in D /\ c.deps \subseteq {Id(e) : e \in D}
  BY DEF Ready
<1>2. PICK e \in D : Id(e) = id
  BY <1>1
<1>3. e.deps \subseteq c.deps
  BY <1>1, <1>2 DEF Closed
<1>4. e \in Ready(D)
  BY <1>1, <1>3 DEF Ready
<1> QED BY <1>2, <1>4

\* A write builds on changes that were written, and on all they build on.
LEMMA PutExtends ==
  ASSUME NEW W, Changes(W), History(W), NEW D, D \subseteq W,
         NEW s \in Servers, NEW k, IsKey(k), NEW v \in Accounts, NEW by \in Accounts
  PROVE  LET n == Change(D, s, k, v, by)
         IN Put(D, s, k, v, by) = D \cup {n} /\ Extended(W, D, D \cup {n}) /\ IsWrite(D, k, v, n)
<1> DEFINE n == Change(D, s, k, v, by)
           V == W \cup {n}
<1>1. Changes(D)
  BY FS_Subset DEF Changes
<1>0. Put(D, s, k, v, by) = D \cup {n} /\ IsWrite(D, k, v, n)
  BY <1>1, PutAdds
<1> HIDE DEF n
<1>2. IsChange(n) /\ n.deps = {Id(e) : e \in Ready(D)}
  BY <1>0 DEF IsWrite
<1>3. W \cup (D \cup {n}) = V
  OBVIOUS
<1>4. IsFiniteSet(V)
  <2>1. IsFiniteSet(W \cup {n})
    BY FS_AddElement DEF Changes
  <2> QED BY <2>1
<1>5. Ready(D) \subseteq W
  BY ReadyGrows
<1>6. Grounded(V)
  <2>1. \A id \in n.deps : \E e \in W : Id(e) = id
    BY <1>2, <1>5
  <2> QED BY <2>1 DEF Grounded, History
<1>7. ASSUME ~ Twice(V), NEW c \in V, NEW e \in V, Id(e) \in c.deps
      PROVE  e.deps \subseteq c.deps
  <2>1. \A x, y \in V : Id(x) = Id(y) => x = y
    BY <1>7 DEF Twice, Id
  <2>2. ~ Twice(W)
    BY <1>7 DEF Twice
  <2>3. Closed(W) /\ Grounded(W)
    BY <2>2 DEF History
  <2>4. CASE c \in W
    <3>1. PICK x \in W : Id(x) = Id(e)
      BY <1>7, <2>3, <2>4 DEF Grounded
    <3>2. x = e
      BY <2>1, <3>1
    <3> QED BY <1>7, <2>3, <2>4, <3>1, <3>2 DEF Closed
  <2>5. CASE c = n
    <3>1. PICK r \in Ready(D) : Id(r) = Id(e)
      BY <1>2, <1>7, <2>5
    <3>2. r = e
      BY <1>5, <2>1, <3>1
    <3>3. \A id \in r.deps : \E x \in Ready(D) : Id(x) = id
      BY <2>3, ReadyClosed
    <3> QED BY <1>2, <2>5, <3>2, <3>3
  <2> QED BY <2>4, <2>5
<1>8. History(V)
  BY <1>6, <1>7 DEF History, Closed
<1>9. Extended(W, D, D \cup {n})
  BY <1>2, <1>3, <1>4, <1>8 DEF Extended, Changes
<1> QED BY <1>0, <1>9 DEF n

\* The new changes are about one account, and delete nothing.
Plain(D, E, d) == \A c \in E \ D : c.val = d /\ \A x \in Dids : c.key = OpKey(x) => x = d
Listed(D, d) == \E c \in Ready(D) : c.key = OpKey(d)

LEMMA KeysDiffer ==
  ASSUME NEW d, NEW x
  PROVE  /\ FounderKey # OpKey(d) /\ (OpKey(d) = OpKey(x) => d = x)
BY DEF FounderKey, OpKey

LEMMA SetFounderExtends ==
  ASSUME NEW W, Changes(W), History(W), NEW D, D \subseteq W,
         NEW s \in Servers, NEW d \in Dids
  PROVE  LET E == SetFounder(D, s, d) IN Extended(W, D, E) /\ Plain(D, E, d)
<1> DEFINE E == SetFounder(D, s, d)
<1>1. CASE E = D
  BY <1>1, Unextended DEF Plain
<1>2. CASE E = Put(D, s, FounderKey, d, Nobody)
  <2>1. IsKey(FounderKey) /\ d \in Accounts /\ Nobody \in Accounts
    BY DEF IsKey, Accounts
  <2> DEFINE n == Change(D, s, FounderKey, d, Nobody)
  <2>2. Put(D, s, FounderKey, d, Nobody) = D \cup {n} /\ Extended(W, D, D \cup {n}) /\ IsWrite(D, FounderKey, d, n)
    BY <2>1, PutExtends
  <2> HIDE DEF n
  <2> HIDE DEF E
  <2>3. Plain(D, E, d)
    BY <1>2, <2>2, KeysDiffer DEF Plain, IsWrite
  <2> QED BY <1>2, <2>2, <2>3 DEF E
<1> QED BY <1>1, <1>2 DEF SetFounder

LEMMA GrantExtends ==
  ASSUME NEW W, Changes(W), History(W), NEW D, D \subseteq W,
         NEW s \in Servers, NEW d \in Dids, NEW by \in Accounts
  PROVE  LET E == GrantOp(D, s, d, by)
         IN Extended(W, D, E) /\ Plain(D, E, d) /\ Listed(E, d)
<1> DEFINE E == GrantOp(D, s, d, by)
<1>1. CASE E = D /\ Values(D, OpKey(d)) # {}
  <2>1. Listed(E, d)
    BY <1>1 DEF Values, Listed
  <2> HIDE DEF E
  <2> QED BY <1>1, <2>1, Unextended DEF Plain, E
<1>2. CASE E = Put(D, s, OpKey(d), d, by)
  <2>1. IsKey(OpKey(d)) /\ d \in Accounts
    BY DEF IsKey, Accounts
  <2> DEFINE n == Change(D, s, OpKey(d), d, by)
  <2>2. Put(D, s, OpKey(d), d, by) = D \cup {n} /\ Extended(W, D, D \cup {n}) /\ IsWrite(D, OpKey(d), d, n)
    BY <2>1, PutExtends
  <2> HIDE DEF n
  <2> HIDE DEF E
  <2>3. Plain(D, E, d)
    BY <1>2, <2>2, KeysDiffer DEF Plain, IsWrite
  <2>4. Listed(E, d)
    BY <1>2, <2>2 DEF Listed, IsWrite
  <2> QED BY <1>2, <2>2, <2>3, <2>4 DEF E
<1> QED BY <1>1, <1>2 DEF GrantOp

LEMMA RevokeExtends ==
  ASSUME NEW W, Changes(W), History(W), NEW D, D \subseteq W,
         NEW s \in Servers, NEW d \in Dids
  PROVE  LET E == RevokeOp(D, s, d)
         IN Extended(W, D, E) /\ \A c \in E \ D : c.val = Nobody /\ c.key = OpKey(d)
<1> DEFINE E == RevokeOp(D, s, d)
<1>1. CASE E = D
  BY <1>1, Unextended
<1>2. CASE E = Put(D, s, OpKey(d), Nobody, Nobody)
  <2>1. IsKey(OpKey(d)) /\ Nobody \in Accounts
    BY DEF IsKey, Accounts
  <2> DEFINE n == Change(D, s, OpKey(d), Nobody, Nobody)
  <2>2. Put(D, s, OpKey(d), Nobody, Nobody) = D \cup {n} /\ Extended(W, D, D \cup {n}) /\ IsWrite(D, OpKey(d), Nobody, n)
    BY <2>1, PutExtends
  <2> HIDE DEF n
  <2> HIDE DEF E
  <2> QED BY <1>2, <2>2 DEF E, IsWrite
<1> QED BY <1>1, <1>2 DEF RevokeOp

\* The writes of a creation: the founder, and its key as an operator.
LEMMA FoundExtends ==
  ASSUME NEW W, Changes(W), History(W), NEW D, D \subseteq W,
         NEW s \in Servers, NEW d \in Dids, NEW by \in Accounts
  PROVE  LET E == GrantOp(SetFounder(D, s, d), s, d, by)
         IN Extended(W, D, E) /\ Plain(D, E, d) /\ Listed(E, d)
<1> DEFINE F == SetFounder(D, s, d)
           V == W \cup F
           E == GrantOp(F, s, d, by)
<1>1. Extended(W, D, F) /\ Plain(D, F, d)
  BY SetFounderExtends
<1>2. Changes(V) /\ History(V) /\ F \subseteq V
  BY <1>1 DEF Extended
<1>3. Extended(V, F, E) /\ Plain(F, E, d) /\ Listed(E, d)
  <2> HIDE DEF F, V
  <2> QED BY <1>2, GrantExtends
<1>4. Extended(W, D, E)
  <2> HIDE DEF E, F
  <2> QED BY <1>1, <1>3, ExtendedTwice
<1>5. Plain(D, E, d)
  BY <1>1, <1>3 DEF Plain
<1> QED BY <1>3, <1>4, <1>5

-----------------------------------------------------------------------------
(***************************************************************************)
(* Types, and the history of the document.                                 *)
(***************************************************************************)
DocInv == Shape /\ History(written)

LEMMA PendingGrows ==
  ASSUME NEW q, NEW W, NEW V, W \subseteq V
  PROVE  (IsPending(q, W) => IsPending(q, V)) /\ (IsSaved(q, W) => IsSaved(q, V))
BY DEF IsPending, IsSaved

\* A message that joins what is on its way: one is, with the new one's heads.
LEMMA AddPending ==
  ASSUME NEW W, NEW q, IsPending(q, W), NEW m \in [changes : SUBSET W, heads : SUBSET W]
  PROVE  IsPending(Add(q, m), W) /\ Add(q, m) # << >> /\ Add(q, m)[1].heads = m.heads
<1> DEFINE both == [changes |-> q[1].changes \cup m.changes, heads |-> m.heads]
<1>1. CASE q = << >>
  <2>1. Add(q, m) = <<m>>
    BY <1>1 DEF Add
  <2>2. <<m>>[1] = m /\ <<m>> # << >>
    OBVIOUS
  <2> QED BY <2>1, <2>2 DEF IsPending
<1>2. CASE q # << >>
  <2>1. Add(q, m) = <<both>>
    BY <1>2 DEF Add
  <2>2. q[1] \in [changes : SUBSET W, heads : SUBSET W]
    BY <1>2 DEF IsPending
  <2>3. both \in [changes : SUBSET W, heads : SUBSET W] /\ both.heads = m.heads
    BY <2>2
  <2> HIDE DEF both
  <2>4. <<both>>[1] = both /\ <<both>> # << >>
    OBVIOUS
  <2> QED BY <2>1, <2>3, <2>4 DEF IsPending
<1> QED BY <1>1, <1>2

SyncShape(sn, tl, sy, W) ==
  /\ sn \in [Servers -> SUBSET W] /\ tl \in [Servers -> BOOLEAN]
  /\ DOMAIN sy = Servers /\ \A x \in Servers : IsPending(sy[x], W)

\* Offering a replica keeps the types of what the sync is about.
LEMMA OfferShape ==
  ASSUME NEW W, SyncShape(sent, told, syncs, W), NEW s \in Servers, NEW D, D \subseteq W, Offer(s, D)
  PROVE  SyncShape(sent', told', syncs', W)
<1> DEFINE m == Message(s, D)
           p == Other(s)
<1>1. CASE UNCHANGED <<syncs, told, sent>>
  BY <1>1 DEF SyncShape
<1>2. CASE ~ UNCHANGED <<syncs, told, sent>>
  <2>1. /\ syncs' = [syncs EXCEPT ![p] = Add(syncs[p], m)]
        /\ told' = [told EXCEPT ![s] = TRUE]
        /\ sent' = [sent EXCEPT ![s] = sent[s] \cup Ready(D)]
    BY <1>2 DEF Offer
  <2>2. p \in Servers
    BY OtherServer
  <2>3. Ready(D) \subseteq W
    BY ReadyGrows
  <2>4. m \in [changes : SUBSET W, heads : SUBSET W]
    BY <2>3 DEF Message
  <2>5. IsPending(Add(syncs[p], m), W)
    <3> HIDE DEF m, p
    <3> QED BY <2>2, <2>4, AddPending DEF SyncShape
  <2> HIDE DEF m, p
  <2>6. DOMAIN syncs' = Servers /\ \A x \in Servers : IsPending(syncs'[x], W)
    BY <2>1, <2>2, <2>5 DEF SyncShape
  <2>7. sent' \in [Servers -> SUBSET W] /\ told' \in [Servers -> BOOLEAN]
    BY <2>1, <2>3 DEF SyncShape
  <2> QED BY <2>6, <2>7 DEF SyncShape
<1> QED BY <1>1, <1>2

\* The document names accounts.
LEMMA DocNames ==
  ASSUME NEW D, \A c \in D : IsChange(c)
  PROVE  DocFounder(D) \subseteq Dids /\ DocOps(D) \subseteq Dids
<1>1. \A c \in Get(D, FounderKey) : c \in D /\ c.val # Nobody
  BY DEF Get, Values, Ready
<1> QED BY <1>1 DEF DocFounder, DocOps, IsChange

LEMMA ReconciledShape ==
  ASSUME NEW D, \A c \in D : IsChange(c), NEW ch \in Channels
  PROVE  /\ Reconciled(ch, D) \in Channels
         /\ Reconciled(ch, D).known = ch.known
         /\ Reconciled(ch, D).ops = IF ch.known THEN ch.ops \cup DocOps(D) ELSE ch.ops
         /\ ch.known /\ DocFounder(D) # {} => Reconciled(ch, D).founder \in DocFounder(D)
         /\ ~ ch.known \/ DocFounder(D) = {} => Reconciled(ch, D).founder = ch.founder
         /\ ~ ch.known => Reconciled(ch, D) = ch
<1> DEFINE f == CHOOSE d \in DocFounder(D) : TRUE
<1>1. DocFounder(D) \subseteq Dids /\ DocOps(D) \subseteq Dids
  BY DocNames
<1>2. DocFounder(D) # {} => f \in DocFounder(D)
  OBVIOUS
<1>3. Reconciled(ch, D) =
        IF ~ ch.known THEN ch
        ELSE [ch EXCEPT !.founder = IF DocFounder(D) = {} THEN ch.founder ELSE f,
                        !.ops = ch.ops \cup DocOps(D)]
  BY DEF Reconciled
<1> HIDE DEF f
<1> QED BY <1>1, <1>2, <1>3 DEF Channels

LEMMA MergedShape ==
  ASSUME NEW s, NEW mine \in Channels, NEW peer \in Channels
  PROVE  /\ Merged(s, mine, peer) \in Channels
         /\ Merged(s, mine, peer).known
         /\ mine.ops \subseteq Merged(s, mine, peer).ops
         /\ Merged(s, mine, peer).ops \subseteq mine.ops \cup peer.ops
         /\ Merged(s, mine, peer).founder \in {mine.founder, peer.founder}
BY DEF Merged, FounderAfter, Channels

LEMMA OpsAfterShape ==
  ASSUME NEW ch \in Channels, NEW d \in Dids, NEW add \in BOOLEAN
  PROVE  LET new == [ch EXCEPT !.ops = OpsAfter(ch, d, add)] IN
         /\ new \in Channels /\ new.known = ch.known /\ new.founder = ch.founder
         /\ add => new.ops = ch.ops \cup {d}
         /\ ch.ops \ {d} \subseteq new.ops
         /\ ~ add => new.ops \subseteq ch.ops
<1>1. OpsAfter(ch, d, add) \in SUBSET Dids
  BY DEF OpsAfter, Channels
<1> DEFINE new == [ch EXCEPT !.ops = OpsAfter(ch, d, add)]
<1>2. new \in Channels /\ new.known = ch.known /\ new.founder = ch.founder
      /\ new.ops = OpsAfter(ch, d, add)
  BY <1>1 DEF Channels
<1> HIDE DEF new
<1>3. ch.ops \ {d} \subseteq new.ops /\ (add => new.ops = ch.ops \cup {d})
      /\ (~ add => new.ops \subseteq ch.ops)
  BY <1>2 DEF OpsAfter
<1> QED BY <1>2, <1>3 DEF new

\* What an event makes of the channel.
Heard(s, ev, new) ==
  /\ chan[s].known => new.known
  /\ new.known => chan[s].known \/ ev.ch.known
  /\ ev.ch.known => new.known
  /\ new.ops \subseteq chan[s].ops \cup Names(ev)
  /\ \A d \in chan[s].ops : d \in new.ops \/ (ev.kind = "mode" /\ ~ ev.add /\ ev.did = d)

LEMMA ChannelAfterShape ==
  ASSUME chan \in [Servers -> Known], NEW s \in Servers, NEW ev \in Events,
         NEW asOp \in BOOLEAN, NEW found \in BOOLEAN
  PROVE  LET new == ChannelAfter(s, ev, asOp, found) IN new \in Known /\ Heard(s, ev, new)
<1> DEFINE new == ChannelAfter(s, ev, asOp, found)
           counts == ev.kind = "mode" /\ chan[s].known /\ (asOp \/ IsAuthority(s, ev.by)) /\ found
<1>0. /\ chan[s] \in Channels /\ ev.ch \in Channels /\ ev.add \in BOOLEAN
      /\ ~ chan[s].known => chan[s] = NoChannel
      /\ ~ ev.ch.known => ev.ch = NoChannel
  BY DEF Known, Events
<1>1. CASE ev.kind = "created" \/ (ev.kind = "response" /\ ev.ch.known)
  <2>1. new = Merged(s, chan[s], ev.ch)
    BY <1>1 DEF ChannelAfter
  <2>2. /\ new \in Channels /\ new.known /\ chan[s].ops \subseteq new.ops
        /\ new.ops \subseteq chan[s].ops \cup ev.ch.ops
    <3> HIDE DEF new
    <3> QED BY <1>0, <2>1, MergedShape
  <2>3. ev.ch.known
    BY <1>1 DEF Events, IsEvent
  <2>4. Names(ev) = ev.ch.ops /\ ev.kind # "mode"
    BY <1>1 DEF Names
  <2> HIDE DEF new
  <2> QED BY <2>2, <2>3, <2>4 DEF Known, Heard, new
<1>2. CASE counts
  <2>1. new = [chan[s] EXCEPT !.ops = OpsAfter(chan[s], ev.did, ev.add)]
    BY <1>2 DEF ChannelAfter
  <2>2. ev.did \in Dids /\ ev.ch = NoChannel /\ ev.ch.ops = {}
    BY <1>2 DEF Events, IsEvent, NoChannel
  <2>3. /\ new \in Channels /\ new.known = chan[s].known /\ new.founder = chan[s].founder
        /\ ev.add => new.ops = chan[s].ops \cup {ev.did}
        /\ chan[s].ops \ {ev.did} \subseteq new.ops
        /\ ~ ev.add => new.ops \subseteq chan[s].ops
    BY <1>0, <2>1, <2>2, OpsAfterShape
  <2>4. Names(ev) = {ev.did}
    BY <1>2, <2>2 DEF Names
  <2>5. ~ ev.ch.known
    BY <2>2 DEF NoChannel
  <2> HIDE DEF new
  <2> QED BY <1>0, <1>2, <2>2, <2>3, <2>4, <2>5 DEF Known, Heard, new
<1>3. CASE ~ (ev.kind = "created" \/ (ev.kind = "response" /\ ev.ch.known)) /\ ~ counts
  <2>1. new = chan[s]
    BY <1>3 DEF ChannelAfter
  <2>2. ~ ev.ch.known
    BY <1>0, <1>3 DEF Events, IsEvent, NoChannel
  <2> HIDE DEF new
  <2> QED BY <1>0, <2>1, <2>2 DEF Known, Heard, new
<1> QED BY <1>1, <1>2, <1>3

\* The replica after a task's write.
ChoreDoc(s, chore) ==
  CASE chore[1] = "found" -> GrantOp(SetFounder(doc[s], s, chore[2]), s, chore[2], Nobody)
    [] chore[1] = "grant" -> GrantOp(doc[s], s, chore[2], chore[3])
    [] OTHER -> RevokeOp(doc[s], s, chore[2])

LEMMA ChoreExtends ==
  ASSUME DocInv, NEW s \in Servers, NEW chore \in chores[s]
  PROVE  LET E == ChoreDoc(s, chore) IN
         /\ Extended(written, doc[s], E)
         /\ chore[1] # "revoke" => Plain(doc[s], E, chore[2]) /\ Listed(E, chore[2])
         /\ chore[1] = "revoke" => \A c \in E \ doc[s] : c.val = Nobody /\ c.key = OpKey(chore[2])
<1>1. /\ Changes(written) /\ History(written) /\ doc[s] \subseteq written
      /\ chore[1] \in {"found", "grant", "revoke"} /\ chore[2] \in Dids /\ chore[3] \in Accounts
      /\ Nobody \in Accounts
  BY DEF DocInv, Shape, Chores, Accounts
<1>2. CASE chore[1] = "found"
  <2>1. ChoreDoc(s, chore) = GrantOp(SetFounder(doc[s], s, chore[2]), s, chore[2], Nobody)
    BY <1>2 DEF ChoreDoc
  <2> QED BY <1>1, <1>2, <2>1, FoundExtends
<1>3. CASE chore[1] = "grant"
  <2>1. ChoreDoc(s, chore) = GrantOp(doc[s], s, chore[2], chore[3])
    BY <1>3 DEF ChoreDoc
  <2> QED BY <1>1, <1>3, <2>1, GrantExtends
<1>4. CASE chore[1] = "revoke"
  <2>1. ChoreDoc(s, chore) = RevokeOp(doc[s], s, chore[2])
    BY <1>4 DEF ChoreDoc
  <2> QED BY <1>1, <1>4, <2>1, RevokeExtends
<1> QED BY <1>1, <1>2, <1>3, <1>4

\* The replica after an event.
EventDoc(s, ev) == IF ev.kind = "created" THEN Adopted(doc[s], s, ev.ch) ELSE doc[s]

LEMMA EventExtends ==
  ASSUME DocInv, NEW s \in Servers, NEW ev \in Events
  PROVE  Extended(written, doc[s], EventDoc(s, ev)) /\ Plain(doc[s], EventDoc(s, ev), ev.ch.founder)
<1>1. Changes(written) /\ History(written) /\ doc[s] \subseteq written
  BY DEF DocInv, Shape
<1>2. CASE ev.kind = "created" /\ ev.ch.founder # Nobody
  <2>1. ev.ch.founder \in Dids /\ ev.ch.founder \in Accounts
    BY <1>2 DEF Events, Known, Channels, Accounts
  <2>2. EventDoc(s, ev) = GrantOp(SetFounder(doc[s], s, ev.ch.founder), s, ev.ch.founder, ev.ch.founder)
    BY <1>2 DEF EventDoc, Adopted
  <2> QED BY <1>1, <2>1, <2>2, FoundExtends
<1>3. CASE ~ (ev.kind = "created" /\ ev.ch.founder # Nobody)
  <2>1. EventDoc(s, ev) = doc[s]
    BY <1>3 DEF EventDoc, Adopted
  <2>2. Extended(written, doc[s], doc[s])
    BY <1>1, Unextended
  <2> QED BY <2>1, <2>2 DEF Plain
<1> QED BY <1>2, <1>3

LEMMA EventsFormed ==
  /\ NoChannel \in Known
  /\ SyncRequest \in Events
  /\ \A ch \in Known : SyncResponse(ch) \in Events
  /\ \A ch \in Known : ch.known => Created(ch) \in Events
  /\ \A by, d \in Dids, add \in BOOLEAN : Mode(by, d, add) \in Events
<1>1. NoChannel \in Known
  BY DEF NoChannel, Known, Channels
<1>2. SyncRequest \in Events
  BY <1>1 DEF SyncRequest, Event, Events, IsEvent, Accounts
<1>3. ASSUME NEW ch \in Known PROVE SyncResponse(ch) \in Events
  BY <1>3 DEF SyncResponse, Event, Events, IsEvent, Accounts
<1>4. ASSUME NEW ch \in Known, ch.known PROVE Created(ch) \in Events
  BY <1>4 DEF Created, Event, Events, IsEvent, Accounts
<1>5. ASSUME NEW by \in Dids, NEW d \in Dids, NEW add \in BOOLEAN PROVE Mode(by, d, add) \in Events
  BY <1>1 DEF Mode, Event, Events, IsEvent, Accounts
<1> QED BY <1>1, <1>2, <1>3, <1>4, <1>5

\* A channel was created, with the tasks that will write it into the document.
Opened(s, ch, tasks) ==
  /\ Other(s) \in Servers /\ Created(ch) \in Events
  /\ ch.known /\ Names(Created(ch)) = ch.ops
  /\ Created(ch).kind = "created" /\ Created(ch).ch = ch
  /\ \A task \in tasks : task[1] = "found"
  /\ \A d \in ch.ops : \E task \in tasks : task[2] = d
  /\ ~ chan[s].known
  /\ chan' = [chan EXCEPT ![s] = ch] /\ db' = [db EXCEPT ![s] = ch]
  /\ chores' = [chores EXCEPT ![s] = chores[s] \cup tasks]
  /\ inbox' = [inbox EXCEPT ![Other(s)] = Append(inbox[Other(s)], Created(ch))]
  /\ created' = created \cup ch.ops
  /\ UNCHANGED <<doc, told, sent, syncs, saved, clearing, modes, faults, written,
                 unheard, granted, revoked, denied, lost>>

LEMMA CreatedNamed ==
  ASSUME NEW ch \in Known, ch.known
  PROVE  /\ Created(ch) \in Events /\ Names(Created(ch)) = ch.ops
         /\ Created(ch).kind = "created" /\ Created(ch).ch = ch
<1>1. Created(ch).kind = "created" /\ Created(ch).ch = ch
  BY DEF Created, Event
<1> QED BY <1>1, EventsFormed DEF Names

LEMMA CreateEffect ==
  ASSUME Shape, (\E d \in Dids : Create(d)) \/ \E s \in Servers : CreateAsGuest(s)
  PROVE  \E s \in Servers, ch \in Known, tasks \in SUBSET Chores : Opened(s, ch, tasks)
<1>1. ASSUME NEW d \in Dids, Create(d)
      PROVE  \E s \in Servers, ch \in Known, tasks \in SUBSET Chores : Opened(s, ch, tasks)
  <2> DEFINE s == Home[d]
             ch == [known |-> TRUE, founder |-> d, ops |-> {d}]
             tasks == {<<"found", d, d>>}
  <2>1. s \in Servers /\ Other(s) \in Servers
    BY AccountsAssumption, OtherServer
  <2>2. ch \in Known /\ ch.known /\ ch.ops = {d}
    BY DEF Known, Channels
  <2>3. tasks \in SUBSET Chores /\ (\A task \in tasks : task[1] = "found" /\ task[2] = d) /\ tasks # {}
    BY DEF Chores
  <2>4. /\ ~ chan[s].known
        /\ chan' = [chan EXCEPT ![s] = ch] /\ db' = [db EXCEPT ![s] = ch]
        /\ chores' = [chores EXCEPT ![s] = chores[s] \cup tasks]
        /\ inbox' = [inbox EXCEPT ![Other(s)] = Append(inbox[Other(s)], Created(ch))]
        /\ created' = created \cup {d}
        /\ UNCHANGED <<doc, told, sent, syncs, saved, clearing, modes, faults, written,
                       unheard, granted, revoked, denied, lost>>
    BY <1>1 DEF Create, Send
  <2> HIDE DEF s, ch, tasks
  <2>5. Opened(s, ch, tasks)
    BY <2>1, <2>2, <2>3, <2>4, CreatedNamed DEF Opened
  <2> QED BY <2>1, <2>2, <2>3, <2>5
<1>2. ASSUME NEW s \in Servers, CreateAsGuest(s)
      PROVE  \E x \in Servers, ch \in Known, tasks \in SUBSET Chores : Opened(x, ch, tasks)
  <2> DEFINE ch == [NoChannel EXCEPT !.known = TRUE]
             none == {}
  <2>1. Other(s) \in Servers
    BY OtherServer
  <2>2. ch \in Known /\ ch.known /\ ch.ops = {}
    BY DEF Known, Channels, NoChannel
  <2>3. /\ ~ chan[s].known
        /\ chan' = [chan EXCEPT ![s] = ch] /\ db' = [db EXCEPT ![s] = ch]
        /\ inbox' = [inbox EXCEPT ![Other(s)] = Append(inbox[Other(s)], Created(ch))]
        /\ UNCHANGED <<doc, told, sent, chores, syncs, saved, clearing, modes, faults, written,
                       unheard, created, granted, revoked, denied, lost>>
    BY <1>2 DEF CreateAsGuest, Send
  <2>4. chores' = [chores EXCEPT ![s] = chores[s] \cup none]
    BY <2>3 DEF Shape
  <2>5. none \in SUBSET Chores /\ none = {}
    OBVIOUS
  <2> HIDE DEF ch, none
  <2>6. created' = created \cup ch.ops
    BY <2>2, <2>3
  <2>7. Opened(s, ch, none)
    BY <2>1, <2>2, <2>3, <2>4, <2>5, <2>6, CreatedNamed DEF Opened
  <2> QED BY <2>2, <2>5, <2>7
<1> QED BY <1>1, <1>2

\* The steps of the specification.
Ordered(by, d) == \E add \in BOOLEAN : SetMode(by, d, add)

LEMMA StepCases ==
  ASSUME [Next]_vars, Shape
  PROVE  \/ \E s \in Servers, ch \in Known, tasks \in SUBSET Chores : Opened(s, ch, tasks)
         \/ \E d \in Dids : JoinWithRole(d)
         \/ \E by, d \in Dids : Ordered(by, d) /\ modes < Len(Orders)
         \/ \E s \in Servers : \E chore \in chores[s] : DoChore(s, chore)
         \/ \E s \in Servers : Process(s)
         \/ \E s \in Servers : ReceiveSync(s)
         \/ \E s \in Servers : Reconcile(s)
         \/ \E s \in Servers : Restart(s)
         \/ \E s \in Servers : CompactSave(s)
         \/ \E s \in Servers : CompactSwap(s)
         \/ \E s \in Servers : CompactClear(s)
         \/ Flap
         \/ UNCHANGED vars
<1>1. CASE MayAct /\ modes < Len(Orders)
           /\ SetMode(Orders[modes + 1][1], Orders[modes + 1][2], Orders[modes + 1][3])
  <2>1. Orders[modes + 1] \in Dids \X Dids \X BOOLEAN
    BY <1>1, AccountsAssumption DEF Shape
  <2>2. \E by, d \in Dids : Ordered(by, d)
    BY <1>1, <2>1 DEF Ordered
  <2> QED BY <1>1, <2>2
<1>2. CASE (\E d \in Founders : MayAct /\ Create(d)) \/ \E s \in Guests : CreateAsGuest(s)
  BY <1>2, AccountsAssumption, CreateEffect
<1>3. CASE \E d \in Roled : JoinWithRole(d)
  BY <1>3, AccountsAssumption
<1> QED BY <1>1, <1>2, <1>3 DEF Next

\* The event a server takes up, and those that stay.
LEMMA ProcessedEvent ==
  ASSUME Shape, NEW s \in Servers, inbox[s] # << >>
  PROVE  /\ Head(inbox[s]) \in Events /\ Tail(inbox[s]) \in Seq(Events)
         /\ Head(inbox[s]) = inbox[s][1] /\ 1 \in DOMAIN inbox[s]
         /\ Len(Tail(inbox[s])) = Len(inbox[s]) - 1
         /\ \A i \in 1 .. Len(inbox[s]) - 1 : Tail(inbox[s])[i] = inbox[s][i + 1]
BY DEF Shape

\* What each kind of step does, told in terms of the above.
\* An order: the event it sends says what it was.
ModeDone(by, d, ev, task) ==
  LET s == Home[by]
      ch == chan'[s] IN
  /\ s \in Servers /\ Other(s) \in Servers
  /\ task[1] = (IF ev.add THEN "grant" ELSE "revoke") /\ task[2] = d
  /\ chan[s].known
  /\ ch \in Known /\ ch.known /\ ch.founder = chan[s].founder
  /\ ev.add => ch.ops = chan[s].ops \cup {d}
  /\ chan[s].ops \ {d} \subseteq ch.ops
  /\ ~ ev.add => ch.ops \subseteq chan[s].ops
  /\ ev.kind = "mode" /\ ev.by = by /\ ev.did = d
  /\ ev.ch = NoChannel /\ Names(ev) = {d}
  /\ chan' = [chan EXCEPT ![s] = ch] /\ db' = [db EXCEPT ![s] = ch]
  /\ chores' = [chores EXCEPT ![s] = chores'[s]]
  /\ \/ chores'[s] = chores[s] \cup {task}
     \/ ~ ev.add /\ chores'[s] = chores[s]
  /\ inbox' = [inbox EXCEPT ![Other(s)] = Append(inbox[Other(s)], ev)]
  /\ modes' = modes + 1
  /\ granted' = IF ev.add THEN granted \cup {d} ELSE granted \ {d}
  /\ revoked' = IF ev.add THEN revoked ELSE revoked \cup {d}
  /\ UNCHANGED <<doc, told, sent, syncs, saved, clearing, faults, written, unheard, created, denied, lost>>

LEMMA ModeEffect ==
  ASSUME Shape, NEW by \in Dids, NEW d \in Dids, Ordered(by, d)
  PROVE  \E ev \in Events, task \in Chores : ModeDone(by, d, ev, task)
<1>0. PICK add \in BOOLEAN : SetMode(by, d, add)
  BY DEF Ordered
<1> DEFINE s == Home[by]
           ch == chan'[s]
           new == [chan[s] EXCEPT !.ops = OpsAfter(chan[s], d, add)]
           ev == Mode(by, d, add)
           task == <<IF add THEN "grant" ELSE "revoke", d, by>>
           q == IF ~ add /\ d = chan[s].founder /\ Home[d] = s THEN chores[s]
                ELSE chores[s] \cup {task}
<1>1. s \in Servers /\ Other(s) \in Servers
  BY AccountsAssumption, OtherServer
<1>2. /\ chan[s].known
      /\ chan' = [chan EXCEPT ![s] = new] /\ db' = [db EXCEPT ![s] = new]
      /\ chores' = [chores EXCEPT ![s] = q]
      /\ inbox' = [inbox EXCEPT ![Other(s)] = Append(inbox[Other(s)], ev)]
      /\ modes' = modes + 1
      /\ granted' = IF add THEN granted \cup {d} ELSE granted \ {d}
      /\ revoked' = IF add THEN revoked ELSE revoked \cup {d}
      /\ UNCHANGED <<doc, told, sent, syncs, saved, clearing, faults, written, unheard, created, denied, lost>>
  BY <1>0 DEF SetMode, Send
<1>3. chan[s] \in Channels
  BY <1>1 DEF Shape, Known
<1>4. /\ new \in Channels /\ new.known = chan[s].known /\ new.founder = chan[s].founder
      /\ add => new.ops = chan[s].ops \cup {d}
      /\ chan[s].ops \ {d} \subseteq new.ops
      /\ ~ add => new.ops \subseteq chan[s].ops
  BY <1>3, OpsAfterShape
<1>5. ev \in Events /\ ev.kind = "mode" /\ ev.by = by /\ ev.did = d /\ ev.add = add
      /\ ev.ch = NoChannel /\ Names(ev) = {d}
  <2>1. ev \in Events
    BY EventsFormed
  <2> QED BY <2>1 DEF Mode, Event, Names, NoChannel
<1>6. task \in Chores /\ task[1] = (IF add THEN "grant" ELSE "revoke") /\ task[2] = d
  BY DEF Chores
<1> HIDE DEF new, ev, task
<1>7. new \in Known
  BY <1>2, <1>4 DEF Known
<1>8. ch = new /\ chores'[s] = q
  BY <1>1, <1>2 DEF Shape
<1> HIDE DEF s
<1>9. \/ chores'[s] = chores[s] \cup {task}
      \/ ~ add /\ chores'[s] = chores[s]
  BY <1>8
<1> HIDE DEF q
<1>10. /\ chan' = [chan EXCEPT ![s] = ch] /\ db' = [db EXCEPT ![s] = ch]
       /\ chores' = [chores EXCEPT ![s] = chores'[s]]
  BY <1>2, <1>8
<1>11. /\ ch \in Known /\ ch.known /\ ch.founder = chan[s].founder
       /\ ev.add => ch.ops = chan[s].ops \cup {d}
       /\ chan[s].ops \ {d} \subseteq ch.ops
       /\ ~ ev.add => ch.ops \subseteq chan[s].ops
       /\ granted' = IF ev.add THEN granted \cup {d} ELSE granted \ {d}
       /\ revoked' = IF ev.add THEN revoked ELSE revoked \cup {d}
       /\ task[1] = (IF ev.add THEN "grant" ELSE "revoke")
       /\ \/ chores'[s] = chores[s] \cup {task}
          \/ ~ ev.add /\ chores'[s] = chores[s]
  <2> HIDE DEF ch
  <2> QED BY <1>2, <1>4, <1>5, <1>6, <1>7, <1>8, <1>9
<1> HIDE DEF ch
<1>12. ev \in Events /\ task \in Chores
  BY <1>5, <1>6
<1> USE <1>12
<1> WITNESS ev \in Events, task \in Chores
<1> QED BY <1>1, <1>2, <1>5, <1>6, <1>10, <1>11 DEF ModeDone, s, ch

LEMMA ChoreEffect ==
  ASSUME DocInv, NEW s \in Servers, NEW chore \in chores[s], DoChore(s, chore)
  PROVE  LET E == ChoreDoc(s, chore) IN
         /\ Extended(written, doc[s], E)
         /\ chore[1] # "revoke" => Plain(doc[s], E, chore[2]) /\ Listed(E, chore[2])
         /\ chore[1] = "revoke" => \A c \in E \ doc[s] : c.val = Nobody /\ c.key = OpKey(chore[2])
         /\ doc' = [doc EXCEPT ![s] = E] /\ written' = written \cup E
         /\ chores' = [chores EXCEPT ![s] = chores[s] \ {chore}]
         /\ \/ Offer(s, E)
            \/ UNCHANGED <<syncs, sent, unheard>> /\ told' = [told EXCEPT ![s] = told[s] /\ E = doc[s]]
         /\ UNCHANGED <<chan, db, inbox, saved, clearing, modes, faults, created, granted, revoked, denied, lost>>
<1> DEFINE E == ChoreDoc(s, chore)
<1>1. /\ Extended(written, doc[s], E)
      /\ chore[1] # "revoke" => Plain(doc[s], E, chore[2]) /\ Listed(E, chore[2])
      /\ chore[1] = "revoke" => \A c \in E \ doc[s] : c.val = Nobody /\ c.key = OpKey(chore[2])
  BY ChoreExtends
<1>2. /\ doc' = [doc EXCEPT ![s] = E] /\ written' = written \cup E
      /\ chores' = [chores EXCEPT ![s] = chores[s] \ {chore}]
      /\ UNCHANGED <<chan, db, inbox, saved, clearing, modes, faults, created, granted, revoked, denied, lost>>
  BY DEF DoChore, ChoreDoc
<1>3. \/ Offer(s, E)
      \/ UNCHANGED <<syncs, sent, unheard>> /\ told' = [told EXCEPT ![s] = told[s] /\ E = doc[s]]
  BY DEF DoChore, ChoreDoc
<1> HIDE DEF E
<1> QED BY <1>1, <1>2, <1>3 DEF E

LEMMA ProcessEffect ==
  ASSUME DocInv, NEW s \in Servers, Process(s)
  PROVE  LET ev == Head(inbox[s])
             E == EventDoc(s, ev)
             p == Other(s) IN
         /\ inbox[s] # << >> /\ ev \in Events /\ ev = inbox[s][1] /\ 1 \in DOMAIN inbox[s]
         /\ Extended(written, doc[s], E) /\ Plain(doc[s], E, ev.ch.founder)
         /\ chan'[s] \in Known /\ Heard(s, ev, chan'[s])
         /\ chan' = [chan EXCEPT ![s] = chan'[s]]
         /\ denied' = denied \cup (ev.ch.ops \ chan'[s].ops)
         /\ doc' = [doc EXCEPT ![s] = E] /\ written' = written \cup E
         /\ \/ /\ ev.kind = "request" /\ Offer(s, E) /\ E = doc[s]
               /\ inbox' = [inbox EXCEPT ![s] = Tail(inbox[s]),
                                         ![p] = Append(inbox[p], SyncResponse(chan[s]))]
            \/ /\ ev.kind # "request"
               /\ inbox' = [inbox EXCEPT ![s] = Tail(inbox[s])]
               /\ UNCHANGED <<syncs, sent, unheard>>
               /\ told' = [told EXCEPT ![s] = told[s] /\ E = doc[s]]
         /\ UNCHANGED <<db, chores, saved, clearing, modes, faults, created, granted, revoked, lost>>
<1> DEFINE ev == Head(inbox[s])
           E == EventDoc(s, ev)
           p == Other(s)
<1>0. p \in Servers /\ p # s /\ doc \in [Servers -> SUBSET written] /\ inbox \in [Servers -> Seq(Events)]
  BY OtherServer DEF DocInv, Shape
<1>1. inbox[s] # << >>
  BY DEF Process
<1>2. ev \in Events /\ ev = inbox[s][1] /\ 1 \in DOMAIN inbox[s]
  BY <1>1, ProcessedEvent DEF DocInv
<1>3. Extended(written, doc[s], E) /\ Plain(doc[s], E, ev.ch.founder)
  <2> HIDE DEF ev
  <2> QED BY <1>2, EventExtends
<1>4. /\ denied' = denied \cup (ev.ch.ops \ chan'[s].ops)
      /\ written' = written \cup doc'[s]
      /\ UNCHANGED <<db, chores, saved, clearing, modes, faults, created, granted, revoked, lost>>
  BY DEF Process
<1>9. /\ chan'[s] \in Known /\ Heard(s, ev, chan'[s])
      /\ chan' = [chan EXCEPT ![s] = chan'[s]]
  <2>1. PICK asOp \in BOOLEAN, found \in BOOLEAN :
           chan' = [chan EXCEPT ![s] = ChannelAfter(s, ev, asOp, found)]
    BY DEF Process
  <2> DEFINE new == ChannelAfter(s, ev, asOp, found)
  <2>2. chan \in [Servers -> Known]
    BY DEF DocInv, Shape
  <2>3. new \in Known /\ Heard(s, ev, new)
    <3> HIDE DEF ev
    <3> QED BY <1>2, <2>2, ChannelAfterShape
  <2> HIDE DEF new, ev
  <2>4. chan' = [chan EXCEPT ![s] = new]
    BY <2>1 DEF new
  <2>5. chan'[s] = new
    BY <2>2, <2>4
  <2> QED BY <2>3, <2>4, <2>5
<1>5. doc' = [doc EXCEPT ![s] = E]
  <2>1. doc' = IF ev.kind = "created" THEN [doc EXCEPT ![s] = Adopted(doc[s], s, ev.ch)] ELSE doc
    BY DEF Process
  <2> HIDE DEF ev
  <2>2. CASE ev.kind = "created"
    BY <2>1, <2>2 DEF EventDoc
  <2>3. CASE ev.kind # "created"
    <3>1. E = doc[s] /\ doc' = doc
      BY <2>1, <2>3 DEF EventDoc
    <3> QED BY <1>0, <3>1
  <2> QED BY <2>2, <2>3
<1>6. doc'[s] = E
  <2> HIDE DEF E
  <2> QED BY <1>0, <1>5
<1>7. CASE ev.kind = "request"
  <2>1. E = doc[s]
    <3> HIDE DEF ev
    <3> QED BY <1>7 DEF EventDoc
  <2>2. /\ Offer(s, doc[s])
        /\ inbox' = [inbox EXCEPT ![s] = Tail(inbox[s]), ![p] = Append(inbox[p], SyncResponse(chan[s]))]
    <3>1. /\ Offer(s, doc[s])
          /\ inbox' = [inbox EXCEPT ![s] = Tail(@), ![p] = Append(@, SyncResponse(chan[s]))]
      BY <1>7 DEF Process
    <3>2. [inbox EXCEPT ![s] = Tail(@), ![p] = Append(@, SyncResponse(chan[s]))] =
             [inbox EXCEPT ![s] = Tail(inbox[s]), ![p] = Append(inbox[p], SyncResponse(chan[s]))]
      <4> HIDE DEF p
      <4> QED BY <1>0
    <3> QED BY <3>1, <3>2
  <2> HIDE DEF ev, E, p
  <2> QED BY <1>1, <1>2, <1>3, <1>4, <1>5, <1>6, <1>7, <1>9, <2>1, <2>2 DEF ev, E, p
<1>8. CASE ev.kind # "request"
  <2>1. /\ inbox' = [inbox EXCEPT ![s] = Tail(inbox[s])]
        /\ UNCHANGED <<syncs, sent, unheard>>
        /\ told' = [told EXCEPT ![s] = told[s] /\ doc'[s] = doc[s]]
    BY <1>8 DEF Process
  <2> HIDE DEF ev, E, p
  <2> QED BY <1>1, <1>2, <1>3, <1>4, <1>5, <1>6, <1>8, <1>9, <2>1 DEF ev, E, p
<1> QED BY <1>7, <1>8

Unseen(s, m) == IF m.heads = {} THEN {} ELSE sent[s] \ m.heads
Owed(s, m) == Ready(doc[s] \cup m.changes) \ (m.heads \cup Unseen(s, m))
Reply(s, m) == [changes |-> Owed(s, m), heads |-> Ready(doc[s] \cup m.changes)]

LEMMA ReceiveEffect ==
  ASSUME Shape, NEW s \in Servers, ReceiveSync(s)
  PROVE  LET m == syncs[s][1]
             D == doc[s] \cup m.changes
             p == Other(s) IN
         /\ syncs[s] # << >> /\ m \in [changes : SUBSET written, heads : SUBSET written]
         /\ Unseen(s, m) \subseteq written /\ Owed(s, m) \subseteq written
         /\ Reply(s, m) \in [changes : SUBSET written, heads : SUBSET written]
         /\ \/ /\ Clash(doc[s], m.changes)
               /\ syncs' = [syncs EXCEPT ![s] = << >>] /\ UNCHANGED <<doc, told, sent, unheard>>
            \/ /\ D = doc[s] /\ Owed(s, m) = {}
               /\ syncs' = [syncs EXCEPT ![s] = << >>] /\ sent' = [sent EXCEPT ![s] = Unseen(s, m)]
               /\ UNCHANGED <<doc, told, unheard>>
            \/ /\ doc' = [doc EXCEPT ![s] = D]
               /\ syncs' = [syncs EXCEPT ![s] = << >>, ![p] = Add(syncs[p], Reply(s, m))]
               /\ sent' = [sent EXCEPT ![s] = Unseen(s, m) \cup Owed(s, m)]
               /\ told' = [told EXCEPT ![s] = TRUE] /\ unheard' = unheard \ {s}
         /\ UNCHANGED <<chan, db, chores, inbox, saved, clearing, modes, faults, written,
                        created, granted, revoked, denied, lost>>
<1> DEFINE m == syncs[s][1]
           D == doc[s] \cup m.changes
           p == Other(s)
<1>0. p \in Servers /\ p # s /\ DOMAIN syncs = Servers /\ doc \in [Servers -> SUBSET written]
      /\ sent \in [Servers -> SUBSET written]
  BY OtherServer DEF Shape
<1>1. syncs[s] # << >>
  BY DEF ReceiveSync
<1>2. syncs[s] = <<m>> /\ m \in [changes : SUBSET written, heads : SUBSET written]
  BY <1>1 DEF Shape, IsPending
<1>3. Head(syncs[s]) = m
  <2> HIDE DEF m
  <2> QED BY <1>2
<1>4. Unseen(s, m) \subseteq written /\ Owed(s, m) \subseteq written /\ Ready(D) \subseteq written
  <2> HIDE DEF m
  <2>1. Ready(D) \subseteq D
    BY ReadyGrows
  <2> QED BY <1>0, <1>2, <2>1 DEF Unseen, Owed
<1>5. Reply(s, m) \in [changes : SUBSET written, heads : SUBSET written]
  <2> HIDE DEF m
  <2> QED BY <1>4 DEF Reply
<1>6. UNCHANGED <<chan, db, chores, inbox, saved, clearing, modes, faults, written, created, granted, revoked, denied, lost>>
  BY DEF ReceiveSync
<1>7. CASE Clash(doc[s], m.changes)
  <2>1. syncs' = [syncs EXCEPT ![s] = << >>] /\ UNCHANGED <<doc, told, sent, unheard>>
    <3> HIDE DEF m
    <3> QED BY <1>3, <1>7 DEF ReceiveSync
  <2> HIDE DEF m, p
  <2> QED BY <1>1, <1>2, <1>4, <1>5, <1>6, <1>7, <2>1 DEF m, p
<1>8. CASE ~ Clash(doc[s], m.changes) /\ D = doc[s] /\ Owed(s, m) = {}
  <2>1. /\ doc' = [doc EXCEPT ![s] = D] /\ syncs' = [syncs EXCEPT ![s] = << >>]
        /\ sent' = [sent EXCEPT ![s] = Unseen(s, m)] /\ UNCHANGED <<told, unheard>>
    <3> HIDE DEF m
    <3> QED BY <1>3, <1>8 DEF ReceiveSync, Owed, Unseen
  <2>2. doc' = doc
    <3> HIDE DEF m
    <3> QED BY <1>0, <1>8, <2>1
  <2> HIDE DEF m, p
  <2> QED BY <1>1, <1>2, <1>4, <1>5, <1>6, <1>8, <2>1, <2>2 DEF m, p
<1>9. CASE ~ Clash(doc[s], m.changes) /\ ~ (D = doc[s] /\ Owed(s, m) = {})
  <2>1. /\ doc' = [doc EXCEPT ![s] = D]
        /\ syncs' = [syncs EXCEPT ![s] = << >>, ![p] = Add(@, Reply(s, m))]
        /\ sent' = [sent EXCEPT ![s] = Unseen(s, m) \cup Owed(s, m)]
        /\ told' = [told EXCEPT ![s] = TRUE] /\ unheard' = unheard \ {s}
    <3> HIDE DEF m
    <3> QED BY <1>3, <1>9 DEF ReceiveSync, Owed, Unseen, Reply
  <2>2. [syncs EXCEPT ![s] = << >>, ![p] = Add(@, Reply(s, m))] =
          [syncs EXCEPT ![s] = << >>, ![p] = Add(syncs[p], Reply(s, m))]
    <3> HIDE DEF m, p
    <3> QED BY <1>0
  <2> HIDE DEF m, p
  <2> QED BY <1>1, <1>2, <1>4, <1>5, <1>6, <1>9, <2>1, <2>2 DEF m, p
<1> QED BY <1>7, <1>8, <1>9

\* More changes were written, and no variable typed by them has changed.
LEMMA WrittenGrows ==
  ASSUME Shape, NEW W, written \subseteq W
  PROVE  /\ \A s \in Servers : doc[s] \subseteq W /\ sent[s] \subseteq W
         /\ SyncShape(sent, told, syncs, W)
         /\ DOMAIN saved = Servers /\ \A s \in Servers : IsSaved(saved[s], W)
<1>1. \A s \in Servers : IsPending(syncs[s], W) /\ IsSaved(saved[s], W)
  BY PendingGrows DEF Shape
<1>2. sent \in [Servers -> SUBSET W]
  BY DEF Shape
<1> QED BY <1>1, <1>2 DEF Shape, SyncShape

LEMMA DocInvInit == Init => DocInv
<1> SUFFICES ASSUME Init PROVE DocInv
  OBVIOUS
<1>1. NoChannel \in Known
  BY EventsFormed
<1>2. Changes({}) /\ History({})
  BY FS_EmptySet DEF Changes, History, Grounded, Closed
<1>3. Len(Orders) \in Nat /\ MaxFaults \in Nat
  BY AccountsAssumption, BoundsAssumption
<1>4. IsPending(<< >>, {}) /\ IsSaved(<< >>, {})
  BY DEF IsPending, IsSaved
<1> QED BY <1>1, <1>2, <1>3, <1>4 DEF Init, DocInv, Shape

\* One server's replica grows, with a sync message or without.
LEMMA WriteKeepsDocInv ==
  ASSUME DocInv, NEW s \in Servers, NEW E, Extended(written, doc[s], E),
         doc' = [doc EXCEPT ![s] = E], written' = written \cup E, UNCHANGED <<saved, clearing, modes, faults, db>>,
         \/ Offer(s, E)
         \/ UNCHANGED <<syncs, sent>> /\ told' = [told EXCEPT ![s] = told[s] /\ E = doc[s]],
         chan' \in [Servers -> Known], chores' \in [Servers -> SUBSET Chores],
         inbox' \in [Servers -> Seq(Events)]
  PROVE  DocInv'
<1>0. Shape
  BY DEF DocInv
<1> DEFINE W == written \cup E
<1>2. Changes(W) /\ History(W) /\ written \subseteq W /\ E \subseteq W
  BY DEF Extended
<1>3. written' = W
  OBVIOUS
<1> HIDE DEF W
<1>5. /\ \A x \in Servers : doc[x] \subseteq W
      /\ SyncShape(sent, told, syncs, W)
      /\ DOMAIN saved = Servers /\ \A x \in Servers : IsSaved(saved[x], W)
  BY <1>0, <1>2, WrittenGrows
<1>6. SyncShape(sent', told', syncs', W)
  <2>1. CASE Offer(s, E)
    BY <1>2, <1>5, <2>1, OfferShape
  <2>2. CASE UNCHANGED <<syncs, sent>> /\ told' = [told EXCEPT ![s] = told[s] /\ E = doc[s]]
    <3>1. (told[s] /\ E = doc[s]) \in BOOLEAN
      BY <1>5 DEF SyncShape
    <3> QED BY <1>5, <2>2, <3>1 DEF SyncShape
  <2> QED BY <2>1, <2>2
<1>7. doc' \in [Servers -> SUBSET W]
  BY <1>0, <1>2, <1>5 DEF Shape
<1>8. DOMAIN saved' = Servers /\ \A x \in Servers : IsSaved(saved'[x], W)
  BY <1>5
<1>9. db' \in [Servers -> Known] /\ modes' \in 0 .. Len(Orders) /\ faults' \in 0 .. MaxFaults
      /\ clearing' \subseteq Servers /\ \A x \in clearing' : saved'[x] = << >>
  BY <1>0 DEF Shape
<1>10. Changes(written') /\ History(written')
  BY <1>2, <1>3
<1>11. /\ sent' \in [Servers -> SUBSET written'] /\ told' \in [Servers -> BOOLEAN]
       /\ DOMAIN syncs' = Servers /\ \A x \in Servers : IsPending(syncs'[x], written')
  BY <1>3, <1>6 DEF SyncShape
<1>12. doc' \in [Servers -> SUBSET written'] /\ \A x \in Servers : IsSaved(saved'[x], written')
  BY <1>3, <1>7, <1>8
<1> QED BY <1>8, <1>9, <1>10, <1>11, <1>12 DEF DocInv, Shape

LEMMA DocInvStep ==
  ASSUME DocInv, [Next]_vars
  PROVE  DocInv'
<1>0. Shape /\ History(written) /\ modes \in Nat /\ Len(Orders) \in Nat /\ MaxFaults \in Nat /\ faults \in Nat
  BY AccountsAssumption, BoundsAssumption DEF DocInv, Shape
<1>1. ASSUME NEW s \in Servers, NEW ch \in Known, NEW tasks \in SUBSET Chores, Opened(s, ch, tasks)
      PROVE  DocInv'
  <2>1. /\ Other(s) \in Servers /\ Created(ch) \in Events
        /\ chan' = [chan EXCEPT ![s] = ch] /\ db' = [db EXCEPT ![s] = ch]
        /\ chores' = [chores EXCEPT ![s] = chores[s] \cup tasks]
        /\ inbox' = [inbox EXCEPT ![Other(s)] = Append(inbox[Other(s)], Created(ch))]
        /\ UNCHANGED <<doc, told, sent, syncs, saved, clearing, modes, faults, written>>
    BY <1>1 DEF Opened
  <2>2. Append(inbox[Other(s)], Created(ch)) \in Seq(Events)
    BY <1>0, <2>1 DEF Shape
  <2>3. chan' \in [Servers -> Known] /\ db' \in [Servers -> Known]
    BY <1>0, <2>1 DEF Shape
  <2>4. chores' \in [Servers -> SUBSET Chores] /\ inbox' \in [Servers -> Seq(Events)]
    BY <1>0, <2>1, <2>2 DEF Shape
  <2> QED BY <1>0, <2>1, <2>3, <2>4 DEF DocInv, Shape
<1>13. ASSUME NEW d \in Dids, JoinWithRole(d) PROVE DocInv'
  <2> DEFINE s == Home[d]
             new == [chan[s] EXCEPT !.ops = chan[s].ops \cup {d}]
  <2>1. s \in Servers /\ chan[s].known /\ chan' = [chan EXCEPT ![s] = new]
        /\ UNCHANGED <<db, doc, told, sent, chores, inbox, syncs, saved, clearing, modes, faults, written>>
    BY <1>13, AccountsAssumption DEF JoinWithRole
  <2>2. new \in Known
    BY <1>0, <2>1 DEF Shape, Known, Channels
  <2> HIDE DEF s, new
  <2>3. chan' \in [Servers -> Known]
    BY <1>0, <2>1, <2>2 DEF Shape
  <2> QED BY <1>0, <2>1, <2>3 DEF DocInv, Shape
<1>2. ASSUME NEW by \in Dids, NEW d \in Dids, Ordered(by, d), modes < Len(Orders) PROVE DocInv'
  <2> DEFINE s == Home[by]
             ch == chan'[s]
  <2>0. PICK ev \in Events, task \in Chores : ModeDone(by, d, ev, task)
    BY <1>0, <1>2, ModeEffect
  <2>1. /\ s \in Servers /\ Other(s) \in Servers /\ ch \in Known
        /\ chan' = [chan EXCEPT ![s] = ch] /\ db' = [db EXCEPT ![s] = ch]
        /\ chores' = [chores EXCEPT ![s] = chores'[s]]
        /\ chores'[s] = chores[s] \cup {task} \/ chores'[s] = chores[s]
        /\ inbox' = [inbox EXCEPT ![Other(s)] = Append(inbox[Other(s)], ev)]
        /\ modes' = modes + 1
        /\ UNCHANGED <<doc, told, sent, syncs, saved, clearing, faults, written>>
    BY <2>0 DEF ModeDone
  <2> HIDE DEF ch, s
  <2>2. Append(inbox[Other(s)], ev) \in Seq(Events)
    BY <1>0, <2>1 DEF Shape
  <2>3. chan' \in [Servers -> Known] /\ db' \in [Servers -> Known]
    BY <1>0, <2>1 DEF Shape
  <2>4. chores'[s] \in SUBSET Chores
    BY <1>0, <2>1 DEF Shape
  <2>5. chores' \in [Servers -> SUBSET Chores] /\ inbox' \in [Servers -> Seq(Events)]
    BY <1>0, <2>1, <2>2, <2>4 DEF Shape
  <2>6. modes' \in 0 .. Len(Orders)
    BY <1>0, <1>2, <2>1
  <2> QED BY <1>0, <2>1, <2>3, <2>5, <2>6 DEF DocInv, Shape
<1>3. ASSUME NEW s \in Servers, NEW chore \in chores[s], DoChore(s, chore) PROVE DocInv'
  <2> DEFINE E == ChoreDoc(s, chore)
  <2>1. /\ Extended(written, doc[s], E)
        /\ doc' = [doc EXCEPT ![s] = E] /\ written' = written \cup E
        /\ chores' = [chores EXCEPT ![s] = chores[s] \ {chore}]
        /\ \/ Offer(s, E)
           \/ UNCHANGED <<syncs, sent>> /\ told' = [told EXCEPT ![s] = told[s] /\ E = doc[s]]
        /\ UNCHANGED <<chan, db, inbox, saved, clearing, modes, faults>>
    BY <1>3, ChoreEffect
  <2> HIDE DEF E
  <2>2. /\ chan' \in [Servers -> Known] /\ inbox' \in [Servers -> Seq(Events)]
        /\ chores' \in [Servers -> SUBSET Chores]
    BY <1>0, <2>1 DEF Shape
  <2> QED BY <2>1, <2>2, WriteKeepsDocInv
<1>4. ASSUME NEW s \in Servers, Process(s) PROVE DocInv'
  <2> DEFINE ev == Head(inbox[s])
             E == EventDoc(s, ev)
             p == Other(s)
  <2>1. /\ inbox[s] # << >> /\ ev \in Events
        /\ Extended(written, doc[s], E)
        /\ chan'[s] \in Known /\ chan' = [chan EXCEPT ![s] = chan'[s]]
        /\ doc' = [doc EXCEPT ![s] = E] /\ written' = written \cup E
        /\ UNCHANGED <<db, chores, saved, clearing, modes, faults>>
    BY <1>4, ProcessEffect
  <2>2. \/ Offer(s, E)
        \/ UNCHANGED <<syncs, sent>> /\ told' = [told EXCEPT ![s] = told[s] /\ E = doc[s]]
    BY <1>4, ProcessEffect
  <2>3. \/ inbox' = [inbox EXCEPT ![s] = Tail(inbox[s]), ![p] = Append(inbox[p], SyncResponse(chan[s]))]
        \/ inbox' = [inbox EXCEPT ![s] = Tail(inbox[s])]
    BY <1>4, ProcessEffect
  <2>4. p \in Servers /\ Tail(inbox[s]) \in Seq(Events)
    BY <1>0, <2>1, OtherServer, ProcessedEvent
  <2>5. SyncResponse(chan[s]) \in Events
    BY <1>0, EventsFormed DEF Shape
  <2> HIDE DEF E, ev, p
  <2>7. chan' \in [Servers -> Known] /\ chores' \in [Servers -> SUBSET Chores]
    BY <1>0, <2>1 DEF Shape
  <2>8. Append(inbox[p], SyncResponse(chan[s])) \in Seq(Events)
    BY <1>0, <2>4, <2>5 DEF Shape
  <2>9. inbox' \in [Servers -> Seq(Events)]
    BY <1>0, <2>3, <2>4, <2>8 DEF Shape
  <2> QED BY <2>1, <2>2, <2>7, <2>9, WriteKeepsDocInv
<1>5. ASSUME NEW s \in Servers, ReceiveSync(s) PROVE DocInv'
  <2> DEFINE m == syncs[s][1]
             D == doc[s] \cup m.changes
             p == Other(s)
  <2>1. /\ m \in [changes : SUBSET written, heads : SUBSET written]
        /\ Unseen(s, m) \subseteq written /\ Owed(s, m) \subseteq written
        /\ Reply(s, m) \in [changes : SUBSET written, heads : SUBSET written]
        /\ UNCHANGED <<chan, db, chores, inbox, saved, clearing, modes, faults, written>>
    BY <1>0, <1>5, ReceiveEffect
  <2>2. /\ \/ doc' = doc
           \/ doc' = [doc EXCEPT ![s] = D]
        /\ \/ sent' = sent
           \/ sent' = [sent EXCEPT ![s] = Unseen(s, m)]
           \/ sent' = [sent EXCEPT ![s] = Unseen(s, m) \cup Owed(s, m)]
        /\ \/ told' = told
           \/ told' = [told EXCEPT ![s] = TRUE]
        /\ \/ syncs' = [syncs EXCEPT ![s] = << >>]
           \/ syncs' = [syncs EXCEPT ![s] = << >>, ![p] = Add(syncs[p], Reply(s, m))]
    BY <1>0, <1>5, ReceiveEffect
  <2>3. p \in Servers
    BY OtherServer
  <2> HIDE DEF m, p
  <2>4. IsPending(Add(syncs[p], Reply(s, m)), written)
    BY <1>0, <2>1, <2>3, AddPending DEF Shape
  <2>5. IsPending(<< >>, written)
    BY DEF IsPending
  <2>6. DOMAIN syncs' = Servers /\ \A x \in Servers : IsPending(syncs'[x], written)
    BY <1>0, <2>2, <2>3, <2>4, <2>5 DEF Shape
  <2>7. doc' \in [Servers -> SUBSET written]
    <3>1. doc \in [Servers -> SUBSET written]
      BY <1>0 DEF Shape
    <3>2. D \in SUBSET written
      BY <2>1, <3>1
    <3> HIDE DEF D
    <3> QED BY <2>2, <3>1, <3>2
  <2>8. sent' \in [Servers -> SUBSET written] /\ told' \in [Servers -> BOOLEAN]
    <3>1. told' \in [Servers -> BOOLEAN]
      BY <1>0, <2>2 DEF Shape
    <3>2. Unseen(s, m) \in SUBSET written /\ Unseen(s, m) \cup Owed(s, m) \in SUBSET written
      BY <2>1
    <3>3. sent \in [Servers -> SUBSET written]
      BY <1>0 DEF Shape
    <3>4. sent' \in [Servers -> SUBSET written]
      BY <2>2, <3>2, <3>3
    <3> QED BY <3>1, <3>4
  <2> QED BY <1>0, <2>1, <2>6, <2>7, <2>8 DEF DocInv, Shape
<1>6. ASSUME NEW s \in Servers, Reconcile(s) PROVE DocInv'
  <2>1. /\ chan' = [chan EXCEPT ![s] = Reconciled(chan[s], doc[s])]
        /\ UNCHANGED <<db, doc, told, sent, chores, inbox, syncs, saved, clearing, modes, faults, written>>
    BY <1>6 DEF Reconcile
  <2>2. chan[s] \in Known /\ chan[s] \in Channels /\ \A c \in doc[s] : IsChange(c)
    BY <1>0 DEF Shape, Known, Changes
  <2>3. /\ Reconciled(chan[s], doc[s]) \in Channels
        /\ Reconciled(chan[s], doc[s]).known = chan[s].known
        /\ ~ chan[s].known => Reconciled(chan[s], doc[s]) = chan[s]
    BY <2>2, ReconciledShape
  <2>4. Reconciled(chan[s], doc[s]) \in Known
    BY <2>2, <2>3 DEF Known
  <2>5. chan' \in [Servers -> Known]
    BY <1>0, <2>1, <2>4 DEF Shape
  <2> QED BY <1>0, <2>1, <2>5 DEF DocInv, Shape
<1>7. ASSUME LinkComesUp PROVE /\ inbox' \in [Servers -> Seq(Events)]
                               /\ DOMAIN syncs' = Servers /\ \A x \in Servers : IsPending(syncs'[x], written)
  <2>1. <<SyncRequest>> \in Seq(Events)
    BY EventsFormed
  <2>2. inbox' \in [Servers -> Seq(Events)]
    BY <1>7, <2>1 DEF LinkComesUp
  <2> QED BY <1>7, <2>2 DEF LinkComesUp, IsPending
<1>8. ASSUME NEW s \in Servers, Restart(s) PROVE DocInv'
  <2>1. /\ inbox' \in [Servers -> Seq(Events)]
        /\ DOMAIN syncs' = Servers /\ \A x \in Servers : IsPending(syncs'[x], written)
    BY <1>7, <1>8 DEF Restart
  <2>2. faults' \in 0 .. MaxFaults
    BY <1>0, <1>8 DEF Restart
  <2>3. chan' \in [Servers -> Known] /\ doc' \in [Servers -> SUBSET written]
        /\ told' \in [Servers -> BOOLEAN] /\ sent' \in [Servers -> SUBSET written]
        /\ chores' \in [Servers -> SUBSET Chores]
        /\ clearing' \subseteq Servers /\ \A x \in clearing' : saved'[x] = << >>
    BY <1>0, <1>8 DEF Restart, Shape
  <2>4. DOMAIN saved' = Servers /\ \A x \in Servers : IsSaved(saved'[x], written)
    BY <1>0, <1>8 DEF Restart, Shape, IsSaved
  <2> QED BY <1>0, <1>8, <2>1, <2>2, <2>3, <2>4 DEF Restart, DocInv, Shape
<1>9. ASSUME NEW s \in Servers, CompactSave(s) PROVE DocInv'
  <2>1. faults' \in 0 .. MaxFaults
    BY <1>0, <1>9 DEF CompactSave
  <2>2. IsSaved(<<doc[s]>>, written)
    BY <1>0 DEF Shape, IsSaved
  <2>3. DOMAIN saved' = Servers /\ \A x \in Servers : IsSaved(saved'[x], written)
    BY <1>0, <1>9, <2>2 DEF CompactSave, Shape
  <2>4. clearing' \subseteq Servers /\ \A x \in clearing' : saved'[x] = << >>
    BY <1>0, <1>9 DEF CompactSave, Shape
  <2> QED BY <1>0, <1>9, <2>1, <2>3, <2>4 DEF CompactSave, DocInv, Shape
<1>10. ASSUME NEW s \in Servers, CompactSwap(s) PROVE DocInv'
  <2>1. saved[s][1] \in SUBSET written
    BY <1>0, <1>10 DEF CompactSwap, Shape, IsSaved
  <2>2. doc' \in [Servers -> SUBSET written]
    BY <1>0, <1>10, <2>1 DEF CompactSwap, Shape
  <2>4. told' \in [Servers -> BOOLEAN]
    <3>1. (told[s] /\ doc[s] = saved[s][1]) \in BOOLEAN
      BY <1>0 DEF Shape
    <3> QED BY <1>0, <1>10, <3>1 DEF CompactSwap, Shape
  <2>5. clearing' \subseteq Servers /\ \A x \in clearing' : saved'[x] = << >>
    BY <1>0, <1>10 DEF CompactSwap, Shape
  <2>3. DOMAIN saved' = Servers /\ \A x \in Servers : IsSaved(saved'[x], written)
    BY <1>0, <1>10 DEF CompactSwap, Shape, IsSaved
  <2> QED BY <1>0, <1>10, <2>2, <2>3, <2>4, <2>5 DEF CompactSwap, DocInv, Shape
<1>14. ASSUME NEW s \in Servers, CompactClear(s) PROVE DocInv'
  <2>1. told' \in [Servers -> BOOLEAN] /\ sent' \in [Servers -> SUBSET written]
        /\ clearing' \subseteq Servers /\ \A x \in clearing' : saved'[x] = << >>
    BY <1>0, <1>14 DEF CompactClear, Shape
  <2> QED BY <1>0, <1>14, <2>1 DEF CompactClear, DocInv, Shape
<1>11. CASE Flap
  <2>1. /\ inbox' \in [Servers -> Seq(Events)]
        /\ DOMAIN syncs' = Servers /\ \A x \in Servers : IsPending(syncs'[x], written)
    BY <1>7, <1>11 DEF Flap
  <2>2. faults' \in 0 .. MaxFaults
    BY <1>0, <1>11 DEF Flap
  <2> QED BY <1>0, <1>11, <2>1, <2>2 DEF Flap, DocInv, Shape
<1>12. CASE UNCHANGED vars
  BY <1>0, <1>12 DEF vars, DocInv, Shape
<1> QED BY <1>0, <1>1, <1>2, <1>3, <1>4, <1>5, <1>6, <1>8, <1>9, <1>10, <1>11, <1>12, <1>13, <1>14, StepCases

\* The type invariant: the channel, the replicas and what is on its way between
\* them are well formed, every change is numbered after those it builds on, and
\* the bounds are kept, for any accounts, orders and number of faults.
THEOREM AuthorityTypeCorrect == Spec => []TypeOK
<1>1. DocInv => TypeOK
  <2> SUFFICES ASSUME DocInv PROVE TypeOK
    OBVIOUS
  <2>1. Shape
    BY DEF DocInv
  <2>2. chan \in [Servers -> Channels] /\ db \in [Servers -> Channels]
    BY <2>1 DEF Shape, Known
  <2>3. ASSUME NEW s \in Servers, NEW i \in DOMAIN syncs[s]
        PROVE  syncs[s][i].changes \subseteq written /\ syncs[s][i].heads \subseteq written
    <3>1. IsPending(syncs[s], written)
      BY <2>1 DEF Shape
    <3>2. i = 1
      BY <2>3, <3>1 DEF IsPending
    <3>3. syncs[s] # << >>
      BY <2>3
    <3> QED BY <3>1, <3>2, <3>3 DEF IsPending
  <2> QED BY <2>1, <2>2, <2>3 DEF Shape, TypeOK, Changes, Chores
<1> QED BY <1>1, DocInvInit, DocInvStep, PTL DEF Spec

-----------------------------------------------------------------------------
(***************************************************************************)
(* The document's sync.                                                    *)
(***************************************************************************)
\* Once an actor has given a number twice, it has.
LEMMA ForkedStays ==
  ASSUME written \subseteq written'
  PROVE  Forked => Forked'
BY DEF Forked

LEMMA SyncUntouched ==
  ASSUME SyncInv, written \subseteq written', UNCHANGED <<doc, told, sent, syncs, unheard>>
  PROVE  SyncInv'
<1>1. HeadsTrue'
  BY DEF SyncInv, HeadsTrue
<1>2. NothingOwed'
  BY ForkedStays DEF SyncInv, NothingOwed, HasSent
<1> QED BY <1>1, <1>2 DEF SyncInv

\* A server that has just sent its replica owes nothing, and what its message
\* says of the replica is so.
LEMMA SendKeepsSync ==
  ASSUME SyncInv, Shape, Shape', written \subseteq written', NEW s \in Servers,
         NEW m \in [changes : SUBSET written', heads : SUBSET written'],
         NEW q \in {syncs[s], << >>}, NEW told2 \in BOOLEAN, told2,
         syncs' = [syncs EXCEPT ![s] = q, ![Other(s)] = Add(syncs[Other(s)], m)],
         told' = [told EXCEPT ![s] = told2], unheard' = unheard \ {s},
         \A x \in Servers \ {s} : doc'[x] = doc[x] /\ sent'[x] = sent[x],
         m.heads = Ready(doc'[s]),
         ~ Forked' => HasSent(s)'
  PROVE  SyncInv'
<1> DEFINE p == Other(s)
<1>1. p \in Servers /\ p # s /\ Other(p) = s /\ \A x \in Servers : x = s \/ x = p
  BY OtherServer
<1>2. IsPending(syncs[p], written')
  BY <1>1, PendingGrows DEF Shape
<1>3. Add(syncs[p], m) # << >> /\ Add(syncs[p], m)[1].heads = m.heads
  BY <1>2, AddPending
<1>4. /\ syncs'[p] = Add(syncs[p], m) /\ syncs'[s] = q
      /\ told'[p] = told[p] /\ told'[s] /\ doc'[p] = doc[p] /\ sent'[p] = sent[p]
  BY <1>1 DEF Shape
<1> HIDE DEF p
<1>5. HeadsTrue'
  <2> SUFFICES ASSUME NEW x \in Servers, told'[Other(x)], syncs'[x] # << >>
               PROVE  syncs'[x][1].heads = Ready(doc'[Other(x)])
    BY DEF HeadsTrue
  <2>1. CASE x = s
    <3>1. syncs'[x] = syncs[x] /\ Other(x) = p
      BY <1>4, <2>1 DEF p
    <3> QED BY <1>4, <2>1, <3>1 DEF SyncInv, HeadsTrue
  <2>2. CASE x = p
    BY <1>1, <1>3, <1>4, <2>2
  <2> QED BY <1>1, <2>1, <2>2
<1>6. NothingOwed'
  <2>1. HasSent(p)'
    BY <1>3, <1>4 DEF HasSent
  <2> QED BY <1>1, <2>1 DEF NothingOwed
<1> QED BY <1>5, <1>6 DEF SyncInv

\* A replica grows: it is offered, or is known to have changed.
LEMMA WriteKeepsSync ==
  ASSUME DocInv, DocInv', SyncInv, NEW s \in Servers, NEW E, Extended(written, doc[s], E),
         doc' = [doc EXCEPT ![s] = E], written' = written \cup E,
         \/ Offer(s, E)
         \/ UNCHANGED <<syncs, sent, unheard>> /\ told' = [told EXCEPT ![s] = told[s] /\ E = doc[s]]
  PROVE  SyncInv'
<1> DEFINE p == Other(s)
<1>1. p \in Servers /\ p # s /\ Other(p) = s /\ \A x \in Servers : x = s \/ x = p
  BY OtherServer
<1>2. written \subseteq written' /\ E \subseteq written' /\ Shape /\ Shape'
  BY DEF DocInv
<1>3. CASE E = doc[s] /\ told[s]
  <2>1. doc' = doc
    BY <1>2, <1>3 DEF Shape
  <2>2. told[s] = TRUE /\ told \in [Servers -> BOOLEAN]
    BY <1>2, <1>3 DEF Shape
  <2>3. CASE Offer(s, E)
    <3>1. UNCHANGED <<syncs, told, sent, unheard>>
      BY <1>3, <2>3 DEF Offer
    <3> QED BY <1>2, <2>1, <3>1, SyncUntouched
  <2>4. CASE UNCHANGED <<syncs, sent, unheard>> /\ told' = [told EXCEPT ![s] = told[s] /\ E = doc[s]]
    <3>1. told' = [told EXCEPT ![s] = TRUE]
      BY <1>3, <2>2, <2>4
    <3>2. told' = told
      BY <2>2, <3>1
    <3> QED BY <1>2, <2>1, <2>4, <3>2, SyncUntouched
  <2> QED BY <2>3, <2>4
<1>4. CASE /\ UNCHANGED <<syncs, sent, unheard>> /\ told' = [told EXCEPT ![s] = told[s] /\ E = doc[s]]
           /\ ~ (E = doc[s] /\ told[s])
  <2>1. ~ told'[s] /\ told'[p] = told[p] /\ doc'[p] = doc[p]
    BY <1>1, <1>2, <1>4 DEF Shape
  <2> HIDE DEF p
  <2>2. HeadsTrue'
    <3> SUFFICES ASSUME NEW x \in Servers, told'[Other(x)], syncs'[x] # << >>
                 PROVE  syncs'[x][1].heads = Ready(doc'[Other(x)])
      BY DEF HeadsTrue
    <3>1. x = s
      BY <1>1, <2>1
    <3> QED BY <1>4, <2>1, <3>1 DEF SyncInv, HeadsTrue, p
  <2>3. \A x \in Servers : HasSent(x)'
    BY <1>1, <2>1 DEF HasSent, p
  <2> QED BY <2>2, <2>3 DEF SyncInv, NothingOwed
<1>5. CASE Offer(s, E) /\ ~ (E = doc[s] /\ told[s])
  <2> DEFINE m == Message(s, E)
  <2>1. /\ syncs' = [syncs EXCEPT ![p] = Add(syncs[p], m)]
        /\ told' = [told EXCEPT ![s] = TRUE]
        /\ sent' = [sent EXCEPT ![s] = sent[s] \cup Ready(E)]
        /\ unheard' = unheard \ {s}
    BY <1>5 DEF Offer
  <2>2. Ready(E) \subseteq written'
    BY <1>2, ReadyGrows
  <2>3. m \in [changes : SUBSET written', heads : SUBSET written'] /\ m.heads = Ready(E)
    BY <2>2 DEF Message
  <2> HIDE DEF m
  <2>4. syncs' = [syncs EXCEPT ![s] = syncs[s], ![p] = Add(syncs[p], m)]
    BY <1>1, <1>2, <2>1 DEF Shape
  <2>5. /\ \A x \in Servers \ {s} : doc'[x] = doc[x] /\ sent'[x] = sent[x]
        /\ doc'[s] = E /\ sent'[s] = sent[s] \cup Ready(E)
    BY <1>2, <2>1 DEF Shape
  <2>6. HasSent(s)'
    BY <2>5 DEF HasSent
  <2> QED BY <1>2, <2>1, <2>3, <2>4, <2>5, <2>6, SendKeepsSync
<1> QED BY <1>3, <1>4, <1>5

LEMMA SyncInvInit == Init => SyncInv
BY OtherServer DEF Init, SyncInv, HeadsTrue, NothingOwed, HasSent, Ready

LEMMA SyncInvStep ==
  ASSUME DocInv, DocInv', SyncInv, [Next]_vars
  PROVE  SyncInv'
<1>0. Shape /\ Shape'
  BY AccountsAssumption DEF DocInv, Shape
<1>1. ASSUME NEW s \in Servers, NEW ch \in Known, NEW tasks \in SUBSET Chores, Opened(s, ch, tasks)
      PROVE  SyncInv'
  BY <1>1, SyncUntouched DEF Opened
<1>12. ASSUME NEW d \in Dids, JoinWithRole(d) PROVE SyncInv'
  BY <1>12, SyncUntouched DEF JoinWithRole
<1>2. ASSUME NEW by \in Dids, NEW d \in Dids, Ordered(by, d) PROVE SyncInv'
  BY <1>2, SyncUntouched DEF Ordered, SetMode
<1>3. ASSUME NEW s \in Servers, NEW chore \in chores[s], DoChore(s, chore) PROVE SyncInv'
  <2> DEFINE E == ChoreDoc(s, chore)
  <2>1. /\ Extended(written, doc[s], E)
        /\ doc' = [doc EXCEPT ![s] = E] /\ written' = written \cup E
        /\ \/ Offer(s, E)
           \/ UNCHANGED <<syncs, sent, unheard>> /\ told' = [told EXCEPT ![s] = told[s] /\ E = doc[s]]
    BY <1>3, ChoreEffect
  <2> HIDE DEF E
  <2> QED BY <2>1, WriteKeepsSync
<1>4. ASSUME NEW s \in Servers, Process(s) PROVE SyncInv'
  <2> DEFINE ev == Head(inbox[s])
             E == EventDoc(s, ev)
  <2>1. /\ Extended(written, doc[s], E)
        /\ doc' = [doc EXCEPT ![s] = E] /\ written' = written \cup E
        /\ \/ Offer(s, E)
           \/ UNCHANGED <<syncs, sent, unheard>> /\ told' = [told EXCEPT ![s] = told[s] /\ E = doc[s]]
    BY <1>4, ProcessEffect
  <2> HIDE DEF E
  <2> QED BY <2>1, WriteKeepsSync
<1>5. ASSUME NEW s \in Servers, ReceiveSync(s) PROVE SyncInv'
  <2> DEFINE m == syncs[s][1]
             D == doc[s] \cup m.changes
             p == Other(s)
  <2>1. /\ syncs[s] # << >> /\ m \in [changes : SUBSET written, heads : SUBSET written]
        /\ Reply(s, m) \in [changes : SUBSET written, heads : SUBSET written]
        /\ written' = written
    BY <1>0, <1>5, ReceiveEffect
  <2>2. p \in Servers /\ p # s /\ Other(p) = s /\ \A x \in Servers : x = s \/ x = p
    BY OtherServer
  <2>3. told[p] => m.heads = Ready(doc[p])
    BY <2>1 DEF SyncInv, HeadsTrue
  <2>4. Ready(doc[p]) \subseteq doc[p]
    BY ReadyGrows
  <2>5. CASE Clash(doc[s], m.changes)
             /\ syncs' = [syncs EXCEPT ![s] = << >>] /\ UNCHANGED <<doc, told, sent, unheard>>
    <3>1. Forked'
      <4>1. doc[s] \subseteq written /\ m.changes \subseteq written
        BY <1>0, <2>1 DEF Shape
      <4> HIDE DEF m
      <4> QED BY <2>1, <2>5, <4>1 DEF Clash, Forked
    <3>2. HeadsTrue'
      BY <1>0, <2>5 DEF SyncInv, HeadsTrue, Shape
    <3> QED BY <3>1, <3>2 DEF SyncInv, NothingOwed
  <2>6. CASE /\ D = doc[s] /\ Owed(s, m) = {}
             /\ syncs' = [syncs EXCEPT ![s] = << >>] /\ sent' = [sent EXCEPT ![s] = Unseen(s, m)]
             /\ UNCHANGED <<doc, told, unheard>>
    <3>1. HeadsTrue'
      BY <1>0, <2>6 DEF SyncInv, HeadsTrue, Shape
    <3>2. sent'[s] = Unseen(s, m) /\ sent'[p] = sent[p] /\ syncs'[p] = syncs[p]
      BY <1>0, <2>2, <2>6 DEF Shape
    <3>3. HasSent(s)'
      <4>1. Ready(doc[s]) \subseteq m.heads \cup Unseen(s, m)
        <5> HIDE DEF m
        <5> QED BY <2>6 DEF Owed
      <4> HIDE DEF m, p
      <4>2. told[p] => Ready(doc[s]) \subseteq Unseen(s, m) \cup doc[p]
        BY <2>3, <2>4, <4>1
      <4> QED BY <2>6, <3>2, <4>2 DEF HasSent, p
    <3>4. HasSent(p) => HasSent(p)'
      <4> HIDE DEF m, p
      <4> QED BY <2>6, <3>2, <2>2 DEF HasSent
    <3>5. Forked => Forked'
      BY <2>1, ForkedStays
    <3> HIDE DEF m, p
    <3> QED BY <2>2, <3>1, <3>3, <3>4, <3>5 DEF SyncInv, NothingOwed
  <2>7. CASE /\ doc' = [doc EXCEPT ![s] = D]
             /\ syncs' = [syncs EXCEPT ![s] = << >>, ![p] = Add(syncs[p], Reply(s, m))]
             /\ sent' = [sent EXCEPT ![s] = Unseen(s, m) \cup Owed(s, m)]
             /\ told' = [told EXCEPT ![s] = TRUE] /\ unheard' = unheard \ {s}
    <3> HIDE DEF m
    <3>1. Reply(s, m).heads = Ready(D)
      BY DEF Reply
    <3>2. /\ \A x \in Servers \ {s} : doc'[x] = doc[x] /\ sent'[x] = sent[x]
          /\ doc'[s] = D /\ sent'[s] = Unseen(s, m) \cup Owed(s, m)
      <4> HIDE DEF D
      <4> QED BY <1>0, <2>7 DEF Shape
    <3>3. Ready(D) \subseteq m.heads \cup (Unseen(s, m) \cup Owed(s, m))
      BY DEF Owed
    <3> HIDE DEF D
    <3>4. told'[p] = told[p] /\ doc'[p] = doc[p]
      BY <1>0, <2>2, <2>7, <3>2 DEF Shape
    <3>5. HasSent(s)'
      <4> HIDE DEF p
      <4>1. told[p] => Ready(D) \subseteq (Unseen(s, m) \cup Owed(s, m)) \cup doc[p]
        BY <2>3, <2>4, <3>3
      <4> QED BY <3>2, <3>4, <4>1 DEF HasSent, p
    <3>6. /\ written \subseteq written'
          /\ Reply(s, m) \in [changes : SUBSET written', heads : SUBSET written']
      BY <2>1
    <3> QED BY <1>0, <2>7, <3>1, <3>2, <3>5, <3>6, SendKeepsSync
  <2> QED BY <1>0, <1>5, <2>5, <2>6, <2>7, ReceiveEffect
<1>6. ASSUME NEW s \in Servers, Reconcile(s) PROVE SyncInv'
  BY <1>6, SyncUntouched DEF Reconcile
<1>7. ASSUME NEW s \in Servers, Restart(s) PROVE SyncInv'
  <2>1. ~ told'[s] /\ \A x \in Servers : syncs'[x] = << >>
    BY <1>0, <1>7 DEF Restart, LinkComesUp, Shape
  <2>2. \A x \in Servers : x = s \/ Other(x) = s
    BY OtherServer
  <2> QED BY <2>1, <2>2 DEF SyncInv, HeadsTrue, NothingOwed, HasSent
<1>8. ASSUME NEW s \in Servers, CompactSave(s) PROVE SyncInv'
  BY <1>8, SyncUntouched DEF CompactSave
<1>9. ASSUME NEW s \in Servers, ~ told'[s], UNCHANGED syncs,
             \A x \in Servers \ {s} : doc'[x] = doc[x] /\ told'[x] = told[x]
      PROVE  SyncInv'
  <2>1. \A x \in Servers : Other(x) \in Servers /\ (x = s \/ Other(x) = s)
    BY OtherServer
  <2>2. HeadsTrue'
    <3> SUFFICES ASSUME NEW x \in Servers, told'[Other(x)], syncs'[x] # << >>
                 PROVE  syncs'[x][1].heads = Ready(doc'[Other(x)])
      BY DEF HeadsTrue
    <3>1. Other(x) # s /\ Other(x) \in Servers
      BY <1>9, <2>1
    <3> QED BY <1>9, <3>1 DEF SyncInv, HeadsTrue
  <2>3. \A x \in Servers : HasSent(x)'
    BY <1>9, <2>1 DEF HasSent
  <2> QED BY <2>2, <2>3 DEF SyncInv, NothingOwed
<1>13. ASSUME NEW s \in Servers, CompactSwap(s) PROVE SyncInv'
  <2>1. CASE told[s] /\ doc[s] = saved[s][1]
    <3>0. /\ doc' = [doc EXCEPT ![s] = saved[s][1]]
          /\ told' = [told EXCEPT ![s] = told[s] /\ doc[s] = saved[s][1]]
      BY <1>13 DEF CompactSwap
    <3>2. told \in [Servers -> BOOLEAN] /\ told[s] = TRUE /\ DOMAIN doc = Servers
      BY <1>0, <2>1 DEF Shape
    <3>3. told' = [told EXCEPT ![s] = TRUE]
      BY <2>1, <3>0, <3>2
    <3>4. told' = told
      BY <3>2, <3>3
    <3>5. doc \in [Servers -> SUBSET written]
      BY <1>0 DEF Shape
    <3>6. doc' = doc
      BY <2>1, <3>0, <3>5
    <3>1. doc' = doc /\ told' = told
      BY <3>4, <3>6
    <3> QED BY <1>13, <3>1, SyncUntouched DEF CompactSwap
  <2>2. CASE ~ (told[s] /\ doc[s] = saved[s][1])
    <3>1. ~ told'[s] /\ UNCHANGED syncs
          /\ \A x \in Servers \ {s} : doc'[x] = doc[x] /\ told'[x] = told[x]
      BY <1>0, <1>13, <2>2 DEF CompactSwap, Shape
    <3> QED BY <1>9, <3>1
  <2> QED BY <2>1, <2>2
<1>14. ASSUME NEW s \in Servers, CompactClear(s) PROVE SyncInv'
  <2>1. ~ told'[s] /\ UNCHANGED syncs
        /\ \A x \in Servers \ {s} : doc'[x] = doc[x] /\ told'[x] = told[x]
    BY <1>0, <1>14 DEF CompactClear, Shape
  <2> QED BY <1>9, <2>1
<1>10. CASE Flap
  <2>1. /\ \A x \in Servers : syncs'[x] = << >>
        /\ unheard' = unheard \cup {x \in Servers : syncs[Other(x)] # << >>}
        /\ UNCHANGED <<doc, told, sent, written>>
    BY <1>10 DEF Flap, LinkComesUp
  <2>2. \A x \in Servers : HasSent(x) => HasSent(x)'
    <3> SUFFICES ASSUME NEW x \in Servers, HasSent(x), Other(x) \notin unheard' PROVE HasSent(x)'
      BY DEF HasSent
    <3>1. Other(x) \in Servers /\ Other(Other(x)) = x
      BY OtherServer
    <3>2. Other(x) \notin unheard /\ syncs[x] = << >>
      BY <2>1, <3>1
    <3> QED BY <2>1, <3>2 DEF HasSent
  <2>3. HeadsTrue'
    BY <2>1 DEF HeadsTrue
  <2>4. Forked => Forked'
    BY <2>1, ForkedStays
  <2> QED BY <2>2, <2>3, <2>4 DEF SyncInv, NothingOwed
<1>11. CASE UNCHANGED vars
  BY <1>11, SyncUntouched DEF vars
<1> QED BY <1>0, <1>1, <1>2, <1>3, <1>4, <1>5, <1>6, <1>7, <1>8, <1>10, <1>11, <1>12, <1>13, <1>14, StepCases

\* With the sync at rest the replicas have the same changes ready.
LEMMA RestMeansAlike ==
  ASSUME DocInv, SyncInv, ~ Forked, ~ Stranded, unheard = {},
         \A s \in Servers : told[s] /\ syncs[s] = << >>
  PROVE  Alike
<1>1. ASSUME NEW s \in Servers PROVE Ready(doc[s]) \subseteq doc[Other(s)]
  <2>1. Other(s) \in Servers
    BY OtherServer
  <2>2. Ready(doc[s]) \subseteq sent[s] \cup doc[Other(s)]
    BY <2>1 DEF SyncInv, NothingOwed, HasSent
  <2> QED BY <2>2 DEF Stranded
<1>2. Closed(written)
  <2>1. ~ Twice(written)
    BY DEF Forked, Twice
  <2> QED BY <2>1 DEF DocInv, History
<1>3. ASSUME NEW s \in Servers, NEW c \in Ready(doc[s]) PROVE c \in Ready(doc[Other(s)])
  <2>1. doc[s] \subseteq written
    BY DEF DocInv, Shape
  <2>2. \A id \in c.deps : \E e \in Ready(doc[s]) : Id(e) = id
    BY <1>2, <2>1, ReadyClosed
  <2>3. c \in doc[Other(s)] /\ \A id \in c.deps : \E e \in doc[Other(s)] : Id(e) = id
    BY <1>1, <2>2
  <2> QED BY <2>3 DEF Ready
<1>4. \A s \in Servers : Ready(doc[s]) = Ready(doc[Other(s)])
  <2> TAKE s \in Servers
  <2>1. Other(s) \in Servers /\ Other(Other(s)) = s
    BY OtherServer
  <2>2. Ready(doc[s]) \subseteq Ready(doc[Other(s)])
    BY <1>3
  <2>3. Ready(doc[Other(s)]) \subseteq Ready(doc[Other(Other(s))])
    BY <1>3, <2>1
  <2> QED BY <2>1, <2>2, <2>3
<1> QED BY <1>4, OtherServer DEF Alike

-----------------------------------------------------------------------------
(***************************************************************************)
(* Events and snapshots.                                                   *)
(***************************************************************************)
LEMMA WaitingAppended ==
  ASSUME Shape, NEW p \in Servers, NEW ev \in Events,
         inbox' = [inbox EXCEPT ![p] = Append(inbox[p], ev)]
  PROVE  /\ Waiting(p)' = Waiting(p) \cup {ev}
         /\ \A x \in Servers : Waiting(x) \subseteq Waiting(x)'
         /\ \A x \in Servers \ {p} : Waiting(x)' = Waiting(x) /\ inbox'[x] = inbox[x]
<1>1. inbox[p] \in Seq(Events) /\ inbox'[p] = Append(inbox[p], ev)
      /\ \A x \in Servers \ {p} : inbox'[x] = inbox[x]
  BY DEF Shape
<1>2. Items(Append(inbox[p], ev)) = Items(inbox[p]) \cup {ev}
  BY <1>1, ItemsOfAppend
<1>3. Waiting(p)' = Waiting(p) \cup {ev}
  BY <1>1, <1>2 DEF Waiting
<1>4. \A x \in Servers \ {p} : Waiting(x)' = Waiting(x)
  BY <1>1 DEF Waiting
<1> QED BY <1>1, <1>3, <1>4

LEMMA WaitingProcessed ==
  ASSUME DocInv, NEW s \in Servers, Process(s)
  PROVE  LET ev == Head(inbox[s])
             p == Other(s) IN
         /\ Waiting(s) = Waiting(s)' \cup {ev}
         /\ Waiting(p) \subseteq Waiting(p)'
         /\ ev.kind = "request" => SyncResponse(chan[s]) \in Waiting(p)'
         /\ \A e \in Waiting(p)' : e \in Waiting(p) \/ e = SyncResponse(chan[s])
<1> DEFINE ev == Head(inbox[s])
           p == Other(s)
<1>1. p \in Servers /\ p # s /\ inbox \in [Servers -> Seq(Events)] /\ inbox[s] # << >>
  BY OtherServer, ProcessEffect DEF DocInv, Shape
<1>2. Items(inbox[s]) = Items(Tail(inbox[s])) \cup {ev}
  BY <1>1, ItemsOfTail
<1>3. SyncResponse(chan[s]) \in Events
  BY EventsFormed DEF DocInv, Shape
<1>4. Items(Append(inbox[p], SyncResponse(chan[s]))) = Items(inbox[p]) \cup {SyncResponse(chan[s])}
  BY <1>1, <1>3, ItemsOfAppend
<1>5. \/ /\ ev.kind = "request"
         /\ inbox' = [inbox EXCEPT ![s] = Tail(inbox[s]), ![p] = Append(inbox[p], SyncResponse(chan[s]))]
      \/ /\ ev.kind # "request"
         /\ inbox' = [inbox EXCEPT ![s] = Tail(inbox[s])]
  BY ProcessEffect
<1> HIDE DEF ev, p
<1>6. inbox'[s] = Tail(inbox[s])
      /\ \/ ev.kind = "request" /\ inbox'[p] = Append(inbox[p], SyncResponse(chan[s]))
         \/ ev.kind # "request" /\ inbox'[p] = inbox[p]
  BY <1>1, <1>5
<1> QED BY <1>2, <1>4, <1>6 DEF Waiting, ev, p

LEMMA WaitingAfresh ==
  ASSUME LinkComesUp, NEW x \in Servers
  PROVE  inbox'[x] = <<SyncRequest>> /\ Waiting(x)' = {SyncRequest} /\ Asked(x)'
         /\ Names(SyncRequest) = {} /\ SyncRequest.kind = "request" /\ SyncRequest.ch = NoChannel
<1>1. inbox'[x] = <<SyncRequest>>
  BY DEF LinkComesUp
<1>2. Items(<<SyncRequest>>) = {SyncRequest}
  BY EventsFormed, ItemsOfFew
<1>3. SyncRequest.kind = "request" /\ SyncRequest.ch = NoChannel
  BY DEF SyncRequest, Event
<1>4. Names(SyncRequest) = {}
  BY <1>3 DEF Names, NoChannel
<1> QED BY <1>1, <1>2, <1>3, <1>4 DEF Waiting, Asked

\* What was true of an event stays true as its sender learns more.
LEMMA TruthfulStays ==
  ASSUME Truthful, revoked \subseteq revoked',
         \A x \in Servers : /\ chan[x].known => chan'[x].known
                            /\ chan[x].ops \subseteq chan'[x].ops \cup revoked'
                            /\ db'[x].known => chan'[x].known
                            /\ \A ev \in Waiting(x)' : ev \in Waiting(x) \/ Fits(x, ev)'
  PROVE  Truthful'
<1> SUFFICES ASSUME NEW x \in Servers, NEW ev \in Waiting(x), ev \in Waiting(x)'
             PROVE  Fits(x, ev)'
  BY DEF Truthful
<1>1. Fits(x, ev) /\ Other(x) \in Servers
  BY OtherServer DEF Truthful
<1> QED BY <1>1 DEF Fits

LEMMA EventInvInit == Init => EventInv
<1> SUFFICES ASSUME Init PROVE EventInv
  OBVIOUS
<1>1. \A s \in Servers : Waiting(s) = {} /\ ~ chan[s].known /\ ~ db[s].known /\ chores[s] = {}
  BY ItemsOfEmpty DEF Init, Waiting, NoChannel
<1>2. written = {}
  BY DEF Init
<1> QED BY <1>1, <1>2 DEF EventInv, Truthful, KnownSpreads

\* The lists and the queues are as before, or have grown.
LEMMA KnownStays ==
  ASSUME KnownSpreads, UNCHANGED <<chan, db>>,
         \A x \in Servers : Waiting(x) \subseteq Waiting(x)' /\ chores'[x] \subseteq chores[x],
         written' = written \/ \E x \in Servers : chores[x] # {}
  PROVE  KnownSpreads'
<1>1. \A s \in Servers : Other(s) \in Servers
  BY OtherServer
<1>2. ASSUME NEW s \in Servers, chan'[s].known
      PROVE  chan'[Other(s)].known \/ Asked(s)' \/ \E ev \in Waiting(Other(s))' : ev.ch.known
  <2>1. chan[Other(s)].known \/ Asked(s) \/ \E ev \in Waiting(Other(s)) : ev.ch.known
    BY <1>2 DEF KnownSpreads
  <2> QED BY <1>1, <2>1 DEF Asked
<1> QED BY <1>2 DEF KnownSpreads

LEMMA EventInvStep ==
  ASSUME DocInv, EventInv, [Next]_vars
  PROVE  EventInv'
<1>0. Shape /\ Truthful /\ KnownSpreads
  BY AccountsAssumption DEF DocInv, Shape, EventInv
<1>1. ASSUME NEW s \in Servers, NEW ch \in Known, NEW tasks \in SUBSET Chores, Opened(s, ch, tasks)
      PROVE  EventInv'
  <2> DEFINE ev == Created(ch)
             p == Other(s)
  <2>1. /\ p \in Servers /\ ev \in Events
        /\ ch.known /\ Names(ev) = ch.ops /\ ev.kind = "created" /\ ev.ch = ch
        /\ ~ chan[s].known
        /\ chan' = [chan EXCEPT ![s] = ch] /\ db' = [db EXCEPT ![s] = ch]
        /\ inbox' = [inbox EXCEPT ![p] = Append(inbox[p], ev)]
        /\ UNCHANGED <<written, revoked>>
    BY <1>1 DEF Opened
  <2>2. p # s /\ Other(p) = s /\ \A x \in Servers : x = s \/ x = p
    BY <2>1, OtherServer
  <2> HIDE DEF ev, p
  <2>3. /\ Waiting(p)' = Waiting(p) \cup {ev}
        /\ \A x \in Servers : Waiting(x) \subseteq Waiting(x)'
        /\ \A x \in Servers \ {p} : Waiting(x)' = Waiting(x)
    BY <1>0, <2>1, WaitingAppended
  <2>4. chan'[s] = ch /\ db'[s] = ch /\ chan'[p] = chan[p] /\ db'[p] = db[p]
    BY <1>0, <2>1, <2>2 DEF Shape
  <2>5. chan[s].ops = {}
    BY <1>0, <2>1 DEF Shape, Known, NoChannel
  <2>6. Fits(p, ev)'
    BY <2>1, <2>2, <2>4 DEF Fits
  <2>7. Truthful'
    <3>1. ASSUME NEW x \in Servers
          PROVE  /\ chan[x].known => chan'[x].known
                 /\ chan[x].ops \subseteq chan'[x].ops \cup revoked'
                 /\ db'[x].known => chan'[x].known
      BY <1>0, <2>1, <2>2, <2>4, <2>5 DEF Truthful
    <3>2. ASSUME NEW x \in Servers, NEW e \in Waiting(x)' PROVE e \in Waiting(x) \/ Fits(x, e)'
      BY <2>2, <2>3, <2>6
    <3> QED BY <1>0, <2>1, <3>1, <3>2, TruthfulStays
  <2>8. KnownSpreads'
    <3>1. \E e \in Waiting(p)' : e.ch.known
      BY <2>1, <2>3
    <3>2. Other(s) = p
      BY DEF p
    <3> QED BY <2>1, <2>2, <2>4, <3>1, <3>2 DEF KnownSpreads
  <2> QED BY <2>7, <2>8 DEF EventInv
<1>12. ASSUME NEW d \in Dids, JoinWithRole(d) PROVE EventInv'
  <2> DEFINE s == Home[d]
             new == [chan[s] EXCEPT !.ops = chan[s].ops \cup {d}]
  <2>1. s \in Servers /\ chan' = [chan EXCEPT ![s] = new]
        /\ UNCHANGED <<db, chores, inbox, written, revoked>>
    BY <1>12, AccountsAssumption DEF JoinWithRole
  <2>2. new.known = chan[s].known /\ chan[s].ops \subseteq new.ops
    BY <1>0, <2>1 DEF Shape, Known, Channels
  <2> HIDE DEF s, new
  <2>3. \A x \in Servers : /\ chan'[x].known = chan[x].known /\ chan[x].ops \subseteq chan'[x].ops
                           /\ Waiting(x)' = Waiting(x)
    BY <1>0, <2>1, <2>2 DEF Shape, Waiting
  <2>4. Truthful'
    BY <1>0, <2>1, <2>3, TruthfulStays DEF Truthful
  <2>5. KnownSpreads'
    BY <1>0, <2>1, <2>3, OtherServer DEF KnownSpreads, Asked
  <2> QED BY <2>4, <2>5 DEF EventInv
<1>2. ASSUME NEW by \in Dids, NEW d \in Dids, Ordered(by, d) PROVE EventInv'
  <2> DEFINE s == Home[by]
             ch == chan'[s]
             p == Other(s)
  <2>0. PICK ev \in Events, task \in Chores : ModeDone(by, d, ev, task)
    BY <1>0, <1>2, ModeEffect
  <2>1. /\ s \in Servers /\ p \in Servers
        /\ chan[s].known /\ ch \in Known /\ ch.known
        /\ ev.add => ch.ops = chan[s].ops \cup {d}
        /\ chan[s].ops \ {d} \subseteq ch.ops
        /\ ev.kind = "mode" /\ ev.did = d /\ ev.ch = NoChannel /\ Names(ev) = {d}
        /\ chan' = [chan EXCEPT ![s] = ch] /\ db' = [db EXCEPT ![s] = ch]
        /\ inbox' = [inbox EXCEPT ![p] = Append(inbox[p], ev)]
        /\ revoked' = IF ev.add THEN revoked ELSE revoked \cup {d}
        /\ UNCHANGED written
    BY <2>0 DEF ModeDone
  <2>2. p # s /\ Other(p) = s /\ \A x \in Servers : x = s \/ x = p
    BY <2>1, OtherServer
  <2> HIDE DEF s, ch, p
  <2>3. /\ Waiting(p)' = Waiting(p) \cup {ev}
        /\ \A x \in Servers : Waiting(x) \subseteq Waiting(x)'
        /\ \A x \in Servers \ {p} : Waiting(x)' = Waiting(x)
    BY <1>0, <2>1, WaitingAppended
  <2>4. chan'[s] = ch /\ db'[s] = ch /\ chan'[p] = chan[p] /\ db'[p] = db[p]
    BY <1>0, <2>1, <2>2 DEF Shape
  <2>5. ~ NoChannel.known
    BY DEF NoChannel
  <2>6. Fits(p, ev)'
    BY <2>1, <2>2, <2>4, <2>5 DEF Fits
  <2>7. Truthful'
    <3>1. ASSUME NEW x \in Servers
          PROVE  /\ chan[x].known => chan'[x].known
                 /\ chan[x].ops \subseteq chan'[x].ops \cup revoked'
                 /\ db'[x].known => chan'[x].known
      BY <1>0, <2>1, <2>2, <2>4 DEF Truthful
    <3>2. ASSUME NEW x \in Servers, NEW e \in Waiting(x)' PROVE e \in Waiting(x) \/ Fits(x, e)'
      BY <2>2, <2>3, <2>6
    <3>3. revoked \subseteq revoked'
      BY <2>1
    <3> QED BY <1>0, <3>1, <3>2, <3>3, TruthfulStays
  <2>8. KnownSpreads'
    <3>1. ASSUME NEW x \in Servers, chan'[x].known
          PROVE  chan'[Other(x)].known \/ Asked(x)' \/ \E e \in Waiting(Other(x))' : e.ch.known
      <4>1. chan[x].known /\ Other(x) \in Servers
        BY <2>1, <2>2, <2>4, <3>1, OtherServer
      <4>2. chan[Other(x)].known => chan'[Other(x)].known
        BY <2>1, <2>2, <2>4, <4>1
      <4> QED BY <1>0, <2>3, <4>1, <4>2 DEF KnownSpreads, Asked
    <3> QED BY <2>1, <2>4, <3>1 DEF KnownSpreads
  <2> QED BY <2>7, <2>8 DEF EventInv
<1>3. ASSUME NEW s \in Servers, NEW chore \in chores[s], DoChore(s, chore) PROVE EventInv'
  <2>1. /\ chores' = [chores EXCEPT ![s] = chores[s] \ {chore}]
        /\ UNCHANGED <<chan, db, inbox, revoked>>
    BY <1>3, ChoreEffect
  <2>2. \A x \in Servers : Waiting(x)' = Waiting(x) /\ chores'[x] \subseteq chores[x]
    BY <1>0, <2>1 DEF Waiting, Shape
  <2>3. Truthful'
    BY <1>0, <2>1, <2>2, TruthfulStays DEF Truthful
  <2>4. KnownSpreads'
    BY <1>0, <2>1, <2>2, KnownStays
  <2> QED BY <2>3, <2>4 DEF EventInv
<1>4. ASSUME NEW s \in Servers, Process(s) PROVE EventInv'
  <2> DEFINE ev == Head(inbox[s])
             E == EventDoc(s, ev)
             p == Other(s)
             new == chan'[s]
  <2>1. /\ ev \in Events /\ chan' = [chan EXCEPT ![s] = new] /\ written' = written \cup E
        /\ UNCHANGED <<db, chores, revoked>>
    BY <1>4, ProcessEffect
  <2>2. p \in Servers /\ p # s /\ Other(p) = s /\ \A x \in Servers : x = s \/ x = p
    BY OtherServer
  <2>5. PICK resp \in Events :
          /\ resp = SyncResponse(chan[s])
          /\ resp.kind = "response" /\ resp.ch = chan[s] /\ Names(resp) = chan[s].ops
    <3>1. SyncResponse(chan[s]) \in Events
      BY <1>0, EventsFormed DEF Shape
    <3> QED BY <3>1 DEF SyncResponse, Event, Names
  <2>3. /\ Waiting(s) = Waiting(s)' \cup {ev}
        /\ Waiting(p) \subseteq Waiting(p)'
        /\ ev.kind = "request" => resp \in Waiting(p)'
        /\ \A e \in Waiting(p)' : e \in Waiting(p) \/ e = resp
    BY <1>4, <2>5, WaitingProcessed
  <2>4. /\ chan[s].known => new.known
        /\ new.known => chan[s].known \/ ev.ch.known
        /\ ev.ch.known => new.known
        /\ \A d \in chan[s].ops : d \in new.ops \/ (ev.kind = "mode" /\ ~ ev.add /\ ev.did = d)
    BY <1>4, ProcessEffect DEF Heard
  <2>6. ev.kind = "created" => ev.ch.known
    <3> HIDE DEF ev
    <3> QED BY <2>1 DEF Events, IsEvent
  <2>7. ev.kind # "created" => E = doc[s]
    BY DEF EventDoc
  <2> HIDE DEF ev, E, p, new
  <2>8. chan'[s] = new /\ chan'[p] = chan[p]
    BY <1>0, <2>1, <2>2 DEF Shape
  <2>9. Fits(s, ev)
    BY <1>0, <2>3 DEF Truthful
  <2>10. Other(s) = p
    BY DEF p
  <2>11. chan[s].ops \subseteq new.ops \cup revoked
    BY <2>4, <2>9 DEF Fits
  <2>12. Truthful'
    <3>1. Fits(p, resp)'
      BY <2>1, <2>2, <2>4, <2>5, <2>8, <2>11 DEF Fits
    <3>2. ASSUME NEW x \in Servers
          PROVE  /\ chan[x].known => chan'[x].known
                 /\ chan[x].ops \subseteq chan'[x].ops \cup revoked'
                 /\ db'[x].known => chan'[x].known
      BY <1>0, <2>1, <2>2, <2>4, <2>8, <2>11 DEF Truthful
    <3>3. ASSUME NEW x \in Servers, NEW e \in Waiting(x)' PROVE e \in Waiting(x) \/ Fits(x, e)'
      BY <2>2, <2>3, <3>1
    <3> QED BY <1>0, <2>1, <3>2, <3>3, TruthfulStays
  <2>13. chan'[s].known => chan'[p].known \/ Asked(s)' \/ \E e \in Waiting(p)' : e.ch.known
    <3>1. CASE ev.ch.known
      BY <2>8, <2>9, <2>10, <3>1 DEF Fits
    <3>2. CASE chan[s].known
      <4>1. CASE Asked(s)
        BY <2>3, <2>5, <3>2, <4>1 DEF Asked
      <4>2. CASE ~ Asked(s)
        BY <1>0, <2>3, <2>8, <2>10, <3>2, <4>2 DEF KnownSpreads
      <4> QED BY <4>1, <4>2
    <3> QED BY <2>4, <2>8, <3>1, <3>2
  <2>14. chan'[p].known => chan'[s].known \/ Asked(p)' \/ \E e \in Waiting(s)' : e.ch.known
    <3>1. chan[p].known => chan[s].known \/ Asked(p) \/ \E e \in Waiting(s) : e.ch.known
      BY <1>0, <2>2 DEF KnownSpreads
    <3>2. Asked(p) => Asked(p)'
      BY <2>3 DEF Asked
    <3> QED BY <2>3, <2>4, <2>8, <3>1, <3>2
  <2>15. \/ \E x \in Servers : db'[x].known
         \/ written' = {} /\ \A x \in Servers : chores'[x] = {} /\ ~ chan'[x].known
    <3>1. CASE \E x \in Servers : db[x].known
      BY <2>1, <3>1
    <3>2. CASE written = {} /\ \A x \in Servers : chores[x] = {} /\ ~ chan[x].known
      <4>1. ~ ev.ch.known
        BY <2>2, <2>9, <2>10, <3>2 DEF Fits
      <4>2. E \subseteq written
        BY <1>0, <2>6, <2>7, <4>1 DEF Shape
      <4> QED BY <2>1, <2>2, <2>4, <2>8, <3>2, <4>1, <4>2
    <3> QED BY <1>0, <3>1, <3>2 DEF KnownSpreads
  <2>16. KnownSpreads'
    BY <2>2, <2>10, <2>13, <2>14, <2>15 DEF KnownSpreads
  <2> QED BY <2>12, <2>16 DEF EventInv
<1>5. ASSUME NEW s \in Servers, ReceiveSync(s) PROVE EventInv'
  <2>1. UNCHANGED <<chan, db, chores, inbox, written, revoked>>
    BY <1>5 DEF ReceiveSync
  <2> QED BY <2>1 DEF EventInv, Truthful, KnownSpreads, Fits, Waiting, Asked
<1>6. ASSUME NEW s \in Servers, Reconcile(s) PROVE EventInv'
  <2> DEFINE new == Reconciled(chan[s], doc[s])
  <2>1. chan' = [chan EXCEPT ![s] = new] /\ UNCHANGED <<db, chores, inbox, written, revoked>>
    BY <1>6 DEF Reconcile
  <2>2. new.known = chan[s].known /\ chan[s].ops \subseteq new.ops
    <3>1. chan[s] \in Channels /\ \A c \in doc[s] : IsChange(c)
      BY <1>0 DEF Shape, Known, Changes
    <3>2. /\ new.known = chan[s].known
          /\ new.ops = IF chan[s].known THEN chan[s].ops \cup DocOps(doc[s]) ELSE chan[s].ops
      BY <3>1, ReconciledShape
    <3> HIDE DEF new
    <3> QED BY <3>2
  <2> HIDE DEF new
  <2>3. \A x \in Servers : /\ chan'[x].known = chan[x].known /\ chan[x].ops \subseteq chan'[x].ops
                           /\ Waiting(x)' = Waiting(x)
    BY <1>0, <2>1, <2>2 DEF Shape, Waiting
  <2>4. Truthful'
    BY <1>0, <2>1, <2>3, TruthfulStays DEF Truthful
  <2>5. KnownSpreads'
    BY <1>0, <2>1, <2>3, OtherServer DEF KnownSpreads, Asked
  <2> QED BY <2>4, <2>5 DEF EventInv
<1>7. ASSUME LinkComesUp, UNCHANGED <<db, written, revoked>>,
             \A x \in Servers : chan'[x] = chan[x] \/ chan'[x] = db[x],
             \A x \in Servers : chores'[x] \subseteq chores[x]
      PROVE  EventInv'
  <2>1. \A x \in Servers : Waiting(x)' = {SyncRequest} /\ Asked(x)'
    BY <1>7, WaitingAfresh
  <2>2. Names(SyncRequest) = {} /\ SyncRequest.kind = "request" /\ ~ SyncRequest.ch.known
    BY DEF SyncRequest, Event, Names, NoChannel
  <2>3. Truthful'
    BY <1>0, <1>7, <2>1, <2>2 DEF Truthful, Fits
  <2>4. KnownSpreads'
    BY <1>0, <1>7, <2>1 DEF KnownSpreads
  <2> QED BY <2>3, <2>4 DEF EventInv
<1>8. ASSUME NEW s \in Servers, Restart(s) PROVE EventInv'
  <2>1. \A x \in Servers : /\ chan'[x] = chan[x] \/ chan'[x] = db[x]
                           /\ chores'[x] \subseteq chores[x]
    BY <1>0, <1>8 DEF Restart, Shape
  <2>2. LinkComesUp /\ UNCHANGED <<db, written, revoked>>
    BY <1>8 DEF Restart
  <2> QED BY <1>7, <2>1, <2>2
<1>9. ASSUME NEW s \in Servers, CompactSave(s) \/ CompactSwap(s) \/ CompactClear(s) PROVE EventInv'
  <2>1. UNCHANGED <<chan, db, chores, inbox, written, revoked>>
    BY <1>9 DEF CompactSave, CompactSwap, CompactClear
  <2> QED BY <2>1 DEF EventInv, Truthful, KnownSpreads, Fits, Waiting, Asked
<1>10. CASE Flap
  BY <1>7, <1>10 DEF Flap
<1>11. CASE UNCHANGED vars
  BY <1>11 DEF vars, EventInv, Truthful, KnownSpreads, Fits, Waiting, Asked
<1> QED BY <1>0, <1>1, <1>2, <1>3, <1>4, <1>5, <1>6, <1>8, <1>9, <1>10, <1>11, <1>12, StepCases

-----------------------------------------------------------------------------
(***************************************************************************)
(* What carries an operator.                                               *)
(***************************************************************************)
LEMMA DeletionsInit == Init => Deletions
BY DEF Init, Deletions

LEMMA DeletionsStep ==
  ASSUME DocInv, EventInv, Deletions, [Next]_vars
  PROVE  Deletions'
<1>0. Shape /\ modes \in Nat
  BY AccountsAssumption DEF DocInv, Shape
<1>1. ASSUME NEW s \in Servers, NEW ch \in Known, NEW tasks \in SUBSET Chores, Opened(s, ch, tasks)
      PROVE  Deletions'
  <2>1. /\ chores' = [chores EXCEPT ![s] = chores[s] \cup tasks]
        /\ \A task \in tasks : task[1] = "found"
        /\ UNCHANGED <<written, revoked>>
    BY <1>1 DEF Opened
  <2>2. \A x \in Servers : \A c \in chores'[x] : c \in chores[x] \/ c \in tasks
    BY <1>0, <2>1 DEF Shape
  <2> QED BY <2>1, <2>2 DEF Deletions
<1>8. ASSUME NEW d \in Dids, JoinWithRole(d) PROVE Deletions'
  <2>1. UNCHANGED <<chores, written, revoked>>
    BY <1>8 DEF JoinWithRole
  <2> QED BY <2>1 DEF Deletions
<1>2. ASSUME NEW by \in Dids, NEW d \in Dids, Ordered(by, d) PROVE Deletions'
  <2> DEFINE s == Home[by]
  <2>1. PICK ev \in Events, task \in Chores : ModeDone(by, d, ev, task)
    BY <1>0, <1>2, ModeEffect
  <2>2. /\ s \in Servers
        /\ task[1] = (IF ev.add THEN "grant" ELSE "revoke") /\ task[2] = d
        /\ chores' = [chores EXCEPT ![s] = chores'[s]]
        /\ chores'[s] = chores[s] \cup {task} \/ chores'[s] = chores[s]
        /\ revoked' = IF ev.add THEN revoked ELSE revoked \cup {d}
        /\ UNCHANGED written
    BY <2>1 DEF ModeDone
  <2> HIDE DEF s
  <2>3. \A x \in Servers : \A c \in chores'[x] : c \in chores[x] \/ c = task
    BY <1>0, <2>2 DEF Shape
  <2>4. revoked \subseteq revoked' /\ (task[1] = "revoke" => d \in revoked')
    BY <2>2
  <2> QED BY <2>2, <2>3, <2>4 DEF Deletions
<1>3. ASSUME NEW s \in Servers, NEW chore \in chores[s], DoChore(s, chore) PROVE Deletions'
  <2> DEFINE E == ChoreDoc(s, chore)
  <2>1. /\ chore[1] # "revoke" => Plain(doc[s], E, chore[2])
        /\ chore[1] = "revoke" => \A c \in E \ doc[s] : c.val = Nobody /\ c.key = OpKey(chore[2])
        /\ written' = written \cup E
        /\ chores' = [chores EXCEPT ![s] = chores[s] \ {chore}]
        /\ UNCHANGED revoked
    BY <1>3, ChoreEffect
  <2> HIDE DEF E
  <2>2. chore[2] # Nobody /\ doc[s] \subseteq written
    BY <1>0, AccountsAssumption DEF Shape, Chores
  <2>3. chore[1] = "revoke" => chore[2] \in revoked
    BY DEF Deletions
  <2>4. \A c \in E \ doc[s] : c.val = Nobody => \E d \in revoked : c.key = OpKey(d)
    BY <2>1, <2>2, <2>3 DEF Plain
  <2>5. \A c \in written' : c.val = Nobody => \E d \in revoked' : c.key = OpKey(d)
    BY <2>1, <2>2, <2>4 DEF Deletions
  <2>6. \A x \in Servers : chores'[x] \subseteq chores[x]
    BY <1>0, <2>1 DEF Shape
  <2> QED BY <2>1, <2>5, <2>6 DEF Deletions
<1>4. ASSUME NEW s \in Servers, Process(s) PROVE Deletions'
  <2> DEFINE ev == Head(inbox[s])
             E == EventDoc(s, ev)
  <2>1. /\ ev \in Events /\ Plain(doc[s], E, ev.ch.founder)
        /\ written' = written \cup E
        /\ UNCHANGED <<chores, revoked>>
    BY <1>4, ProcessEffect
  <2>3. ev.ch.founder = Nobody => E = doc[s]
    BY DEF EventDoc, Adopted
  <2> HIDE DEF E, ev
  <2>4. doc[s] \subseteq written
    BY <1>0 DEF Shape
  <2> QED BY <2>1, <2>3, <2>4 DEF Deletions, Plain
<1>5. ASSUME NEW s \in Servers,
             \/ ReceiveSync(s) \/ Reconcile(s)
             \/ CompactSave(s) \/ CompactSwap(s) \/ CompactClear(s)
      PROVE  Deletions'
  <2>1. UNCHANGED <<chores, written, revoked>>
    BY <1>5 DEF ReceiveSync, Reconcile, CompactSave, CompactSwap, CompactClear
  <2> QED BY <2>1 DEF Deletions
<1>6. ASSUME NEW s \in Servers, Restart(s) PROVE Deletions'
  <2>1. \A x \in Servers : chores'[x] \subseteq chores[x]
    BY <1>0, <1>6 DEF Restart, Shape
  <2>2. UNCHANGED <<written, revoked>>
    BY <1>6 DEF Restart
  <2> QED BY <2>1, <2>2 DEF Deletions
<1>7. CASE Flap \/ UNCHANGED vars
  <2>1. UNCHANGED <<chores, written, revoked>>
    BY <1>7 DEF Flap, vars
  <2> QED BY <2>1 DEF Deletions
<1> QED BY <1>0, <1>1, <1>2, <1>3, <1>4, <1>5, <1>6, <1>7, <1>8, StepCases

\* What carries an operator goes on doing so where nothing is taken away.
LEMMA CarriedStays ==
  ASSUME NEW s \in Servers, NEW d, d \notin revoked', Carried(s, d),
         chan[Other(s)].ops \subseteq chan'[Other(s)].ops \cup revoked',
         \A x \in Servers : Waiting(x) \subseteq Waiting(x)',
         lost => lost', chores[s] \subseteq chores'[s], doc[s] \subseteq doc'[s]
  PROVE  Carried(s, d)'
<1>1. Other(s) \in Servers
  BY OtherServer
<1>2. Ready(doc[s]) \subseteq Ready(doc'[s])
  BY ReadyGrows
<1>3. CASE Asked(s)
  BY <1>3 DEF Asked, Carried
<1>4. CASE ~ Asked(s)
  BY <1>1, <1>2, <1>4 DEF Carried
<1> QED BY <1>3, <1>4

LEMMA MadeStays ==
  ASSUME MadeListed, NEW new, revoked \subseteq revoked',
         created' \cup granted' \subseteq created \cup granted \cup new \cup revoked',
         \A d \in new : \E s \in Servers : d \in chan'[s].ops /\ d \in db'[s].ops,
         \A s \in Servers : chan[s].ops \cap db[s].ops \subseteq (chan'[s].ops \cap db'[s].ops) \cup revoked'
  PROVE  MadeListed'
BY DEF MadeListed

LEMMA OpsCarriedInit == Init => OpsCarried
BY DEF Init, OpsCarried, AllCarried, MadeListed, NoChannel

LEMMA OpsCarriedStep ==
  ASSUME DocInv, DocInv', EventInv, EventInv', OpsCarried, [Next]_vars
  PROVE  OpsCarried'
<1>0. Shape /\ Shape' /\ modes \in Nat /\ Truthful /\ AllCarried /\ MadeListed
  BY AccountsAssumption DEF DocInv, Shape, EventInv, OpsCarried
<1>1. ASSUME NEW s \in Servers, NEW ch \in Known, NEW tasks \in SUBSET Chores, Opened(s, ch, tasks)
      PROVE  OpsCarried'
  <2> DEFINE ev == Created(ch)
             p == Other(s)
  <2>1. /\ p \in Servers /\ ev \in Events /\ ~ chan[s].known
        /\ \A task \in tasks : task[1] = "found"
        /\ \A d \in ch.ops : \E task \in tasks : task[2] = d
        /\ chan' = [chan EXCEPT ![s] = ch] /\ db' = [db EXCEPT ![s] = ch]
        /\ chores' = [chores EXCEPT ![s] = chores[s] \cup tasks]
        /\ inbox' = [inbox EXCEPT ![p] = Append(inbox[p], ev)]
        /\ created' = created \cup ch.ops /\ UNCHANGED <<doc, granted, revoked, denied, lost>>
    BY <1>1 DEF Opened
  <2>3. p # s /\ Other(p) = s /\ \A x \in Servers : x = s \/ x = p
    BY <2>1, OtherServer
  <2> HIDE DEF ev, p
  <2>4. \A x \in Servers : Waiting(x) \subseteq Waiting(x)'
    BY <1>0, <2>1, WaitingAppended
  <2>5. /\ chan'[s] = ch /\ db'[s] = ch /\ chan'[p] = chan[p] /\ db'[p] = db[p]
        /\ chores'[s] = chores[s] \cup tasks /\ chores'[p] = chores[p]
    BY <1>0, <2>1, <2>3 DEF Shape
  <2>6. chan[s].ops = {}
    BY <1>0, <2>1 DEF Shape, Known, NoChannel
  <2>7. \A d \in ch.ops : Carried(s, d)'
    BY <2>1, <2>5 DEF Carried
  <2>8. ASSUME NEW e \in chan[p].ops \cap Made' PROVE Carried(p, e)'
    <3>1. CASE e \in ch.ops
      BY <2>3, <2>5, <3>1 DEF Carried
    <3>2. CASE e \notin ch.ops
      <4>1. e \in Made /\ e \notin revoked'
        BY <2>1, <2>8, <3>2 DEF Made
      <4>2. Carried(p, e)
        BY <1>0, <2>1, <2>8, <4>1 DEF AllCarried
      <4> QED BY <2>1, <2>3, <2>4, <2>5, <2>6, <4>1, <4>2, CarriedStays
    <3> QED BY <3>1, <3>2
  <2>9. AllCarried'
    BY <2>1, <2>3, <2>5, <2>7, <2>8 DEF AllCarried
  <2>10. MadeListed'
    <3> DEFINE new == ch.ops
    <3>1. /\ created' \cup granted' \subseteq created \cup granted \cup new \cup revoked'
          /\ \A x \in new : \E y \in Servers : x \in chan'[y].ops /\ x \in db'[y].ops
          /\ \A x \in Servers : chan[x].ops \cap db[x].ops \subseteq (chan'[x].ops \cap db'[x].ops) \cup revoked'
      BY <2>1, <2>3, <2>5, <2>6
    <3> HIDE DEF new
    <3> QED BY <1>0, <2>1, <3>1, MadeStays
  <2> QED BY <2>9, <2>10 DEF OpsCarried
<1>13. ASSUME NEW d \in Dids, JoinWithRole(d) PROVE OpsCarried'
  <2> DEFINE s == Home[d]
             new == [chan[s] EXCEPT !.ops = chan[s].ops \cup {d}]
  <2>1. s \in Servers /\ chan' = [chan EXCEPT ![s] = new]
        /\ UNCHANGED <<db, doc, chores, inbox, created, granted, revoked, denied, lost>>
    BY <1>13, AccountsAssumption DEF JoinWithRole
  <2>2. new.ops = chan[s].ops \cup {d}
    BY <1>0, <2>1 DEF Shape, Known, Channels
  <2> HIDE DEF s, new
  <2>3. \A x \in Servers : Waiting(x)' = Waiting(x) /\ chan[x].ops \subseteq chan'[x].ops
    BY <1>0, <2>1, <2>2 DEF Shape, Waiting
  <2>4. chan'[s] = new /\ \A x \in Servers \ {s} : chan'[x] = chan[x]
    BY <1>0, <2>1 DEF Shape
  <2>5. Made' = Made
    BY <2>1 DEF Made
  <2>6. ASSUME NEW x \in Servers, NEW e \in chan'[x].ops \cap Made PROVE Carried(x, e)'
    <3>0. Other(x) \in Servers /\ \A y \in Servers : y = x \/ y = Other(x)
      BY OtherServer
    <3>1. CASE e \in chan[x].ops
      <4>1. Carried(x, e) /\ e \notin revoked'
        BY <1>0, <2>1, <2>6, <3>1 DEF AllCarried, Made
      <4> QED BY <2>1, <2>3, <3>0, <4>1, CarriedStays
    <3>2. CASE e \notin chan[x].ops
      <4>1. PICK y \in Servers : e \in chan[y].ops
        BY <1>0, <2>6 DEF MadeListed, Made
      <4>2. e \in chan'[Other(x)].ops
        BY <2>3, <3>0, <3>2, <4>1
      <4> QED BY <4>2 DEF Carried
    <3> QED BY <3>1, <3>2
  <2>7. AllCarried'
    BY <2>5, <2>6 DEF AllCarried
  <2>8. MadeListed'
    BY <1>0, <2>1, <2>3 DEF MadeListed
  <2> QED BY <2>7, <2>8 DEF OpsCarried
<1>2. ASSUME NEW by \in Dids, NEW d \in Dids, Ordered(by, d) PROVE OpsCarried'
  <2> DEFINE s == Home[by]
             ch == chan'[s]
             p == Other(s)
  <2>0. PICK ev \in Events, task \in Chores : ModeDone(by, d, ev, task)
    BY <1>0, <1>2, ModeEffect
  <2>1. /\ s \in Servers /\ p \in Servers
        /\ task[1] = (IF ev.add THEN "grant" ELSE "revoke") /\ task[2] = d
        /\ ev.add => ch.ops = chan[s].ops \cup {d}
        /\ chan[s].ops \ {d} \subseteq ch.ops
        /\ ~ ev.add => ch.ops \subseteq chan[s].ops
        /\ chan' = [chan EXCEPT ![s] = ch] /\ db' = [db EXCEPT ![s] = ch]
        /\ chores' = [chores EXCEPT ![s] = chores'[s]]
        /\ \/ chores'[s] = chores[s] \cup {task}
           \/ ~ ev.add /\ chores'[s] = chores[s]
        /\ inbox' = [inbox EXCEPT ![p] = Append(inbox[p], ev)]
        /\ granted' = IF ev.add THEN granted \cup {d} ELSE granted \ {d}
        /\ revoked' = IF ev.add THEN revoked ELSE revoked \cup {d}
        /\ UNCHANGED <<doc, created, denied, lost>>
    BY <2>0 DEF ModeDone
  <2>3. p # s /\ Other(p) = s /\ \A x \in Servers : x = s \/ x = p
    BY <2>1, OtherServer
  <2>4. \A x \in Servers : Waiting(x) \subseteq Waiting(x)'
    <3> HIDE DEF s, p
    <3> QED BY <1>0, <2>1, WaitingAppended
  <2>10. Other(s) = p /\ Other(p) = s
    BY <2>3
  <2> HIDE DEF s, ch, p
  <2>5. /\ chan'[s] = ch /\ db'[s] = ch /\ chan'[p] = chan[p] /\ db'[p] = db[p]
        /\ chores'[p] = chores[p] /\ chores[s] \subseteq chores'[s]
    BY <1>0, <2>1, <2>3 DEF Shape
  <2>6. revoked \subseteq revoked' /\ (~ ev.add => d \in revoked')
        /\ chan[s].ops \subseteq ch.ops \cup revoked'
    BY <2>1
  <2>12. \A e \in Made' : e \notin revoked' /\ (e \in Made \/ (ev.add /\ e = d))
    BY <2>1, <2>6 DEF Made
  <2>7. ASSUME NEW e \in ch.ops \cap Made' PROVE Carried(s, e)'
    <3>1. CASE ev.add /\ e = d
      <4>1. task \in chores'[s] /\ task[1] # "revoke" /\ task[2] = e
        BY <2>1, <3>1
      <4> QED BY <4>1 DEF Carried
    <3>2. CASE ~ (ev.add /\ e = d)
      <4>1. e \in chan[s].ops \cap Made /\ e \notin revoked'
        BY <2>1, <2>7, <2>12, <3>2
      <4>2. Carried(s, e)
        BY <1>0, <2>1, <4>1 DEF AllCarried
      <4> QED BY <2>1, <2>4, <2>5, <2>10, <4>1, <4>2, CarriedStays
    <3> QED BY <3>1, <3>2
  <2>8. ASSUME NEW e \in chan[p].ops \cap Made' PROVE Carried(p, e)'
    <3>1. CASE ev.add /\ e = d
      BY <2>1, <2>5, <2>10, <3>1 DEF Carried
    <3>2. CASE ~ (ev.add /\ e = d)
      <4>1. e \in chan[p].ops \cap Made /\ e \notin revoked'
        BY <2>8, <2>12, <3>2
      <4>2. Carried(p, e)
        BY <1>0, <2>1, <4>1 DEF AllCarried
      <4> QED BY <2>1, <2>4, <2>5, <2>6, <2>10, <4>1, <4>2, CarriedStays
    <3> QED BY <3>1, <3>2
  <2>9. AllCarried'
    BY <2>1, <2>3, <2>5, <2>7, <2>8 DEF AllCarried
  <2>11. MadeListed'
    <3> DEFINE new == IF ev.add THEN {d} ELSE {}
    <3>1. /\ created' \cup granted' \subseteq created \cup granted \cup new \cup revoked'
          /\ \A x \in new : \E y \in Servers : x \in chan'[y].ops /\ x \in db'[y].ops
          /\ \A x \in Servers : chan[x].ops \cap db[x].ops \subseteq (chan'[x].ops \cap db'[x].ops) \cup revoked'
      BY <2>1, <2>3, <2>5, <2>6
    <3> HIDE DEF new
    <3> QED BY <1>0, <2>6, <3>1, MadeStays
  <2> QED BY <2>9, <2>11 DEF OpsCarried
<1>3. ASSUME NEW s \in Servers, NEW chore \in chores[s], DoChore(s, chore) PROVE OpsCarried'
  <2> DEFINE E == ChoreDoc(s, chore)
  <2>1. /\ Extended(written, doc[s], E) /\ (chore[1] # "revoke" => Listed(E, chore[2]))
        /\ doc' = [doc EXCEPT ![s] = E]
        /\ chores' = [chores EXCEPT ![s] = chores[s] \ {chore}]
        /\ UNCHANGED <<chan, db, inbox, created, granted, revoked, denied, lost>>
    BY <1>3, ChoreEffect
  <2> HIDE DEF E
  <2>2. /\ doc'[s] = E /\ doc[s] \subseteq E /\ chores'[s] = chores[s] \ {chore}
        /\ \A x \in Servers \ {s} : doc'[x] = doc[x] /\ chores'[x] = chores[x]
        /\ \A x \in Servers : Waiting(x)' = Waiting(x)
    BY <1>0, <2>1 DEF Shape, Extended, Waiting
  <2>6. Made' = Made
    BY <2>1 DEF Made
  <2>3. ASSUME NEW x \in Servers, NEW d \in chan[x].ops \cap Made PROVE Carried(x, d)'
    <3>1. Carried(x, d)
      BY <1>0 DEF AllCarried
    <3>2. CASE x = s /\ chore[1] # "revoke" /\ chore[2] = d
      <4>1. \E c \in Ready(doc'[x]) : c.key = OpKey(d)
        BY <2>1, <2>2, <3>2 DEF Listed
      <4> QED BY <4>1 DEF Carried
    <3>3. CASE ~ (x = s /\ chore[1] # "revoke" /\ chore[2] = d)
      <4>1. doc[x] \subseteq doc'[x]
        BY <2>2
      <4>2. Ready(doc[x]) \subseteq Ready(doc'[x])
        BY <4>1, ReadyGrows
      <4>3. \A c \in chores[x] : c[1] # "revoke" /\ c[2] = d => c \in chores'[x]
        BY <2>2, <3>3
      <4>4. Other(x) \in Servers
        BY OtherServer
      <4> QED BY <2>1, <2>2, <3>1, <4>2, <4>3, <4>4 DEF Carried, Asked
    <3> QED BY <3>2, <3>3
  <2>4. AllCarried'
    BY <2>1, <2>3, <2>6 DEF AllCarried
  <2>5. MadeListed'
    BY <1>0, <2>1 DEF MadeListed
  <2> QED BY <2>4, <2>5 DEF OpsCarried
<1>4. ASSUME NEW s \in Servers, Process(s) PROVE OpsCarried'
  <2> DEFINE ev == Head(inbox[s])
             E == EventDoc(s, ev)
             p == Other(s)
             new == chan'[s]
  <2>1. /\ ev \in Events /\ chan' = [chan EXCEPT ![s] = new]
        /\ Extended(written, doc[s], E) /\ doc' = [doc EXCEPT ![s] = E]
        /\ denied' = denied \cup (ev.ch.ops \ new.ops)
        /\ UNCHANGED <<db, chores, created, granted, revoked, lost>>
    BY <1>4, ProcessEffect
  <2>2. p \in Servers /\ p # s /\ Other(p) = s /\ \A x \in Servers : x = s \/ x = p
    BY OtherServer
  <2>3. /\ Waiting(s) = Waiting(s)' \cup {ev}
        /\ Waiting(p) \subseteq Waiting(p)'
        /\ ev.kind = "request" => SyncResponse(chan[s]) \in Waiting(p)'
    BY <1>4, WaitingProcessed
  <2>4. /\ new.ops \subseteq chan[s].ops \cup Names(ev)
        /\ \A d \in chan[s].ops : d \in new.ops \/ (ev.kind = "mode" /\ ~ ev.add /\ ev.did = d)
    BY <1>4, ProcessEffect DEF Heard
  <2>5. SyncResponse(chan[s]).ch.ops = chan[s].ops
    BY DEF SyncResponse, Event
  <2> HIDE DEF ev, E, p, new
  <2>6. /\ chan'[s] = new /\ chan'[p] = chan[p] /\ doc'[s] = E /\ doc'[p] = doc[p]
        /\ doc[s] \subseteq E
    BY <1>0, <2>1, <2>2 DEF Shape, Extended
  <2>7. Fits(s, ev) /\ Other(s) = p
    BY <1>0, <2>3 DEF Truthful, p
  <2>8. chan[s].ops \subseteq new.ops \cup revoked /\ Names(ev) \subseteq chan[p].ops \cup revoked
    BY <2>4, <2>7 DEF Fits
  <2>9. Ready(doc[s]) \subseteq Ready(doc'[s])
    BY <2>6, ReadyGrows
  <2>14. Made' \subseteq Made /\ Made \cap revoked = {} /\ ev.ch.ops \cap Made' \subseteq new.ops
    BY <2>1 DEF Made
  <2>10. ASSUME NEW d \in new.ops \cap Made PROVE Carried(s, d)'
    <3>1. CASE d \in chan[p].ops
      BY <2>6, <2>7, <3>1 DEF Carried
    <3>2. CASE d \in chan[s].ops
      <4>1. Carried(s, d)
        BY <1>0, <2>10, <3>2 DEF AllCarried
      <4>2. CASE Asked(s)
        <5>1. Asked(s)' \/ SyncResponse(chan[s]) \in Waiting(p)'
          BY <2>3, <4>2 DEF Asked
        <5> QED BY <2>5, <2>7, <3>2, <5>1 DEF Carried
      <4>3. CASE ~ Asked(s)
        BY <2>1, <2>3, <2>6, <2>7, <2>9, <4>1, <4>3 DEF Carried
      <4> QED BY <4>2, <4>3
    <3> QED BY <2>4, <2>8, <2>10, <2>14, <3>1, <3>2
  <2>11. ASSUME NEW d \in chan[p].ops \cap Made' PROVE Carried(p, d)'
    <3>1. Carried(p, d)
      BY <1>0, <2>2, <2>11, <2>14 DEF AllCarried
    <3>2. CASE d \in chan[s].ops \/ d \in ev.ch.ops
      <4>1. d \in chan'[s].ops
        BY <2>6, <2>8, <2>11, <2>14, <3>2
      <4> QED BY <2>2, <4>1 DEF Carried
    <3>3. CASE Asked(p)
      BY <2>3, <3>3 DEF Carried, Asked
    <3>4. CASE ~ (d \in chan[s].ops \/ d \in ev.ch.ops) /\ ~ Asked(p)
      BY <2>1, <2>2, <2>3, <2>6, <3>1, <3>4 DEF Carried
    <3> QED BY <3>2, <3>3, <3>4
  <2>12. AllCarried'
    BY <2>1, <2>2, <2>6, <2>10, <2>11, <2>14 DEF AllCarried
  <2>13. MadeListed'
    <3> DEFINE none == {}
    <3>1. /\ created' \cup granted' \subseteq created \cup granted \cup none \cup revoked'
          /\ \A x \in none : \E y \in Servers : x \in chan'[y].ops /\ x \in db'[y].ops
          /\ \A x \in Servers : chan[x].ops \cap db[x].ops \subseteq (chan'[x].ops \cap db'[x].ops) \cup revoked'
      BY <2>1, <2>2, <2>6, <2>8
    <3> HIDE DEF none
    <3> QED BY <1>0, <2>1, <3>1, MadeStays
  <2> QED BY <2>12, <2>13 DEF OpsCarried
<1>5. ASSUME NEW s \in Servers, ReceiveSync(s) PROVE OpsCarried'
  <2>1. UNCHANGED <<chan, db, chores, inbox, created, granted, revoked, denied, lost>>
        /\ \A x \in Servers : doc[x] \subseteq doc'[x]
    <3>1. UNCHANGED <<chan, db, chores, inbox, created, granted, revoked, denied, lost>>
          /\ \/ doc' = doc
             \/ doc' = [doc EXCEPT ![s] = doc[s] \cup syncs[s][1].changes]
      BY <1>0, <1>5, ReceiveEffect
    <3> QED BY <1>0, <3>1 DEF Shape
  <2>2. \A x \in Servers : Waiting(x)' = Waiting(x)
    BY <2>1 DEF Waiting
  <2>6. Made' = Made
    BY <2>1 DEF Made
  <2>3. ASSUME NEW x \in Servers, NEW d \in chan[x].ops \cap Made PROVE Carried(x, d)'
    <3>1. Carried(x, d) /\ d \notin revoked'
      BY <1>0, <2>1 DEF AllCarried, Made
    <3> QED BY <2>1, <2>2, <3>1, CarriedStays
  <2>4. AllCarried'
    BY <2>1, <2>3, <2>6 DEF AllCarried
  <2>5. MadeListed'
    BY <1>0, <2>1 DEF MadeListed
  <2> QED BY <2>4, <2>5 DEF OpsCarried
<1>6. ASSUME NEW s \in Servers, Reconcile(s) PROVE OpsCarried'
  <2> DEFINE new == Reconciled(chan[s], doc[s])
  <2>1. chan' = [chan EXCEPT ![s] = new]
        /\ UNCHANGED <<db, doc, chores, inbox, created, granted, revoked, denied, lost>>
    BY <1>6 DEF Reconcile
  <2>2. new.ops = IF chan[s].known THEN chan[s].ops \cup DocOps(doc[s]) ELSE chan[s].ops
    <3>1. chan[s] \in Channels /\ \A c \in doc[s] : IsChange(c)
      BY <1>0 DEF Shape, Known, Changes
    <3> QED BY <3>1, ReconciledShape
  <2> HIDE DEF new
  <2>3. \A x \in Servers : Waiting(x)' = Waiting(x) /\ chan[x].ops \subseteq chan'[x].ops
    BY <1>0, <2>1, <2>2 DEF Shape, Waiting
  <2>4. chan'[s] = new /\ \A x \in Servers \ {s} : chan'[x] = chan[x]
    BY <1>0, <2>1 DEF Shape
  <2>8. Made' = Made
    BY <2>1 DEF Made
  <2>5. ASSUME NEW x \in Servers, NEW d \in chan'[x].ops \cap Made PROVE Carried(x, d)'
    <3>1. CASE d \in chan[x].ops
      <4>1. Carried(x, d) /\ Other(x) \in Servers /\ d \notin revoked'
        BY <1>0, <2>1, <2>5, <3>1, OtherServer DEF AllCarried, Made
      <4> QED BY <2>1, <2>3, <2>5, <4>1, CarriedStays
    <3>2. CASE d \notin chan[x].ops
      <4>1. x = s /\ d \in DocOps(doc[s])
        BY <2>2, <2>4, <2>5, <3>2
      <4>2. \E c \in Ready(doc[x]) : c.key = OpKey(d)
        BY <4>1 DEF DocOps, Values
      <4> QED BY <2>1, <4>2 DEF Carried
    <3> QED BY <3>1, <3>2
  <2>6. AllCarried'
    BY <2>1, <2>5, <2>8 DEF AllCarried
  <2>7. MadeListed'
    BY <1>0, <2>1, <2>3 DEF MadeListed
  <2> QED BY <2>6, <2>7 DEF OpsCarried
<1>7. ASSUME LinkComesUp, UNCHANGED <<db, created, granted, revoked>>,
             \A x \in Servers : chan'[x] = chan[x] \/ chan'[x] = db[x]
      PROVE  OpsCarried'
  <2>1. \A x \in Servers : Asked(x)'
    BY <1>7, WaitingAfresh
  <2>2. AllCarried'
    BY <2>1 DEF AllCarried, Carried
  <2>3. MadeListed'
    BY <1>0, <1>7 DEF MadeListed
  <2> QED BY <2>2, <2>3 DEF OpsCarried
<1>8. ASSUME NEW s \in Servers, Restart(s) PROVE OpsCarried'
  <2>1. \A x \in Servers : chan'[x] = chan[x] \/ chan'[x] = db[x]
    BY <1>0, <1>8 DEF Restart, Shape
  <2>2. LinkComesUp /\ UNCHANGED <<db, created, granted, revoked>>
    BY <1>8 DEF Restart
  <2> QED BY <1>7, <2>1, <2>2
<1>9. ASSUME NEW s \in Servers, CompactSwap(s) PROVE OpsCarried'
  <2>1. UNCHANGED <<chan, db, chores, inbox, created, granted, revoked, denied>>
        /\ doc' = [doc EXCEPT ![s] = saved[s][1]]
        /\ lost' = (lost \/ doc[s] # saved[s][1])
    BY <1>9 DEF CompactSwap
  <2>2. lost' \/ doc' = doc
    BY <1>0, <2>1 DEF Shape
  <2>3. CASE lost'
    BY <1>0, <2>1, <2>3 DEF OpsCarried, AllCarried, MadeListed, Carried
  <2>4. CASE ~ lost' /\ doc' = doc
    <3>1. ~ lost
      BY <2>1, <2>4
    <3> QED BY <1>0, <2>1, <2>4, <3>1
            DEF OpsCarried, AllCarried, Made, MadeListed, Carried, Waiting, Asked
  <2> QED BY <2>2, <2>3, <2>4
<1>10. CASE Flap
  BY <1>7, <1>10 DEF Flap
<1>11. ASSUME NEW s \in Servers, CompactSave(s) \/ CompactClear(s) PROVE OpsCarried'
  <2>1. UNCHANGED <<chan, db, doc, chores, inbox, created, granted, revoked, denied, lost>>
    BY <1>11 DEF CompactSave, CompactClear
  <2> QED BY <1>0, <2>1 DEF OpsCarried, AllCarried, Made, MadeListed, Carried, Waiting, Asked
<1>12. CASE UNCHANGED vars
  BY <1>0, <1>12 DEF vars, OpsCarried, AllCarried, Made, MadeListed, Carried, Waiting, Asked
<1> QED BY <1>0, <1>1, <1>2, <1>3, <1>4, <1>5, <1>6, <1>8, <1>9, <1>10, <1>11, <1>12, <1>13, StepCases

-----------------------------------------------------------------------------
(***************************************************************************)
(* What the servers agree on when all is quiet.                            *)
(***************************************************************************)
CoreInv == DocInv /\ SyncInv /\ EventInv /\ Deletions /\ OpsCarried

LEMMA CoreInvHolds == Spec => []CoreInv
<1>1. Init => CoreInv
  BY DocInvInit, SyncInvInit, EventInvInit, DeletionsInit, OpsCarriedInit DEF CoreInv
<1>2. CoreInv /\ [Next]_vars => CoreInv'
  <2> SUFFICES ASSUME CoreInv, [Next]_vars PROVE CoreInv'
    OBVIOUS
  <2>1. DocInv /\ SyncInv /\ EventInv /\ Deletions /\ OpsCarried
    BY DEF CoreInv
  <2>2. DocInv'
    BY <2>1, DocInvStep
  <2>3. EventInv'
    BY <2>1, EventInvStep
  <2>4. SyncInv'
    BY <2>1, <2>2, SyncInvStep
  <2>5. Deletions'
    BY <2>1, DeletionsStep
  <2>6. OpsCarried'
    BY <2>1, <2>2, <2>3, OpsCarriedStep
  <2> QED BY <2>2, <2>3, <2>4, <2>5, <2>6 DEF CoreInv
<1> QED BY <1>1, <1>2, PTL DEF Spec

\* What a replica says depends only on what is ready in it.
LEMMA SameReady ==
  ASSUME NEW D, NEW E, Ready(D) = Ready(E)
  PROVE  DocFounder(D) = DocFounder(E) /\ DocOps(D) = DocOps(E)
<1>1. ASSUME NEW k PROVE Values(D, k) = Values(E, k)
  BY DEF Values
<1>2. Get(D, FounderKey) = Get(E, FounderKey)
  BY <1>1 DEF Get
<1> QED BY <1>1, <1>2 DEF DocFounder, DocOps

\* Once anything is known or written, quiet servers both know the channel.
LEMMA QuietKnown ==
  ASSUME DocInv, EventInv, Quiet,
         written # {} \/ \E s \in Servers : chan[s].known
  PROVE  \A s \in Servers : chan[s].known
<1>1. \A s \in Servers : Waiting(s) = {} /\ chores[s] = {}
  BY ItemsOfEmpty DEF Quiet, Waiting
<1>2. PICK s \in Servers : chan[s].known
  BY DEF EventInv, KnownSpreads, Truthful
<1>3. Other(s) \in Servers /\ \A x \in Servers : x = s \/ x = Other(s)
  BY OtherServer
<1>4. chan[Other(s)].known
  BY <1>1, <1>2, <1>3 DEF EventInv, KnownSpreads, Asked
<1> QED BY <1>2, <1>3, <1>4

\* A replica with a write of an account's key and no delete of it lists the
\* account: nothing overwrote the write numbered last.
LEMMA ListedCounts ==
  ASSUME NEW D, Changes(D), NEW d \in Dids, Listed(D, d),
         \A c \in D : c.key = OpKey(d) => c.val # Nobody
  PROVE  d \in DocOps(D)
<1> DEFINE writes == {c \in Ready(D) : c.key = OpKey(d)}
           ctrs == {c.ctr : c \in writes}
<1>1. writes \subseteq D /\ writes # {}
  BY ReadyGrows DEF Listed
<1>2. IsFiniteSet(writes) /\ \A c \in writes : IsChange(c)
  BY <1>1, FS_Subset DEF Changes
<1>3. IsFiniteSet(ctrs)
  <2> DEFINE f == [c \in writes |-> c.ctr]
  <2>1. f \in Surjection(writes, ctrs)
    BY DEF Surjection
  <2> HIDE DEF f, ctrs, writes
  <2> QED BY <1>2, <2>1, FS_Surjection
<1>4. ctrs \in SUBSET Nat /\ ctrs # {}
  BY <1>1, <1>2 DEF IsChange
<1>5. Max(ctrs) \in ctrs /\ \A y \in ctrs : Max(ctrs) >= y
  <2> HIDE DEF ctrs
  <2> QED BY <1>3, <1>4, LargestExists
<1>6. PICK c \in writes : c.ctr = Max(ctrs)
  BY <1>5
<1>7. ASSUME NEW e \in writes, Id(c) \in e.deps PROVE FALSE
  <2>1. Id(c)[1] < e.ctr
    BY <1>2, <1>7 DEF IsChange
  <2>2. Id(c)[1] = c.ctr
    BY DEF Id
  <2>3. c.ctr >= e.ctr /\ c.ctr \in Nat /\ e.ctr \in Nat
    BY <1>2, <1>5, <1>6 DEF IsChange
  <2> QED BY <2>1, <2>2, <2>3
<1>8. c \in Values(D, OpKey(d))
  BY <1>1, <1>6, <1>7 DEF Values
<1> QED BY <1>8 DEF DocOps

\* Replicas of two quiet servers with nothing of the document under way are
\* alike, and both servers name the founder they name: for any accounts and
\* orders, any number of lost links, restarts and compactions.
THEOREM QuietServersAgree == Spec => []SettledAlike
<1>1. CoreInv => SettledAlike
  <2> SUFFICES ASSUME CoreInv, Quiet, ~ Forked, ~ Stranded, unheard = {},
                      \A s \in Servers : told[s]
               PROVE  /\ Alike
                      /\ \A s, p \in Servers :
                          DocFounder(doc[s]) # {} => chan[s].founder = chan[p].founder
    BY DEF SettledAlike
  <2>1. DocInv /\ SyncInv /\ EventInv
    BY DEF CoreInv
  <2>2. Alike
    <3>1. \A s \in Servers : told[s] /\ syncs[s] = << >>
      BY DEF Quiet
    <3> QED BY <2>1, <3>1, RestMeansAlike
  <2>3. ASSUME NEW s \in Servers, NEW p \in Servers, DocFounder(doc[s]) # {}
        PROVE  chan[s].founder = chan[p].founder
    <3>1. DocFounder(doc[p]) = DocFounder(doc[s])
      BY <2>2, SameReady DEF Alike
    <3>2. written # {}
      BY <2>1, <2>3 DEF DocInv, Shape, DocFounder, Get, Values, Ready
    <3>3. \A x \in Servers : chan[x].known
      BY <2>1, <3>2, QuietKnown
    <3>4. \A x \in Servers : chan[x] \in Channels /\ Reconciled(chan[x], doc[x]) = chan[x]
      BY <2>1 DEF Quiet, DocInv, Shape, Known
    <3>5. ASSUME NEW x \in Servers, DocFounder(doc[x]) # {}
          PROVE  chan[x].founder = CHOOSE d \in DocFounder(doc[x]) : TRUE
      <4> DEFINE f == CHOOSE d \in DocFounder(doc[x]) : TRUE
      <4>1. Reconciled(chan[x], doc[x]) =
               [chan[x] EXCEPT !.founder = f, !.ops = chan[x].ops \cup DocOps(doc[x])]
        BY <3>3, <3>5 DEF Reconciled
      <4> HIDE DEF f
      <4>2. chan[x].founder = f
        BY <3>4, <4>1 DEF Channels
      <4> QED BY <4>2 DEF f
    <3>6. chan[s].founder = CHOOSE d \in DocFounder(doc[s]) : TRUE
      BY <2>3, <3>5
    <3>7. chan[p].founder = CHOOSE d \in DocFounder(doc[p]) : TRUE
      BY <2>3, <3>1, <3>5
    <3> QED BY <3>1, <3>6, <3>7
  <2> QED BY <2>2, <2>3
<1> QED BY <1>1, CoreInvHolds, PTL

\* Who created the channel or was made an operator, was never unmade nor turned
\* away by --require-did-for-ops, is an operator of both servers once all is
\* quiet and the replicas are alike, unless a compaction dropped a change: for
\* any accounts, orders, guests and policies, and any number of faults.
THEOREM GrantsReachBothServers == Spec => []GrantsSpread
<1>1. CoreInv => GrantsSpread
  <2> SUFFICES ASSUME CoreInv, Quiet, Alike, ~ lost,
                      NEW d \in Made, NEW s \in Servers
               PROVE  d \in chan[s].ops
    BY DEF GrantsSpread, Made
  <2>1. DocInv /\ EventInv /\ Deletions /\ AllCarried /\ MadeListed /\ Shape
    BY DEF CoreInv, OpsCarried, DocInv
  <2>2. PICK q \in Servers : d \in chan[q].ops
    BY <2>1 DEF MadeListed, Made
  <2> DEFINE p == Other(q)
  <2>3. p \in Servers /\ \A x \in Servers : x = q \/ x = p
    BY OtherServer
  <2>4. \A x \in Servers : Waiting(x) = {} /\ chores[x] = {}
    BY ItemsOfEmpty DEF Quiet, Waiting
  <2>5. d \in chan[p].ops \/ Listed(doc[q], d)
    BY <2>1, <2>2, <2>3, <2>4 DEF AllCarried, Carried, Asked, Listed
  <2> HIDE DEF p
  <2>6. CASE Listed(doc[q], d)
    <3>1. d \in Dids /\ chan[q].known
      BY <2>1, <2>2 DEF Shape, Known, Channels, NoChannel
    <3>2. Changes(doc[q])
      BY <2>1, FS_Subset DEF Shape, Changes
    <3>3. \A c \in doc[q] : c.key = OpKey(d) => c.val # Nobody
      BY <2>1, KeysDiffer DEF Deletions, Shape, Made
    <3>4. d \in DocOps(doc[q])
      BY <2>6, <3>1, <3>2, <3>3, ListedCounts
    <3>5. d \in DocOps(doc[p])
      BY <2>3, <3>4, SameReady DEF Alike
    <3>6. chan[p].known
      BY <2>1, <2>3, <3>1, QuietKnown
    <3>7. chan[p] \in Channels /\ \A c \in doc[p] : IsChange(c)
      BY <2>1, <2>3 DEF Shape, Known, Changes
    <3>9. Reconciled(chan[p], doc[p]) = chan[p]
      BY <2>3 DEF Quiet
    <3>8. DocOps(doc[p]) \subseteq chan[p].ops
      <4>1. Reconciled(chan[p], doc[p]).ops =
              IF chan[p].known THEN chan[p].ops \cup DocOps(doc[p]) ELSE chan[p].ops
        BY <3>7, ReconciledShape
      <4> QED BY <3>6, <3>9, <4>1
    <3> QED BY <2>2, <2>3, <3>5, <3>8
  <2> QED BY <2>2, <2>3, <2>5, <2>6
<1> QED BY <1>1, CoreInvHolds, PTL
=============================================================================
