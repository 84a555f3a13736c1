--------------------------- MODULE RatchetProofs ---------------------------
(***************************************************************************)
(* Theorems about a Double Ratchet session, for any number of messages,    *)
(* losses, overtakings and duplicates and any MAX_SKIP.                    *)
(***************************************************************************)
EXTENDS Ratchet, QueueLemmas, FiniteSetTheorems

RatchetKeyOf(p) == {p} \X (Nat \ {0})
Root == Seq(SUBSET (RatchetKeyOf(Alice) \cup RatchetKeyOf(Bob)))
Chain == [root: {r \in Root : Len(r) \in Nat \ {0}}, step: Nat]
KeptKey(p) == [rk: RatchetKeyOf(p), num: Nat, key: Chain]
Wire(p) == [from: {p}, rk: RatchetKeyOf(p), prevLen: Nat, num: Nat, key: Chain]
SessionOf(p) ==
  [self: RatchetKeyOf(p), remote: RatchetKeyOf(Peer(p)) \cup {None}, root: Root,
   sendChain: Chain \cup {None}, sendNum: Nat, recvChain: Chain \cup {None}, recvNum: Nat,
   prevLen: Nat, skipped: SUBSET KeptKey(Peer(p))]

\* Each is the other's peer.
LEMMA PeerOfPeer ==
  ASSUME NEW p \in Parties
  PROVE  Peer(p) \in Parties /\ Peer(p) # p /\ Peer(Peer(p)) = p
  BY BoundsAssumption DEF Parties, Peer

\* An agreement is a set of ratchet keys, and a root key one agreement longer
\* than the root key it comes from.
LEMMA KdfRootType ==
  ASSUME NEW p \in Parties, NEW a \in RatchetKeyOf(p), NEW b \in RatchetKeyOf(Peer(p)),
         NEW r \in Root
  PROVE  /\ KdfRoot(r, Dh(a, b)) \in Root
         /\ Len(r) \in Nat /\ Len(KdfRoot(r, Dh(a, b))) = Len(r) + 1
         /\ ChainOf(KdfRoot(r, Dh(a, b))) \in Chain
<1> DEFINE U == SUBSET (RatchetKeyOf(Alice) \cup RatchetKeyOf(Bob))
<1>1. Dh(a, b) \in U
  BY DEF Dh, Parties, Peer
<1>2. r \in Seq(U) /\ Root = Seq(U)
  BY DEF Root
<1> HIDE DEF U
<1>3. /\ Append(r, Dh(a, b)) \in Seq(U) /\ Len(Append(r, Dh(a, b))) = Len(r) + 1
      /\ Len(r) \in Nat
  BY <1>1, <1>2, ItemsOfAppend, LenProperties
<1> QED BY <1>2, <1>3 DEF KdfRoot, ChainOf, Chain

\* Winding a chain on changes its step only.
LEMMA KdfChainType ==
  ASSUME NEW c \in Chain, NEW n \in Nat
  PROVE  /\ KdfChain(c, n) \in Chain
         /\ KdfChain(c, n).root = c.root /\ KdfChain(c, n).step = c.step + n
  BY DEF KdfChain, Chain

-----------------------------------------------------------------------------
(***************************************************************************)
(* What one end can no longer derive.  A session derives keys from its     *)
(* receiving chain onwards, and from chains with longer roots that further *)
(* agreements give it; what lies behind both is past, and stays past.      *)
(***************************************************************************)

Past(s, c) ==
  \/ Len(c.root) + 1 < Len(s.root)
  \/ s.recvChain # None /\ c.root = s.recvChain.root /\ c.step < s.recvChain.step

\* The receiving chain comes from the agreement before the last; every kept key
\* is past, so no chain gives it again, and none is kept twice.
Ratcheted(s) ==
  /\ s.recvChain # None => Len(s.recvChain.root) + 1 = Len(s.root)
  /\ \A k \in s.skipped : Past(s, k.key)
  /\ \A k, l \in s.skipped : k.key = l.key => k = l

Session(p, s) ==
  /\ s \in SessionOf(p) /\ Ratcheted(s)
  /\ s.recvChain # None => s.remote \in RatchetKeyOf(Peer(p))

\* How receiving moves a session: nothing past comes back, what is newly kept
\* was not past, and the sending chain is the same or starts from a longer root.
Moves(p, s, t) ==
  /\ Session(p, t)
  /\ \A c \in Chain : Past(s, c) => Past(t, c)
  /\ \A k \in t.skipped : k \in s.skipped \/ ~ Past(s, k.key)
  /\ \/ t.root = s.root /\ t.sendChain = s.sendChain
     \/ /\ Len(t.root) = Len(s.root) + 2 /\ t.sendChain \in Chain
        /\ t.sendChain.root = t.root

\* Roots have lengths and chains have steps, both natural numbers.
LEMMA Lengths ==
  ASSUME NEW p, NEW s \in SessionOf(p)
  PROVE  Len(s.root) \in Nat /\ \A c \in Chain : Len(c.root) \in Nat /\ c.step \in Nat
  BY LenProperties DEF SessionOf, Root, Chain

\* The absence of a chain is told apart from every chain.
LEMMA NoneIsNoChain == None \notin Chain
<1> DEFINE U == SUBSET ({Alice, Bob} \X Nat)
           V == SUBSET (RatchetKeyOf(Alice) \cup RatchetKeyOf(Bob))
<1>1. V \subseteq U
  BY DEF RatchetKeyOf
<1> HIDE DEF U, V
<1>2. \A r \in Seq(V) : r \in Seq(U)
  BY <1>1, SeqMonotonic
<1>3. None \notin [root: Seq(U), step: Nat]
  BY NoneAssumption DEF U
<1> QED BY <1>2, <1>3 DEF Chain, Root, V

\* Skipping keeps keys the chain has yet to give, and moves the chain past them.
LEMMA SkipMoves ==
  ASSUME NEW p \in Parties, NEW s, Session(p, s), s.recvChain # None,
         NEW rk \in RatchetKeyOf(Peer(p)), NEW until \in Nat
  PROVE  LET t == SkipMessages(s, rk, until)
         IN  /\ Moves(p, s, t)
             /\ t.recvChain \in Chain /\ t.recvChain.root = s.recvChain.root
             /\ t.recvChain.step >= s.recvChain.step
             /\ t.root = s.root /\ t.sendChain = s.sendChain
             /\ t.self = s.self /\ t.remote = s.remote /\ t.recvNum = s.recvNum
<1>0. s \in SessionOf(p) /\ Ratcheted(s) /\ s.remote \in RatchetKeyOf(Peer(p))
  BY DEF Session
<1>1. s.recvChain \in Chain /\ s.recvNum \in Nat /\ s.skipped \subseteq KeptKey(Peer(p))
  BY <1>0 DEF SessionOf
<1>2. Len(s.root) \in Nat /\ \A c \in Chain : Len(c.root) \in Nat /\ c.step \in Nat
  BY <1>0, Lengths
<1>3. CASE until < s.recvNum
  <2>1. SkipMessages(s, rk, until) = s
    BY <1>3 DEF SkipMessages
  <2> QED BY <1>1, <1>2, <2>1 DEF Moves
<1>4. CASE ~ (until < s.recvNum)
  <2> DEFINE steps == until - s.recvNum
             kept == Kept(s, rk, until)
             old == {k \in s.skipped : ~(k.rk = rk /\ k.num \in s.recvNum .. until - 1)}
             t == [s EXCEPT !.skipped = old \cup kept,
                            !.recvChain = KdfChain(@, steps)]
  <2>1. SkipMessages(s, rk, until) = t
    BY <1>4 DEF SkipMessages
  <2>2. steps \in Nat
    BY <1>1, <1>4
  <2>3. /\ KdfChain(s.recvChain, steps) \in Chain
        /\ KdfChain(s.recvChain, steps).root = s.recvChain.root
        /\ KdfChain(s.recvChain, steps).step = s.recvChain.step + steps
    BY <1>1, <2>2, KdfChainType
  <2>4. ASSUME NEW k \in kept
        PROVE  /\ k \in KeptKey(Peer(p))
               /\ k.key.root = s.recvChain.root
               /\ k.key.step >= s.recvChain.step /\ k.key.step < s.recvChain.step + steps
               /\ k.rk = rk /\ k.num = s.recvNum + (k.key.step - s.recvChain.step)
               /\ k = [rk |-> rk, num |-> k.num, key |-> k.key]
    <3>1. PICK n \in s.recvNum .. until - 1 :
             k = [rk |-> rk, num |-> n, key |-> KdfChain(s.recvChain, n - s.recvNum)]
      BY <2>4 DEF Kept
    <3>2. n \in Nat /\ n - s.recvNum \in Nat /\ n - s.recvNum < steps
      BY <1>1, <3>1
    <3>3. /\ KdfChain(s.recvChain, n - s.recvNum) \in Chain
          /\ KdfChain(s.recvChain, n - s.recvNum).root = s.recvChain.root
          /\ KdfChain(s.recvChain, n - s.recvNum).step = s.recvChain.step + (n - s.recvNum)
      BY <1>1, <3>2, KdfChainType
    <3>4. k \in KeptKey(Peer(p))
      BY <3>1, <3>2, <3>3 DEF KeptKey
    <3>5. s.recvChain.step \in Nat
      BY <1>1, <1>2
    <3> QED BY <1>1, <2>2, <3>1, <3>2, <3>3, <3>4, <3>5
  <2>5. /\ t.skipped = old \cup kept /\ t.recvChain = KdfChain(s.recvChain, steps)
        /\ t.root = s.root /\ t.sendChain = s.sendChain /\ t.self = s.self
        /\ t.remote = s.remote /\ t.recvNum = s.recvNum
    BY <1>0 DEF SessionOf
  <2>6. t \in SessionOf(p)
    <3>1. old \cup kept \subseteq KeptKey(Peer(p))
      BY <1>1, <2>4
    <3> HIDE DEF old, kept
    <3> QED BY <1>0, <2>3, <3>1 DEF SessionOf
  <2> HIDE DEF t, old, kept, steps
  <2>7. old \subseteq s.skipped
    BY DEF old
  <2>8. ASSUME NEW c \in Chain, Past(s, c) PROVE Past(t, c)
    BY <1>1, <1>2, <2>2, <2>3, <2>5, <2>8, NoneIsNoChain DEF Past
  <2>9. ASSUME NEW k \in kept PROVE Past(t, k.key) /\ ~ Past(s, k.key)
    <3>1. k.key \in Chain
      BY <2>4 DEF KeptKey
    <3>2. Len(s.recvChain.root) + 1 = Len(s.root)
      BY <1>0 DEF Ratcheted
    <3>3. Past(t, k.key)
      BY <2>3, <2>4, <2>5, NoneIsNoChain DEF Past
    <3>4. ~ Past(s, k.key)
      BY <1>1, <1>2, <2>4, <3>1, <3>2 DEF Past
    <3> QED BY <3>3, <3>4
  <2>10. Ratcheted(t)
    <3>1. Len(t.recvChain.root) + 1 = Len(t.root)
      BY <1>0, <2>3, <2>5 DEF Ratcheted
    <3>2. \A k \in t.skipped : Past(t, k.key)
      <4>1. \A k \in s.skipped : k.key \in Chain /\ Past(s, k.key)
        BY <1>0, <1>1 DEF Ratcheted, KeptKey
      <4> QED BY <2>5, <2>7, <2>8, <2>9, <4>1
    <3>3. ASSUME NEW k \in t.skipped, NEW l \in t.skipped, k.key = l.key PROVE k = l
      <4>1. \A x \in old : Past(s, x.key)
        BY <1>0, <2>7 DEF Ratcheted
      <4>2. CASE k \in old /\ l \in old
        BY <1>0, <2>7, <3>3, <4>2 DEF Ratcheted
      <4>3. CASE k \in kept /\ l \in kept
        <5>1. k.num = l.num
          BY <2>4, <3>3, <4>3
        <5> QED BY <2>4, <3>3, <4>3, <5>1
      <4>4. CASE k \in old /\ l \in kept
        BY <2>9, <3>3, <4>1, <4>4
      <4>5. CASE l \in old /\ k \in kept
        BY <2>9, <3>3, <4>1, <4>5
      <4> QED BY <2>5, <4>2, <4>3, <4>4, <4>5
    <3> QED BY <3>1, <3>2, <3>3 DEF Ratcheted
  <2>11. Session(p, t)
    BY <1>0, <2>5, <2>6, <2>10 DEF Session
  <2>12. \A k \in t.skipped : k \in s.skipped \/ ~ Past(s, k.key)
    BY <2>5, <2>7, <2>9
  <2>13. Moves(p, s, t)
    BY <2>5, <2>8, <2>11, <2>12 DEF Moves
  <2>14. t.recvChain.step >= s.recvChain.step
    BY <1>1, <1>2, <2>2, <2>3, <2>5
  <2> QED BY <2>1, <2>3, <2>5, <2>13, <2>14
<1> QED BY <1>3, <1>4

\* Moving on twice is moving on, when the second move leaves the sending alone
\* or the first one does.
LEMMA MovesTwice ==
  ASSUME NEW p, NEW s, NEW t, NEW u, Session(p, s), Moves(p, s, t), Moves(p, t, u),
         \/ t.root = s.root /\ t.sendChain = s.sendChain
         \/ u.root = t.root /\ u.sendChain = t.sendChain
  PROVE  Moves(p, s, u)
<1>1. Session(p, u) /\ \A k \in u.skipped : k.key \in Chain
  BY DEF Moves, Session, SessionOf, KeptKey
<1>2. \A c \in Chain : Past(s, c) => Past(u, c)
  BY DEF Moves
<1>3. \A k \in u.skipped : k \in s.skipped \/ ~ Past(s, k.key)
  BY <1>1 DEF Moves
<1>4. \/ u.root = s.root /\ u.sendChain = s.sendChain
      \/ /\ Len(u.root) = Len(s.root) + 2 /\ u.sendChain \in Chain
         /\ u.sendChain.root = u.root
  BY DEF Moves
<1> QED BY <1>1, <1>2, <1>3, <1>4 DEF Moves

\* A new key of the other end starts both chains from longer roots.
LEMMA RatchetMoves ==
  ASSUME NEW p \in Parties, NEW s, Session(p, s), NEW rk \in RatchetKeyOf(Peer(p))
  PROVE  LET t == DhRatchet(s, rk)
         IN  Moves(p, s, t) /\ t.recvChain \in Chain /\ t.remote = rk
<1> DEFINE recvRoot == KdfRoot(s.root, Dh(s.self, rk))
           fresh == <<s.self[1], s.self[2] + 1>>
           sendRoot == KdfRoot(recvRoot, Dh(fresh, rk))
           t == DhRatchet(s, rk)
<1>0. s \in SessionOf(p) /\ Ratcheted(s)
  BY DEF Session
<1>1. s.root \in Root /\ s.self \in RatchetKeyOf(p) /\ s.sendNum \in Nat
      /\ s.skipped \subseteq KeptKey(Peer(p))
  BY <1>0 DEF SessionOf
<1>2. fresh \in RatchetKeyOf(p)
  BY <1>1 DEF RatchetKeyOf
<1> HIDE DEF fresh
<1>3. /\ recvRoot \in Root /\ Len(s.root) \in Nat /\ Len(recvRoot) = Len(s.root) + 1
      /\ ChainOf(recvRoot) \in Chain
  BY <1>1, KdfRootType
<1> HIDE DEF recvRoot
<1>4. /\ sendRoot \in Root /\ Len(sendRoot) = Len(recvRoot) + 1 /\ ChainOf(sendRoot) \in Chain
  BY <1>2, <1>3, KdfRootType
<1> HIDE DEF sendRoot
<1>5. t = [s EXCEPT !.self = fresh, !.remote = rk, !.root = sendRoot,
                    !.recvChain = ChainOf(recvRoot), !.recvNum = 0,
                    !.prevLen = s.sendNum, !.sendNum = 0,
                    !.sendChain = ChainOf(sendRoot)]
  BY DEF DhRatchet, recvRoot, fresh, sendRoot
<1> HIDE DEF t
<1>6. t \in SessionOf(p)
  BY <1>0, <1>1, <1>2, <1>3, <1>4, <1>5 DEF SessionOf
<1>7. /\ t.remote = rk /\ t.root = sendRoot /\ t.skipped = s.skipped
      /\ t.recvChain = ChainOf(recvRoot) /\ t.sendChain = ChainOf(sendRoot)
  BY <1>0, <1>5 DEF SessionOf
<1>8. ChainOf(recvRoot).root = recvRoot /\ ChainOf(sendRoot).root = sendRoot
  BY DEF ChainOf
<1>9. Len(t.root) = Len(s.root) + 2 /\ Len(t.recvChain.root) + 1 = Len(t.root)
  BY <1>3, <1>4, <1>7, <1>8
<1>10. ASSUME NEW c \in Chain, Past(s, c) PROVE Past(t, c)
  <2>1. Len(c.root) \in Nat
    BY <1>0, Lengths
  <2>2. Len(c.root) + 1 <= Len(s.root)
    BY <1>0, <1>3, <1>10, <2>1 DEF Past, Ratcheted
  <2> QED BY <1>3, <1>9, <2>1, <2>2 DEF Past
<1>11. \A k \in s.skipped : Past(t, k.key)
  BY <1>0, <1>1, <1>10 DEF Ratcheted, KeptKey
<1>12. Session(p, t)
  BY <1>0, <1>6, <1>7, <1>9, <1>11 DEF Session, Ratcheted
<1>13. Moves(p, s, t)
  BY <1>4, <1>7, <1>8, <1>9, <1>10, <1>12 DEF Moves
<1> QED BY <1>3, <1>7, <1>13 DEF t

\* What a try does to the session, and that a key once tried is gone from it.
Forgets(p, s, r) ==
  /\ Moves(p, s, r.session)
  /\ r.key # None =>
       /\ r.key \in Chain /\ Past(r.session, r.key)
       /\ \A k \in r.session.skipped : k.key # r.key

\* A try in the chain at hand forgets the key it used.
LEMMA InChainForgets ==
  ASSUME NEW p \in Parties, NEW s, Session(p, s), NEW w \in Wire(Peer(p))
  PROVE  LET r == DecryptInChain(s, w)
         IN  /\ Forgets(p, s, r)
             /\ r.session.root = s.root /\ r.session.sendChain = s.sendChain
<1>0. w.rk \in RatchetKeyOf(Peer(p)) /\ w.num \in Nat
  BY DEF Wire
<1>1. ASSUME s.recvChain = None \/ TooManySkipped(s, w.num)
      PROVE  LET r == DecryptInChain(s, w)
             IN  /\ Forgets(p, s, r)
                 /\ r.session.root = s.root /\ r.session.sendChain = s.sendChain
  <2>1. DecryptInChain(s, w) = [session |-> s, key |-> None]
    BY <1>1 DEF DecryptInChain, Refused, Tried
  <2>2. Moves(p, s, s)
    BY DEF Moves
  <2> QED BY <2>1, <2>2 DEF Forgets
<1>2. ASSUME s.recvChain # None, ~ TooManySkipped(s, w.num)
      PROVE  LET r == DecryptInChain(s, w)
             IN  /\ Forgets(p, s, r)
                 /\ r.session.root = s.root /\ r.session.sendChain = s.sendChain
  <2> DEFINE past == SkipMessages(s, w.rk, w.num)
             t == [past EXCEPT !.recvChain = KdfChain(@, 1), !.recvNum = w.num + 1]
  <2>1. DecryptInChain(s, w) = [session |-> t, key |-> past.recvChain]
    BY <1>2 DEF DecryptInChain, Tried
  <2>2. /\ Moves(p, s, past) /\ past.recvChain \in Chain
        /\ past.root = s.root /\ past.sendChain = s.sendChain
    BY <1>0, <1>2, SkipMoves
  <2> HIDE DEF past
  <2>3. past \in SessionOf(p) /\ Ratcheted(past) /\ Session(p, past)
    BY <2>2 DEF Moves, Session
  <2>4. Len(past.root) \in Nat /\ \A c \in Chain : Len(c.root) \in Nat /\ c.step \in Nat
    BY <2>3, Lengths
  <2>5. /\ KdfChain(past.recvChain, 1) \in Chain
        /\ KdfChain(past.recvChain, 1).root = past.recvChain.root
        /\ KdfChain(past.recvChain, 1).step = past.recvChain.step + 1
    BY <2>2, KdfChainType
  <2>6. /\ t.recvChain = KdfChain(past.recvChain, 1) /\ t.root = past.root
        /\ t.skipped = past.skipped /\ t.sendChain = past.sendChain /\ t.remote = past.remote
    BY <2>3 DEF SessionOf
  <2>7. t \in SessionOf(p)
    <3> DEFINE next == KdfChain(past.recvChain, 1)
               num == w.num + 1
    <3>1. next \in Chain \cup {None} /\ num \in Nat
      BY <1>0, <2>5
    <3>2. t = [past EXCEPT !.recvChain = next, !.recvNum = num]
      OBVIOUS
    <3> HIDE DEF next, num, t
    <3> QED BY <2>3, <3>1, <3>2 DEF SessionOf
  <2> HIDE DEF t
  <2>8. \A c \in Chain : Past(past, c) => Past(t, c)
    BY <2>2, <2>4, <2>5, <2>6, NoneIsNoChain DEF Past
  <2>9. Past(t, past.recvChain) /\ ~ Past(past, past.recvChain)
    <3>1. Past(t, past.recvChain)
      BY <2>2, <2>4, <2>5, <2>6, NoneIsNoChain DEF Past
    <3>2. ~ Past(past, past.recvChain)
      BY <2>2, <2>3, <2>4, NoneIsNoChain DEF Past, Ratcheted
    <3> QED BY <3>1, <3>2
  <2>10. \A k \in past.skipped : k.key \in Chain /\ Past(past, k.key)
    BY <2>3 DEF Ratcheted, SessionOf, KeptKey
  <2>11. \A k \in t.skipped : Past(t, k.key) /\ k.key # past.recvChain
    BY <2>6, <2>8, <2>9, <2>10
  <2>12. Len(t.recvChain.root) + 1 = Len(t.root)
    BY <2>2, <2>3, <2>5, <2>6, NoneIsNoChain DEF Ratcheted
  <2>13. Session(p, t)
    BY <2>2, <2>3, <2>6, <2>7, <2>11, <2>12, NoneIsNoChain DEF Session, Ratcheted
  <2>14. Moves(p, past, t)
    BY <2>6, <2>8, <2>13 DEF Moves
  <2>15. Moves(p, s, t)
    BY <2>2, <2>14, MovesTwice
  <2> QED BY <2>1, <2>2, <2>6, <2>9, <2>11, <2>15 DEF Forgets
<1> QED BY <1>1, <1>2

\* A kept key is given up as it is tried.
LEMMA SkippedForgets ==
  ASSUME NEW p \in Parties, NEW s, Session(p, s), NEW w,
         \E k \in s.skipped : k.rk = w.rk /\ k.num = w.num
  PROVE  Forgets(p, s, DecryptSkipped(s, w))
<1> DEFINE kept == CHOOSE k \in s.skipped : k.rk = w.rk /\ k.num = w.num
           t == [s EXCEPT !.skipped = @ \ {kept}]
<1>0. s \in SessionOf(p) /\ Ratcheted(s)
  BY DEF Session
<1>1. kept \in s.skipped
  OBVIOUS
<1>2. DecryptSkipped(s, w) = [session |-> t, key |-> kept.key]
  BY DEF DecryptSkipped, Tried
<1> HIDE DEF kept
<1>3. t.skipped = s.skipped \ {kept} /\ t.root = s.root /\ t.recvChain = s.recvChain
      /\ t.sendChain = s.sendChain /\ t.remote = s.remote
  BY <1>0 DEF SessionOf
<1>4. t \in SessionOf(p)
  BY <1>0 DEF SessionOf
<1> HIDE DEF t
<1>5. \A c : Past(s, c) <=> Past(t, c)
  BY <1>3 DEF Past
<1>6. Session(p, t)
  BY <1>0, <1>3, <1>4, <1>5 DEF Session, Ratcheted
<1>7. Moves(p, s, t)
  BY <1>3, <1>5, <1>6 DEF Moves
<1>8. kept.key \in Chain /\ Past(t, kept.key) /\ \A k \in t.skipped : k.key # kept.key
  BY <1>0, <1>1, <1>3, <1>5 DEF Ratcheted, SessionOf, KeptKey
<1> QED BY <1>2, <1>7, <1>8 DEF Forgets

\* ratchet.rs `decrypt`, whichever way it goes.
LEMMA DecryptForgets ==
  ASSUME NEW p \in Parties, NEW s, Session(p, s), NEW w \in Wire(Peer(p))
  PROVE  Forgets(p, s, Decrypt(s, w))
<1>0. w.rk \in RatchetKeyOf(Peer(p)) /\ w.num \in Nat /\ w.prevLen \in Nat
  BY DEF Wire
<1>1. CASE \E k \in s.skipped : k.rk = w.rk /\ k.num = w.num
  BY <1>1, SkippedForgets DEF Decrypt
<1>2. CASE ~ (\E k \in s.skipped : k.rk = w.rk /\ k.num = w.num) /\ s.remote = w.rk
  BY <1>2, InChainForgets DEF Decrypt
<1>3. CASE ~ (\E k \in s.skipped : k.rk = w.rk /\ k.num = w.num) /\ s.remote # w.rk
  <2>1. Decrypt(s, w) = DecryptNewKey(s, w)
    BY <1>3 DEF Decrypt
  <2>2. CASE s.recvChain = None
    <3> DEFINE t == DhRatchet(s, w.rk)
               r == DecryptInChain(t, w)
    <3>1. Moves(p, s, t) /\ Session(p, t)
      BY <1>0, RatchetMoves DEF Moves
    <3>2. DecryptNewKey(s, w) = r
      BY <2>2 DEF DecryptNewKey
    <3> HIDE DEF t
    <3>3. /\ Forgets(p, t, r)
          /\ r.session.root = t.root /\ r.session.sendChain = t.sendChain
      BY <3>1, InChainForgets
    <3> HIDE DEF r
    <3>4. Moves(p, s, r.session)
      BY <3>1, <3>3, MovesTwice DEF Forgets
    <3> QED BY <2>1, <3>2, <3>3, <3>4 DEF Forgets
  <2>3. CASE s.recvChain # None /\ TooManySkipped(s, w.prevLen)
    <3>1. DecryptNewKey(s, w) = [session |-> s, key |-> None]
      BY <2>3 DEF DecryptNewKey, Refused, Tried
    <3>2. Moves(p, s, s)
      BY DEF Moves
    <3> QED BY <2>1, <3>1, <3>2 DEF Forgets
  <2>4. CASE s.recvChain # None /\ ~ TooManySkipped(s, w.prevLen)
    <3> DEFINE u == SkipMessages(s, s.remote, w.prevLen)
               t == DhRatchet(u, w.rk)
               r == DecryptInChain(t, w)
    <3>1. s.remote \in RatchetKeyOf(Peer(p))
      BY <2>4 DEF Session
    <3>2. Moves(p, s, u) /\ Session(p, u) /\ u.root = s.root /\ u.sendChain = s.sendChain
      BY <1>0, <2>4, <3>1, SkipMoves DEF Moves
    <3>3. DecryptNewKey(s, w) = r
      BY <2>4 DEF DecryptNewKey
    <3> HIDE DEF u
    <3>4. Moves(p, u, t) /\ Session(p, t)
      BY <1>0, <3>2, RatchetMoves DEF Moves
    <3> HIDE DEF t
    <3>5. Moves(p, s, t)
      BY <3>2, <3>4, MovesTwice
    <3>6. /\ Forgets(p, t, r)
          /\ r.session.root = t.root /\ r.session.sendChain = t.sendChain
      BY <3>4, InChainForgets
    <3> HIDE DEF r
    <3>7. Moves(p, s, r.session)
      BY <3>5, <3>6, MovesTwice DEF Forgets
    <3> QED BY <2>1, <3>3, <3>6, <3>7 DEF Forgets
  <2> QED BY <2>1, <2>2, <2>3, <2>4
<1> QED BY <1>1, <1>2, <1>3

-----------------------------------------------------------------------------
(***************************************************************************)
(* The inductive invariant.  On the sending side: a key that closed a      *)
(* message is behind the sending chain, and the two ends take turns with   *)
(* the lengths of their roots, so neither ever sends under a key of the    *)
(* other.  On the receiving side: a key that opened a message is past.     *)
(***************************************************************************)

Turn(p) == IF p = Alice THEN 1 ELSE 0
OnTurn(p, r) == \E n \in Nat : Len(r) = 2 * n + Turn(p)

\* The key is behind the sending chain of s.
Spent(s, c) ==
  \/ Len(c.root) < Len(s.root)
  \/ s.sendChain # None /\ c.root = s.sendChain.root /\ c.step < s.sendChain.step

SessionsOK ==
  /\ session \in [Parties -> SessionOf(Alice) \cup SessionOf(Bob)]
  /\ \A p \in Parties :
       /\ Session(p, session[p]) /\ OnTurn(p, session[p].root)
       /\ session[p].sendChain # None => session[p].sendChain.root = session[p].root

MessagesOK ==
  /\ opened \subseteq came /\ came \subseteq wires /\ dups \in 0 .. MaxDups
  /\ \A w \in wires :
       /\ w.from \in Parties /\ w \in Wire(w.from)
       /\ OnTurn(w.from, w.key.root) /\ Spent(session[w.from], w.key)

OpenedIsPast ==
  \A w \in opened :
    /\ Past(session[Peer(w.from)], w.key)
    /\ \A k \in session[Peer(w.from)].skipped : k.key # w.key

RatchetInv == SessionsOK /\ MessagesOK /\ OpenedIsPast /\ KeysUsedOnce

\* What was spent stays spent when the session moves on.
LEMMA SpentStays ==
  ASSUME NEW p, NEW s \in SessionOf(p), NEW t, Moves(p, s, t), NEW c \in Chain, Spent(s, c),
         s.sendChain # None => s.sendChain.root = s.root
  PROVE  Spent(t, c)
<1>1. Len(s.root) \in Nat /\ Len(c.root) \in Nat
  BY Lengths
<1>2. CASE t.root = s.root /\ t.sendChain = s.sendChain
  BY <1>2 DEF Spent
<1>3. CASE Len(t.root) = Len(s.root) + 2
  <2>1. Len(c.root) <= Len(s.root)
    BY <1>1 DEF Spent
  <2> QED BY <1>1, <1>3, <2>1 DEF Spent
<1> QED BY <1>2, <1>3 DEF Moves

\* encrypt: a key that was never used, and the chain moves past it.
LEMMA EncryptStep ==
  ASSUME RatchetInv, NEW p \in Parties, Encrypt(p)
  PROVE  RatchetInv'
<1> DEFINE s == session[p]
           t == session'[p]
           w == [from |-> p, rk |-> s.self, prevLen |-> s.prevLen,
                 num |-> s.sendNum, key |-> s.sendChain]
           next == KdfChain(s.sendChain, 1)
<1>0. /\ session \in [Parties -> SessionOf(Alice) \cup SessionOf(Bob)]
      /\ Session(p, s) /\ s \in SessionOf(p) /\ OnTurn(p, s.root)
      /\ s.sendChain # None /\ s.sendChain.root = s.root /\ s.sendChain \in Chain
  BY DEF RatchetInv, SessionsOK, Encrypt, Session, SessionOf
<1>1. /\ wires' = wires \cup {w} /\ UNCHANGED <<came, opened, dups>>
      /\ session' = [session EXCEPT ![p] = [s EXCEPT !.sendChain = next, !.sendNum = @ + 1]]
  BY <1>0 DEF Encrypt
<1>2. next \in Chain /\ next.root = s.sendChain.root /\ next.step = s.sendChain.step + 1
  BY <1>0, KdfChainType
<1>3. Len(s.root) \in Nat /\ \A c \in Chain : Len(c.root) \in Nat /\ c.step \in Nat
  BY <1>0, Lengths
<1>4. w \in Wire(p) /\ w.from = p /\ w.key = s.sendChain
  BY <1>0 DEF Wire, SessionOf
<1> HIDE DEF next, w
<1>5. /\ t = [s EXCEPT !.sendChain = next, !.sendNum = @ + 1]
      /\ \A q \in Parties : q # p => session'[q] = session[q]
  BY <1>0, <1>1
<1> HIDE DEF s
<1>6. /\ t.sendChain = next /\ t.root = s.root /\ t.recvChain = s.recvChain
      /\ t.skipped = s.skipped /\ t.remote = s.remote
  BY <1>0, <1>5 DEF SessionOf
<1>7. t \in SessionOf(p)
  <2>1. s.sendNum \in Nat /\ s.sendNum + 1 \in Nat
    BY <1>0 DEF SessionOf
  <2> QED BY <1>0, <1>2, <1>5, <2>1 DEF SessionOf
<1> HIDE DEF t
<1>8. \A c : Past(s, c) <=> Past(t, c)
  BY <1>6 DEF Past
<1>9. Session(p, t) /\ OnTurn(p, t.root) /\ t.sendChain.root = t.root
  BY <1>0, <1>2, <1>6, <1>7, <1>8 DEF Session, Ratcheted, OnTurn
<1>10. SessionsOK'
  <2>1. session' \in [Parties -> SessionOf(Alice) \cup SessionOf(Bob)]
    <3>1. t \in SessionOf(Alice) \cup SessionOf(Bob)
      BY <1>7 DEF Parties
    <3> QED BY <1>0, <1>1, <3>1 DEF s, t
  <2>2. ASSUME NEW q \in Parties
        PROVE  /\ Session(q, session'[q]) /\ OnTurn(q, session'[q].root)
               /\ session'[q].sendChain # None => session'[q].sendChain.root = session'[q].root
    BY <1>5, <1>9 DEF RatchetInv, SessionsOK, t
  <2>3. \A q \in Parties : /\ Session(q, session'[q]) /\ OnTurn(q, session'[q].root)
                           /\ session'[q].sendChain # None =>
                                session'[q].sendChain.root = session'[q].root
    BY <2>2
  <2> QED BY <2>1, <2>3 DEF SessionsOK
<1>11. \A c \in Chain : Spent(s, c) => Spent(t, c)
  BY <1>0, <1>2, <1>3, <1>6, NoneIsNoChain DEF Spent
<1>12. Spent(t, w.key) /\ ~ Spent(s, w.key)
  <2>1. Spent(t, w.key)
    BY <1>0, <1>2, <1>3, <1>4, <1>6, NoneIsNoChain DEF Spent
  <2>2. ~ Spent(s, w.key)
    BY <1>0, <1>3, <1>4 DEF Spent
  <2> QED BY <2>1, <2>2
<1>13. \A v \in wires : /\ v.from \in Parties /\ v \in Wire(v.from) /\ v.key \in Chain
                        /\ OnTurn(v.from, v.key.root) /\ Spent(session[v.from], v.key)
  BY DEF RatchetInv, MessagesOK, Wire
<1>14. MessagesOK'
  <2>1. opened' \subseteq came' /\ came' \subseteq wires' /\ dups' \in 0 .. MaxDups
    BY <1>1 DEF RatchetInv, MessagesOK
  <2>2. ASSUME NEW v \in wires'
        PROVE  /\ v.from \in Parties /\ v \in Wire(v.from)
               /\ OnTurn(v.from, v.key.root) /\ Spent(session'[v.from], v.key)
    <3>1. CASE v = w
      BY <1>0, <1>4, <1>12, <3>1 DEF t
    <3>2. CASE v \in wires
      <4>1. CASE v.from = p
        BY <1>11, <1>13, <3>2, <4>1 DEF s, t
      <4>2. CASE v.from # p
        BY <1>5, <1>13, <3>2, <4>2
      <4> QED BY <4>1, <4>2
    <3> QED BY <1>1, <3>1, <3>2
  <2> QED BY <2>1, <2>2 DEF MessagesOK
<1>15. OpenedIsPast'
  <2>1. ASSUME NEW v \in opened
        PROVE  /\ Past(session'[Peer(v.from)], v.key)
               /\ \A k \in session'[Peer(v.from)].skipped : k.key # v.key
    <3>1. v.from \in Parties /\ Peer(v.from) \in Parties
      BY <1>13, PeerOfPeer DEF RatchetInv, MessagesOK
    <3>2. /\ Past(session[Peer(v.from)], v.key)
          /\ \A k \in session[Peer(v.from)].skipped : k.key # v.key
      BY DEF RatchetInv, OpenedIsPast
    <3>3. CASE Peer(v.from) = p
      BY <1>6, <1>8, <3>2, <3>3 DEF s, t
    <3>4. CASE Peer(v.from) # p
      BY <1>5, <3>1, <3>2, <3>4
    <3> QED BY <3>3, <3>4
  <2> QED BY <1>1, <2>1 DEF OpenedIsPast
<1>16. ASSUME NEW v \in wires PROVE v.key # w.key
  <2>1. CASE v.from = p
    BY <1>12, <1>13, <2>1 DEF s
  <2>2. CASE v.from # p
    <3>1. Turn(v.from) # Turn(p) /\ Turn(v.from) \in {0, 1} /\ Turn(p) \in {0, 1}
      BY <1>13, <2>2, BoundsAssumption DEF Turn, Parties
    <3>2. PICK n \in Nat : Len(v.key.root) = 2 * n + Turn(v.from)
      BY <1>13 DEF OnTurn
    <3>3. PICK m \in Nat : Len(w.key.root) = 2 * m + Turn(p)
      BY <1>0, <1>4 DEF OnTurn
    <3>4. Len(v.key.root) # Len(w.key.root)
      BY <3>1, <3>2, <3>3
    <3> QED BY <3>4
  <2> QED BY <2>1, <2>2
<1>17. KeysUsedOnce'
  BY <1>1, <1>16 DEF RatchetInv, KeysUsedOnce
<1> QED BY <1>10, <1>14, <1>15, <1>17 DEF RatchetInv

\* decrypt: whatever comes, in whatever order and how often.
LEMMA ReceiveStep ==
  ASSUME RatchetInv, NEW w \in wires, Receive(w)
  PROVE  RatchetInv'
<1> DEFINE p == Peer(w.from)
           s == session[p]
           r == Decrypt(s, w)
<1>0. /\ w.from \in Parties /\ w \in Wire(w.from) /\ w.key \in Chain
      /\ p \in Parties /\ Peer(p) = w.from
      /\ session \in [Parties -> SessionOf(Alice) \cup SessionOf(Bob)]
  BY PeerOfPeer DEF RatchetInv, MessagesOK, SessionsOK, Wire
<1>1. /\ session' = [session EXCEPT ![p] = r.session] /\ came' = came \cup {w} /\ wires' = wires
      /\ opened' = (IF r.key = w.key THEN opened \cup {w} ELSE opened)
      /\ (w \in came => dups < MaxDups) /\ dups' = (IF w \in came THEN dups + 1 ELSE dups)
  BY DEF Receive
<1> HIDE DEF p
<1>2. /\ Session(p, s) /\ s \in SessionOf(p) /\ OnTurn(p, s.root)
      /\ s.sendChain # None => s.sendChain.root = s.root
  BY <1>0 DEF RatchetInv, SessionsOK, Session
<1> HIDE DEF s
<1>3. Forgets(p, s, r)
  BY <1>0, <1>2, DecryptForgets
<1> HIDE DEF r
<1> DEFINE t == r.session
<1>4. Moves(p, s, t) /\ Session(p, t) /\ t \in SessionOf(p)
  BY <1>3 DEF Forgets, Moves, Session
<1>5. session'[p] = t /\ \A q \in Parties : q # p => session'[q] = session[q]
  BY <1>0, <1>1
<1> HIDE DEF t
<1>6. Len(s.root) \in Nat
  BY <1>2, Lengths
<1>7. OnTurn(p, t.root) /\ (t.sendChain # None => t.sendChain.root = t.root)
  <2>1. CASE t.root = s.root /\ t.sendChain = s.sendChain
    BY <1>2, <2>1 DEF OnTurn
  <2>2. CASE Len(t.root) = Len(s.root) + 2 /\ t.sendChain.root = t.root
    <3>1. PICK n \in Nat : Len(s.root) = 2 * n + Turn(p)
      BY <1>2 DEF OnTurn
    <3>2. Turn(p) \in Nat
      BY DEF Turn
    <3>3. n + 1 \in Nat /\ Len(t.root) = 2 * (n + 1) + Turn(p)
      BY <2>2, <3>1, <3>2
    <3> QED BY <2>2, <3>3 DEF OnTurn
  <2> QED BY <1>4, <2>1, <2>2 DEF Moves
<1>8. SessionsOK'
  <2>1. session' \in [Parties -> SessionOf(Alice) \cup SessionOf(Bob)]
    <3>1. t \in SessionOf(Alice) \cup SessionOf(Bob)
      BY <1>0, <1>4 DEF Parties
    <3> QED BY <1>0, <1>1, <3>1 DEF t
  <2>2. \A q \in Parties : /\ Session(q, session'[q]) /\ OnTurn(q, session'[q].root)
                           /\ session'[q].sendChain # None =>
                                session'[q].sendChain.root = session'[q].root
    BY <1>4, <1>5, <1>7 DEF RatchetInv, SessionsOK
  <2> QED BY <2>1, <2>2 DEF SessionsOK
<1>9. MessagesOK'
  <2>1. opened' \subseteq came' /\ came' \subseteq wires'
    BY <1>1 DEF RatchetInv, MessagesOK
  <2>2. dups' \in 0 .. MaxDups
    BY <1>1, BoundsAssumption DEF RatchetInv, MessagesOK
  <2>3. ASSUME NEW v \in wires
        PROVE  /\ v.from \in Parties /\ v \in Wire(v.from)
               /\ OnTurn(v.from, v.key.root) /\ Spent(session'[v.from], v.key)
    <3>1. /\ v.from \in Parties /\ v \in Wire(v.from) /\ v.key \in Chain
          /\ OnTurn(v.from, v.key.root) /\ Spent(session[v.from], v.key)
      BY DEF RatchetInv, MessagesOK, Wire
    <3>2. CASE v.from = p
      <4>1. Spent(s, v.key)
        BY <3>1, <3>2 DEF s
      <4>2. Spent(t, v.key)
        BY <1>2, <1>4, <3>1, <4>1, SpentStays
      <4> QED BY <1>5, <3>1, <3>2, <4>2
    <3>3. CASE v.from # p
      BY <1>5, <3>1, <3>3
    <3> QED BY <3>2, <3>3
  <2> QED BY <1>1, <2>1, <2>2, <2>3 DEF MessagesOK
<1>10. OpenedIsPast'
  <2>1. ASSUME NEW v \in opened
        PROVE  /\ Past(session'[Peer(v.from)], v.key)
               /\ \A k \in session'[Peer(v.from)].skipped : k.key # v.key
    <3>1. v \in wires /\ v.from \in Parties /\ v.key \in Chain /\ Peer(v.from) \in Parties
      BY PeerOfPeer DEF RatchetInv, MessagesOK, Wire
    <3>2. /\ Past(session[Peer(v.from)], v.key)
          /\ \A k \in session[Peer(v.from)].skipped : k.key # v.key
      BY DEF RatchetInv, OpenedIsPast
    <3>3. CASE Peer(v.from) = p
      <4>1. Past(s, v.key) /\ \A k \in s.skipped : k.key # v.key
        BY <3>2, <3>3 DEF s
      <4>2. Past(t, v.key) /\ \A k \in t.skipped : k.key # v.key
        BY <1>4, <3>1, <4>1 DEF Moves
      <4> QED BY <1>5, <3>3, <4>2
    <3>4. CASE Peer(v.from) # p
      BY <1>5, <3>1, <3>2, <3>4
    <3> QED BY <3>3, <3>4
  <2>2. r.key = w.key => Past(t, w.key) /\ \A k \in t.skipped : k.key # w.key
    BY <1>0, <1>3, NoneIsNoChain DEF Forgets, t
  <2>3. ASSUME NEW v \in opened'
        PROVE  /\ Past(session'[Peer(v.from)], v.key)
               /\ \A k \in session'[Peer(v.from)].skipped : k.key # v.key
    <3>1. CASE v \in opened
      BY <2>1, <3>1
    <3>2. CASE v = w /\ r.key = w.key
      BY <1>5, <2>2, <3>2 DEF p
    <3> QED BY <1>1, <3>1, <3>2
  <2> QED BY <2>3 DEF OpenedIsPast
<1>11. KeysUsedOnce'
  BY <1>1 DEF RatchetInv, KeysUsedOnce
<1> QED BY <1>8, <1>9, <1>10, <1>11 DEF RatchetInv

\* Alice starts with a chain to send under, Bob with nothing but his key.
LEMMA RatchetInit == Init => RatchetInv
<1> SUFFICES ASSUME Init PROVE RatchetInv
  OBVIOUS
<1> DEFINE root == KdfRoot(<< >>, Dh(<<Alice, 1>>, <<Bob, 1>>))
<1>1. /\ session = [p \in Parties |-> IF p = Alice THEN InitAlice ELSE InitBob]
      /\ wires = {} /\ came = {} /\ opened = {} /\ dups = 0 /\ Bob # Alice
      /\ Alice \in Parties /\ Bob \in Parties /\ Peer(Alice) = Bob /\ Peer(Bob) = Alice
  BY BoundsAssumption DEF Init, Parties, Peer
<1>2. <<Alice, 1>> \in RatchetKeyOf(Alice) /\ <<Bob, 1>> \in RatchetKeyOf(Bob)
  BY DEF RatchetKeyOf
<1>3. << >> \in Root /\ Len(<< >>) = 0
  BY EmptySeq DEF Root
<1>4. root \in Root /\ Len(root) = 1 /\ ChainOf(root) \in Chain
  <2> DEFINE a == <<Alice, 1>>
             b == <<Bob, 1>>
             e == << >>
  <2>1. a \in RatchetKeyOf(Alice) /\ b \in RatchetKeyOf(Peer(Alice)) /\ e \in Root /\ Len(e) = 0
    BY <1>1, <1>2, <1>3
  <2>2. root = KdfRoot(e, Dh(a, b))
    OBVIOUS
  <2> HIDE DEF a, b, e, root
  <2>3. /\ KdfRoot(e, Dh(a, b)) \in Root /\ Len(KdfRoot(e, Dh(a, b))) = Len(e) + 1
        /\ ChainOf(KdfRoot(e, Dh(a, b))) \in Chain
    BY <1>1, <2>1, KdfRootType
  <2> QED BY <2>1, <2>2, <2>3
<1>5. InitAlice = [self |-> <<Alice, 1>>, remote |-> <<Bob, 1>>, root |-> root,
                   sendChain |-> ChainOf(root), sendNum |-> 0,
                   recvChain |-> None, recvNum |-> 0, prevLen |-> 0, skipped |-> {}]
  BY DEF InitAlice
<1>6. ChainOf(root).root = root
  BY DEF ChainOf
<1> HIDE DEF root
<1>7. InitAlice \in SessionOf(Alice) /\ Session(Alice, InitAlice)
      /\ OnTurn(Alice, InitAlice.root) /\ InitAlice.sendChain.root = InitAlice.root
  <2>1. InitAlice \in SessionOf(Alice)
    BY <1>1, <1>2, <1>4, <1>5 DEF SessionOf
  <2>2. Session(Alice, InitAlice)
    BY <1>5, <2>1 DEF Session, Ratcheted
  <2>3. OnTurn(Alice, InitAlice.root)
    <3>1. Len(InitAlice.root) = 2 * 0 + Turn(Alice)
      BY <1>4, <1>5 DEF Turn
    <3> QED BY <3>1 DEF OnTurn
  <2> QED BY <1>5, <1>6, <2>1, <2>2, <2>3
<1>8. InitBob \in SessionOf(Bob) /\ Session(Bob, InitBob)
      /\ OnTurn(Bob, InitBob.root) /\ InitBob.sendChain = None
  <2>1. InitBob \in SessionOf(Bob)
    BY <1>1, <1>2, <1>3 DEF SessionOf, InitBob
  <2>2. Session(Bob, InitBob)
    BY <2>1 DEF Session, Ratcheted, InitBob
  <2>3. OnTurn(Bob, InitBob.root)
    <3>1. Len(InitBob.root) = 2 * 0 + Turn(Bob)
      BY <1>1, <1>3 DEF Turn, InitBob
    <3> QED BY <3>1 DEF OnTurn
  <2> QED BY <2>1, <2>2, <2>3 DEF InitBob
<1>9. session[Alice] = InitAlice /\ session[Bob] = InitBob
  BY <1>1
<1>10. SessionsOK
  <2>1. session \in [Parties -> SessionOf(Alice) \cup SessionOf(Bob)]
    BY <1>1, <1>7, <1>8 DEF Parties
  <2>2. \A p \in Parties : p = Alice \/ p = Bob
    BY DEF Parties
  <2> QED BY <1>7, <1>8, <1>9, <2>1, <2>2 DEF SessionsOK
<1>11. MessagesOK /\ OpenedIsPast /\ KeysUsedOnce
  BY <1>1, BoundsAssumption DEF MessagesOK, OpenedIsPast, KeysUsedOnce
<1> QED BY <1>10, <1>11 DEF RatchetInv

\* Every step of either party, and every stutter, preserves the invariant.
LEMMA RatchetStep == RatchetInv /\ [Next]_vars => RatchetInv'
<1> SUFFICES ASSUME RatchetInv, [Next]_vars PROVE RatchetInv'
  OBVIOUS
<1>1. ASSUME UNCHANGED vars PROVE RatchetInv'
  BY <1>1 DEF vars, RatchetInv, SessionsOK, MessagesOK, OpenedIsPast, KeysUsedOnce
<1> QED BY <1>1, EncryptStep, ReceiveStep DEF Next

\* A session stays well formed: keys, counters and kept keys have their shape,
\* nothing opens that did not come and nothing comes that was not written.
THEOREM RatchetTypeCorrect == Spec => []TypeOK
<1>1. RatchetInv => TypeOK
  <2> SUFFICES ASSUME RatchetInv PROVE TypeOK
    OBVIOUS
  <2>1. ASSUME NEW p \in Parties PROVE IsSession(session[p], p)
    <3>1. session[p] \in SessionOf(p)
      BY DEF RatchetInv, SessionsOK, Session
    <3>2. \A c \in Chain : IsChain(c)
      BY DEF Chain, IsChain
    <3>3. \A k \in session[p].skipped :
             IsRatchetKey(k.rk, Peer(p)) /\ k.num \in Nat /\ IsChain(k.key)
      BY <3>1, <3>2 DEF SessionOf, KeptKey, IsRatchetKey, RatchetKeyOf
    <3> QED BY <3>1, <3>2, <3>3 DEF SessionOf, IsSession, IsRatchetKey, RatchetKeyOf
  <2>2. ASSUME NEW w \in wires
        PROVE  /\ w.from \in Parties /\ IsRatchetKey(w.rk, w.from)
               /\ w.prevLen \in Nat /\ w.num \in Nat /\ IsChain(w.key)
    BY DEF RatchetInv, MessagesOK, Wire, IsRatchetKey, RatchetKeyOf, Chain, IsChain
  <2> QED BY <2>1, <2>2 DEF TypeOK, RatchetInv, MessagesOK
<1> QED BY RatchetInit, RatchetStep, <1>1, PTL DEF Spec

\* ratchet.rs `encrypt`: no key ever closes two messages, of either end, for any
\* interleaving, loss, reordering and duplication.
THEOREM NoKeyTwice == Spec => []KeysUsedOnce
<1>1. RatchetInv => KeysUsedOnce
  BY DEF RatchetInv
<1> QED BY RatchetInit, RatchetStep, <1>1, PTL DEF Spec

\* ratchet.rs `decrypt`: once a message has opened, its receiver holds neither
\* its key nor a chain that gives it, and no later message brings one back.
THEOREM ForwardSecrecy == Spec => []OpenedIsForgotten
<1>1. RatchetInv => OpenedIsForgotten
  <2> SUFFICES ASSUME RatchetInv, NEW w \in opened
               PROVE  LET s == session[Peer(w.from)]
                      IN  /\ \A k \in s.skipped : k.key # w.key
                          /\ s.recvChain # None /\ s.recvChain.root = w.key.root =>
                               s.recvChain.step > w.key.step
    BY DEF OpenedIsForgotten
  <2> DEFINE s == session[Peer(w.from)]
  <2>1. Peer(w.from) \in Parties /\ w.key \in Chain
    BY PeerOfPeer DEF RatchetInv, MessagesOK, Wire
  <2>2. s \in SessionOf(Peer(w.from)) /\ Ratcheted(s)
    BY <2>1 DEF RatchetInv, SessionsOK, Session
  <2>3. Past(s, w.key) /\ \A k \in s.skipped : k.key # w.key
    BY DEF RatchetInv, OpenedIsPast
  <2> HIDE DEF s
  <2>4. Len(s.root) \in Nat /\ Len(w.key.root) \in Nat /\ w.key.step \in Nat
        /\ (s.recvChain # None => s.recvChain.step \in Nat)
    BY <2>1, <2>2, Lengths DEF SessionOf
  <2>5. s.recvChain # None /\ s.recvChain.root = w.key.root => s.recvChain.step > w.key.step
    BY <2>2, <2>3, <2>4 DEF Past, Ratcheted
  <2> QED BY <2>3, <2>5 DEF s
<1> QED BY RatchetInit, RatchetStep, <1>1, PTL DEF Spec

-----------------------------------------------------------------------------
(***************************************************************************)
(* The two ends in step, until a message comes twice.  s and t are the two *)
(* ends, N the messages of s and M those of t, C the messages that came    *)
(* and O those that opened.                                                *)
(***************************************************************************)

IsWritten(M, rk, n) == \E w \in M : w.rk = rk /\ w.num = n
IsKept(s, w) == \E k \in s.skipped : k.rk = w.rk /\ k.num = w.num

\* s has ratcheted last: t has yet to see its key, and sends in the chain that s
\* reads.
Ahead(s, t) ==
  /\ s.root = KdfRoot(t.root, Dh(s.self, t.self)) /\ s.remote = t.self
  /\ t.remote # None => t.remote[2] < s.self[2]
  /\ s.recvChain = None <=> t.sendChain = None
  /\ s.recvChain # None => s.recvChain.root = t.root

\* What s has written, in the chain it sends in and in earlier ones.
Writes(s, N) ==
  /\ s.sendChain # None => s.sendChain.step = s.sendNum
  /\ \A n \in 0 .. s.sendNum - 1 : IsWritten(N, s.self, n)
  /\ \A w \in N :
       /\ s.sendChain # None /\ w.key.step = w.num /\ w.rk[2] <= s.self[2]
       /\ w.rk = s.self => /\ w.key.root = s.root /\ w.prevLen = s.prevLen
                           /\ w.num < s.sendNum
  /\ \A v, w \in N : v.rk = w.rk => v.key.root = w.key.root

\* The chain s reads is t's sending chain or the one before, and all of it up to
\* its end is written.
End(s, t) == IF s.remote = t.self THEN t.sendNum ELSE t.prevLen
Reads(s, t, M) ==
  /\ s.recvNum <= End(s, t)
  /\ s.recvChain # None => s.recvChain.step = s.recvNum
  /\ \A n \in 0 .. End(s, t) - 1 : IsWritten(M, s.remote, n)
  /\ \A w \in M : w.rk = s.remote =>
       s.recvChain # None /\ w.key.root = s.recvChain.root /\ w.num < End(s, t)

\* A message to s that has not come has its key kept, or lies ahead in the chain
\* s reads, or is in the chain s will read next.
InReach(w, s, t, C) ==
  \/ w \in C
  \/ IsKept(s, w)
  \/ w.rk = s.remote /\ w.num >= s.recvNum
  \/ w.rk = t.self /\ w.rk # s.remote

\* The message lies ahead in neither chain.
Behind(w, s, t) ==
  /\ w.rk = s.remote => w.num < s.recvNum
  /\ w.rk = t.self => w.rk = s.remote

\* Every kept key is that of a message behind that has not opened.
IsOwed(k, M, O) == \E w \in M \ O : w.rk = k.rk /\ w.num = k.num /\ w.key = k.key
Keeps(s, t, M, O) == \A k \in s.skipped : IsOwed(k, M, O) /\ Behind(k, s, t)

Receives(s, t, M, C, O) ==
  /\ Reads(s, t, M) /\ Keeps(s, t, M, O)
  /\ \A w \in M : InReach(w, s, t, C) /\ (w \in O => Behind(w, s, t))

InStep(s, t, N, M, C, O) ==
  /\ Ahead(s, t) \/ Ahead(t, s)
  /\ Writes(s, N) /\ Receives(s, t, M, C, O)
  /\ Writes(t, M) /\ Receives(t, s, N, C, O)

EndsInStep ==
  dups = 0 => InStep(session[Alice], session[Bob], SentBy(Alice), SentBy(Bob), came, opened)

\* The keys, counters and messages are of their types, and no key is used twice.
WellFormed(p, s, t, N, M) ==
  /\ Session(p, s) /\ Session(Peer(p), t)
  /\ s.sendChain # None => s.sendChain.root = s.root
  /\ t.sendChain # None => t.sendChain.root = t.root
  /\ N \subseteq Wire(p) /\ M \subseteq Wire(Peer(p))
  /\ \A v, w \in M : v.key = w.key => v = w

\* The absence of a ratchet key is told apart from every one.
LEMMA NoneIsNoKey ==
  ASSUME NEW p \in Parties
  PROVE  None \notin RatchetKeyOf(p)
  BY NoneAssumption DEF RatchetKeyOf, Parties

\* A chain key is its root and its step.
LEMMA ChainIsPair ==
  ASSUME NEW c \in Chain, NEW d \in Chain, c.root = d.root, c.step = d.step
  PROVE  c = d
<1>1. c = [root |-> c.root, step |-> c.step] /\ d = [root |-> d.root, step |-> d.step]
  BY DEF Chain
<1> QED BY <1>1

\* Two messages with one ratchet key and one number are the same.
LEMMA OneMessage ==
  ASSUME NEW p \in Parties, NEW s, NEW t, NEW N, NEW M, WellFormed(p, s, t, N, M), Writes(t, M),
         NEW v \in M, NEW w \in M, v.rk = w.rk, v.num = w.num
  PROVE  v = w
<1>1. v.key \in Chain /\ w.key \in Chain
  BY DEF WellFormed, Wire
<1>2. v.key.root = w.key.root /\ v.key.step = w.key.step
  BY DEF Writes
<1> QED BY <1>1, <1>2, ChainIsPair DEF WellFormed

\* The key kept under a message's ratchet key and number is the message's own,
\* and the message has not opened.
LEMMA KeptForIt ==
  ASSUME NEW p \in Parties, NEW s, NEW t, NEW N, NEW M, NEW O, WellFormed(p, s, t, N, M),
         Writes(t, M), Keeps(s, t, M, O), NEW k \in s.skipped, NEW w \in M,
         k.rk = w.rk, k.num = w.num
  PROVE  k.key = w.key /\ w \notin O
<1>1. PICK v \in M \ O : v.rk = k.rk /\ v.num = k.num /\ v.key = k.key
  BY DEF Keeps, IsOwed
<1>2. v = w
  BY <1>1, OneMessage
<1> QED BY <1>1, <1>2

-----------------------------------------------------------------------------
(* Reading on in one chain.                                                *)

\* The sending side and the ratchet keys of a session are left alone.
SameSide(s, u) ==
  /\ u.self = s.self /\ u.remote = s.remote /\ u.root = s.root
  /\ u.sendChain = s.sendChain /\ u.sendNum = s.sendNum /\ u.prevLen = s.prevLen
  /\ u.recvChain = None <=> s.recvChain = None
  /\ s.recvChain # None => u.recvChain.root = s.recvChain.root

\* Nothing else matters to the other end.
LEMMA OtherSideStays ==
  ASSUME NEW s, NEW t, NEW u, NEW N, NEW M, NEW C, NEW O, NEW D, NEW P,
         InStep(s, t, N, M, C, O), SameSide(s, u), Receives(u, t, M, D, P),
         C \subseteq D, O \subseteq P, \A w \in N : w \in P => w \in O
  PROVE  InStep(u, t, N, M, D, P)
<1>1. Ahead(u, t) \/ Ahead(t, u)
  BY DEF InStep, Ahead, SameSide
<1>2. Writes(u, N)
  BY DEF InStep, Writes, SameSide
<1>3. Receives(t, u, N, D, P)
  <2>1. End(t, u) = End(t, s)
    BY DEF End, SameSide
  <2>2. Reads(t, u, N)
    BY <2>1 DEF InStep, Receives, Reads
  <2>3. Keeps(t, u, N, P)
    BY DEF InStep, Receives, Keeps, IsOwed, Behind, SameSide
  <2>4. ASSUME NEW w \in N PROVE InReach(w, t, u, D) /\ (w \in P => Behind(w, t, u))
    BY DEF InStep, Receives, InReach, Behind, SameSide
  <2> QED BY <2>2, <2>3, <2>4 DEF Receives
<1> QED BY <1>1, <1>2, <1>3 DEF InStep

\* The end after the chain is wound up to a number.
Wound(s, until) == [SkipMessages(s, s.remote, until) EXCEPT !.recvNum = until]

\* Winding the chain on keeps the keys it passes.
LEMMA Wind ==
  ASSUME NEW p \in Parties, NEW s, NEW t, NEW N, NEW M, NEW C, NEW O,
         WellFormed(p, s, t, N, M), Writes(t, M), Receives(s, t, M, C, O),
         s.recvChain # None, NEW until \in Nat, s.recvNum <= until, until <= End(s, t)
  PROVE  LET u == Wound(s, until)
         IN  /\ Receives(u, t, M, C, O) /\ SameSide(s, u) /\ Session(p, u)
             /\ u.recvNum = until
             /\ u.recvChain = SkipMessages(s, s.remote, until).recvChain
<1> DEFINE x == SkipMessages(s, s.remote, until)
           u == Wound(s, until)
           rk == s.remote
           steps == until - s.recvNum
           kept == Kept(s, rk, until)
           old == {k \in s.skipped : ~(k.rk = rk /\ k.num \in s.recvNum .. until - 1)}
<1>1. /\ s \in SessionOf(p) /\ Session(p, s) /\ rk \in RatchetKeyOf(Peer(p))
      /\ s.recvChain \in Chain /\ s.recvNum \in Nat /\ steps \in Nat
      /\ s.recvChain.step = s.recvNum
  BY DEF WellFormed, Session, SessionOf, Receives, Reads
<1>2. /\ Moves(p, s, x) /\ x.recvChain \in Chain /\ x.recvChain.root = s.recvChain.root
      /\ x.root = s.root /\ x.sendChain = s.sendChain /\ x.self = s.self /\ x.remote = s.remote
  BY <1>1, SkipMoves
<1>3. x \in SessionOf(p) /\ Session(p, x) /\ Ratcheted(x)
  BY <1>2 DEF Moves, Session
<1>4. x = [s EXCEPT !.skipped = old \cup kept, !.recvChain = KdfChain(@, steps)]
  BY <1>1 DEF SkipMessages
<1>5. /\ KdfChain(s.recvChain, steps).root = s.recvChain.root
      /\ KdfChain(s.recvChain, steps).step = s.recvChain.step + steps
  BY <1>1, KdfChainType
<1> HIDE DEF old, kept
<1>6. /\ x.skipped = old \cup kept /\ x.recvChain.step = until
      /\ x.sendNum = s.sendNum /\ x.prevLen = s.prevLen
  BY <1>1, <1>4, <1>5 DEF SessionOf
<1> HIDE DEF x
<1>7. u = [x EXCEPT !.recvNum = until]
  BY DEF Wound, x
<1>8. /\ u.skipped = x.skipped /\ u.recvChain = x.recvChain /\ u.recvNum = until
      /\ u.self = x.self /\ u.remote = x.remote /\ u.root = x.root
      /\ u.sendChain = x.sendChain /\ u.sendNum = x.sendNum /\ u.prevLen = x.prevLen
  BY <1>3, <1>7 DEF SessionOf
<1>9. Session(p, u)
  <2>1. u \in SessionOf(p)
    BY <1>3, <1>7 DEF SessionOf
  <2> HIDE DEF u
  <2>2. \A c : Past(x, c) <=> Past(u, c)
    BY <1>8 DEF Past
  <2> QED BY <1>3, <1>8, <2>1, <2>2 DEF Session, Ratcheted
<1> HIDE DEF u
<1>10. SameSide(s, u)
  BY <1>2, <1>6, <1>8, NoneIsNoChain DEF SameSide
<1>11. End(u, t) = End(s, t)
  BY <1>10 DEF End, SameSide
<1>12. Reads(u, t, M)
  BY <1>2, <1>6, <1>8, <1>10, <1>11, NoneIsNoChain DEF Receives, Reads, SameSide
<1>13. ASSUME NEW k \in kept
       PROVE  /\ k.rk = rk /\ k.num \in s.recvNum .. until - 1
              /\ IsOwed(k, M, O)
  <2>1. PICK n \in s.recvNum .. until - 1 :
           k = [rk |-> rk, num |-> n, key |-> KdfChain(s.recvChain, n - s.recvNum)]
    BY <1>13 DEF Kept, kept
  <2>2. n - s.recvNum \in Nat /\ n \in 0 .. End(s, t) - 1
    <3>1. End(s, t) \in Nat
      BY DEF End, WellFormed, Session, SessionOf
    <3> QED BY <1>1, <3>1
  <2>3. PICK w \in M : w.rk = rk /\ w.num = n
    BY <2>2 DEF Receives, Reads, IsWritten
  <2>4. w \notin O
    BY <1>1, <2>3 DEF Receives, Behind
  <2>5. w.key \in Chain /\ w.key.root = s.recvChain.root /\ w.key.step = n
    BY <2>3 DEF WellFormed, Wire, Receives, Reads, Writes
  <2>6. /\ KdfChain(s.recvChain, n - s.recvNum) \in Chain
        /\ KdfChain(s.recvChain, n - s.recvNum).root = s.recvChain.root
        /\ KdfChain(s.recvChain, n - s.recvNum).step = s.recvChain.step + (n - s.recvNum)
    BY <1>1, <2>2, KdfChainType
  <2>7. w.key = KdfChain(s.recvChain, n - s.recvNum)
    <3>1. s.recvChain.step + (n - s.recvNum) = n
      BY <1>1
    <3> QED BY <2>5, <2>6, <3>1, ChainIsPair
  <2> QED BY <2>1, <2>3, <2>4, <2>7 DEF IsOwed
<1>14. old \subseteq s.skipped
  BY DEF old
<1>15. Keeps(u, t, M, O)
  <2>1. ASSUME NEW k \in s.skipped PROVE IsOwed(k, M, O) /\ Behind(k, u, t)
    <3>1. k.num \in Nat
      BY <1>1 DEF SessionOf, KeptKey
    <3> QED BY <1>1, <1>8, <1>10, <3>1 DEF Receives, Keeps, Behind, SameSide
  <2>2. ASSUME NEW k \in kept PROVE IsOwed(k, M, O) /\ Behind(k, u, t)
    BY <1>1, <1>8, <1>10, <1>13 DEF Behind, SameSide
  <2> QED BY <1>6, <1>8, <1>14, <2>1, <2>2 DEF Keeps
<1>16. ASSUME NEW w \in M, w.rk = rk, w.num \in s.recvNum .. until - 1 PROVE IsKept(u, w)
  <2> DEFINE k == [rk |-> rk, num |-> w.num, key |-> KdfChain(s.recvChain, w.num - s.recvNum)]
  <2>1. k \in kept
    BY <1>16 DEF Kept, kept
  <2>2. k.rk = w.rk /\ k.num = w.num
    BY <1>16
  <2> HIDE DEF k
  <2> QED BY <1>6, <1>8, <2>1, <2>2 DEF IsKept
<1>17. ASSUME NEW w \in M PROVE InReach(w, u, t, C) /\ (w \in O => Behind(w, u, t))
  <2>0. w.num \in Nat
    BY DEF WellFormed, Wire
  <2>1. ASSUME IsKept(s, w) PROVE IsKept(u, w)
    <3>1. PICK k \in s.skipped : k.rk = w.rk /\ k.num = w.num
      BY <2>1 DEF IsKept
    <3>2. CASE k \in old
      BY <1>6, <1>8, <3>1, <3>2 DEF IsKept
    <3>3. CASE k.rk = rk /\ k.num \in s.recvNum .. until - 1
      BY <1>16, <3>1, <3>3
    <3> QED BY <3>2, <3>3 DEF old
  <2>2. ASSUME w.rk = rk, w.num >= s.recvNum PROVE IsKept(u, w) \/ w.num >= until
    BY <1>1, <1>16, <2>0, <2>2
  <2>3. u.remote = rk
    BY <1>10 DEF SameSide
  <2>4. InReach(w, u, t, C)
    <3>1. InReach(w, s, t, C)
      BY DEF Receives
    <3> QED BY <1>8, <2>1, <2>2, <2>3, <3>1 DEF InReach
  <2>5. w \in O => Behind(w, u, t)
    BY <1>1, <1>8, <2>0, <2>3 DEF Receives, Behind
  <2> QED BY <2>4, <2>5
<1>18. Receives(u, t, M, C, O)
  BY <1>12, <1>15, <1>17 DEF Receives
<1> QED BY <1>8, <1>9, <1>10, <1>18 DEF u, x

\* The end after the next message of the chain is opened.
Stepped(s) == [s EXCEPT !.recvChain = KdfChain(@, 1), !.recvNum = @ + 1]

\* The next message of the chain opens under the chain's key.
LEMMA OpenNext ==
  ASSUME NEW p \in Parties, NEW s, NEW t, NEW N, NEW M, NEW C, NEW O,
         WellFormed(p, s, t, N, M), Writes(t, M), Receives(s, t, M, C, O),
         s.recvChain # None, NEW w \in M, w.rk = s.remote, w.num = s.recvNum
  PROVE  /\ s.recvChain = w.key
         /\ Receives(Stepped(s), t, M, C \cup {w}, O \cup {w}) /\ SameSide(s, Stepped(s))
<1> DEFINE u == Stepped(s)
           next == KdfChain(s.recvChain, 1)
<1>1. /\ s \in SessionOf(p) /\ s.recvChain \in Chain /\ s.recvNum \in Nat
      /\ s.recvChain.step = s.recvNum /\ w.key \in Chain
  BY DEF WellFormed, Session, SessionOf, Receives, Reads, Wire
<1>2. s.recvChain = w.key
  <2>1. w.key.root = s.recvChain.root /\ w.key.step = s.recvChain.step
    BY <1>1 DEF Receives, Reads, Writes
  <2> QED BY <1>1, <2>1, ChainIsPair
<1>3. next \in Chain /\ next.root = s.recvChain.root /\ next.step = s.recvChain.step + 1
  BY <1>1, KdfChainType
<1>4. /\ u.recvChain = next /\ u.recvNum = s.recvNum + 1 /\ u.skipped = s.skipped
      /\ u.self = s.self /\ u.remote = s.remote /\ u.root = s.root
      /\ u.sendChain = s.sendChain /\ u.sendNum = s.sendNum /\ u.prevLen = s.prevLen
  BY <1>1 DEF Stepped, SessionOf
<1> HIDE DEF u, next
<1>5. SameSide(s, u)
  BY <1>3, <1>4, NoneIsNoChain DEF SameSide
<1>6. End(u, t) = End(s, t) /\ End(s, t) \in Nat
  BY <1>4 DEF End, WellFormed, Session, SessionOf
<1>7. Reads(u, t, M)
  <2>1. w.num < End(s, t)
    BY DEF Receives, Reads
  <2>2. u.recvNum <= End(u, t)
    BY <1>1, <1>4, <1>6, <2>1
  <2>3. u.recvChain.step = u.recvNum /\ u.recvChain # None
    BY <1>1, <1>3, <1>4, NoneIsNoChain
  <2> QED BY <1>3, <1>4, <1>6, <2>2, <2>3 DEF Receives, Reads
<1>8. Keeps(u, t, M, O \cup {w})
  <2> SUFFICES ASSUME NEW k \in s.skipped PROVE IsOwed(k, M, O \cup {w}) /\ Behind(k, u, t)
    BY <1>4 DEF Keeps
  <2>1. k.num \in Nat /\ IsOwed(k, M, O) /\ Behind(k, s, t)
    BY <1>1 DEF Receives, Keeps, SessionOf, KeptKey
  <2>2. ~ (k.rk = w.rk /\ k.num = w.num)
    BY <1>1, <2>1 DEF Behind
  <2>3. IsOwed(k, M, O \cup {w})
    BY <2>1, <2>2 DEF IsOwed
  <2>4. Behind(k, u, t)
    BY <1>1, <1>4, <2>1 DEF Behind
  <2> QED BY <2>3, <2>4
<1>9. ASSUME NEW v \in M
      PROVE  InReach(v, u, t, C \cup {w}) /\ (v \in O \cup {w} => Behind(v, u, t))
  <2>0. v.num \in Nat
    BY DEF WellFormed, Wire
  <2>1. InReach(v, u, t, C \cup {w})
    <3>1. InReach(v, s, t, C)
      BY DEF Receives
    <3>2. CASE v.rk = s.remote /\ v.num >= s.recvNum
      <4>1. CASE v.num = s.recvNum
        <5>1. v = w
          BY <3>2, <4>1, OneMessage
        <5> QED BY <5>1 DEF InReach
      <4>2. CASE v.num # s.recvNum
        BY <1>1, <1>4, <2>0, <3>2, <4>2 DEF InReach
      <4> QED BY <4>1, <4>2
    <3>3. CASE v \in C \/ IsKept(s, v) \/ (v.rk = t.self /\ v.rk # s.remote)
      BY <1>4, <3>3 DEF InReach, IsKept
    <3> QED BY <3>1, <3>2, <3>3 DEF InReach
  <2>2. v \in O => Behind(v, u, t)
    BY <1>1, <1>4, <2>0 DEF Receives, Behind
  <2>3. Behind(w, u, t)
    BY <1>1, <1>4 DEF Behind
  <2> QED BY <2>1, <2>2, <2>3
<1>10. Receives(u, t, M, C \cup {w}, O \cup {w})
  BY <1>7, <1>8, <1>9 DEF Receives
<1> QED BY <1>2, <1>5, <1>10 DEF u

\* A message in the chain that is read: too far ahead, or it opens.
LEMMA InChain ==
  ASSUME NEW p \in Parties, NEW s, NEW t, NEW N, NEW M, NEW C, NEW O,
         WellFormed(p, s, t, N, M), Writes(t, M), Receives(s, t, M, C, O),
         NEW w \in M, w.rk = s.remote, w.num >= s.recvNum
  PROVE  LET r == DecryptInChain(s, w)
         IN  \/ r.key = None /\ r.session = s /\ w.num > s.recvNum + MaxSkip
             \/ /\ r.key = w.key /\ SameSide(s, r.session)
                /\ Receives(r.session, t, M, C \cup {w}, O \cup {w})
<1>1. s.recvChain # None /\ w.num < End(s, t)
  BY DEF Receives, Reads
<1>2. CASE TooManySkipped(s, w.num)
  BY <1>2 DEF DecryptInChain, Refused, Tried, TooManySkipped
<1>3. CASE ~ TooManySkipped(s, w.num)
  <2> DEFINE x == SkipMessages(s, w.rk, w.num)
             u == Wound(s, w.num)
             y == [x EXCEPT !.recvChain = KdfChain(@, 1), !.recvNum = w.num + 1]
  <2>1. DecryptInChain(s, w) = [session |-> y, key |-> x.recvChain]
    BY <1>1, <1>3 DEF DecryptInChain, Tried
  <2>2. w.num \in Nat /\ End(s, t) \in Nat /\ s.recvNum \in Nat
    BY DEF WellFormed, Wire, End, Session, SessionOf
  <2>3. /\ Receives(u, t, M, C, O) /\ SameSide(s, u) /\ Session(p, u) /\ u.recvNum = w.num
        /\ u.recvChain = x.recvChain
    BY <1>1, <2>2, Wind
  <2>5. WellFormed(p, u, t, N, M)
    BY <2>3 DEF WellFormed, SameSide
  <2>6. u.recvChain # None /\ u.remote = s.remote
    BY <1>1, <2>3 DEF SameSide
  <2>7. y = Stepped(u)
    <3>1. /\ u = [x EXCEPT !.recvNum = w.num]
      BY DEF Wound
    <3>2. x \in SessionOf(p)
      <4>1. s \in SessionOf(p) /\ w.rk \in RatchetKeyOf(Peer(p))
        BY DEF WellFormed, Session, Wire
      <4> QED BY <1>1, <2>2, <4>1, SkipMoves DEF WellFormed, Moves, Session
    <3> HIDE DEF x
    <3>3. Stepped(u) = [u EXCEPT !.recvChain = KdfChain(@, 1), !.recvNum = @ + 1]
      BY DEF Stepped
    <3> HIDE DEF u
    <3> QED BY <2>2, <3>1, <3>2, <3>3 DEF SessionOf
  <2> HIDE DEF x, u, y
  <2>8. /\ u.recvChain = w.key /\ Receives(Stepped(u), t, M, C \cup {w}, O \cup {w})
        /\ SameSide(u, Stepped(u))
    BY <2>3, <2>5, <2>6, OpenNext
  <2>9. SameSide(s, Stepped(u))
    BY <2>3, <2>8 DEF SameSide
  <2> QED BY <2>1, <2>3, <2>7, <2>8, <2>9
<1> QED BY <1>2, <1>3

\* A message whose key was kept opens under it.
LEMMA OpenKept ==
  ASSUME NEW p \in Parties, NEW s, NEW t, NEW N, NEW M, NEW C, NEW O,
         WellFormed(p, s, t, N, M), Writes(t, M), Receives(s, t, M, C, O),
         NEW w \in M, IsKept(s, w)
  PROVE  LET r == DecryptSkipped(s, w)
         IN  /\ r.key = w.key /\ SameSide(s, r.session)
             /\ Receives(r.session, t, M, C \cup {w}, O \cup {w})
<1> DEFINE kept == CHOOSE k \in s.skipped : k.rk = w.rk /\ k.num = w.num
           u == [s EXCEPT !.skipped = @ \ {kept}]
<1>1. DecryptSkipped(s, w) = [session |-> u, key |-> kept.key]
  BY DEF DecryptSkipped, Tried
<1>2. kept \in s.skipped /\ kept.rk = w.rk /\ kept.num = w.num
  BY DEF IsKept
<1> HIDE DEF kept
<1>3. s \in SessionOf(p) /\ s.skipped \subseteq KeptKey(Peer(p)) /\ s.recvNum \in Nat
  BY DEF WellFormed, Session, SessionOf
<1>4. /\ u.skipped = s.skipped \ {kept} /\ u.recvChain = s.recvChain /\ u.recvNum = s.recvNum
      /\ u.self = s.self /\ u.remote = s.remote /\ u.root = s.root
      /\ u.sendChain = s.sendChain /\ u.sendNum = s.sendNum /\ u.prevLen = s.prevLen
  BY <1>3 DEF SessionOf
<1> HIDE DEF u
<1>5. SameSide(s, u)
  BY <1>4 DEF SameSide
<1>6. kept.key = w.key
  BY <1>2, KeptForIt DEF Receives
<1>7. ASSUME NEW k \in s.skipped, k.rk = w.rk, k.num = w.num PROVE k = kept
  <2>1. k.key = w.key
    BY <1>7, KeptForIt DEF Receives
  <2>2. k = [rk |-> k.rk, num |-> k.num, key |-> k.key]
        /\ kept = [rk |-> kept.rk, num |-> kept.num, key |-> kept.key]
    BY <1>2, <1>3 DEF KeptKey
  <2> QED BY <1>2, <1>6, <1>7, <2>1, <2>2
<1>8. Reads(u, t, M)
  BY <1>4 DEF Receives, Reads, End
<1>9. Keeps(u, t, M, O \cup {w})
  <2> SUFFICES ASSUME NEW k \in s.skipped, k # kept
               PROVE  IsOwed(k, M, O \cup {w}) /\ Behind(k, u, t)
    BY <1>4 DEF Keeps
  <2>1. IsOwed(k, M, O) /\ Behind(k, s, t)
    BY DEF Receives, Keeps
  <2>2. IsOwed(k, M, O \cup {w})
    BY <1>7, <2>1 DEF IsOwed
  <2> QED BY <1>4, <2>1, <2>2 DEF Behind
<1>10. Behind(w, u, t)
  BY <1>2, <1>4 DEF Receives, Keeps, Behind
<1>11. ASSUME NEW v \in M
       PROVE  InReach(v, u, t, C \cup {w}) /\ (v \in O \cup {w} => Behind(v, u, t))
  <2>1. InReach(v, u, t, C \cup {w})
    <3>1. InReach(v, s, t, C)
      BY DEF Receives
    <3>2. CASE IsKept(s, v)
      <4>1. PICK k \in s.skipped : k.rk = v.rk /\ k.num = v.num
        BY <3>2 DEF IsKept
      <4>2. CASE k = kept
        <5>1. v = w
          BY <1>2, <4>1, <4>2, OneMessage
        <5> QED BY <5>1 DEF InReach
      <4>3. CASE k # kept
        BY <1>4, <4>1, <4>3 DEF InReach, IsKept
      <4> QED BY <4>2, <4>3
    <3>3. CASE ~ IsKept(s, v)
      BY <1>4, <3>1, <3>3 DEF InReach
    <3> QED BY <3>2, <3>3
  <2>2. v \in O => Behind(v, u, t)
    BY <1>4 DEF Receives, Behind
  <2> QED BY <1>10, <2>1, <2>2
<1>12. Receives(u, t, M, C \cup {w}, O \cup {w})
  BY <1>8, <1>9, <1>11 DEF Receives
<1> QED BY <1>1, <1>5, <1>6, <1>12

-----------------------------------------------------------------------------
(* A new ratchet key.                                                      *)

\* Having read all of the chain before, the end that is behind gets ahead.
LEMMA TakeTurn ==
  ASSUME NEW p \in Parties, NEW s, NEW t, NEW N, NEW M, NEW C, NEW O,
         WellFormed(p, s, t, N, M), InStep(s, t, N, M, C, O),
         t.self # s.remote, s.recvNum = t.prevLen, t.sendChain # None
  PROVE  LET u == DhRatchet(s, t.self)
         IN  WellFormed(p, u, t, N, M) /\ InStep(u, t, N, M, C, O)
             /\ u.remote = t.self /\ u.recvNum = 0
<1> DEFINE recvRoot == KdfRoot(s.root, Dh(s.self, t.self))
           fresh == <<s.self[1], s.self[2] + 1>>
           sendRoot == KdfRoot(recvRoot, Dh(fresh, t.self))
           u == DhRatchet(s, t.self)
<1>1. /\ s \in SessionOf(p) /\ t \in SessionOf(Peer(p)) /\ Session(p, s)
      /\ t.self \in RatchetKeyOf(Peer(p)) /\ s.self \in RatchetKeyOf(p)
      /\ N \subseteq Wire(p) /\ M \subseteq Wire(Peer(p)) /\ Peer(p) \in Parties
      /\ Peer(Peer(p)) = p
  BY PeerOfPeer DEF WellFormed, Session, SessionOf
<1>2. Ahead(t, s)
  BY DEF InStep, Ahead
<1>3. recvRoot = t.root
  BY <1>2 DEF Ahead, Dh
<1>4. /\ fresh \in RatchetKeyOf(p) /\ fresh[2] = s.self[2] + 1 /\ s.self[2] \in Nat
      /\ fresh # s.self
  BY <1>1 DEF RatchetKeyOf
<1>5. u = [s EXCEPT !.self = fresh, !.remote = t.self, !.root = sendRoot,
                    !.recvChain = ChainOf(recvRoot), !.recvNum = 0,
                    !.prevLen = s.sendNum, !.sendNum = 0,
                    !.sendChain = ChainOf(sendRoot)]
  BY DEF DhRatchet
<1>6. Moves(p, s, u) /\ Session(p, u) /\ u.recvChain \in Chain
  BY <1>1, RatchetMoves DEF Moves
<1> HIDE DEF recvRoot, fresh, u
<1>7. /\ u.self = fresh /\ u.remote = t.self /\ u.root = sendRoot /\ u.recvNum = 0
      /\ u.recvChain = ChainOf(recvRoot) /\ u.prevLen = s.sendNum /\ u.sendNum = 0
      /\ u.sendChain = ChainOf(sendRoot) /\ u.skipped = s.skipped
  BY <1>1, <1>5 DEF SessionOf
<1>8. /\ u.recvChain.root = t.root /\ u.recvChain.step = 0
      /\ u.sendChain.root = u.root /\ u.sendChain.step = 0 /\ u.recvChain # None
  BY <1>3, <1>6, <1>7, NoneIsNoChain DEF ChainOf
<1>9. WellFormed(p, u, t, N, M)
  BY <1>6, <1>8 DEF WellFormed
<1>10. \A w \in N : w.rk # fresh
  <2> SUFFICES ASSUME NEW w \in N, w.rk = fresh PROVE FALSE
    OBVIOUS
  <2>1. w.rk[2] <= s.self[2]
    BY DEF InStep, Writes
  <2> QED BY <1>4, <2>1
<1>11. t.remote = s.self /\ t.remote # None
  BY <1>1, <1>2, NoneIsNoKey DEF Ahead
<1>12. Ahead(u, t)
  <2>1. u.root = KdfRoot(t.root, Dh(u.self, t.self))
    BY <1>3, <1>7
  <2>2. t.remote[2] < u.self[2]
    BY <1>4, <1>7, <1>11
  <2> QED BY <1>7, <1>8, <2>1, <2>2 DEF Ahead
<1>13. Writes(u, N)
  <2>1. \A n \in 0 .. u.sendNum - 1 : IsWritten(N, u.self, n)
    BY <1>7
  <2>2. ASSUME NEW w \in N
        PROVE  /\ u.sendChain # None /\ w.key.step = w.num /\ w.rk[2] <= u.self[2]
               /\ w.rk # u.self
    <3>1. u.sendChain \in Chain
      <4>1. t.root \in Root
        BY <1>1 DEF SessionOf
      <4> QED BY <1>1, <1>3, <1>4, <1>7, <4>1, KdfRootType
    <3>2. w.rk[2] \in Nat /\ w.rk[2] <= s.self[2]
      BY <1>1 DEF InStep, Writes, Wire, RatchetKeyOf
    <3>3. w.key.step = w.num
      BY DEF InStep, Writes
    <3> QED BY <1>4, <1>7, <1>10, <3>1, <3>2, <3>3, NoneIsNoChain
  <2> QED BY <1>7, <1>8, <2>1, <2>2 DEF InStep, Writes
<1>14. End(u, t) = t.sendNum /\ t.sendNum \in Nat /\ End(s, t) = t.prevLen
  BY <1>1, <1>7 DEF End, SessionOf
<1>15. Receives(u, t, M, C, O)
  <2>1. Reads(u, t, M)
    BY <1>7, <1>8, <1>14 DEF InStep, Writes, Reads
  <2>2. Keeps(u, t, M, O)
    <3> SUFFICES ASSUME NEW k \in s.skipped PROVE IsOwed(k, M, O) /\ Behind(k, u, t)
      BY <1>7 DEF Keeps
    <3> QED BY <1>7 DEF InStep, Receives, Keeps, Behind
  <2>3. ASSUME NEW w \in M PROVE InReach(w, u, t, C) /\ (w \in O => Behind(w, u, t))
    <3>1. InReach(w, s, t, C) /\ (w \in O => Behind(w, s, t)) /\ w.num \in Nat
      BY <1>1 DEF InStep, Receives, Wire
    <3>2. ~ (w.rk = s.remote /\ w.num >= s.recvNum)
      BY <1>1, <1>14, <3>1 DEF InStep, Receives, Reads, SessionOf
    <3>3. InReach(w, u, t, C)
      BY <1>7, <3>1, <3>2 DEF InReach, IsKept
    <3> QED BY <1>7, <3>1, <3>3 DEF Behind
  <2> QED BY <2>1, <2>2, <2>3 DEF Receives
<1>16. Receives(t, u, N, C, O)
  <2>1. End(t, u) = End(t, s)
    BY <1>4, <1>7, <1>11 DEF End
  <2>2. Reads(t, u, N)
    BY <2>1 DEF InStep, Receives, Reads
  <2>3. Keeps(t, u, N, O)
    <3> SUFFICES ASSUME NEW k \in t.skipped PROVE IsOwed(k, N, O) /\ Behind(k, t, u)
      BY DEF Keeps
    <3>1. IsOwed(k, N, O) /\ Behind(k, t, s)
      BY DEF InStep, Receives, Keeps
    <3>2. k.rk # fresh
      BY <1>10, <3>1 DEF IsOwed
    <3> QED BY <1>7, <3>1, <3>2 DEF Behind
  <2>4. ASSUME NEW w \in N PROVE InReach(w, t, u, C) /\ (w \in O => Behind(w, t, u))
    <3>1. InReach(w, t, s, C) /\ (w \in O => Behind(w, t, s))
      BY DEF InStep, Receives
    <3> QED BY <1>7, <1>10, <1>11, <3>1 DEF InReach, Behind
  <2> QED BY <2>2, <2>3, <2>4 DEF Receives
<1>17. InStep(u, t, N, M, C, O)
  BY <1>12, <1>13, <1>15, <1>16 DEF InStep
<1> QED BY <1>7, <1>9, <1>17 DEF u

\* A gap in the numbers of one chain is as many messages that have not opened.
LEMMA GapIsMissing ==
  ASSUME NEW M, IsFiniteSet(M), NEW rk, NEW lo \in Nat, NEW hi \in Nat, hi > lo + MaxSkip,
         \A n \in lo .. hi - 1 : IsWritten(M, rk, n)
  PROVE  Cardinality(M) > MaxSkip
<1> DEFINE I == lo .. hi - 1
           f == [n \in I |-> CHOOSE w \in M : w.rk = rk /\ w.num = n]
<1>1. \A n \in I : f[n] \in M /\ f[n].num = n
  BY DEF IsWritten
<1>2. f \in [I -> M]
  BY <1>1
<1> HIDE DEF f
<1>3. f \in Injection(I, M)
  BY <1>1, <1>2 DEF Injection, IsInjective
<1>4. Cardinality(I) <= Cardinality(M)
  BY <1>3, FS_Injection
<1>5. Cardinality(I) = hi - lo
  <2>1. lo \in Int /\ hi - 1 \in Int /\ ~ (lo > hi - 1)
    BY BoundsAssumption
  <2>2. Cardinality(lo .. hi - 1) = (hi - 1) - lo + 1
    BY <2>1, FS_Interval
  <2> QED BY <2>2
<1>6. Cardinality(M) \in Nat
  BY FS_CardinalityType
<1> QED BY <1>4, <1>5, <1>6, BoundsAssumption

\* What s cannot skip over in the chain it reads has not opened.
LEMMA TooFarIsMissing ==
  ASSUME NEW p \in Parties, NEW s, NEW t, NEW N, NEW M, NEW C, NEW O,
         WellFormed(p, s, t, N, M), Receives(s, t, M, C, O), IsFiniteSet(M),
         NEW hi \in Nat, hi <= End(s, t), hi > s.recvNum + MaxSkip,
         NEW w \in M, w.rk = s.remote => w.num >= hi
  PROVE  Cardinality(M \ (O \cup {w})) > MaxSkip
<1> DEFINE X == M \ (O \cup {w})
<1>1. s.recvNum \in Nat /\ End(s, t) \in Nat /\ \A v \in M : v.num \in Nat
  BY DEF WellFormed, Session, SessionOf, End, Wire
<1>2. ASSUME NEW n \in s.recvNum .. hi - 1 PROVE IsWritten(X, s.remote, n)
  <2>1. n \in 0 .. End(s, t) - 1
    BY <1>1
  <2>2. PICK v \in M : v.rk = s.remote /\ v.num = n
    BY <2>1 DEF Receives, Reads, IsWritten
  <2>3. v \notin O
    BY <1>1, <2>2 DEF Receives, Behind
  <2>4. v # w
    BY <1>1, <2>2
  <2> QED BY <2>2, <2>3, <2>4 DEF IsWritten
<1>3. IsFiniteSet(X)
  BY FS_Subset
<1> HIDE DEF X
<1>4. Cardinality(X) > MaxSkip
  BY <1>1, <1>2, <1>3, GapIsMissing
<1> QED BY <1>4 DEF X

\* A message that comes for the first time: it opens, or more than MAX_SKIP
\* others have not; either way the two ends stay in step.
Delivers(r, t, N, M, C, O, w) ==
  \/ /\ r.key = w.key /\ InStep(r.session, t, N, M, C \cup {w}, O \cup {w})
  \/ /\ r.key = None /\ InStep(r.session, t, N, M, C \cup {w}, O)
     /\ Cardinality(M \ (O \cup {w})) > MaxSkip

\* That a message came takes nothing away.
LEMMA ComingIsHarmless ==
  ASSUME NEW s, NEW t, NEW N, NEW M, NEW C, NEW O, NEW w, InStep(s, t, N, M, C, O)
  PROVE  InStep(s, t, N, M, C \cup {w}, O)
  BY DEF InStep, Receives, InReach

\* The same, in the chain that is read.
LEMMA DeliversInChain ==
  ASSUME NEW p \in Parties, NEW s, NEW t, NEW N, NEW M, NEW C, NEW O,
         WellFormed(p, s, t, N, M), InStep(s, t, N, M, C, O), IsFiniteSet(M),
         NEW w \in M, w \notin N, w.rk = s.remote, w.num >= s.recvNum
  PROVE  Delivers(DecryptInChain(s, w), t, N, M, C, O, w)
<1> DEFINE r == DecryptInChain(s, w)
<1>1. \/ r.key = None /\ r.session = s /\ w.num > s.recvNum + MaxSkip
      \/ /\ r.key = w.key /\ SameSide(s, r.session)
         /\ Receives(r.session, t, M, C \cup {w}, O \cup {w})
  BY InChain DEF InStep
<1> HIDE DEF r
<1>2. CASE r.key = None /\ r.session = s /\ w.num > s.recvNum + MaxSkip
  <2>1. w.num \in Nat /\ w.num <= End(s, t)
    <3>1. w.num \in Nat /\ End(s, t) \in Nat /\ w.num < End(s, t)
      BY DEF InStep, Receives, Reads, WellFormed, Wire, Session, SessionOf, End
    <3> QED BY <3>1
  <2>2. Cardinality(M \ (O \cup {w})) > MaxSkip
    BY <1>2, <2>1, TooFarIsMissing DEF InStep
  <2> QED BY <1>2, <2>2, ComingIsHarmless DEF Delivers, r
<1>3. CASE /\ r.key = w.key /\ SameSide(s, r.session)
           /\ Receives(r.session, t, M, C \cup {w}, O \cup {w})
  <2>1. InStep(r.session, t, N, M, C \cup {w}, O \cup {w})
    BY <1>3, OtherSideStays
  <2> QED BY <1>3, <2>1 DEF Delivers, r
<1> QED BY <1>1, <1>2, <1>3

\* The same, whichever way `decrypt` goes.
LEMMA DeliversAny ==
  ASSUME NEW p \in Parties, NEW s, NEW t, NEW N, NEW M, NEW C, NEW O,
         WellFormed(p, s, t, N, M), InStep(s, t, N, M, C, O), IsFiniteSet(M),
         NEW w \in M, w \notin N, w \notin C
  PROVE  Delivers(Decrypt(s, w), t, N, M, C, O, w)
<1>0. /\ w.num \in Nat /\ s.recvNum \in Nat /\ t.prevLen \in Nat
      /\ Writes(t, M) /\ Receives(s, t, M, C, O)
  BY DEF WellFormed, Wire, Session, SessionOf, InStep
<1>1. CASE IsKept(s, w)
  <2> DEFINE r == DecryptSkipped(s, w)
  <2>1. Decrypt(s, w) = r
    BY <1>1 DEF Decrypt, IsKept
  <2>2. /\ r.key = w.key /\ SameSide(s, r.session)
        /\ Receives(r.session, t, M, C \cup {w}, O \cup {w})
    BY <1>0, <1>1, OpenKept
  <2> HIDE DEF r
  <2>3. InStep(r.session, t, N, M, C \cup {w}, O \cup {w})
    BY <2>2, OtherSideStays
  <2> QED BY <2>1, <2>2, <2>3 DEF Delivers
<1>2. CASE ~ IsKept(s, w) /\ w.rk = s.remote
  <2>1. Decrypt(s, w) = DecryptInChain(s, w)
    BY <1>2 DEF Decrypt, IsKept
  <2>2. w.num >= s.recvNum
    BY <1>0, <1>2 DEF Receives, InReach
  <2> QED BY <1>2, <2>1, <2>2, DeliversInChain
<1>3. CASE ~ IsKept(s, w) /\ w.rk # s.remote
  <2>1. Decrypt(s, w) = DecryptNewKey(s, w)
    BY <1>3 DEF Decrypt, IsKept
  <2>2. w.rk = t.self /\ t.self # s.remote
    BY <1>0, <1>3 DEF Receives, InReach
  <2>3. w.prevLen = t.prevLen /\ t.sendChain # None /\ End(s, t) = t.prevLen
    BY <1>0, <2>2 DEF Writes, End
  <2>4. ASSUME NEW x, WellFormed(p, x, t, N, M), InStep(x, t, N, M, C, O),
               x.remote = s.remote, x.recvNum = t.prevLen
        PROVE  Delivers(DecryptInChain(DhRatchet(x, w.rk), w), t, N, M, C, O, w)
    <3> DEFINE u == DhRatchet(x, t.self)
    <3>1. /\ WellFormed(p, u, t, N, M) /\ InStep(u, t, N, M, C, O)
          /\ u.remote = t.self /\ u.recvNum = 0
      BY <2>2, <2>3, <2>4, TakeTurn
    <3> HIDE DEF u
    <3>2. Delivers(DecryptInChain(u, w), t, N, M, C, O, w)
      BY <1>0, <2>2, <3>1, DeliversInChain
    <3> QED BY <2>2, <3>2 DEF u
  <2>5. CASE s.recvChain = None
    <3>1. t.prevLen = 0 /\ s.recvNum = 0
      <4>1. s.recvNum <= t.prevLen
        BY <1>0, <2>3 DEF Receives, Reads
      <4>2. ASSUME t.prevLen # 0 PROVE FALSE
        <5>1. 0 \in 0 .. t.prevLen - 1
          BY <1>0, <4>2
        <5> QED BY <1>0, <2>3, <2>5, <5>1 DEF Receives, Reads, IsWritten
      <4> QED BY <1>0, <4>1, <4>2
    <3> QED BY <2>1, <2>4, <2>5, <3>1 DEF DecryptNewKey
  <2>6. CASE s.recvChain # None /\ TooManySkipped(s, w.prevLen)
    <3>1. DecryptNewKey(s, w) = [session |-> s, key |-> None]
      BY <2>6 DEF DecryptNewKey, Refused, Tried
    <3>2. t.prevLen > s.recvNum + MaxSkip /\ t.prevLen <= End(s, t)
      BY <1>0, <2>3, <2>6 DEF TooManySkipped
    <3>3. Cardinality(M \ (O \cup {w})) > MaxSkip
      BY <1>0, <1>3, <3>2, TooFarIsMissing
    <3> QED BY <2>1, <3>1, <3>3, ComingIsHarmless DEF Delivers
  <2>7. CASE s.recvChain # None /\ ~ TooManySkipped(s, w.prevLen)
    <3> DEFINE x == SkipMessages(s, s.remote, t.prevLen)
               u == Wound(s, t.prevLen)
    <3>1. s.recvNum <= t.prevLen /\ t.prevLen <= End(s, t)
      BY <1>0, <2>3 DEF Receives, Reads
    <3>2. /\ Receives(u, t, M, C, O) /\ SameSide(s, u) /\ Session(p, u) /\ u.recvNum = t.prevLen
      BY <1>0, <2>7, <3>1, Wind
    <3>3. DhRatchet(u, w.rk) = DhRatchet(x, w.rk)
      <4>1. u = [x EXCEPT !.recvNum = t.prevLen]
        BY DEF Wound
      <4>2. x \in SessionOf(p)
        <5>1. Session(p, s) /\ s.remote \in RatchetKeyOf(Peer(p))
          BY <2>7 DEF WellFormed, Session
        <5> QED BY <1>0, <2>7, <5>1, SkipMoves DEF Moves, Session
      <4> HIDE DEF x, u
      <4> QED BY <4>1, <4>2 DEF DhRatchet, SessionOf
    <3>4. DecryptNewKey(s, w) = DecryptInChain(DhRatchet(x, w.rk), w)
      BY <2>3, <2>7 DEF DecryptNewKey
    <3> HIDE DEF x, u
    <3>5. InStep(u, t, N, M, C, O)
      BY <3>2, OtherSideStays
    <3>6. WellFormed(p, u, t, N, M) /\ u.remote = s.remote
      BY <3>2 DEF WellFormed, SameSide
    <3> QED BY <2>1, <2>4, <3>2, <3>3, <3>4, <3>5, <3>6
  <2> QED BY <2>5, <2>6, <2>7
<1> QED BY <1>1, <1>2, <1>3

-----------------------------------------------------------------------------
(* Writing, and the invariant.                                             *)

\* Nothing tells the two ends apart.
LEMMA EitherWay ==
  ASSUME NEW s, NEW t, NEW N, NEW M, NEW C, NEW O, InStep(s, t, N, M, C, O)
  PROVE  InStep(t, s, M, N, C, O)
  BY DEF InStep

\* A new message goes to the end of the sending chain.
LEMMA WriteNext ==
  ASSUME NEW p \in Parties, NEW s, NEW t, NEW N, NEW M, NEW C, NEW O,
         WellFormed(p, s, t, N, M), InStep(s, t, N, M, C, O), s.sendChain # None, O \subseteq N \cup M
  PROVE  LET w == [from |-> p, rk |-> s.self, prevLen |-> s.prevLen,
                   num |-> s.sendNum, key |-> s.sendChain]
             u == [s EXCEPT !.sendChain = KdfChain(@, 1), !.sendNum = @ + 1]
         IN  InStep(u, t, N \cup {w}, M, C, O)
<1> DEFINE w == [from |-> p, rk |-> s.self, prevLen |-> s.prevLen,
                 num |-> s.sendNum, key |-> s.sendChain]
           u == [s EXCEPT !.sendChain = KdfChain(@, 1), !.sendNum = @ + 1]
           next == KdfChain(s.sendChain, 1)
           L == N \cup {w}
<1>1. /\ s \in SessionOf(p) /\ t \in SessionOf(Peer(p)) /\ s.self \in RatchetKeyOf(p)
      /\ s.sendChain \in Chain /\ s.sendChain.root = s.root /\ s.sendNum \in Nat
      /\ s.prevLen \in Nat /\ t.recvNum \in Nat
      /\ N \subseteq Wire(p) /\ M \subseteq Wire(Peer(p))
  BY DEF WellFormed, Session, SessionOf
<1>2. /\ w.from = p /\ w.rk = s.self /\ w.prevLen = s.prevLen /\ w.num = s.sendNum
      /\ w.key = s.sendChain
  OBVIOUS
<1>3. next \in Chain /\ next.root = s.sendChain.root /\ next.step = s.sendChain.step + 1
  BY <1>1, KdfChainType
<1>4. /\ u.sendChain = next /\ u.sendNum = s.sendNum + 1
      /\ u.self = s.self /\ u.remote = s.remote /\ u.root = s.root /\ u.prevLen = s.prevLen
      /\ u.recvChain = s.recvChain /\ u.recvNum = s.recvNum /\ u.skipped = s.skipped
  BY <1>1 DEF SessionOf
<1> HIDE DEF w, u, next
<1>5. w \notin N /\ w \notin M
  <2>1. w \notin N
    BY <1>1, <1>2 DEF InStep, Writes
  <2>2. \A v \in M : v.from = Peer(p)
    BY <1>1 DEF Wire
  <2> QED BY <1>2, <2>1, <2>2, PeerOfPeer
<1>6. w \notin O
  BY <1>5
<1>7. Ahead(u, t) \/ Ahead(t, u)
  BY <1>3, <1>4, NoneIsNoChain DEF InStep, Ahead
<1>8. Receives(u, t, M, C, O)
  <2>1. End(u, t) = End(s, t)
    BY <1>4 DEF End
  <2>2. Reads(u, t, M)
    BY <1>4, <2>1 DEF InStep, Receives, Reads
  <2>3. Keeps(u, t, M, O)
    BY <1>4 DEF InStep, Receives, Keeps, Behind
  <2>4. ASSUME NEW v \in M PROVE InReach(v, u, t, C) /\ (v \in O => Behind(v, u, t))
    BY <1>4 DEF InStep, Receives, InReach, Behind, IsKept
  <2> QED BY <2>2, <2>3, <2>4 DEF Receives
<1>9. s.sendChain.step = s.sendNum
  BY DEF InStep, Writes
<1>10. Writes(u, L)
  <2>1. u.sendChain.step = u.sendNum /\ u.sendChain # None
    BY <1>3, <1>4, <1>9, NoneIsNoChain
  <2>2. ASSUME NEW n \in 0 .. u.sendNum - 1 PROVE IsWritten(L, u.self, n)
    <3>1. CASE n = s.sendNum
      BY <1>2, <1>4, <3>1 DEF IsWritten
    <3>2. CASE n # s.sendNum
      <4>1. n \in 0 .. s.sendNum - 1
        BY <1>1, <1>4, <3>2
      <4> QED BY <1>4, <4>1 DEF InStep, Writes, IsWritten
    <3> QED BY <3>1, <3>2
  <2>3. ASSUME NEW v \in L
        PROVE  /\ v.key.step = v.num /\ v.rk[2] <= u.self[2]
               /\ v.rk = u.self => /\ v.key.root = u.root /\ v.prevLen = u.prevLen
                                   /\ v.num < u.sendNum
    <3>1. CASE v = w
      <4>1. s.self[2] \in Nat
        BY <1>1 DEF RatchetKeyOf
      <4> QED BY <1>1, <1>2, <1>4, <1>9, <3>1, <4>1
    <3>2. CASE v \in N
      <4>1. v.num \in Nat
        BY <1>1, <3>2 DEF Wire
      <4> QED BY <1>1, <1>4, <3>2, <4>1 DEF InStep, Writes
    <3> QED BY <3>1, <3>2
  <2>4. \A v \in N : v.rk = w.rk => v.key.root = w.key.root
    BY <1>1, <1>2 DEF InStep, Writes
  <2>5. ASSUME NEW v \in L, NEW x \in L, v.rk = x.rk PROVE v.key.root = x.key.root
    BY <2>4, <2>5 DEF InStep, Writes
  <2> HIDE DEF L
  <2> QED BY <2>1, <2>2, <2>3, <2>5 DEF Writes
<1>11. Receives(t, u, L, C, O)
  <2>0. Reads(t, s, N) /\ Keeps(t, s, N, O)
    BY DEF InStep, Receives
  <2>1. CASE t.remote = s.self
    <3>1. End(t, u) = s.sendNum + 1 /\ End(t, s) = s.sendNum
      BY <1>4, <2>1 DEF End
    <3>2. t.recvChain # None /\ t.recvChain.root = s.root
      <4>1. Ahead(t, s)
        <5>1. t.remote # None
          BY <1>1, <2>1, NoneIsNoKey
        <5>2. ASSUME Ahead(s, t) PROVE FALSE
          <6>1. s.self[2] \in Nat /\ t.remote[2] < s.self[2]
            BY <1>1, <5>1, <5>2 DEF Ahead, RatchetKeyOf
          <6> QED BY <2>1, <6>1
        <5> QED BY <5>2 DEF InStep
      <4> QED BY <4>1 DEF Ahead
    <3>3. Reads(t, u, L)
      <4>1. t.recvNum <= End(t, u)
        BY <1>1, <2>0, <3>1 DEF Reads
      <4>2. ASSUME NEW n \in 0 .. End(t, u) - 1 PROVE IsWritten(L, t.remote, n)
        <5>1. CASE n = s.sendNum
          BY <1>2, <2>1, <5>1 DEF IsWritten
        <5>2. CASE n # s.sendNum
          <6>1. n \in 0 .. End(t, s) - 1
            BY <1>1, <3>1, <5>2
          <6> QED BY <2>0, <6>1 DEF Reads, IsWritten
        <5> QED BY <5>1, <5>2
      <4>3. ASSUME NEW v \in L, v.rk = t.remote
            PROVE  t.recvChain # None /\ v.key.root = t.recvChain.root /\ v.num < End(t, u)
        <5>1. CASE v = w
          BY <1>1, <1>2, <3>1, <3>2, <5>1
        <5>2. CASE v \in N
          <6>1. v.num \in Nat
            BY <1>1, <5>2 DEF Wire
          <6> QED BY <1>1, <2>0, <3>1, <4>3, <5>2, <6>1 DEF Reads
        <5> QED BY <5>1, <5>2
      <4> HIDE DEF L
      <4> QED BY <2>0, <4>1, <4>2, <4>3 DEF Reads
    <3>4. InReach(w, t, u, C)
      <4>1. w.rk = t.remote /\ w.num >= t.recvNum
        BY <1>1, <1>2, <2>0, <2>1, <3>1 DEF Reads
      <4> QED BY <4>1 DEF InReach
    <3>5. Keeps(t, u, L, O)
      BY <1>4, <2>0 DEF Keeps, IsOwed, Behind
    <3>6. ASSUME NEW v \in N PROVE InReach(v, t, u, C) /\ (v \in O => Behind(v, t, u))
      BY <1>4 DEF InStep, Receives, InReach, Behind
    <3> QED BY <1>6, <3>3, <3>4, <3>5, <3>6 DEF Receives
  <2>2. CASE t.remote # s.self
    <3>1. End(t, u) = End(t, s)
      BY <1>4, <2>2 DEF End
    <3>2. Reads(t, u, L)
      BY <1>2, <2>0, <2>2, <3>1 DEF Reads, IsWritten
    <3>3. InReach(w, t, u, C)
      BY <1>2, <1>4, <2>2 DEF InReach
    <3>4. Keeps(t, u, L, O)
      BY <1>4, <2>0 DEF Keeps, IsOwed, Behind
    <3>5. ASSUME NEW v \in N PROVE InReach(v, t, u, C) /\ (v \in O => Behind(v, t, u))
      BY <1>4 DEF InStep, Receives, InReach, Behind
    <3> QED BY <1>6, <3>2, <3>3, <3>4, <3>5 DEF Receives
  <2> QED BY <2>1, <2>2
<1>12. Writes(t, M)
  BY DEF InStep
<1> HIDE DEF L
<1>13. InStep(u, t, L, M, C, O)
  BY <1>7, <1>8, <1>10, <1>11, <1>12 DEF InStep
<1> QED BY <1>13 DEF u, w, L

SyncInv == EndsInStep /\ IsFiniteSet(wires)

\* From either end.
LEMMA FromEither ==
  ASSUME RatchetInv, EndsInStep, NEW p \in Parties
  PROVE  /\ dups = 0 => InStep(session[p], session[Peer(p)], SentBy(p), SentBy(Peer(p)),
                               came, opened)
         /\ WellFormed(p, session[p], session[Peer(p)], SentBy(p), SentBy(Peer(p)))
<1>1. (p = Alice /\ Peer(p) = Bob) \/ (p = Bob /\ Peer(p) = Alice)
  BY BoundsAssumption DEF Parties, Peer
<1>2. dups = 0 => InStep(session[p], session[Peer(p)], SentBy(p), SentBy(Peer(p)), came, opened)
  BY <1>1, EitherWay DEF EndsInStep
<1>3. /\ Session(p, session[p]) /\ Session(Peer(p), session[Peer(p)])
      /\ session[p].sendChain # None => session[p].sendChain.root = session[p].root
      /\ session[Peer(p)].sendChain # None =>
           session[Peer(p)].sendChain.root = session[Peer(p)].root
  BY PeerOfPeer DEF RatchetInv, SessionsOK
<1>4. \A q : SentBy(q) \subseteq Wire(q) /\ SentBy(q) \subseteq wires
  BY DEF SentBy, RatchetInv, MessagesOK
<1>5. \A v, w \in SentBy(Peer(p)) : v.key = w.key => v = w
  BY <1>4 DEF RatchetInv, KeysUsedOnce
<1> QED BY <1>2, <1>3, <1>4, <1>5 DEF WellFormed

\* To the other end it is the same.
LEMMA ToBoth ==
  ASSUME NEW p \in Parties,
         InStep(session[p], session[Peer(p)], SentBy(p), SentBy(Peer(p)), came, opened)'
  PROVE  EndsInStep'
<1>1. (p = Alice /\ Peer(p) = Bob) \/ (p = Bob /\ Peer(p) = Alice)
  BY BoundsAssumption DEF Parties, Peer
<1> QED BY <1>1, EitherWay DEF EndsInStep

\* Alice starts ahead, and nothing is written.
LEMMA SyncInit == Init => SyncInv
<1> SUFFICES ASSUME Init PROVE SyncInv
  OBVIOUS
<1> DEFINE s == InitAlice
           t == InitBob
           root == KdfRoot(<< >>, Dh(<<Alice, 1>>, <<Bob, 1>>))
<1>1. /\ wires = {} /\ came = {} /\ opened = {} /\ dups = 0 /\ IsFiniteSet(wires)
      /\ session[Alice] = s /\ session[Bob] = t /\ SentBy(Alice) = {} /\ SentBy(Bob) = {}
  BY BoundsAssumption, FS_EmptySet DEF Init, Parties, SentBy
<1>2. /\ s.self = <<Alice, 1>> /\ s.remote = <<Bob, 1>> /\ s.root = root
      /\ s.sendChain.step = 0 /\ s.sendNum = 0 /\ s.recvChain = None /\ s.recvNum = 0
      /\ s.prevLen = 0 /\ s.skipped = {}
  BY DEF InitAlice, ChainOf
<1>3. /\ t.self = <<Bob, 1>> /\ t.remote = None /\ t.root = << >>
      /\ t.sendChain = None /\ t.sendNum = 0 /\ t.recvChain = None /\ t.recvNum = 0
      /\ t.prevLen = 0 /\ t.skipped = {}
  BY DEF InitBob
<1> HIDE DEF s, t
<1>4. Ahead(s, t)
  BY <1>2, <1>3 DEF Ahead
<1>5. Writes(s, {}) /\ Writes(t, {})
  BY <1>2, <1>3 DEF Writes
<1>6. End(s, t) = 0 /\ End(t, s) = 0
  BY <1>2, <1>3 DEF End
<1>7. Receives(s, t, {}, {}, {}) /\ Receives(t, s, {}, {}, {})
  BY <1>2, <1>3, <1>6 DEF Receives, Reads, Keeps
<1>8. InStep(s, t, {}, {}, {}, {})
  BY <1>4, <1>5, <1>7 DEF InStep
<1> QED BY <1>1, <1>8 DEF SyncInv, EndsInStep

\* A message is of one end only.
LEMMA SentByOne ==
  ASSUME RatchetInv, NEW w \in wires
  PROVE  /\ w.from \in Parties /\ Peer(w.from) \in Parties /\ Peer(Peer(w.from)) = w.from
         /\ w \in SentBy(w.from) /\ w \notin SentBy(Peer(w.from))
<1>1. w.from \in Parties
  BY DEF RatchetInv, MessagesOK
<1> QED BY <1>1, PeerOfPeer DEF SentBy

\* What comes for the first time is delivered.
LEMMA Delivered ==
  ASSUME RatchetInv, SyncInv, NEW w \in wires, w \notin came, dups = 0
  PROVE  LET p == Peer(w.from)
         IN  Delivers(Decrypt(session[p], w), session[w.from], SentBy(p), SentBy(w.from),
                      came, opened, w)
<1> DEFINE p == Peer(w.from)
<1>1. p \in Parties /\ Peer(p) = w.from /\ w \in SentBy(w.from) /\ w \notin SentBy(p)
  BY SentByOne
<1> HIDE DEF p
<1>2. /\ InStep(session[p], session[w.from], SentBy(p), SentBy(w.from), came, opened)
      /\ WellFormed(p, session[p], session[w.from], SentBy(p), SentBy(w.from))
  BY <1>1, FromEither DEF SyncInv
<1>3. IsFiniteSet(SentBy(w.from))
  <2>1. SentBy(w.from) \in SUBSET wires
    BY DEF SentBy
  <2> QED BY <2>1, FS_Subset DEF SyncInv
<1> QED BY <1>1, <1>2, <1>3, DeliversAny DEF p

\* Every step keeps the ends in step, until a message comes twice.
LEMMA SyncStep == RatchetInv /\ SyncInv /\ [Next]_vars => SyncInv'
<1> SUFFICES ASSUME RatchetInv, SyncInv, [Next]_vars PROVE SyncInv'
  OBVIOUS
<1>1. ASSUME NEW p \in Parties, Encrypt(p) PROVE SyncInv'
  <2> DEFINE s == session[p]
             w == [from |-> p, rk |-> s.self, prevLen |-> s.prevLen,
                   num |-> s.sendNum, key |-> s.sendChain]
             u == [s EXCEPT !.sendChain = KdfChain(@, 1), !.sendNum = @ + 1]
  <2>1. /\ wires' = wires \cup {w} /\ UNCHANGED <<came, opened, dups>> /\ s.sendChain # None
        /\ session' = [session EXCEPT ![p] = u]
        /\ session \in [Parties -> SessionOf(Alice) \cup SessionOf(Bob)]
    BY <1>1 DEF Encrypt, RatchetInv, SessionsOK
  <2>2. w.from = p
    OBVIOUS
  <2>3. /\ session'[p] = u /\ session'[Peer(p)] = session[Peer(p)]
        /\ SentBy(p)' = SentBy(p) \cup {w} /\ SentBy(Peer(p))' = SentBy(Peer(p))
    <3> HIDE DEF w, u
    <3> QED BY <2>1, <2>2, PeerOfPeer DEF SentBy
  <2>4. opened \subseteq SentBy(p) \cup SentBy(Peer(p))
    <3>1. \A v \in wires : v.from = p \/ v.from = Peer(p)
      BY DEF RatchetInv, MessagesOK, Parties, Peer
    <3>2. opened \subseteq wires
      BY DEF RatchetInv, MessagesOK
    <3> QED BY <3>1, <3>2 DEF SentBy
  <2>5. ASSUME dups = 0
        PROVE  InStep(u, session[Peer(p)], SentBy(p) \cup {w}, SentBy(Peer(p)), came, opened)
    <3>1. /\ InStep(s, session[Peer(p)], SentBy(p), SentBy(Peer(p)), came, opened)
          /\ WellFormed(p, s, session[Peer(p)], SentBy(p), SentBy(Peer(p)))
      BY <2>5, FromEither DEF SyncInv
    <3> QED BY <2>1, <2>4, <3>1, WriteNext
  <2>6. EndsInStep'
    <3>1. CASE dups = 0
      BY <2>1, <2>3, <2>5, <3>1, ToBoth
    <3>2. CASE dups # 0
      BY <2>1, <3>2 DEF EndsInStep
    <3> QED BY <3>1, <3>2
  <2>7. IsFiniteSet(wires')
    BY <2>1, FS_AddElement DEF SyncInv
  <2> QED BY <2>6, <2>7 DEF SyncInv
<1>2. ASSUME NEW w \in wires, Receive(w) PROVE SyncInv'
  <2> DEFINE p == Peer(w.from)
             r == Decrypt(session[p], w)
  <2>1. /\ session' = [session EXCEPT ![p] = r.session] /\ came' = came \cup {w} /\ wires' = wires
        /\ opened' = (IF r.key = w.key THEN opened \cup {w} ELSE opened)
        /\ dups' = (IF w \in came THEN dups + 1 ELSE dups)
        /\ session \in [Parties -> SessionOf(Alice) \cup SessionOf(Bob)]
    BY <1>2 DEF Receive, RatchetInv, SessionsOK
  <2>2. /\ p \in Parties /\ Peer(p) = w.from /\ p # w.from /\ w.key \in Chain
        /\ \A q : SentBy(q)' = SentBy(q)
    BY <2>1, SentByOne, PeerOfPeer DEF SentBy, RatchetInv, MessagesOK, Wire
  <2>3. CASE dups = 0 /\ w \notin came
    <3>1. Delivers(r, session[w.from], SentBy(p), SentBy(w.from), came, opened, w)
      BY <2>3, Delivered
    <3> HIDE DEF r, p
    <3>2. InStep(r.session, session[w.from], SentBy(p), SentBy(w.from), came', opened')
      BY <2>1, <2>2, <3>1, NoneIsNoChain DEF Delivers
    <3>3. session'[p] = r.session /\ session'[w.from] = session[w.from]
      BY <2>1, <2>2, PeerOfPeer
    <3>4. EndsInStep'
      BY <2>2, <3>2, <3>3, ToBoth
    <3> QED BY <2>1, <3>4 DEF SyncInv
  <2>4. CASE ~ (dups = 0 /\ w \notin came)
    <3>1. dups' # 0
      BY <2>1, <2>4 DEF RatchetInv, MessagesOK
    <3> QED BY <2>1, <3>1 DEF SyncInv, EndsInStep
  <2> QED BY <2>3, <2>4
<1>3. ASSUME UNCHANGED vars PROVE SyncInv'
  BY <1>3 DEF vars, SyncInv, EndsInStep, SentBy
<1> QED BY <1>1, <1>2, <1>3 DEF Next

\* ratchet.rs `skip_messages`: a session keeps keys of messages that were written
\* and have not opened, and nothing else, until a message comes twice.
THEOREM NothingKeptInVain == Spec => []KeptIsOwed
<1>1. RatchetInv /\ SyncInv => KeptIsOwed
  <2> SUFFICES ASSUME RatchetInv, SyncInv, dups = 0, NEW p \in Parties,
                      NEW k \in session[p].skipped
               PROVE  \E w \in wires \ opened : w.rk = k.rk /\ w.num = k.num /\ w.key = k.key
    BY DEF KeptIsOwed
  <2>1. InStep(session[p], session[Peer(p)], SentBy(p), SentBy(Peer(p)), came, opened)
    BY FromEither DEF SyncInv
  <2>2. IsOwed(k, SentBy(Peer(p)), opened)
    BY <2>1 DEF InStep, Receives, Keeps
  <2> QED BY <2>2 DEF IsOwed, SentBy
<1> QED BY RatchetInit, SyncInit, RatchetStep, SyncStep, <1>1, PTL DEF Spec

\* ratchet.rs `decrypt`: whatever is lost or overtaken, a message that comes
\* opens, unless more than MAX_SKIP others of its sender have not; until a
\* message comes twice.
THEOREM LateMessagesOpen == Spec => []EveryMessageOpens
<1>1. RatchetInv /\ SyncInv => EveryMessageOpens
  <2> SUFFICES ASSUME RatchetInv, SyncInv, dups = 0, NEW w \in wires, w \notin came
               PROVE  LET key == Decrypt(session[Peer(w.from)], w).key
                      IN  key = w.key \/ (key = None /\ Cardinality(Missing(w)) > MaxSkip)
    BY DEF EveryMessageOpens
  <2>1. Missing(w) = SentBy(w.from) \ (opened \cup {w})
    BY DEF Missing, SentBy
  <2> QED BY <2>1, Delivered DEF Delivers
<1> QED BY RatchetInit, SyncInit, RatchetStep, SyncStep, <1>1, PTL DEF Spec
=============================================================================
