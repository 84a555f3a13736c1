-------------------------- MODULE HeldRelaysProofs --------------------------
(***************************************************************************)
(* Theorems about the held queue and about the way relayed edits take      *)
(* through it, for every set of edits, keys and origins, every pair of     *)
(* ceilings and every bound.                                               *)
(***************************************************************************)
EXTENDS HeldRelays, FiniteSetTheorems, QueueLemmas

-----------------------------------------------------------------------------
(***************************************************************************)
(* The held queue.                                                         *)
(***************************************************************************)
\* Among finitely many held items one is the oldest, so oldest_origin finds an
\* item whenever the queue is over its ceiling and the loops in hold make room.
LEMMA OldestExists ==
  ASSUME NEW S, IsFiniteSet(S), S # {}, \A i \in S : i.seq \in Nat
  PROVE  Oldest(S) # {}
<1> DEFINE lower(i) == {j \in S : j.seq < i.seq}
           T == {lower(i) : i \in S}
<1>1. IsWellFoundedOn(StrictSubsetOrdering(S), FiniteSubsetsOf(S))
  BY FS_StrictSubsetOrderingWellFounded
<1>2. T \subseteq FiniteSubsetsOf(S)
  <2>1. \A i \in S : lower(i) \in SUBSET S
    OBVIOUS
  <2>2. \A i \in S : IsFiniteSet(lower(i))
    BY <2>1, FS_Subset
  <2> QED BY <2>1, <2>2 DEF FiniteSubsetsOf
<1>3. T # {}
  OBVIOUS
<1>4. PICK x \in T : \A y \in T : ~ (<<y, x>> \in StrictSubsetOrdering(S))
  <2> HIDE DEF T
  <2> QED BY <1>1, <1>2, <1>3, WFMin
<1>5. PICK i \in S : x = lower(i)
  BY <1>4
<1>6. ASSUME NEW j \in S, ~ (i.seq <= j.seq)
      PROVE  FALSE
  <2>1. j.seq < i.seq
    BY <1>6
  <2>2. lower(j) \subseteq lower(i) /\ j \in lower(i) /\ j \notin lower(j)
    BY <2>1
  <2>3. lower(j) \in T
    OBVIOUS
  <2>4. <<lower(j), lower(i)>> \in StrictSubsetOrdering(S)
    BY <2>2 DEF StrictSubsetOrdering
  <2> QED BY <1>4, <1>5, <2>3, <2>4
<1> QED BY <1>6 DEF Oldest

-----------------------------------------------------------------------------
(***************************************************************************)
(* The inductive invariant.  Accounting alone is not inductive: forgetting *)
(* items subtracts counts from counters, which stays a count only if the   *)
(* items are finitely many and the table was exact before.  The age order  *)
(* is what makes expiring a prefix enough.                                 *)
(***************************************************************************)
Counts(R, H) ==
  /\ DOMAIN R = {RetryKeyOf(i) : i \in H}
  /\ \A k \in DOMAIN R : R[k] \in KeyRetry /\ R[k].waiting = Cardinality(WaitingFor(H, k))

SeqFresh == \A i \in held : i.seq < next_seq
SeqIsAgeOrder ==
  /\ \A i \in held : i.held_at <= now
  /\ \A i, j \in held : i.seq <= j.seq => i.held_at <= j.held_at
SeqUnique == \A i, j \in held : i.seq = j.seq => i = j

IInv == TypeOK /\ Accounting /\ WithinCeilings /\ SeqFresh /\ SeqIsAgeOrder /\ SeqUnique

\* The ceilings the queue runs with are at least one.
LEMMA CeilingTypes == MaxPerOrigin \in Nat \ {0} /\ MaxTotal \in Nat \ {0}
  BY HeldQueueAssumption DEF MaxPerOrigin, MaxTotal, AtLeastOne

\* The backoff is a length of time whatever the number of asks.
LEMMA RetryBackoffType ==
  ASSUME NEW a \in Nat
  PROVE  RetryBackoff(a) \in Nat
<1> DEFINE n == IF a < 5 THEN a + 1 ELSE 6
           shift == <<1, 2, 4, 8, 16, 32>>[n]
<1>1. n \in 1 .. 6
  OBVIOUS
<1>2. shift \in Nat
  BY <1>1
<1>3. FirstRetry * shift \in Nat
  <2> HIDE DEF shift
  <2> QED BY <1>2, HeldQueueAssumption
<1>4. RetryBackoff(a) = IF FirstRetry * shift < MaxRetry THEN FirstRetry * shift ELSE MaxRetry
  BY DEF RetryBackoff
<1> HIDE DEF shift
<1> QED BY <1>3, <1>4, HeldQueueAssumption

\* A held item names its own row of the retry table.
LEMMA RetryKeyOfType ==
  ASSUME NEW i \in HeldRelay
  PROVE  RetryKeyOf(i) \in RetryKey
  BY DEF HeldRelay, RetryKey, RetryKeyOf

\* What waits for one key, or belongs to one origin, is part of what is held.
LEMMA WaitingForFinite ==
  ASSUME NEW H, IsFiniteSet(H), NEW k
  PROVE  /\ WaitingFor(H, k) \subseteq H /\ IsFiniteSet(WaitingFor(H, k))
         /\ Cardinality(WaitingFor(H, k)) \in Nat
<1>1. WaitingFor(H, k) \in SUBSET H
  BY DEF WaitingFor
<1>2. IsFiniteSet(WaitingFor(H, k))
  BY <1>1, FS_Subset
<1> QED BY <1>1, <1>2, FS_CardinalityType

\* forget: taking "gone" out of an exact table leaves an exact table, whatever
\* set of items goes and however many of them share a key.
LEMMA ForgetKeepsCounts ==
  ASSUME NEW H, H \in SUBSET HeldRelay, IsFiniteSet(H), NEW gone, gone \subseteq H,
         NEW R, Counts(R, H)
  PROVE  Counts(ForgetRetries(R, gone), H \ gone)
<1> DEFINE left(k) == R[k].waiting - Cardinality(WaitingFor(gone, k))
           F == ForgetRetries(R, gone)
<1>1. IsFiniteSet(gone) /\ IsFiniteSet(H \ gone)
  BY FS_Subset, FS_Difference
<1>2. ASSUME NEW k \in DOMAIN R
      PROVE  left(k) = Cardinality(WaitingFor(H \ gone, k)) /\ left(k) \in Nat
  <2>1. WaitingFor(H \ gone, k) = WaitingFor(H, k) \ WaitingFor(gone, k)
    BY DEF WaitingFor
  <2>2. WaitingFor(H, k) \cap WaitingFor(gone, k) = WaitingFor(gone, k)
    BY DEF WaitingFor
  <2>3. IsFiniteSet(WaitingFor(H, k))
    BY WaitingForFinite
  <2>4. Cardinality(WaitingFor(H, k) \ WaitingFor(gone, k))
          = Cardinality(WaitingFor(H, k)) - Cardinality(WaitingFor(H, k) \cap WaitingFor(gone, k))
    BY <2>3, FS_Difference
  <2>5. Cardinality(WaitingFor(H \ gone, k)) \in Nat
    BY <1>1, WaitingForFinite
  <2>6. R[k].waiting = Cardinality(WaitingFor(H, k))
    BY DEF Counts
  <2> QED BY <2>1, <2>2, <2>4, <2>5, <2>6
<1>3. DOMAIN F = {k \in DOMAIN R : left(k) # 0}
  BY DEF ForgetRetries
<1>4. \A k \in DOMAIN F : F[k] = [R[k] EXCEPT !.waiting = left(k)]
  BY DEF ForgetRetries
<1>5. ASSUME NEW k
      PROVE  k \in DOMAIN F <=> \E i \in H \ gone : k = RetryKeyOf(i)
  <2>1. k \in DOMAIN F => k \in DOMAIN R /\ Cardinality(WaitingFor(H \ gone, k)) # 0
    BY <1>2, <1>3
  <2>2. k \in DOMAIN R /\ Cardinality(WaitingFor(H \ gone, k)) # 0 => k \in DOMAIN F
    BY <1>2, <1>3
  <2>3. Cardinality(WaitingFor(H \ gone, k)) # 0 <=> WaitingFor(H \ gone, k) # {}
    BY <1>1, WaitingForFinite, FS_EmptySet
  <2>4. WaitingFor(H \ gone, k) # {} <=> \E i \in H \ gone : k = RetryKeyOf(i)
    BY DEF WaitingFor
  <2>5. (\E i \in H \ gone : k = RetryKeyOf(i)) => k \in DOMAIN R
    BY DEF Counts
  <2> QED BY <2>1, <2>2, <2>3, <2>4, <2>5
<1>6. DOMAIN F = {RetryKeyOf(i) : i \in H \ gone}
  BY <1>5
<1>7. ASSUME NEW k \in DOMAIN F
      PROVE  F[k] \in KeyRetry /\ F[k].waiting = Cardinality(WaitingFor(H \ gone, k))
  <2>1. k \in DOMAIN R
    BY <1>3
  <2>2. R[k] \in KeyRetry
    BY <2>1 DEF Counts
  <2>3. left(k) \in Nat /\ left(k) = Cardinality(WaitingFor(H \ gone, k))
    BY <1>2, <2>1
  <2> HIDE DEF left
  <2> QED BY <1>4, <2>2, <2>3 DEF KeyRetry
<1> HIDE DEF F
<1>8. Counts(F, H \ gone)
  BY <1>6, <1>7 DEF Counts
<1> QED BY <1>8 DEF F

\* hold: one more item, fresh to the queue, and an exact table stays exact.
LEMMA PushKeepsCounts ==
  ASSUME TypeOK, Accounting, SeqFresh,
         NEW r \in Relays, NEW o \in Origins, NEW k \in Keys
  PROVE  LET P == Pushed(r, o, k)
             q == [origin |-> o, key |-> k]
         IN  /\ P \in SUBSET HeldRelay /\ IsFiniteSet(P)
             /\ Cardinality(P) = Cardinality(held) + 1
             /\ Counts(RetriesWith(q), P)
<1> DEFINE item == [relay |-> r, origin |-> o, key |-> k, held_at |-> now, seq |-> next_seq]
           P == Pushed(r, o, k)
           q == [origin |-> o, key |-> k]
           R == RetriesWith(q)
<1>1. P = held \cup {item}
  BY DEF Pushed
<1>2. item \in HeldRelay /\ item.seq = next_seq
  BY DEF TypeOK, HeldRelay
<1>3. item \notin held
  <2>1. next_seq \in Nat
    BY DEF TypeOK
  <2> HIDE DEF item
  <2> QED BY <1>2, <2>1 DEF SeqFresh
<1>4. RetryKeyOf(item) = q /\ q \in RetryKey
  BY DEF RetryKeyOf, RetryKey
<1> HIDE DEF item
<1>5. P \in SUBSET HeldRelay /\ IsFiniteSet(P) /\ Cardinality(P) = Cardinality(held) + 1
  BY <1>1, <1>2, <1>3, FS_AddElement DEF TypeOK
<1>6. DOMAIN R = DOMAIN retries \cup {q}
  BY DEF RetriesWith
<1>7. DOMAIN R = {RetryKeyOf(i) : i \in P}
  <2>1. DOMAIN retries = {RetryKeyOf(i) : i \in held}
    BY DEF Accounting
  <2> HIDE DEF R, P, q
  <2> QED BY <1>1, <1>4, <1>6, <2>1
<1>8. ASSUME NEW p \in DOMAIN R
      PROVE  R[p] \in KeyRetry /\ R[p].waiting = Cardinality(WaitingFor(P, p))
  <2>1. CASE p # q
    <3>1. p \in DOMAIN retries /\ R[p] = retries[p]
      BY <1>6, <2>1 DEF RetriesWith
    <3>2. WaitingFor(P, p) = WaitingFor(held, p)
      BY <1>1, <1>4, <2>1 DEF WaitingFor
    <3> QED BY <3>1, <3>2 DEF TypeOK, Accounting
  <2>2. CASE p = q
    <3>1. WaitingFor(P, q) = WaitingFor(held, q) \cup {item} /\ item \notin WaitingFor(held, q)
      BY <1>1, <1>3, <1>4 DEF WaitingFor
    <3>2. Cardinality(WaitingFor(P, q)) = Cardinality(WaitingFor(held, q)) + 1
      BY <3>1, WaitingForFinite, FS_AddElement DEF TypeOK
    <3>3. CASE q \in DOMAIN retries
      <4>1. retries[q] \in KeyRetry /\ retries[q].waiting = Cardinality(WaitingFor(held, q))
        BY <3>3 DEF TypeOK, Accounting
      <4>2. R[q] = [retries[q] EXCEPT !.waiting = @ + 1]
        BY <3>3 DEF RetriesWith
      <4> HIDE DEF R, P, q
      <4> QED BY <2>2, <3>2, <4>1, <4>2 DEF KeyRetry
    <3>4. CASE q \notin DOMAIN retries
      <4>1. WaitingFor(held, q) = {}
        BY <3>4 DEF Accounting, WaitingFor
      <4>2. Cardinality(WaitingFor(P, q)) = 1
        BY <3>2, <4>1, FS_EmptySet
      <4>3. R[q] = [waiting |-> 1, attempts |-> 0, next_attempt |-> now + FirstRetry]
        BY <3>4 DEF RetriesWith
      <4>4. now + FirstRetry \in Nat
        BY HeldQueueAssumption DEF TypeOK
      <4> HIDE DEF R, P, q
      <4> QED BY <2>2, <4>2, <4>3, <4>4 DEF KeyRetry
    <3> QED BY <3>3, <3>4
  <2> QED BY <2>1, <2>2
<1> HIDE DEF R, P, q
<1>9. Counts(R, P)
  BY <1>7, <1>8 DEF Counts
<1> QED BY <1>5, <1>9 DEF R, P, q

\* In an inductive state the table is exact in the sense of Counts, and back.
LEMMA CountsIsAccounting ==
  /\ TypeOK /\ Accounting => Counts(retries, held)
  /\ \A R, H : Counts(R, H) /\ H \in SUBSET HeldRelay => DOMAIN R \subseteq RetryKey
<1>1. TypeOK /\ Accounting => Counts(retries, held)
  BY DEF TypeOK, Accounting, Counts
<1>2. ASSUME NEW R, NEW H, Counts(R, H), H \in SUBSET HeldRelay
      PROVE  DOMAIN R \subseteq RetryKey
  BY <1>2, RetryKeyOfType DEF Counts
<1> QED BY <1>1, <1>2

-----------------------------------------------------------------------------
\* The share of one origin is part of what is held.
LEMMA OfOriginFinite ==
  ASSUME NEW H, IsFiniteSet(H), NEW o
  PROVE  /\ OfOrigin(H, o) \in SUBSET H /\ IsFiniteSet(OfOrigin(H, o))
         /\ Cardinality(OfOrigin(H, o)) \in Nat
<1>1. OfOrigin(H, o) \in SUBSET H
  BY DEF OfOrigin
<1>2. IsFiniteSet(OfOrigin(H, o))
  BY <1>1, FS_Subset
<1> QED BY <1>1, <1>2, FS_CardinalityType

\* The ceilings survive any step that only takes items away.
LEMMA FewerKeepsCeilings ==
  ASSUME TypeOK, WithinCeilings, NEW H, H \in SUBSET held
  PROVE  /\ \A o \in Origins : Cardinality(OfOrigin(H, o)) <= MaxPerOrigin
         /\ Cardinality(H) <= MaxTotal
<1>0. IsFiniteSet(held)
  BY DEF TypeOK
<1>1. IsFiniteSet(H) /\ Cardinality(H) <= Cardinality(held)
  BY <1>0, FS_Subset
<1>2. Cardinality(H) \in Nat /\ Cardinality(held) \in Nat
  BY <1>0, <1>1, FS_CardinalityType
<1>3. Cardinality(H) <= MaxTotal
  BY <1>1, <1>2, CeilingTypes DEF WithinCeilings
<1>4. ASSUME NEW o \in Origins
      PROVE  Cardinality(OfOrigin(H, o)) <= MaxPerOrigin
  <2>1. OfOrigin(H, o) \in SUBSET OfOrigin(held, o)
    BY DEF OfOrigin
  <2>2. IsFiniteSet(OfOrigin(held, o)) /\ Cardinality(OfOrigin(held, o)) \in Nat
    BY <1>0, OfOriginFinite
  <2>3. Cardinality(OfOrigin(H, o)) \in Nat
    BY <1>1, OfOriginFinite
  <2>4. Cardinality(OfOrigin(H, o)) <= Cardinality(OfOrigin(held, o))
    BY <2>1, <2>2, FS_Subset
  <2> QED BY <2>2, <2>3, <2>4, CeilingTypes DEF WithinCeilings
<1> QED BY <1>3, <1>4

\* Taking items away is counted by subtraction.
LEMMA CountWithout ==
  ASSUME NEW H, IsFiniteSet(H), NEW D, D \in SUBSET H
  PROVE  /\ IsFiniteSet(D) /\ IsFiniteSet(H \ D)
         /\ Cardinality(H \ D) = Cardinality(H) - Cardinality(D)
         /\ Cardinality(H) \in Nat /\ Cardinality(D) \in Nat /\ Cardinality(H \ D) \in Nat
         /\ D # {} => Cardinality(D) >= 1
<1>1. IsFiniteSet(D) /\ IsFiniteSet(H \ D)
  BY FS_Subset, FS_Difference
<1>2. H \cap D = D
  OBVIOUS
<1>3. Cardinality(H \ D) = Cardinality(H) - Cardinality(D)
  BY <1>2, FS_Difference
<1>4. Cardinality(H) \in Nat /\ Cardinality(D) \in Nat /\ Cardinality(H \ D) \in Nat
  BY <1>1, FS_CardinalityType
<1>5. D # {} => Cardinality(D) # 0
  BY <1>1, FS_EmptySet
<1> QED BY <1>1, <1>3, <1>4, <1>5

\* The order facts survive any step that only takes items away.
LEMMA FewerKeepsOrder ==
  ASSUME SeqFresh, SeqIsAgeOrder, SeqUnique, held' \subseteq held, UNCHANGED <<next_seq, now>>
  PROVE  SeqFresh' /\ SeqIsAgeOrder' /\ SeqUnique'
  BY DEF SeqFresh, SeqIsAgeOrder, SeqUnique

\* take_for_signer keeps the invariant.
LEMMA TakeKeeps ==
  ASSUME IInv, NEW k \in Keys, TakeForSigner(k)
  PROVE  IInv'
<1> DEFINE gone == ForKey(held, k)
<1>1. TypeOK /\ Accounting /\ WithinCeilings /\ SeqFresh /\ SeqIsAgeOrder /\ SeqUnique
  BY DEF IInv
<1>2. /\ held' = held \ gone /\ total' = total - Cardinality(gone)
      /\ retries' = [q \in {q \in DOMAIN retries : q.key # k} |-> retries[q]]
      /\ next_seq' = next_seq /\ now' = now
  BY DEF TakeForSigner
<1>3. gone \in SUBSET held /\ IsFiniteSet(held) /\ held \in SUBSET HeldRelay
  BY <1>1 DEF ForKey, TypeOK
<1>4. IsFiniteSet(held') /\ Cardinality(held') = Cardinality(held) - Cardinality(gone)
      /\ Cardinality(held') \in Nat
  BY <1>2, <1>3, CountWithout
<1>5. total' = Cardinality(held')
  BY <1>1, <1>2, <1>4 DEF Accounting
<1>6. DOMAIN retries' = {RetryKeyOf(i) : i \in held'}
  <2>1. \A i \in held : RetryKeyOf(i).key = i.key
    BY DEF RetryKeyOf
  <2>2. held' = {i \in held : i.key # k}
    BY <1>2 DEF ForKey
  <2>3. DOMAIN retries = {RetryKeyOf(i) : i \in held}
    BY <1>1 DEF Accounting
  <2>4. DOMAIN retries' = {q \in DOMAIN retries : q.key # k}
    BY <1>2
  <2> QED BY <2>1, <2>2, <2>3, <2>4
<1>7. ASSUME NEW q \in DOMAIN retries'
      PROVE  q \in DOMAIN retries /\ retries'[q] = retries[q]
             /\ WaitingFor(held', q) = WaitingFor(held, q)
  <2>1. q \in DOMAIN retries /\ q.key # k /\ retries'[q] = retries[q]
    BY <1>2
  <2>2. \A i \in held : RetryKeyOf(i) = q => i.key # k
    BY <2>1 DEF RetryKeyOf
  <2>3. WaitingFor(held', q) = WaitingFor(held, q)
    BY <1>2, <2>2 DEF WaitingFor, ForKey
  <2> QED BY <2>1, <2>3
<1>8. Accounting'
  BY <1>1, <1>5, <1>6, <1>7 DEF Accounting
<1>9. TypeOK'
  <2>1. held' \in SUBSET HeldRelay
    BY <1>2, <1>3
  <2>2. DOMAIN retries' \subseteq RetryKey /\ \A q \in DOMAIN retries' : retries'[q] \in KeyRetry
    BY <1>1, <1>7 DEF TypeOK
  <2> QED BY <1>1, <1>2, <1>4, <1>5, <2>1, <2>2 DEF TypeOK
<1>10. WithinCeilings'
  BY <1>1, <1>2, <1>3, FewerKeepsCeilings DEF WithinCeilings
<1>11. SeqFresh' /\ SeqIsAgeOrder' /\ SeqUnique'
  BY <1>1, <1>2, FewerKeepsOrder
<1> QED BY <1>8, <1>9, <1>10, <1>11 DEF IInv

\* expire keeps the invariant, whatever the time it is given.
LEMMA ExpireKeeps ==
  ASSUME IInv, NEW t, Expire(t)
  PROVE  IInv'
<1> DEFINE gone == ExpiredPrefix(t)
<1>1. TypeOK /\ Accounting /\ WithinCeilings /\ SeqFresh /\ SeqIsAgeOrder /\ SeqUnique
  BY DEF IInv
<1>2. /\ held' = held \ gone /\ total' = total - Cardinality(gone)
      /\ retries' = ForgetRetries(retries, gone)
      /\ next_seq' = next_seq /\ now' = now
  BY DEF Expire
<1>3. gone \in SUBSET held /\ IsFiniteSet(held) /\ held \in SUBSET HeldRelay
  BY <1>1 DEF ExpiredPrefix, TypeOK
<1> HIDE DEF gone
<1>4. IsFiniteSet(held') /\ Cardinality(held') = Cardinality(held) - Cardinality(gone)
      /\ Cardinality(held') \in Nat
  BY <1>2, <1>3, CountWithout
<1>5. total' = Cardinality(held')
  BY <1>1, <1>2, <1>4 DEF Accounting
<1>6. Counts(retries', held')
  BY <1>1, <1>2, <1>3, CountsIsAccounting, ForgetKeepsCounts
<1>7. Accounting'
  BY <1>5, <1>6 DEF Accounting, Counts
<1>8. TypeOK'
  <2>1. held' \in SUBSET HeldRelay
    BY <1>2, <1>3
  <2>2. DOMAIN retries' \subseteq RetryKey /\ \A q \in DOMAIN retries' : retries'[q] \in KeyRetry
    BY <1>6, <2>1, CountsIsAccounting DEF Counts
  <2> QED BY <1>1, <1>2, <1>4, <1>5, <2>1, <2>2 DEF TypeOK
<1>9. WithinCeilings'
  BY <1>1, <1>2, <1>3, FewerKeepsCeilings DEF WithinCeilings
<1>10. SeqFresh' /\ SeqIsAgeOrder' /\ SeqUnique'
  BY <1>1, <1>2, FewerKeepsOrder
<1> QED BY <1>7, <1>8, <1>9, <1>10 DEF IInv

\* hold keeps the invariant: the two evictions bring both ceilings back.
LEMMA HoldKeeps ==
  ASSUME IInv, NEW r \in Relays, NEW o \in Origins, NEW k \in Keys, Hold(r, o, k)
  PROVE  IInv'
<1> DEFINE item == [relay |-> r, origin |-> o, key |-> k, held_at |-> now, seq |-> next_seq]
           P == Pushed(r, o, k)
           share == ShareDrop(P, o)
           over == TotalDrop(P \ share, total + 1 - Cardinality(share))
           gone == share \cup over
           q == [origin |-> o, key |-> k]
<1>1. TypeOK /\ Accounting /\ WithinCeilings /\ SeqFresh /\ SeqIsAgeOrder /\ SeqUnique
  BY DEF IInv
<1>2. /\ held' = P \ gone /\ total' = total + 1 - Cardinality(gone)
      /\ retries' = ForgetRetries(RetriesWith(q), gone)
      /\ next_seq' = next_seq + 1 /\ now' = now
  BY DEF Hold
<1>3. /\ P \in SUBSET HeldRelay /\ IsFiniteSet(P)
      /\ Cardinality(P) = Cardinality(held) + 1
      /\ Counts(RetriesWith(q), P)
  BY <1>1, PushKeepsCounts
<1>4. P = held \cup {item}
  BY DEF Pushed
<1>5. share \in SUBSET OfOrigin(P, o) /\ over \in SUBSET (P \ share)
  BY DEF ShareDrop, TotalDrop, Oldest
<1>6. gone \in SUBSET P /\ held' = (P \ share) \ over /\ share \in SUBSET P
  BY <1>2, <1>5 DEF OfOrigin
<1> HIDE DEF item, P, share, over, gone, q
<1>7. Cardinality(P) = total + 1 /\ total \in Nat
  BY <1>1, <1>3 DEF Accounting, TypeOK
<1>8. /\ IsFiniteSet(held') /\ Cardinality(held') = Cardinality(P) - Cardinality(gone)
      /\ Cardinality(held') \in Nat /\ Cardinality(gone) \in Nat
  BY <1>2, <1>3, <1>6, CountWithout
<1>9. total' = Cardinality(held')
  BY <1>2, <1>7, <1>8
<1>10. Counts(retries', held')
  BY <1>2, <1>3, <1>6, ForgetKeepsCounts
<1>11. Accounting'
  BY <1>9, <1>10 DEF Accounting, Counts
<1>12. TypeOK'
  <2>1. held' \in SUBSET HeldRelay
    BY <1>2, <1>3
  <2>2. DOMAIN retries' \subseteq RetryKey /\ \A p \in DOMAIN retries' : retries'[p] \in KeyRetry
    BY <1>10, <2>1, CountsIsAccounting DEF Counts
  <2>3. next_seq' \in Nat /\ now' \in Nat
    BY <1>1, <1>2 DEF TypeOK
  <2> QED BY <1>8, <1>9, <2>1, <2>2, <2>3 DEF TypeOK
<1>13. \A i \in P : i.seq \in Nat
  BY <1>3 DEF HeldRelay
<1>14. Cardinality(held') <= MaxTotal
  <2>1. /\ IsFiniteSet(P \ share) /\ Cardinality(P \ share) = total + 1 - Cardinality(share)
        /\ Cardinality(P \ share) \in Nat /\ Cardinality(share) \in Nat
    <3>1. /\ IsFiniteSet(P \ share) /\ Cardinality(P \ share) = Cardinality(P) - Cardinality(share)
          /\ Cardinality(P \ share) \in Nat /\ Cardinality(share) \in Nat
      BY <1>3, <1>6, CountWithout
    <3> QED BY <1>7, <3>1
  <2>2. /\ Cardinality(held') = Cardinality(P \ share) - Cardinality(over)
        /\ Cardinality(over) \in Nat /\ (over # {} => Cardinality(over) >= 1)
    BY <1>5, <1>6, <2>1, CountWithout
  <2>3. total <= MaxTotal
    BY <1>1 DEF WithinCeilings, Accounting
  <2>4. CASE Cardinality(P \ share) <= MaxTotal
    BY <2>1, <2>2, <2>4, CeilingTypes
  <2>5. CASE Cardinality(P \ share) > MaxTotal
    <3>1. P \ share # {}
      <4>1. Cardinality(P \ share) # 0
        BY <2>1, <2>5, CeilingTypes
      <4> QED BY <2>1, <4>1, FS_EmptySet
    <3>2. Oldest(P \ share) # {}
      BY <1>13, <2>1, <3>1, OldestExists
    <3>3. over = Oldest(P \ share)
      BY <2>1, <2>5 DEF TotalDrop, over
    <3>4. Cardinality(over) >= 1
      BY <2>2, <3>2, <3>3
    <3> QED BY <1>7, <2>1, <2>2, <2>3, <3>4, CeilingTypes
  <2> QED BY <2>1, <2>4, <2>5, CeilingTypes
<1>15. ASSUME NEW p \in Origins
       PROVE  Cardinality(OfOrigin(held', p)) <= MaxPerOrigin
  <2>1. /\ IsFiniteSet(OfOrigin(held, p)) /\ Cardinality(OfOrigin(held, p)) \in Nat
        /\ Cardinality(OfOrigin(held, p)) <= MaxPerOrigin
    BY <1>1, OfOriginFinite DEF TypeOK, WithinCeilings
  <2>2. Cardinality(OfOrigin(held', p)) \in Nat
    BY <1>8, OfOriginFinite
  <2>3. CASE p # o
    <3>1. OfOrigin(held', p) \in SUBSET OfOrigin(held, p)
      BY <1>4, <1>6, <2>3 DEF OfOrigin, item
    <3>2. Cardinality(OfOrigin(held', p)) <= Cardinality(OfOrigin(held, p))
      BY <2>1, <3>1, FS_Subset
    <3> QED BY <2>1, <2>2, <3>2, CeilingTypes
  <2>4. CASE p = o
    <3> DEFINE S == OfOrigin(P, o)
    <3>1. IsFiniteSet(S) /\ S \in SUBSET P /\ Cardinality(S) \in Nat
      BY <1>3, OfOriginFinite
    <3>2. S = OfOrigin(held, o) \cup {item}
      BY <1>4 DEF OfOrigin, item
    <3>3. Cardinality(S) <= MaxPerOrigin + 1
      <4>1. Cardinality(S) = Cardinality(OfOrigin(held, o))
            \/ Cardinality(S) = Cardinality(OfOrigin(held, o)) + 1
        BY <2>1, <2>4, <3>2, FS_AddElement
      <4> QED BY <2>1, <2>4, <3>1, <4>1, CeilingTypes
    <3>4. /\ IsFiniteSet(S \ share) /\ Cardinality(S \ share) = Cardinality(S) - Cardinality(share)
          /\ Cardinality(S \ share) \in Nat /\ Cardinality(share) \in Nat
          /\ (share # {} => Cardinality(share) >= 1)
      BY <1>5, <3>1, CountWithout
    <3>5. OfOrigin(held', o) \in SUBSET (S \ share)
      BY <1>6 DEF OfOrigin
    <3>6. Cardinality(OfOrigin(held', o)) <= Cardinality(S \ share)
      BY <3>4, <3>5, FS_Subset
    <3>7. Cardinality(S \ share) <= MaxPerOrigin
      <4>1. CASE Cardinality(S) > MaxPerOrigin
        <5>1. S # {}
          <6>1. Cardinality(S) # 0
            BY <3>1, <4>1, CeilingTypes
          <6> QED BY <3>1, <6>1, FS_EmptySet
        <5>2. \A i \in S : i.seq \in Nat
          BY <1>13, <3>1
        <5>3. Oldest(S) # {}
          <6> HIDE DEF S
          <6> QED BY <3>1, <5>1, <5>2, OldestExists
        <5>4. share = Oldest(S)
          BY <4>1 DEF ShareDrop, share
        <5> HIDE DEF S
        <5> QED BY <3>1, <3>3, <3>4, <5>3, <5>4, CeilingTypes
      <4>2. CASE Cardinality(S) <= MaxPerOrigin
        <5> HIDE DEF S
        <5> QED BY <3>1, <3>4, <4>2, CeilingTypes
      <4> QED BY <3>1, <4>1, <4>2, CeilingTypes
    <3> HIDE DEF S
    <3> QED BY <2>2, <2>4, <3>4, <3>6, <3>7, CeilingTypes
  <2> QED BY <2>3, <2>4
<1>16. WithinCeilings'
  BY <1>14, <1>15 DEF WithinCeilings
<1>17. SeqFresh' /\ SeqIsAgeOrder' /\ SeqUnique'
  <2>1. item.seq = next_seq /\ item.held_at = now /\ next_seq \in Nat /\ now \in Nat
    BY <1>1 DEF TypeOK, item
  <2>2. \A i \in held : i.seq \in Nat /\ i.held_at \in Nat
    BY <1>1 DEF TypeOK, HeldRelay
  <2>3. held' \subseteq held \cup {item}
    BY <1>4, <1>6
  <2> QED BY <1>1, <1>2, <2>1, <2>2, <2>3 DEF SeqFresh, SeqIsAgeOrder, SeqUnique
<1> QED BY <1>11, <1>12, <1>16, <1>17 DEF IInv

\* retries_due keeps the invariant: it moves no item and changes no count.
LEMMA RetriesDueKeeps ==
  ASSUME IInv, RetriesDue(now)
  PROVE  IInv'
<1>1. TypeOK /\ Accounting /\ WithinCeilings /\ SeqFresh /\ SeqIsAgeOrder /\ SeqUnique
  BY DEF IInv
<1>2. held' = held /\ total' = total /\ next_seq' = next_seq /\ now' = now
      /\ DOMAIN retries' = DOMAIN retries
  BY DEF RetriesDue
<1>3. ASSUME NEW k \in DOMAIN retries
      PROVE  retries'[k] \in KeyRetry /\ retries'[k].waiting = retries[k].waiting
  <2>1. retries[k] \in KeyRetry
    BY <1>1 DEF TypeOK
  <2>2. CASE k \in DueKeys(now)
    <3>1. retries'[k] = [waiting |-> retries[k].waiting, attempts |-> retries[k].attempts + 1,
                         next_attempt |-> now + RetryBackoff(retries[k].attempts + 1)]
      BY <2>2 DEF RetriesDue
    <3>2. retries[k].attempts + 1 \in Nat /\ retries[k].waiting \in Nat
      BY <2>1 DEF KeyRetry
    <3>3. now + RetryBackoff(retries[k].attempts + 1) \in Nat
      BY <1>1, <3>2, RetryBackoffType DEF TypeOK
    <3> QED BY <3>1, <3>2, <3>3 DEF KeyRetry
  <2>3. CASE k \notin DueKeys(now)
    <3>1. retries'[k] = retries[k]
      BY <2>3 DEF RetriesDue
    <3> QED BY <2>1, <3>1
  <2> QED BY <2>2, <2>3
<1>4. TypeOK' /\ Accounting'
  BY <1>1, <1>2, <1>3 DEF TypeOK, Accounting
<1>5. WithinCeilings' /\ SeqFresh' /\ SeqIsAgeOrder' /\ SeqUnique'
  BY <1>1, <1>2 DEF WithinCeilings, SeqFresh, SeqIsAgeOrder, SeqUnique
<1> QED BY <1>4, <1>5 DEF IInv

\* The clock keeps the invariant.
LEMMA TickKeeps ==
  ASSUME IInv, Tick
  PROVE  IInv'
<1>1. \A i \in held : i.held_at \in Nat
  BY DEF IInv, TypeOK, HeldRelay
<1>2. UNCHANGED <<held, retries, total, next_seq>> /\ now' = now + 1 /\ now \in Nat
  BY DEF IInv, TypeOK, Tick, queueVars
<1>3. TypeOK' /\ Accounting' /\ WithinCeilings'
  BY <1>2 DEF IInv, TypeOK, Accounting, WithinCeilings
<1>4. SeqFresh' /\ SeqUnique'
  BY <1>2 DEF IInv, SeqFresh, SeqUnique
<1>5. SeqIsAgeOrder'
  BY <1>1, <1>2 DEF IInv, SeqIsAgeOrder
<1> QED BY <1>3, <1>4, <1>5 DEF IInv

-----------------------------------------------------------------------------
\* An empty queue satisfies the invariant.
LEMMA InitIInv == Init => IInv
<1> SUFFICES ASSUME Init PROVE IInv
  OBVIOUS
<1>1. IsFiniteSet({}) /\ Cardinality({}) = 0
  BY FS_EmptySet
<1>2. DOMAIN retries = {}
  BY DEF Init
<1>3. TypeOK /\ Accounting
  BY <1>1, <1>2 DEF Init, TypeOK, Accounting
<1>4. WithinCeilings
  <2>1. \A o \in Origins : OfOrigin(held, o) = {}
    BY DEF Init, OfOrigin
  <2>2. \A o \in Origins : Cardinality(OfOrigin(held, o)) <= MaxPerOrigin
    BY <1>1, <2>1, CeilingTypes
  <2>3. Cardinality(held) <= MaxTotal
    BY <1>1, CeilingTypes DEF Init
  <2> QED BY <2>2, <2>3 DEF WithinCeilings
<1>5. SeqFresh /\ SeqIsAgeOrder /\ SeqUnique
  BY DEF Init, SeqFresh, SeqIsAgeOrder, SeqUnique
<1> QED BY <1>3, <1>4, <1>5 DEF IInv

\* Every step of the queue keeps the invariant.
LEMMA NextIInv == IInv /\ [Next]_vars => IInv'
<1> SUFFICES ASSUME IInv, [Next]_vars PROVE IInv'
  OBVIOUS
<1>1. CASE \E r \in Relays, o \in Origins, k \in Keys : Hold(r, o, k)
  BY <1>1, HoldKeeps
<1>2. CASE \E k \in Keys : TakeForSigner(k)
  BY <1>2, TakeKeeps
<1>3. CASE Expire(now)
  BY <1>3, ExpireKeeps
<1>4. CASE RetriesDue(now)
  BY <1>4, RetriesDueKeeps
<1>5. CASE Tick
  BY <1>5, TickKeeps
<1>6. CASE UNCHANGED vars
  BY <1>6 DEF vars, IInv, TypeOK, Accounting, WithinCeilings, SeqFresh, SeqIsAgeOrder, SeqUnique
<1> QED BY <1>1, <1>2, <1>3, <1>4, <1>5, <1>6 DEF Next

\* The invariant holds throughout.
LEMMA IInvHolds == Spec => []IInv
  BY InitIInv, NextIInv, PTL DEF Spec

\* No counter of the queue is ever negative and every item stays well formed,
\* for any ceilings and any number of origins and keys.
THEOREM TypeCorrect == Spec => []TypeOK
<1>1. IInv => TypeOK
  BY DEF IInv
<1> QED BY <1>1, IInvHolds, PTL

\* held_relay.rs: "total", the retry table and the deques always tell the same
\* story, however holds, evictions, releases and expiries interleave.
THEOREM AccountingHolds == Spec => []Accounting
<1>1. IInv => Accounting
  BY DEF IInv
<1> QED BY <1>1, IInvHolds, PTL

\* held_relay.rs: neither ceiling is ever exceeded between two calls.
THEOREM CeilingsHold == Spec => []WithinCeilings
<1>1. IInv => WithinCeilings
  BY DEF IInv
<1> QED BY <1>1, IInvHolds, PTL

\* held_relay.rs, expire: popping expired items off the front of each deque
\* leaves nothing overdue behind, because hold order is age order.
THEOREM ExpiryIsComplete == Spec => ExpiryLeavesNoneOverdue
<1>1. ASSUME IInv, Expire(now)
      PROVE  \A i \in held' : ~ (now >= i.held_at + HoldLimit)
  <2> SUFFICES ASSUME NEW i \in held', now >= i.held_at + HoldLimit PROVE FALSE
    OBVIOUS
  <2>1. i \in held /\ i \notin ExpiredPrefix(now)
    BY <1>1 DEF Expire
  <2>2. PICK j \in OfOrigin(held, i.origin) : j.seq <= i.seq /\ ~ Expired(j, now)
    BY <2>1 DEF ExpiredPrefix
  <2>3. j \in held /\ j.held_at <= i.held_at
    BY <1>1, <2>1, <2>2 DEF OfOrigin, IInv, SeqIsAgeOrder
  <2>4. j.held_at \in Nat /\ i.held_at \in Nat /\ now \in Nat /\ HoldLimit \in Nat
    BY <1>1, <2>1, <2>3, HeldQueueAssumption DEF IInv, TypeOK, HeldRelay
  <2> QED BY <2>2, <2>3, <2>4 DEF Expired
<1>2. IInv /\ [Next]_vars =>
        [Expire(now) => \A i \in held' : ~ (now >= i.held_at + HoldLimit)]_vars
  BY <1>1
<1> QED BY <1>2, IInvHolds, PTL DEF Spec, ExpiryLeavesNoneOverdue

\* held_relay.rs, hold: what is evicted is the oldest item of its origin, and
\* an item of an origin other than the one holding goes only when the queue as
\* a whole is full, and then it is the oldest of all.
THEOREM EvictionIsFair == Spec => EvictsOnlyTheOldest
<1>1. ASSUME IInv, NEW r \in Relays, NEW o \in Origins, NEW k \in Keys, Hold(r, o, k),
             NEW i \in held \ held'
      PROVE  /\ \A j \in held' : j.origin = i.origin => i.seq < j.seq
             /\ i.origin # o => total = MaxTotal /\ \A j \in held' : i.seq < j.seq
  <2> DEFINE item == [relay |-> r, origin |-> o, key |-> k, held_at |-> now, seq |-> next_seq]
             P == Pushed(r, o, k)
             share == ShareDrop(P, o)
             over == TotalDrop(P \ share, total + 1 - Cardinality(share))
  <2>1. TypeOK /\ Accounting /\ WithinCeilings /\ SeqFresh /\ SeqUnique
    BY <1>1 DEF IInv
  <2>2. held' = P \ (share \cup over) /\ P = held \cup {item}
    BY <1>1 DEF Hold, Pushed
  <2>3. share \subseteq OfOrigin(P, o) /\ share \subseteq Oldest(OfOrigin(P, o))
    BY DEF ShareDrop, Oldest
  <2>4. over \subseteq Oldest(P \ share)
    BY DEF TotalDrop
  <2>5. over # {} => total + 1 - Cardinality(share) > MaxTotal
    BY DEF TotalDrop
  <2>6. item.seq = next_seq /\ item.origin = o
    OBVIOUS
  <2>7. P \in SUBSET HeldRelay /\ IsFiniteSet(P)
    BY <2>1, PushKeepsCounts
  <2> HIDE DEF item, P, share, over
  <2>8. \A x \in P : x.seq \in Nat
    BY <2>7 DEF HeldRelay
  <2>9. \A x, y \in P : x.seq = y.seq => x = y
    BY <2>1, <2>2, <2>6, <2>8 DEF SeqFresh, SeqUnique, TypeOK
  <2>10. i \in P /\ (i \in share \/ i \in over)
    BY <2>2
  <2>11. CASE i \in share
    <3>1. i.origin = o
      BY <2>3, <2>11 DEF OfOrigin
    <3>2. ASSUME NEW j \in held', j.origin = i.origin
          PROVE  i.seq < j.seq
      <4>1. j \in P /\ j \in OfOrigin(P, o) /\ j # i
        BY <2>2, <2>11, <3>1, <3>2 DEF OfOrigin
      <4>2. i.seq <= j.seq
        BY <2>3, <2>11, <4>1 DEF Oldest
      <4> QED BY <2>8, <2>9, <2>10, <4>1, <4>2
    <3> QED BY <3>1, <3>2
  <2>12. CASE i \in over
    <3>1. ASSUME NEW j \in held' PROVE i.seq < j.seq
      <4>1. j \in P \ share /\ j # i
        BY <2>2, <2>12
      <4>2. i.seq <= j.seq
        BY <2>4, <2>12, <4>1 DEF Oldest
      <4> QED BY <2>8, <2>9, <2>10, <4>1, <4>2
    <3>2. total = MaxTotal
      <4>1. total \in Nat /\ total <= MaxTotal
        BY <2>1 DEF TypeOK, Accounting, WithinCeilings
      <4>2. Cardinality(share) \in Nat
        <5>1. share \in SUBSET P
          BY <2>3 DEF OfOrigin
        <5> QED BY <2>7, <5>1, CountWithout
      <4> QED BY <2>5, <2>12, <4>1, <4>2, CeilingTypes
    <3> QED BY <3>1, <3>2
  <2> QED BY <2>10, <2>11, <2>12
<1>2. IInv /\ [Next]_vars =>
        [\A r \in Relays, o \in Origins, k \in Keys : Hold(r, o, k) =>
           \A i \in held \ held' :
              /\ \A j \in held' : j.origin = i.origin => i.seq < j.seq
              /\ i.origin # o => total = MaxTotal /\ \A j \in held' : i.seq < j.seq]_vars
  BY <1>1
<1> QED BY <1>2, IInvHolds, PTL DEF Spec, EvictsOnlyTheOldest

-----------------------------------------------------------------------------
(***************************************************************************)
(* Relays through the queue.                                               *)
(***************************************************************************)
(***************************************************************************)
(* The inductive invariant.                                                *)
(*                                                                         *)
(* An edit is in one place: with its peer, in the processor's hand, held,  *)
(* with a release task, or given up.  NeverTwice says so and is not        *)
(* inductive: that a task's edit leaves it for good needs the edit to be   *)
(* in the task's list once, that a release shares nothing with what stays  *)
(* held needs two held items to be two edits, and that an edit is shown    *)
(* once needs to know that what is on file is in nobody's hand, except     *)
(* where the very next step shows it.                                      *)
(***************************************************************************)
TaskRecord == [todo: Seq(Edits) \ {<< >>}, pc: {"verify", "check", "file", "apply"},
               overtaken: BOOLEAN]
RelayTypes ==
  /\ pending \subseteq Edits /\ onFile \subseteq Edits /\ dropped \subseteq Edits
  /\ asked \subseteq Edits
  /\ proc \in [pc: {"idle", "hold", "recheck", "file", "apply"}, edit: Edits \cup {None}]
  /\ proc.pc # "idle" => proc.edit \in Edits
  /\ keysOnFile \subseteq Keys /\ looking \subseteq Keys /\ settling \subseteq Keys
  /\ tasks \subseteq TaskRecord
  /\ sweep \in [pc: {"asleep", "expire"}, at: Nat]
  /\ indexed \in Edits \cup {None} /\ current \in Edits \cup {None}
  /\ shown \in Seq(Edits)

\* What is in hand past the check was checked.
InHandChecked ==
  /\ proc.pc \in {"file", "apply"} => Verifies(proc.edit)
  /\ \A t \in tasks : t.pc # "verify" => Verifies(Head(t.todo))

\* One place for every edit.
OneHand(wait, hand, queue, work, gone) ==
  /\ wait \cap hand = {} /\ wait \cap queue = {} /\ wait \cap work = {} /\ wait \cap gone = {}
  /\ hand \cap queue = {} /\ hand \cap work = {} /\ hand \cap gone = {}
  /\ queue \cap work = {} /\ queue \cap gone = {} /\ work \cap gone = {}
TodoOnce ==
  /\ \A t \in tasks : Once(t.todo)
  /\ \A t, u \in tasks : t # u => Items(t.todo) \cap Items(u.todo) = {}
InTodo == UNION {Items(t.todo) : t \in tasks}
HeldOnce == \A i, j \in held : i.relay = j.relay => i = j
Apart == OneHand(pending, InProc, InHeld, InTodo, dropped)

\* What is on file is in nobody's hand, unless it is shown next.
FiledApart ==
  /\ onFile \cap (pending \cup InHeld \cup dropped) = {}
  /\ proc.pc \in {"hold", "file"} => proc.edit \notin onFile
  /\ proc.pc = "apply" => proc.edit \in onFile
  /\ \A t \in tasks : \A e \in Items(t.todo) : e \in onFile <=> (t.pc = "apply" /\ e = Head(t.todo))
ShownApart ==
  /\ Once(shown) /\ Items(shown) \subseteq onFile
  /\ Items(shown) \cap (InProc \cup InTodo) = {}
  /\ current \in Items(shown) \cup {None}

RInv == IInv /\ RelayTypes /\ NoLostWakeup /\ InHandChecked /\ OnlyCheckedEditsFiled
        /\ HeldOnce /\ TodoOnce /\ Apart /\ FiledApart /\ ShownApart

\* An edit whose key was not asked for while it waited, and whose key can still
\* be asked for in time: the first two retries of a row are at most HoldLimit
\* away when they are set, so they fall within the minute of any edit that
\* joins the row, and the sweep has asked for every key due at the time it read.
Unasked(i) ==
  i.key \notin UnnamedKeys /\ i.relay \notin asked /\ retries[RetryKeyOf(i)].attempts < 2
EarlyRetriesAreNear ==
  \A k \in DOMAIN retries :
    retries[k].attempts < 2 => retries[k].next_attempt <= now + HoldLimit
NextAskIsInTime ==
  \A i \in held : Unasked(i) => retries[RetryKeyOf(i)].next_attempt <= i.held_at + HoldLimit
SweepHasAsked ==
  /\ sweep.at <= now
  /\ sweep.pc = "expire" =>
       \A i \in held : Unasked(i) => i.held_at + HoldLimit > sweep.at
AskInv == EarlyRetriesAreNear /\ NextAskIsInTime /\ SweepHasAsked

\* An edit a release found overtaken is on its way to the store, past the
\* check that saw it, or filed or given up and in nobody's hand.
LeftBehind(e) ==
  /\ e # current /\ e \notin Items(shown)
  /\ \/ \E t \in tasks : /\ Head(t.todo) = e
                         /\ \/ t.pc = "check" /\ \E f \in onFile : f > e
                            \/ t.pc = "file" /\ t.overtaken
     \/ e \in onFile \cup dropped /\ e \notin InProc /\ e \notin InTodo

-----------------------------------------------------------------------------
(***************************************************************************)
(* Hold order.                                                             *)
(***************************************************************************)
Sorts(T, s) ==
  /\ s \in [1 .. Cardinality(T) -> T]
  /\ \A m, n \in 1 .. Cardinality(T) : m < n => s[m].seq < s[n].seq

\* Items with different numbers can be put in the order of their numbers: a
\* smallest set that could not be has an oldest item, and that one goes first.
LEMMA HoldOrderExists ==
  ASSUME NEW S, IsFiniteSet(S), \A i \in S : i.seq \in Nat,
         \A i, j \in S : i.seq = j.seq => i = j
  PROVE  \E s : Sorts(S, s)
<1> DEFINE Bad == {T \in FiniteSubsetsOf(S) : ~ \E s : Sorts(T, s)}
<1> SUFFICES ASSUME Bad # {} PROVE FALSE
  BY DEF FiniteSubsetsOf
<1>1. IsWellFoundedOn(StrictSubsetOrdering(S), FiniteSubsetsOf(S))
  BY FS_StrictSubsetOrderingWellFounded
<1>2. Bad \subseteq FiniteSubsetsOf(S)
  OBVIOUS
<1>3. PICK T \in Bad : \A U \in Bad : ~ (<<U, T>> \in StrictSubsetOrdering(S))
  <2> HIDE DEF Bad
  <2> QED BY <1>1, <1>2, WFMin
<1>4. T \in SUBSET S /\ IsFiniteSet(T) /\ ~ \E s : Sorts(T, s)
  BY <1>3 DEF FiniteSubsetsOf
<1>5. CASE T = {}
  <2>1. Cardinality(T) = 0
    BY <1>5, FS_EmptySet
  <2>2. Sorts(T, [n \in 1 .. 0 |-> n])
    BY <2>1 DEF Sorts
  <2> QED BY <1>4, <2>2
<1>6. CASE T # {}
  <2>1. PICK o \in T : \A j \in T : o.seq <= j.seq
    <3>1. Oldest(T) # {}
      BY <1>4, <1>6, OldestExists
    <3> QED BY <3>1 DEF Oldest
  <2> DEFINE U == T \ {o}
             c == Cardinality(U)
  <2>2. U \in SUBSET S /\ IsFiniteSet(U) /\ Cardinality(T) = c + 1 /\ c \in Nat
    <3>1. IsFiniteSet(U) /\ c = Cardinality(T) - 1
      BY <1>4, FS_RemoveElement
    <3>2. c \in Nat /\ Cardinality(T) \in Nat
      BY <1>4, <3>1, FS_CardinalityType
    <3> QED BY <1>4, <3>1, <3>2
  <2>3. <<U, T>> \in StrictSubsetOrdering(S)
    BY <1>4, <2>2 DEF StrictSubsetOrdering
  <2>4. U \in FiniteSubsetsOf(S) /\ U \notin Bad
    BY <1>3, <2>2, <2>3 DEF FiniteSubsetsOf
  <2>5. PICK s : Sorts(U, s)
    BY <2>4
  <2>6. /\ s \in [1 .. c -> U]
        /\ \A m, n \in 1 .. c : m < n => s[m].seq < s[n].seq
    BY <2>5 DEF Sorts
  <2>7. \A j \in U : o.seq < j.seq
    BY <1>4, <2>1
  <2>8. U \subseteq T /\ o \in T /\ \A j \in T : j.seq \in Nat
    BY <1>4
  <2> HIDE DEF U, c
  <2> DEFINE r == [n \in 1 .. c + 1 |-> IF n = 1 THEN o ELSE s[n - 1]]
  <2>9. \A n \in 1 .. c + 1 : n = 1 \/ n - 1 \in 1 .. c
    BY <2>2
  <2>10. r \in [1 .. c + 1 -> T]
    BY <2>6, <2>8, <2>9
  <2>11. ASSUME NEW m \in 1 .. c + 1, NEW n \in 1 .. c + 1, m < n
         PROVE  r[m].seq < r[n].seq
    <3>1. n # 1 /\ n - 1 \in 1 .. c /\ r[n] = s[n - 1] /\ s[n - 1] \in U
      BY <2>2, <2>6, <2>9, <2>11
    <3>2. CASE m = 1
      BY <2>7, <3>1, <3>2
    <3>3. CASE m # 1
      <4>1. m - 1 \in 1 .. c /\ m - 1 < n - 1 /\ r[m] = s[m - 1]
        BY <2>2, <2>9, <2>11, <3>3
      <4> QED BY <2>6, <3>1, <4>1
    <3> QED BY <3>2, <3>3
  <2>12. Sorts(T, r)
    BY <2>2, <2>10, <2>11 DEF Sorts
  <2> QED BY <1>4, <2>12
<1> QED BY <1>5, <1>6

\* What a release takes out of the queue, it lists: every item once.
LEMMA HoldOrderLists ==
  ASSUME NEW S, IsFiniteSet(S), \A i \in S : i.seq \in Nat,
         \A i, j \in S : i.seq = j.seq => i = j
  PROVE  LET s == HoldOrder(S)
             c == Cardinality(S)
         IN  /\ c \in Nat /\ s \in [1 .. c -> S]
             /\ \A m, n \in 1 .. c : s[m] = s[n] => m = n
             /\ S = {s[n] : n \in 1 .. c}
<1> DEFINE s == HoldOrder(S)
           c == Cardinality(S)
<1>1. Sorts(S, s)
  <2>1. \E r \in [1 .. c -> S] : \A m, n \in 1 .. c : m < n => r[m].seq < r[n].seq
    BY HoldOrderExists DEF Sorts
  <2> QED BY <2>1 DEF HoldOrder, Sorts
<1> HIDE DEF s
<1>2. c \in Nat
  BY FS_CardinalityType
<1>3. s \in [1 .. c -> S] /\ \A m, n \in 1 .. c : m < n => s[m].seq < s[n].seq
  BY <1>1 DEF Sorts
<1>4. ASSUME NEW m \in 1 .. c, NEW n \in 1 .. c, s[m] = s[n]
      PROVE  m = n
  <2>1. s[m] \in S /\ s[m].seq \in Nat /\ ~ (s[m].seq < s[m].seq)
    BY <1>3
  <2>2. ~ (m < n) /\ ~ (n < m)
    BY <1>3, <1>4, <2>1
  <2> QED BY <1>2, <2>2
<1>5. s \in Injection(1 .. c, S)
  BY <1>3, <1>4 DEF Injection, IsInjective
<1>6. IsFiniteSet(1 .. c) /\ Cardinality(1 .. c) = c
  <2>1. Cardinality(1 .. c) = IF 1 > c THEN 0 ELSE c - 1 + 1
    BY <1>2, FS_Interval
  <2>2. IsFiniteSet(1 .. c)
    BY <1>2, FS_Interval
  <2> QED BY <1>2, <2>1, <2>2
<1>7. s \in Surjection(1 .. c, S)
  <2>1. Cardinality(1 .. c) = Cardinality(S)
    BY <1>6
  <2> QED BY <1>5, <2>1, FS_Injection
<1>8. S = {s[n] : n \in 1 .. c}
  BY <1>3, <1>7 DEF Surjection
<1> QED BY <1>2, <1>3, <1>4, <1>8 DEF s

\* The list of a release task: the edits that waited for the key, each once.
LEMMA ReleasedTodo ==
  ASSUME IInv, HeldOnce, NEW k, ForKey(held, k) # {}
  PROVE  LET todo == RelaysOf(HoldOrder(ForKey(held, k)))
         IN  /\ todo \in Seq(Edits) \ {<< >>} /\ Once(todo)
             /\ Items(todo) = {i.relay : i \in ForKey(held, k)}
<1> DEFINE S == ForKey(held, k)
           s == HoldOrder(S)
           c == Cardinality(S)
           todo == RelaysOf(s)
<1>1. /\ S \in SUBSET held /\ IsFiniteSet(held) /\ held \in SUBSET HeldRelay
  BY DEF ForKey, IInv, TypeOK
<1>2. IsFiniteSet(S) /\ \A i \in S : i.seq \in Nat /\ i.relay \in Edits
  BY <1>1, FS_Subset DEF HeldRelay, Edits
<1>3. \A i, j \in S : i.seq = j.seq => i = j
  BY <1>1 DEF IInv, SeqUnique
<1>4. /\ c \in Nat /\ s \in [1 .. c -> S]
      /\ \A m, n \in 1 .. c : s[m] = s[n] => m = n
      /\ S = {s[n] : n \in 1 .. c}
  BY <1>2, <1>3, HoldOrderLists
<1>5. c # 0
  BY <1>2, FS_EmptySet
<1> HIDE DEF s, S
<1>6. s \in Seq(S) /\ Len(s) = c
  BY <1>4, SeqDef, LenProperties
<1> HIDE DEF c
<1>7. todo = [n \in 1 .. c |-> s[n].relay]
  BY <1>6 DEF RelaysOf
<1>8. \A n \in 1 .. c : s[n] \in S /\ s[n].relay \in Edits
  BY <1>2, <1>4
<1>9. todo \in [1 .. c -> Edits]
  BY <1>7, <1>8
<1>10. todo \in Seq(Edits) /\ Len(todo) = c
  <2> HIDE DEF todo
  <2> QED BY <1>4, <1>9, SeqDef, LenProperties
<1>11. todo # << >>
  BY <1>5, <1>10
<1>12. Once(todo)
  <2> SUFFICES ASSUME NEW m \in 1 .. c, NEW n \in 1 .. c, todo[m] = todo[n] PROVE m = n
    BY <1>10 DEF Once
  <2>1. s[m] = s[n]
    BY <1>1, <1>7, <1>8 DEF HeldOnce
  <2> QED BY <1>4, <2>1
<1>13. Items(todo) = {i.relay : i \in S}
  <2>1. Items(todo) = {s[n].relay : n \in 1 .. c}
    BY <1>7, <1>10 DEF Items
  <2> QED BY <1>4, <2>1
<1> QED BY <1>10, <1>11, <1>12, <1>13 DEF todo, s, S

-----------------------------------------------------------------------------
(***************************************************************************)
(* The release tasks, and the edits they still have to do.                 *)
(***************************************************************************)

\* A task's list is not empty, and its head is one of its items.
LEMMA TaskHead ==
  ASSUME NEW t \in TaskRecord
  PROVE  /\ t.todo \in Seq(Edits) /\ t.todo # << >>
         /\ Head(t.todo) \in Edits /\ Head(t.todo) \in Items(t.todo)
<1>1. t.todo \in Seq(Edits) /\ t.todo # << >>
  BY DEF TaskRecord
<1> QED BY <1>1, ItemsOfTail

\* A task at its next step has the same list: nothing changes hands.
LEMMA TaskGoesOn ==
  ASSUME tasks \subseteq TaskRecord, TodoOnce, NEW t \in tasks,
         NEW u \in TaskRecord, u.todo = t.todo, tasks' = (tasks \ {t}) \cup {u}
  PROVE  tasks' \subseteq TaskRecord /\ TodoOnce' /\ InTodo' = InTodo
<1>1. tasks' \subseteq TaskRecord /\ u \in tasks'
  OBVIOUS
<1>2. \A v \in tasks' : v = u \/ (v \in tasks /\ v # t)
  OBVIOUS
<1>3. TodoOnce'
  BY <1>2 DEF TodoOnce
<1>4. InTodo' = InTodo
  BY <1>2 DEF InTodo
<1> QED BY <1>1, <1>3, <1>4

\* A task done with one edit has it no longer, and every other edit still.
LEMMA TaskPops ==
  ASSUME tasks \subseteq TaskRecord, TodoOnce, NEW t \in tasks,
         tasks' = (tasks \ {t}) \cup Popped(t)
  PROVE  /\ tasks' \subseteq TaskRecord /\ TodoOnce'
         /\ InTodo' = InTodo \ {Head(t.todo)}
         /\ \A v \in Popped(t) : v.pc = "verify" /\ Items(v.todo) \subseteq Items(t.todo) \ {Head(t.todo)}
<1> DEFINE e == Head(t.todo)
<1>1. t.todo \in Seq(Edits) /\ t.todo # << >> /\ e \in Items(t.todo) /\ Once(t.todo)
  BY TaskHead DEF TodoOnce
<1>2. /\ Tail(t.todo) \in Seq(Edits) /\ Len(Tail(t.todo)) = Len(t.todo) - 1
      /\ Items(t.todo) = Items(Tail(t.todo)) \cup {e}
      /\ Once(Tail(t.todo)) /\ e \notin Items(Tail(t.todo))
  BY <1>1, ItemsOfTail
<1>3. Len(t.todo) \in Nat
  BY <1>1, LenProperties
<1>4. \A v \in tasks : v # t => e \notin Items(v.todo)
  BY <1>1 DEF TodoOnce
<1>5. CASE Len(t.todo) = 1
  <2>1. Popped(t) = {} /\ tasks' = tasks \ {t}
    BY <1>5 DEF Popped
  <2>2. Items(Tail(t.todo)) = {}
    BY <1>2, <1>3, <1>5 DEF Items
  <2>3. InTodo' = InTodo \ {e}
    BY <1>2, <1>4, <2>1, <2>2 DEF InTodo
  <2> QED BY <2>1, <2>3 DEF TodoOnce
<1>6. CASE Len(t.todo) # 1
  <2> DEFINE u == [todo |-> Tail(t.todo), pc |-> "verify", overtaken |-> FALSE]
  <2>1. Popped(t) = {u}
    BY <1>6 DEF Popped
  <2>2. Tail(t.todo) # << >>
    <3>1. Len(t.todo) # 0 /\ Len(<< >>) = 0
      BY <1>1, EmptySeq
    <3>2. Len(Tail(t.todo)) # 0
      BY <1>2, <1>3, <1>6, <3>1
    <3> QED BY <3>1, <3>2
  <2>3. u \in TaskRecord /\ u.todo = Tail(t.todo) /\ u.pc = "verify"
    BY <1>2, <2>2 DEF TaskRecord
  <2> HIDE DEF u
  <2>4. \A v \in tasks' : v = u \/ (v \in tasks /\ v # t)
    BY <2>1
  <2>5. TodoOnce'
    BY <1>2, <2>3, <2>4 DEF TodoOnce
  <2>6. InTodo' = InTodo \ {e}
    <3>1. ASSUME NEW x \in InTodo' PROVE x \in InTodo \ {e}
      <4>1. PICK v \in tasks' : x \in Items(v.todo)
        BY <3>1 DEF InTodo
      <4>2. CASE v = u
        BY <1>2, <2>3, <4>1, <4>2 DEF InTodo
      <4>3. CASE v \in tasks /\ v # t
        BY <1>4, <4>1, <4>3 DEF InTodo
      <4> QED BY <2>4, <4>2, <4>3
    <3>2. ASSUME NEW x \in InTodo, x # e PROVE x \in InTodo'
      <4>1. PICK v \in tasks : x \in Items(v.todo)
        BY <3>2 DEF InTodo
      <4>2. v = t => x \in Items(u.todo)
        BY <1>2, <2>3, <3>2, <4>1
      <4>3. u \in tasks' /\ (v # t => v \in tasks')
        BY <2>1
      <4> QED BY <4>1, <4>2, <4>3 DEF InTodo
    <3> QED BY <3>1, <3>2
  <2> QED BY <1>2, <2>1, <2>3, <2>4, <2>5, <2>6
<1> QED BY <1>5, <1>6

\* A release takes its edits out of the queue and has them alone.
LEMMA ReleaseMoves ==
  ASSUME IInv, tasks \subseteq TaskRecord, HeldOnce, TodoOnce, Apart,
         NEW k \in Keys, ReleaseHeldRelays(k)
  PROVE  /\ IInv' /\ held' = held \ ForKey(held, k) /\ now' = now /\ HeldOnce'
         /\ tasks' \subseteq TaskRecord /\ TodoOnce'
         /\ \A t \in tasks' : t \in tasks \/ (t.pc = "verify" /\ Items(t.todo) \subseteq InHeld)
         /\ tasks \subseteq tasks'
         /\ InHeld' \subseteq InHeld /\ InHeld' \cap InTodo' = {}
         /\ InTodo \subseteq InTodo' /\ InTodo' \subseteq InTodo \cup InHeld
<1> DEFINE S == ForKey(held, k)
           R == {i.relay : i \in S}
<1>1. CASE S = {}
  <2>1. UNCHANGED <<held, retries, total, next_seq, now, tasks>>
    BY <1>1 DEF ReleaseHeldRelays, TakeForSigner
  <2>2. IInv'
    BY <2>1 DEF IInv, TypeOK, Accounting, WithinCeilings, SeqFresh, SeqIsAgeOrder, SeqUnique
  <2>3. HeldOnce' /\ TodoOnce' /\ InHeld' = InHeld /\ InTodo' = InTodo /\ held' = held \ S
    BY <1>1, <2>1 DEF HeldOnce, TodoOnce, InHeld, InTodo
  <2> QED BY <2>1, <2>2, <2>3 DEF Apart, OneHand
<1>2. CASE S # {}
  <2> DEFINE todo == RelaysOf(HoldOrder(S))
             u == [todo |-> todo, pc |-> "verify", overtaken |-> FALSE]
  <2>1. TakeForSigner(k) /\ tasks' = tasks \cup {u}
    BY <1>2 DEF ReleaseHeldRelays
  <2>2. held' = held \ S /\ now' = now
    BY <2>1 DEF TakeForSigner
  <2>3. IInv'
    BY <2>1, TakeKeeps
  <2>4. todo \in Seq(Edits) \ {<< >>} /\ Once(todo) /\ Items(todo) = R
    BY <1>2, ReleasedTodo
  <2> HIDE DEF todo
  <2>5. u \in TaskRecord /\ u.todo = todo /\ u.pc = "verify"
    BY <2>4 DEF TaskRecord
  <2> HIDE DEF u
  <2>6. S \subseteq held /\ R \subseteq InHeld
    BY DEF ForKey, InHeld
  <2> HIDE DEF S
  <2>7. HeldOnce'
    BY <2>2 DEF HeldOnce
  <2>8. InHeld' \subseteq InHeld /\ InHeld' \cap R = {}
    BY <2>2, <2>6 DEF InHeld, HeldOnce
  <2>9. InHeld \cap InTodo = {}
    BY DEF Apart, OneHand
  <2>10. InTodo' = InTodo \cup R
    BY <2>1, <2>4, <2>5 DEF InTodo
  <2>11. \A t \in tasks : Items(t.todo) \cap Items(u.todo) = {}
    BY <2>4, <2>5, <2>6, <2>9 DEF InTodo
  <2>12. TodoOnce'
    BY <2>1, <2>4, <2>5, <2>11 DEF TodoOnce
  <2>13. \A t \in tasks' : t \in tasks \/ (t.pc = "verify" /\ Items(t.todo) \subseteq InHeld)
    BY <2>1, <2>4, <2>5, <2>6
  <2> QED BY <2>1, <2>2, <2>3, <2>5, <2>6, <2>7, <2>8, <2>9, <2>10, <2>12, <2>13 DEF S
<1> QED BY <1>1, <1>2

-----------------------------------------------------------------------------
(***************************************************************************)
(* Each step keeps the invariant: the event processor.                     *)
(***************************************************************************)

\* A step that leaves the queue alone keeps what is known of it.
LEMMA QueueUntouched ==
  ASSUME IInv, HeldOnce, UNCHANGED <<held, retries, total, next_seq, now>>
  PROVE  IInv' /\ HeldOnce' /\ InHeld' = InHeld
  BY DEF IInv, TypeOK, Accounting, WithinCeilings, SeqFresh, SeqIsAgeOrder, SeqUnique,
         HeldOnce, InHeld

\* A step that leaves the tasks alone keeps what is known of them.
LEMMA TasksUntouched ==
  ASSUME TodoOnce, tasks' = tasks
  PROVE  TodoOnce' /\ InTodo' = InTodo
  BY DEF TodoOnce, InTodo

\* An edit that arrives leaves its peer for the processor's hand, or is given
\* up there.
LEMMA ReceiveKeeps ==
  ASSUME RInv, NEW e \in Edits, Receive(e)
  PROVE  RInv'
<1>1. IInv /\ RelayTypes /\ NoLostWakeup /\ InHandChecked /\ OnlyCheckedEditsFiled
      /\ HeldOnce /\ TodoOnce /\ Apart /\ FiledApart /\ ShownApart
  BY DEF RInv
<1>2. /\ UNCHANGED <<held, retries, total, next_seq, now, keysOnFile, settling, tasks,
                     sweep, asked, onFile, indexed, current, shown>>
      /\ proc.pc = "idle" /\ e \in pending /\ pending' = pending \ {e}
  BY DEF Receive
<1>3. \/ /\ proc' = [pc |-> "hold", edit |-> e] /\ dropped' = dropped
         /\ looking' = looking \cup {EditKey[e]}
      \/ /\ proc' = [pc |-> "idle", edit |-> None] /\ dropped' = dropped \cup {e}
         /\ looking' = looking
      \/ /\ proc' = [pc |-> "file", edit |-> e] /\ dropped' = dropped
         /\ looking' = looking /\ Verifies(e)
  BY DEF Receive
<1>4. EditKey[e] \in Keys
  BY HeldRelaysAssumption
<1>5. IInv' /\ HeldOnce' /\ InHeld' = InHeld /\ TodoOnce' /\ InTodo' = InTodo
  BY <1>1, <1>2, QueueUntouched, TasksUntouched
<1>6. InProc = {} /\ InProc' \subseteq {e} /\ dropped' \subseteq dropped \cup {e}
      /\ (InProc' = {} \/ dropped' = dropped)
  BY <1>2, <1>3 DEF InProc
<1>7. RelayTypes'
  BY <1>1, <1>2, <1>3, <1>4 DEF RelayTypes
<1>8. NoLostWakeup' /\ InHandChecked' /\ OnlyCheckedEditsFiled'
  BY <1>1, <1>2, <1>3 DEF NoLostWakeup, InHandChecked, OnlyCheckedEditsFiled, Verifies
<1>9. Apart'
  <2>1. e \notin InHeld /\ e \notin InTodo /\ e \notin dropped
    BY <1>1, <1>2 DEF Apart, OneHand
  <2>2. OneHand(pending, {}, InHeld, InTodo, dropped)
    BY <1>1, <1>6 DEF Apart
  <2> QED BY <1>2, <1>5, <1>6, <2>1, <2>2 DEF Apart, OneHand
<1>10. FiledApart'
  BY <1>1, <1>2, <1>3, <1>5, <1>6 DEF FiledApart
<1>11. ShownApart'
  BY <1>1, <1>2, <1>5, <1>6 DEF ShownApart, FiledApart
<1> QED BY <1>5, <1>7, <1>8, <1>9, <1>10, <1>11 DEF RInv

\* A held edit leaves the processor's hand for the queue, and what made room
\* for it is given up.
LEMMA HoldRelayKeeps ==
  ASSUME RInv, HoldRelay
  PROVE  RInv'
<1> DEFINE e == proc.edit
           item == [relay |-> e, origin |-> EditOrigin[e], key |-> EditKey[e],
                    held_at |-> now, seq |-> next_seq]
<1>1. IInv /\ RelayTypes /\ NoLostWakeup /\ InHandChecked /\ OnlyCheckedEditsFiled
      /\ HeldOnce /\ TodoOnce /\ Apart /\ FiledApart /\ ShownApart
  BY DEF RInv
<1>2. /\ proc.pc = "hold" /\ Hold(e, EditOrigin[e], EditKey[e])
      /\ proc' = [proc EXCEPT !.pc = "recheck"]
      /\ dropped' = dropped \cup (InHeld \ InHeld')
      /\ UNCHANGED <<pending, keysOnFile, looking, settling, tasks, sweep, asked,
                     onFile, indexed, current, shown>>
  BY DEF HoldRelay, InHeld
<1>3. e \in Edits /\ EditOrigin[e] \in Origins /\ EditKey[e] \in Keys
  BY <1>1, <1>2, HeldRelaysAssumption DEF RelayTypes
<1>4. IInv'
  BY <1>1, <1>2, <1>3, HoldKeeps DEF Edits
<1>5. held' \subseteq held \cup {item}
  BY <1>2 DEF Hold, Pushed
<1>6. item.relay = e /\ item.key = EditKey[e]
  OBVIOUS
<1> HIDE DEF item
<1>7. proc'.pc = "recheck" /\ proc'.edit = e
      /\ proc' \in [pc: {"idle", "hold", "recheck", "file", "apply"}, edit: Edits \cup {None}]
  BY <1>1, <1>2, <1>3 DEF RelayTypes
<1>8. InProc = {e} /\ InProc' = {}
  BY <1>2, <1>7 DEF InProc
<1>9. InHeld' \subseteq InHeld \cup {e}
  BY <1>5, <1>6 DEF InHeld
<1>10. InHeld \subseteq Edits
  BY <1>1 DEF InHeld, IInv, TypeOK, HeldRelay, Edits
<1>11. TodoOnce' /\ InTodo' = InTodo
  BY <1>1, <1>2, TasksUntouched
<1>12. e \notin InHeld
  BY <1>1, <1>8 DEF Apart, OneHand
<1>13. HeldOnce'
  BY <1>1, <1>5, <1>6, <1>12 DEF HeldOnce, InHeld
<1>14. RelayTypes'
  BY <1>1, <1>2, <1>3, <1>7, <1>10 DEF RelayTypes
<1>15. NoLostWakeup'
  BY <1>1, <1>2, <1>5, <1>6, <1>7 DEF NoLostWakeup
<1>16. InHandChecked' /\ OnlyCheckedEditsFiled'
  BY <1>1, <1>2, <1>7 DEF InHandChecked, OnlyCheckedEditsFiled, Verifies
<1>17. Apart'
  <2>1. OneHand(pending, {e}, InHeld, InTodo, dropped)
    BY <1>1, <1>8 DEF Apart
  <2>2. pending' = pending
    BY <1>2
  <2> QED BY <1>2, <1>8, <1>9, <1>11, <2>1, <2>2 DEF Apart, OneHand
<1>18. FiledApart'
  <2>1. e \notin onFile /\ onFile \cap (pending \cup InHeld \cup dropped) = {}
    BY <1>1, <1>2 DEF FiledApart
  <2> QED BY <1>1, <1>2, <1>7, <1>9, <2>1 DEF FiledApart
<1>19. ShownApart'
  BY <1>1, <1>2, <1>8, <1>11 DEF ShownApart
<1> QED BY <1>4, <1>11, <1>13, <1>14, <1>15, <1>16, <1>17, <1>18, <1>19 DEF RInv

\* The second look at the store: whatever waits for the edit's key goes.
LEMMA RecheckKeeps ==
  ASSUME RInv, Recheck
  PROVE  RInv'
<1> DEFINE k == EditKey[proc.edit]
<1>1. IInv /\ RelayTypes /\ NoLostWakeup /\ InHandChecked /\ OnlyCheckedEditsFiled
      /\ HeldOnce /\ TodoOnce /\ Apart /\ FiledApart /\ ShownApart
  BY DEF RInv
<1>2. /\ proc.pc = "recheck" /\ proc' = [pc |-> "idle", edit |-> None]
      /\ UNCHANGED <<pending, keysOnFile, looking, settling, sweep, asked, onFile, indexed,
                     current, shown, dropped>>
  BY DEF Recheck
<1>3. k \in Keys
  BY <1>1, <1>2, HeldRelaysAssumption DEF RelayTypes
<1>4. InProc = {} /\ InProc' = {}
  BY <1>2 DEF InProc
<1>5. CASE k \in keysOnFile /\ ReleaseHeldRelays(k)
  <2>1. /\ IInv' /\ held' = held \ ForKey(held, k) /\ HeldOnce'
        /\ tasks' \subseteq TaskRecord /\ TodoOnce'
        /\ \A t \in tasks' : t \in tasks \/ (t.pc = "verify" /\ Items(t.todo) \subseteq InHeld)
        /\ InHeld' \subseteq InHeld /\ InHeld' \cap InTodo' = {}
        /\ InTodo' \subseteq InTodo \cup InHeld
    BY <1>1, <1>3, <1>5, ReleaseMoves DEF RelayTypes
  <2>2. RelayTypes'
    BY <1>1, <1>2, <2>1 DEF RelayTypes
  <2>3. NoLostWakeup'
    BY <1>1, <1>2, <2>1 DEF NoLostWakeup, ForKey
  <2>4. InHandChecked' /\ OnlyCheckedEditsFiled'
    BY <1>1, <1>2, <2>1 DEF InHandChecked, OnlyCheckedEditsFiled, Verifies
  <2>5. Apart'
    BY <1>1, <1>2, <1>4, <2>1 DEF Apart, OneHand
  <2>6. FiledApart'
    <3>1. onFile \cap InHeld = {}
      BY <1>1 DEF FiledApart
    <3> QED BY <1>1, <1>2, <2>1, <3>1 DEF FiledApart
  <2>7. ShownApart'
    <3>1. Items(shown) \cap InHeld = {}
      BY <1>1 DEF ShownApart, FiledApart
    <3> QED BY <1>1, <1>2, <1>4, <2>1, <3>1 DEF ShownApart
  <2> QED BY <2>1, <2>2, <2>3, <2>4, <2>5, <2>6, <2>7 DEF RInv
<1>6. CASE k \notin keysOnFile /\ UNCHANGED <<held, retries, total, next_seq, now, tasks>>
  <2>1. IInv' /\ HeldOnce' /\ InHeld' = InHeld /\ TodoOnce' /\ InTodo' = InTodo
    BY <1>1, <1>6, QueueUntouched, TasksUntouched
  <2>2. RelayTypes'
    BY <1>1, <1>2, <1>6 DEF RelayTypes
  <2>3. NoLostWakeup' /\ InHandChecked' /\ OnlyCheckedEditsFiled'
    BY <1>1, <1>2, <1>6 DEF NoLostWakeup, InHandChecked, OnlyCheckedEditsFiled, Verifies
  <2>4. Apart' /\ ShownApart'
    BY <1>1, <1>2, <1>4, <2>1 DEF Apart, ShownApart
  <2>5. FiledApart'
    BY <1>1, <1>2, <1>6, <2>1 DEF FiledApart
  <2> QED BY <2>1, <2>2, <2>3, <2>4, <2>5 DEF RInv
<1> QED BY <1>5, <1>6 DEF Recheck

\* The processor files the checked edit in its hand.
LEMMA FileLiveKeeps ==
  ASSUME RInv, FileLive
  PROVE  RInv'
<1> DEFINE e == proc.edit
<1>1. IInv /\ RelayTypes /\ NoLostWakeup /\ InHandChecked /\ OnlyCheckedEditsFiled
      /\ HeldOnce /\ TodoOnce /\ Apart /\ FiledApart /\ ShownApart
  BY DEF RInv
<1>2. /\ proc.pc = "file"
      /\ UNCHANGED <<held, retries, total, next_seq, now, pending, keysOnFile, looking,
                     settling, tasks, sweep, asked, current, shown>>
  BY DEF FileLive
<1>3. e \in Edits /\ Verifies(e) /\ InProc = {e}
  BY <1>1, <1>2 DEF RelayTypes, InHandChecked, InProc
<1>4. IInv' /\ HeldOnce' /\ InHeld' = InHeld /\ TodoOnce' /\ InTodo' = InTodo
  BY <1>1, <1>2, QueueUntouched, TasksUntouched
<1>5. e \notin pending /\ e \notin InHeld /\ e \notin dropped /\ e \notin InTodo /\ e \notin onFile
  BY <1>1, <1>2, <1>3 DEF Apart, OneHand, FiledApart
<1>6. \A t \in tasks : e \notin Items(t.todo)
  BY <1>5 DEF InTodo
<1>7. CASE /\ proc' = [proc EXCEPT !.pc = "apply"]
           /\ onFile' = onFile \cup {e} /\ indexed' = e /\ dropped' = dropped
  <2>1. proc'.pc = "apply" /\ proc'.edit = e
        /\ proc' \in [pc: {"idle", "hold", "recheck", "file", "apply"}, edit: Edits \cup {None}]
    BY <1>1, <1>3, <1>7 DEF RelayTypes
  <2>2. InProc' = {e}
    BY <2>1 DEF InProc
  <2>3. RelayTypes'
    BY <1>1, <1>2, <1>3, <1>7, <2>1 DEF RelayTypes
  <2>4. NoLostWakeup' /\ InHandChecked' /\ OnlyCheckedEditsFiled'
    BY <1>1, <1>2, <1>3, <1>7, <2>1 DEF NoLostWakeup, InHandChecked, OnlyCheckedEditsFiled, Verifies
  <2>5. Apart' /\ ShownApart'
    BY <1>1, <1>2, <1>3, <1>4, <1>7, <2>2 DEF Apart, ShownApart
  <2>6. FiledApart'
    BY <1>1, <1>2, <1>4, <1>5, <1>6, <1>7, <2>1 DEF FiledApart
  <2> QED BY <1>4, <2>3, <2>4, <2>5, <2>6 DEF RInv
<1>8. CASE /\ proc' = [pc |-> "idle", edit |-> None] /\ dropped' = dropped \cup {e}
           /\ onFile' = onFile /\ indexed' = indexed
  <2>1. InProc' = {}
    BY <1>8 DEF InProc
  <2>2. RelayTypes'
    BY <1>1, <1>2, <1>3, <1>8 DEF RelayTypes
  <2>3. NoLostWakeup' /\ InHandChecked' /\ OnlyCheckedEditsFiled'
    BY <1>1, <1>2, <1>8 DEF NoLostWakeup, InHandChecked, OnlyCheckedEditsFiled, Verifies
  <2>4. Apart'
    BY <1>1, <1>2, <1>3, <1>4, <1>5, <1>8, <2>1 DEF Apart, OneHand
  <2>5. FiledApart' /\ ShownApart'
    BY <1>1, <1>2, <1>4, <1>5, <1>8, <2>1 DEF FiledApart, ShownApart
  <2> QED BY <1>4, <2>2, <2>3, <2>4, <2>5 DEF RInv
<1> QED BY <1>7, <1>8 DEF FileLive

\* The processor shows the edit it filed.
LEMMA ApplyLiveKeeps ==
  ASSUME RInv, ApplyLive
  PROVE  RInv'
<1> DEFINE e == proc.edit
<1>1. IInv /\ RelayTypes /\ NoLostWakeup /\ InHandChecked /\ OnlyCheckedEditsFiled
      /\ HeldOnce /\ TodoOnce /\ Apart /\ FiledApart /\ ShownApart
  BY DEF RInv
<1>2. /\ proc.pc = "apply" /\ proc' = [pc |-> "idle", edit |-> None]
      /\ current' = e /\ shown' = Append(shown, e)
      /\ UNCHANGED <<held, retries, total, next_seq, now, pending, keysOnFile, looking,
                     settling, tasks, sweep, asked, onFile, indexed, dropped>>
  BY DEF ApplyLive
<1>3. e \in Edits /\ shown \in Seq(Edits) /\ e \in onFile
  BY <1>1, <1>2 DEF RelayTypes, FiledApart
<1>4. InProc = {e} /\ InProc' = {}
  BY <1>2 DEF InProc
<1>5. IInv' /\ HeldOnce' /\ InHeld' = InHeld /\ TodoOnce' /\ InTodo' = InTodo
  BY <1>1, <1>2, QueueUntouched, TasksUntouched
<1>6. e \notin Items(shown) /\ e \notin InTodo
  BY <1>1, <1>4 DEF ShownApart, Apart, OneHand
<1>7. shown' \in Seq(Edits) /\ Items(shown') = Items(shown) \cup {e} /\ Once(shown')
  BY <1>1, <1>2, <1>3, <1>6, ItemsOfAppend DEF ShownApart
<1>8. RelayTypes'
  BY <1>1, <1>2, <1>3, <1>7 DEF RelayTypes
<1>9. NoLostWakeup' /\ InHandChecked' /\ OnlyCheckedEditsFiled'
  BY <1>1, <1>2 DEF NoLostWakeup, InHandChecked, OnlyCheckedEditsFiled, Verifies
<1>10. Apart'
  BY <1>1, <1>2, <1>4, <1>5 DEF Apart, OneHand
<1>11. FiledApart'
  BY <1>1, <1>2, <1>5 DEF FiledApart
<1>12. ShownApart'
  BY <1>1, <1>2, <1>3, <1>4, <1>5, <1>6, <1>7 DEF ShownApart
<1> QED BY <1>5, <1>8, <1>9, <1>10, <1>11, <1>12 DEF RInv

-----------------------------------------------------------------------------
(***************************************************************************)
(* Each step keeps the invariant: key lookups.                             *)
(***************************************************************************)

\* A key is filed: from here until its lookup settles, a release is due.
LEMMA KeyFiledKeeps ==
  ASSUME RInv, NEW k \in Keys, KeyFiled(k) \/ LookupMissed(k)
  PROVE  RInv'
<1>1. IInv /\ RelayTypes /\ NoLostWakeup /\ InHandChecked /\ OnlyCheckedEditsFiled
      /\ HeldOnce /\ TodoOnce /\ Apart /\ FiledApart /\ ShownApart
  BY DEF RInv
<1>2. /\ \/ keysOnFile' = keysOnFile \cup {k} /\ settling' = settling \cup {k}
         \/ keysOnFile' = keysOnFile /\ settling' = settling
      /\ looking' = looking \ {k}
      /\ UNCHANGED <<held, retries, total, next_seq, now, pending, proc, tasks, sweep, asked,
                     onFile, indexed, current, shown, dropped>>
  BY DEF KeyFiled, LookupMissed
<1>3. IInv' /\ HeldOnce' /\ InHeld' = InHeld /\ TodoOnce' /\ InTodo' = InTodo
  BY <1>1, <1>2, QueueUntouched, TasksUntouched
<1>4. InProc' = InProc
  BY <1>2 DEF InProc
<1>5. RelayTypes'
  BY <1>1, <1>2 DEF RelayTypes
<1>6. NoLostWakeup'
  BY <1>1, <1>2 DEF NoLostWakeup
<1>7. InHandChecked' /\ OnlyCheckedEditsFiled'
  BY <1>1, <1>2 DEF InHandChecked, OnlyCheckedEditsFiled, Verifies
<1>8. Apart' /\ ShownApart' /\ FiledApart'
  BY <1>1, <1>2, <1>3, <1>4 DEF Apart, ShownApart, FiledApart
<1> QED BY <1>3, <1>5, <1>6, <1>7, <1>8 DEF RInv

\* An answered lookup releases what waits for its key.
LEMMA KeySettledKeeps ==
  ASSUME RInv, NEW k \in Keys, KeySettled(k)
  PROVE  RInv'
<1>1. IInv /\ RelayTypes /\ NoLostWakeup /\ InHandChecked /\ OnlyCheckedEditsFiled
      /\ HeldOnce /\ TodoOnce /\ Apart /\ FiledApart /\ ShownApart
  BY DEF RInv
<1>2. /\ settling' = settling \ {k} /\ ReleaseHeldRelays(k)
      /\ UNCHANGED <<pending, proc, keysOnFile, looking, sweep, asked, onFile, indexed, current,
                     shown, dropped>>
  BY DEF KeySettled
<1>3. /\ IInv' /\ held' = held \ ForKey(held, k) /\ HeldOnce'
      /\ tasks' \subseteq TaskRecord /\ TodoOnce'
      /\ \A t \in tasks' : t \in tasks \/ (t.pc = "verify" /\ Items(t.todo) \subseteq InHeld)
      /\ InHeld' \subseteq InHeld /\ InHeld' \cap InTodo' = {}
      /\ InTodo' \subseteq InTodo \cup InHeld
  BY <1>1, <1>2, ReleaseMoves DEF RelayTypes
<1>4. InProc' = InProc
  BY <1>2 DEF InProc
<1>5. RelayTypes'
  BY <1>1, <1>2, <1>3 DEF RelayTypes
<1>6. NoLostWakeup'
  BY <1>1, <1>2, <1>3 DEF NoLostWakeup, ForKey
<1>7. InHandChecked' /\ OnlyCheckedEditsFiled'
  BY <1>1, <1>2, <1>3 DEF InHandChecked, OnlyCheckedEditsFiled, Verifies
<1>8. Apart'
  BY <1>1, <1>2, <1>3, <1>4 DEF Apart, OneHand
<1>9. FiledApart'
  <2>1. onFile \cap InHeld = {}
    BY <1>1 DEF FiledApart
  <2> QED BY <1>1, <1>2, <1>3, <2>1 DEF FiledApart
<1>10. ShownApart'
  <2>1. Items(shown) \cap InHeld = {}
    BY <1>1 DEF ShownApart, FiledApart
  <2> QED BY <1>1, <1>2, <1>3, <1>4, <2>1 DEF ShownApart
<1> QED BY <1>3, <1>5, <1>6, <1>7, <1>8, <1>9, <1>10 DEF RInv

-----------------------------------------------------------------------------
(***************************************************************************)
(* Each step keeps the invariant: a release task.                          *)
(***************************************************************************)

\* A release task checks its edit, or gives it up and turns to the next.
LEMMA VerifyReleasedKeeps ==
  ASSUME RInv, NEW t \in tasks, VerifyReleased(t)
  PROVE  RInv'
<1> DEFINE e == Head(t.todo)
           u == [t EXCEPT !.pc = "check"]
<1>1. IInv /\ RelayTypes /\ NoLostWakeup /\ InHandChecked /\ OnlyCheckedEditsFiled
      /\ HeldOnce /\ TodoOnce /\ Apart /\ FiledApart /\ ShownApart
  BY DEF RInv
<1>2. /\ t.pc = "verify"
      /\ UNCHANGED <<held, retries, total, next_seq, now, pending, proc, keysOnFile, looking,
                     settling, sweep, asked, onFile, indexed, current, shown>>
  BY DEF VerifyReleased
<1>3. IInv' /\ HeldOnce' /\ InHeld' = InHeld
  BY <1>1, <1>2, QueueUntouched
<1>4. InProc' = InProc
  BY <1>2 DEF InProc
<1>5. t \in TaskRecord /\ tasks \subseteq TaskRecord
  BY <1>1 DEF RelayTypes
<1>6. e \in Edits /\ e \in Items(t.todo) /\ e \in InTodo
  BY <1>5, TaskHead DEF InTodo
<1>7. NoLostWakeup' /\ OnlyCheckedEditsFiled'
  BY <1>1, <1>2 DEF NoLostWakeup, OnlyCheckedEditsFiled
<1>8. CASE Verifies(e) /\ tasks' = (tasks \ {t}) \cup {u} /\ dropped' = dropped
  <2>1. u \in TaskRecord /\ u.todo = t.todo /\ u.pc = "check"
    BY <1>5 DEF TaskRecord
  <2> HIDE DEF u
  <2>2. tasks' \subseteq TaskRecord /\ TodoOnce' /\ InTodo' = InTodo
    BY <1>1, <1>5, <1>8, <2>1, TaskGoesOn
  <2>3. RelayTypes'
    BY <1>1, <1>2, <1>8, <2>2 DEF RelayTypes
  <2>4. InHandChecked'
    BY <1>1, <1>2, <1>8, <2>1 DEF InHandChecked, Verifies
  <2>5. Apart' /\ ShownApart'
    BY <1>1, <1>2, <1>3, <1>4, <1>8, <2>2 DEF Apart, ShownApart
  <2>6. FiledApart'
    BY <1>1, <1>2, <1>3, <1>8, <2>1 DEF FiledApart
  <2> QED BY <1>3, <1>7, <2>2, <2>3, <2>4, <2>5, <2>6 DEF RInv
<1>9. CASE tasks' = (tasks \ {t}) \cup Popped(t) /\ dropped' = dropped \cup {e}
  <2>1. /\ tasks' \subseteq TaskRecord /\ TodoOnce' /\ InTodo' = InTodo \ {e}
        /\ \A v \in Popped(t) : v.pc = "verify" /\ Items(v.todo) \subseteq Items(t.todo) \ {e}
    BY <1>1, <1>5, <1>9, TaskPops
  <2>2. RelayTypes'
    BY <1>1, <1>2, <1>6, <1>9, <2>1 DEF RelayTypes
  <2>3. InHandChecked'
    BY <1>1, <1>2, <1>9, <2>1 DEF InHandChecked, Verifies
  <2>4. Apart'
    BY <1>1, <1>2, <1>3, <1>4, <1>6, <1>9, <2>1 DEF Apart, OneHand
  <2>5. FiledApart'
    <3>1. e \notin onFile
      BY <1>1, <1>2, <1>6 DEF FiledApart
    <3> QED BY <1>1, <1>2, <1>3, <1>9, <2>1, <3>1 DEF FiledApart
  <2>6. ShownApart'
    BY <1>1, <1>2, <1>4, <2>1 DEF ShownApart
  <2> QED BY <1>3, <1>7, <2>1, <2>2, <2>3, <2>4, <2>5, <2>6 DEF RInv
<1> QED BY <1>8, <1>9 DEF VerifyReleased, Verifies

\* A release task asks whether a later revision is on file.
LEMMA CheckOvertakenKeeps ==
  ASSUME RInv, NEW t \in tasks, CheckOvertaken(t)
  PROVE  RInv'
<1> DEFINE u == [t EXCEPT !.pc = "file", !.overtaken = EditOvertaken(Head(t.todo))]
<1>1. IInv /\ RelayTypes /\ NoLostWakeup /\ InHandChecked /\ OnlyCheckedEditsFiled
      /\ HeldOnce /\ TodoOnce /\ Apart /\ FiledApart /\ ShownApart
  BY DEF RInv
<1>2. /\ t.pc = "check" /\ tasks' = (tasks \ {t}) \cup {u}
      /\ UNCHANGED <<held, retries, total, next_seq, now, pending, proc, keysOnFile, looking,
                     settling, sweep, asked, onFile, indexed, current, shown, dropped>>
  BY DEF CheckOvertaken
<1>3. IInv' /\ HeldOnce' /\ InHeld' = InHeld
  BY <1>1, <1>2, QueueUntouched
<1>4. InProc' = InProc
  BY <1>2 DEF InProc
<1>5. t \in TaskRecord /\ tasks \subseteq TaskRecord
  BY <1>1 DEF RelayTypes
<1>6. EditOvertaken(Head(t.todo)) \in BOOLEAN
  BY DEF EditOvertaken
<1>7. u \in TaskRecord /\ u.todo = t.todo /\ u.pc = "file"
  BY <1>5, <1>6 DEF TaskRecord
<1> HIDE DEF u
<1>8. tasks' \subseteq TaskRecord /\ TodoOnce' /\ InTodo' = InTodo
  BY <1>1, <1>2, <1>5, <1>7, TaskGoesOn
<1>9. RelayTypes'
  BY <1>1, <1>2, <1>8 DEF RelayTypes
<1>10. NoLostWakeup' /\ OnlyCheckedEditsFiled' /\ InHandChecked'
  BY <1>1, <1>2, <1>7 DEF NoLostWakeup, OnlyCheckedEditsFiled, InHandChecked, Verifies
<1>11. Apart' /\ ShownApart'
  BY <1>1, <1>2, <1>3, <1>4, <1>8 DEF Apart, ShownApart
<1>12. FiledApart'
  BY <1>1, <1>2, <1>3, <1>7 DEF FiledApart
<1> QED BY <1>3, <1>8, <1>9, <1>10, <1>11, <1>12 DEF RInv

\* A release task files its edit; an overtaken one, or one the store refuses,
\* goes no further.
LEMMA FileReleasedKeeps ==
  ASSUME RInv, NEW t \in tasks, FileReleased(t)
  PROVE  RInv'
<1> DEFINE e == Head(t.todo)
           u == [t EXCEPT !.pc = "apply"]
<1>1. IInv /\ RelayTypes /\ NoLostWakeup /\ InHandChecked /\ OnlyCheckedEditsFiled
      /\ HeldOnce /\ TodoOnce /\ Apart /\ FiledApart /\ ShownApart
  BY DEF RInv
<1>2. /\ t.pc = "file"
      /\ UNCHANGED <<held, retries, total, next_seq, now, pending, proc, keysOnFile, looking,
                     settling, sweep, asked, current, shown>>
      /\ \/ onFile' = onFile \cup {e} /\ indexed' \in {indexed, e} /\ dropped' = dropped
         \/ onFile' = onFile /\ indexed' = indexed /\ dropped' = dropped \cup {e}
  BY DEF FileReleased
<1>3. IInv' /\ HeldOnce' /\ InHeld' = InHeld
  BY <1>1, <1>2, QueueUntouched
<1>4. InProc' = InProc
  BY <1>2 DEF InProc
<1>5. t \in TaskRecord /\ tasks \subseteq TaskRecord
  BY <1>1 DEF RelayTypes
<1>6. e \in Edits /\ e \in Items(t.todo) /\ e \in InTodo /\ Verifies(e)
  BY <1>1, <1>2, <1>5, TaskHead DEF InTodo, InHandChecked
<1>7. NoLostWakeup' /\ OnlyCheckedEditsFiled'
  BY <1>1, <1>2, <1>6 DEF NoLostWakeup, OnlyCheckedEditsFiled, Verifies
<1>8. e \notin pending /\ e \notin InHeld /\ e \notin dropped /\ e \notin InProc
  BY <1>1, <1>6 DEF Apart, OneHand
<1>9. e \notin onFile /\ \A v \in tasks : v # t => e \notin Items(v.todo)
  BY <1>1, <1>2, <1>6 DEF FiledApart, TodoOnce
<1>10. /\ onFile' \cap (pending' \cup InHeld' \cup dropped') = {}
       /\ proc'.pc \in {"hold", "file"} => proc'.edit \notin onFile'
       /\ proc'.pc = "apply" => proc'.edit \in onFile'
  BY <1>1, <1>2, <1>3, <1>8, <1>9 DEF FiledApart, InProc
<1>11. Items(shown') \subseteq onFile' /\ Once(shown') /\ current' \in Items(shown') \cup {None}
  BY <1>1, <1>2 DEF ShownApart
<1>12. CASE /\ tasks' = (tasks \ {t}) \cup {u}
            /\ onFile' = onFile \cup {e} /\ dropped' = dropped
  <2>1. u \in TaskRecord /\ u.todo = t.todo /\ u.pc = "apply"
    BY <1>5 DEF TaskRecord
  <2> HIDE DEF u
  <2>2. tasks' \subseteq TaskRecord /\ TodoOnce' /\ InTodo' = InTodo
    BY <1>1, <1>5, <1>12, <2>1, TaskGoesOn
  <2>3. RelayTypes'
    BY <1>1, <1>2, <1>6, <2>2 DEF RelayTypes
  <2>4. InHandChecked'
    BY <1>1, <1>2, <1>6, <1>12, <2>1 DEF InHandChecked, Verifies
  <2>5. Apart' /\ ShownApart'
    BY <1>1, <1>2, <1>3, <1>4, <1>11, <1>12, <2>2 DEF Apart, ShownApart
  <2>6. FiledApart'
    BY <1>1, <1>2, <1>9, <1>10, <1>12, <2>1 DEF FiledApart
  <2> QED BY <1>3, <1>7, <2>2, <2>3, <2>4, <2>5, <2>6 DEF RInv
<1>13. CASE tasks' = (tasks \ {t}) \cup Popped(t)
  <2>1. /\ tasks' \subseteq TaskRecord /\ TodoOnce' /\ InTodo' = InTodo \ {e}
        /\ \A v \in Popped(t) : v.pc = "verify" /\ Items(v.todo) \subseteq Items(t.todo) \ {e}
    BY <1>1, <1>5, <1>13, TaskPops
  <2>2. RelayTypes'
    BY <1>1, <1>2, <1>6, <2>1 DEF RelayTypes
  <2>3. InHandChecked'
    BY <1>1, <1>2, <1>13, <2>1 DEF InHandChecked, Verifies
  <2>4. Apart' /\ ShownApart'
    BY <1>1, <1>2, <1>3, <1>4, <1>6, <1>8, <1>11, <2>1 DEF Apart, OneHand, ShownApart
  <2>5. FiledApart'
    <3>1. \A v \in tasks' : \A x \in Items(v.todo) :
            x \in onFile' <=> (v.pc = "apply" /\ x = Head(v.todo))
      BY <1>1, <1>2, <1>9, <1>13, <2>1 DEF FiledApart
    <3> QED BY <1>10, <3>1 DEF FiledApart
  <2> QED BY <1>3, <1>7, <2>1, <2>2, <2>3, <2>4, <2>5 DEF RInv
<1> QED BY <1>12, <1>13 DEF FileReleased

\* A release task shows the edit it filed and turns to the next.
LEMMA ApplyReleasedKeeps ==
  ASSUME RInv, NEW t \in tasks, ApplyReleased(t)
  PROVE  RInv'
<1> DEFINE e == Head(t.todo)
<1>1. IInv /\ RelayTypes /\ NoLostWakeup /\ InHandChecked /\ OnlyCheckedEditsFiled
      /\ HeldOnce /\ TodoOnce /\ Apart /\ FiledApart /\ ShownApart
  BY DEF RInv
<1>2. /\ t.pc = "apply" /\ tasks' = (tasks \ {t}) \cup Popped(t)
      /\ current' = e /\ shown' = Append(shown, e)
      /\ UNCHANGED <<held, retries, total, next_seq, now, pending, proc, keysOnFile, looking,
                     settling, sweep, asked, onFile, indexed, dropped>>
  BY DEF ApplyReleased
<1>3. IInv' /\ HeldOnce' /\ InHeld' = InHeld
  BY <1>1, <1>2, QueueUntouched
<1>4. InProc' = InProc
  BY <1>2 DEF InProc
<1>5. t \in TaskRecord /\ tasks \subseteq TaskRecord /\ shown \in Seq(Edits)
  BY <1>1 DEF RelayTypes
<1>6. e \in Edits /\ e \in Items(t.todo) /\ e \in InTodo
  BY <1>5, TaskHead DEF InTodo
<1>7. e \notin Items(shown) /\ e \notin InProc /\ e \in onFile
  BY <1>1, <1>2, <1>6 DEF ShownApart, Apart, OneHand, FiledApart
<1>8. /\ tasks' \subseteq TaskRecord /\ TodoOnce' /\ InTodo' = InTodo \ {e}
      /\ \A v \in Popped(t) : v.pc = "verify" /\ Items(v.todo) \subseteq Items(t.todo) \ {e}
  BY <1>1, <1>2, <1>5, TaskPops
<1>9. shown' \in Seq(Edits) /\ Items(shown') = Items(shown) \cup {e} /\ Once(shown')
  BY <1>1, <1>2, <1>5, <1>6, <1>7, ItemsOfAppend DEF ShownApart
<1>10. RelayTypes'
  BY <1>1, <1>2, <1>6, <1>8, <1>9 DEF RelayTypes
<1>11. NoLostWakeup' /\ OnlyCheckedEditsFiled'
  BY <1>1, <1>2 DEF NoLostWakeup, OnlyCheckedEditsFiled
<1>12. InHandChecked'
  BY <1>1, <1>2, <1>8 DEF InHandChecked, Verifies
<1>13. Apart'
  BY <1>1, <1>2, <1>3, <1>4, <1>8 DEF Apart, OneHand
<1>14. FiledApart'
  <2>1. \A v \in tasks' : \A x \in Items(v.todo) :
          x \in onFile' <=> (v.pc = "apply" /\ x = Head(v.todo))
    BY <1>1, <1>2, <1>8 DEF FiledApart
  <2> QED BY <1>1, <1>2, <1>3, <2>1 DEF FiledApart
<1>15. ShownApart'
  BY <1>1, <1>2, <1>4, <1>6, <1>7, <1>8, <1>9 DEF ShownApart
<1> QED BY <1>3, <1>8, <1>10, <1>11, <1>12, <1>13, <1>14, <1>15 DEF RInv

-----------------------------------------------------------------------------
(***************************************************************************)
(* Each step keeps the invariant: the sweep and the clock.                 *)
(***************************************************************************)

\* The sweep reads the clock and asks again for keys: no edit moves.
LEMMA SweepAsksKeeps ==
  ASSUME RInv, SweepAsks
  PROVE  RInv'
<1>1. IInv /\ RelayTypes /\ NoLostWakeup /\ InHandChecked /\ OnlyCheckedEditsFiled
      /\ HeldOnce /\ TodoOnce /\ Apart /\ FiledApart /\ ShownApart
  BY DEF RInv
<1>2. /\ sweep' = [pc |-> "expire", at |-> now] /\ held' = held
      /\ UNCHANGED <<pending, proc, keysOnFile, settling, tasks, onFile, indexed, current,
                     shown, dropped>>
  BY DEF SweepAsks, RetriesDue
<1>3. IInv' /\ looking' \subseteq Keys /\ asked' \subseteq Edits
  <2>1. CASE /\ RetriesDue(now) /\ looking' = looking \cup {k.key : k \in DueKeys(now)}
             /\ asked' = asked \cup {i.relay : i \in {j \in held : RetryKeyOf(j) \in DueKeys(now)}}
    <3>1. \A k \in DueKeys(now) : k \in RetryKey
      BY <1>1 DEF DueKeys, IInv, TypeOK
    <3>2. \A k \in RetryKey : k.key \in Keys
      BY DEF RetryKey
    <3>3. looking' \subseteq Keys
      BY <1>1, <2>1, <3>1, <3>2 DEF RelayTypes
    <3>4. asked' \subseteq Edits
      BY <1>1, <2>1 DEF RelayTypes, IInv, TypeOK, HeldRelay, Edits
    <3> QED BY <1>1, <2>1, <3>3, <3>4, RetriesDueKeeps
  <2>2. CASE UNCHANGED <<held, retries, total, next_seq, now, looking, asked>>
    BY <1>1, <2>2, QueueUntouched DEF RelayTypes
  <2> QED BY <2>1, <2>2 DEF SweepAsks
<1>4. HeldOnce' /\ InHeld' = InHeld /\ TodoOnce' /\ InTodo' = InTodo /\ InProc' = InProc
  BY <1>1, <1>2, TasksUntouched DEF HeldOnce, InHeld, InProc
<1>5. now \in Nat
  BY <1>1 DEF IInv, TypeOK
<1>6. RelayTypes'
  BY <1>1, <1>2, <1>3, <1>5 DEF RelayTypes
<1>7. NoLostWakeup' /\ InHandChecked' /\ OnlyCheckedEditsFiled'
  BY <1>1, <1>2 DEF NoLostWakeup, InHandChecked, OnlyCheckedEditsFiled, Verifies
<1>8. Apart' /\ ShownApart' /\ FiledApart'
  BY <1>1, <1>2, <1>4 DEF Apart, ShownApart, FiledApart
<1> QED BY <1>3, <1>4, <1>6, <1>7, <1>8 DEF RInv

\* The sweep gives up what has waited long enough.
LEMMA SweepExpiresKeeps ==
  ASSUME RInv, SweepExpires
  PROVE  RInv'
<1>1. IInv /\ RelayTypes /\ NoLostWakeup /\ InHandChecked /\ OnlyCheckedEditsFiled
      /\ HeldOnce /\ TodoOnce /\ Apart /\ FiledApart /\ ShownApart
  BY DEF RInv
<1>2. /\ sweep' = [sweep EXCEPT !.pc = "asleep"]
      /\ dropped' = dropped \cup (InHeld \ InHeld')
      /\ UNCHANGED <<pending, proc, keysOnFile, looking, settling, tasks, asked, onFile,
                     indexed, current, shown>>
  BY DEF SweepExpires, InHeld
<1>3. IInv' /\ held' \subseteq held
  <2>1. CASE Expire(sweep.at)
    BY <1>1, <2>1, ExpireKeeps DEF Expire
  <2>2. CASE UNCHANGED <<held, retries, total, next_seq, now>>
    BY <1>1, <2>2, QueueUntouched
  <2> QED BY <2>1, <2>2 DEF SweepExpires
<1>4. HeldOnce' /\ InHeld' \subseteq InHeld
  BY <1>1, <1>3 DEF HeldOnce, InHeld
<1>5. InHeld \subseteq Edits
  BY <1>1 DEF InHeld, IInv, TypeOK, HeldRelay, Edits
<1>6. TodoOnce' /\ InTodo' = InTodo /\ InProc' = InProc
  BY <1>1, <1>2, TasksUntouched DEF InProc
<1>7. RelayTypes'
  BY <1>1, <1>2, <1>5 DEF RelayTypes
<1>8. NoLostWakeup' /\ InHandChecked' /\ OnlyCheckedEditsFiled'
  BY <1>1, <1>2, <1>3 DEF NoLostWakeup, InHandChecked, OnlyCheckedEditsFiled, Verifies
<1>9. Apart'
  BY <1>1, <1>2, <1>4, <1>6 DEF Apart, OneHand
<1>10. FiledApart'
  BY <1>1, <1>2, <1>4 DEF FiledApart
<1>11. ShownApart'
  BY <1>1, <1>2, <1>6 DEF ShownApart
<1> QED BY <1>3, <1>4, <1>6, <1>7, <1>8, <1>9, <1>10, <1>11 DEF RInv

\* A step that moves no edit and no key, such as the clock's.
LEMMA NothingMoves ==
  ASSUME RInv, IInv', held' = held, UNCHANGED relayVars
  PROVE  RInv'
<1>1. UNCHANGED <<pending, proc, keysOnFile, looking, settling, tasks, sweep, asked,
                  onFile, indexed, current, shown, dropped>>
  BY DEF relayVars
<1>2. HeldOnce' /\ InHeld' = InHeld /\ TodoOnce' /\ InTodo' = InTodo /\ InProc' = InProc
  BY <1>1, TasksUntouched DEF RInv, HeldOnce, InHeld, InProc
<1>3. RelayTypes' /\ NoLostWakeup' /\ InHandChecked' /\ OnlyCheckedEditsFiled'
  BY <1>1 DEF RInv, RelayTypes, NoLostWakeup, InHandChecked, OnlyCheckedEditsFiled, Verifies
<1>4. Apart' /\ ShownApart' /\ FiledApart'
  BY <1>1, <1>2 DEF RInv, Apart, ShownApart, FiledApart
<1> QED BY <1>2, <1>3, <1>4 DEF RInv

-----------------------------------------------------------------------------
(***************************************************************************)
(* The theorems.                                                           *)
(***************************************************************************)

\* In the beginning every edit is with its peer.
LEMMA RInvInit == RInit => RInv
<1> SUFFICES ASSUME RInit PROVE RInv
  OBVIOUS
<1>1. /\ held = {} /\ pending = Edits /\ proc = [pc |-> "idle", edit |-> None]
      /\ keysOnFile = {} /\ looking = {} /\ settling = {} /\ tasks = {}
      /\ sweep = [pc |-> "asleep", at |-> 0] /\ asked = {} /\ onFile = {} /\ indexed = None
      /\ current = None /\ shown = << >> /\ dropped = {} /\ Init
  BY DEF RInit, Init
<1>2. IInv
  BY <1>1, InitIInv
<1>3. shown \in Seq(Edits) /\ Items(shown) = {} /\ Once(shown)
  BY <1>1, ItemsOfEmpty, EmptySeq
<1>4. InHeld = {} /\ InTodo = {} /\ InProc = {} /\ TodoOnce /\ HeldOnce
  BY <1>1 DEF InHeld, InTodo, InProc, TodoOnce, HeldOnce
<1>5. RelayTypes /\ NoLostWakeup /\ InHandChecked /\ OnlyCheckedEditsFiled
  BY <1>1, <1>3 DEF RelayTypes, NoLostWakeup, InHandChecked, OnlyCheckedEditsFiled
<1>6. Apart /\ FiledApart /\ ShownApart
  BY <1>1, <1>3, <1>4 DEF Apart, OneHand, FiledApart, ShownApart
<1> QED BY <1>2, <1>4, <1>5, <1>6 DEF RInv

\* The steps there are.
LEMMA RSteps ==
  ASSUME [RNext]_allVars
  PROVE  \/ \E e \in Edits : Receive(e)
         \/ HoldRelay \/ Recheck \/ FileLive \/ ApplyLive
         \/ \E k \in Keys : KeyFiled(k) \/ LookupMissed(k)
         \/ \E k \in Keys : KeySettled(k)
         \/ \E t \in tasks : VerifyReleased(t)
         \/ \E t \in tasks : CheckOvertaken(t)
         \/ \E t \in tasks : FileReleased(t)
         \/ \E t \in tasks : ApplyReleased(t)
         \/ SweepAsks \/ SweepExpires
         \/ Tick /\ UNCHANGED relayVars
         \/ UNCHANGED vars /\ UNCHANGED relayVars
  BY DEF RNext, Processor, ReleaseTask, Sweep, Clock, allVars, vars, relayVars

\* Every step keeps the invariant.
LEMMA RInvStep == RInv /\ [RNext]_allVars => RInv'
<1> SUFFICES ASSUME RInv, [RNext]_allVars PROVE RInv'
  OBVIOUS
<1>1. CASE \E e \in Edits : Receive(e)
  BY <1>1, ReceiveKeeps
<1>2. CASE HoldRelay \/ Recheck \/ FileLive \/ ApplyLive
  BY <1>2, HoldRelayKeeps, RecheckKeeps, FileLiveKeeps, ApplyLiveKeeps
<1>3. CASE \E k \in Keys : KeyFiled(k) \/ LookupMissed(k)
  BY <1>3, KeyFiledKeeps
<1>4. CASE \E k \in Keys : KeySettled(k)
  BY <1>4, KeySettledKeeps
<1>5. CASE \E t \in tasks : VerifyReleased(t)
  BY <1>5, VerifyReleasedKeeps
<1>6. CASE \E t \in tasks : CheckOvertaken(t)
  BY <1>6, CheckOvertakenKeeps
<1>7. CASE \E t \in tasks : FileReleased(t)
  BY <1>7, FileReleasedKeeps
<1>8. CASE \E t \in tasks : ApplyReleased(t)
  BY <1>8, ApplyReleasedKeeps
<1>9. CASE SweepAsks \/ SweepExpires
  BY <1>9, SweepAsksKeeps, SweepExpiresKeeps
<1>10. CASE Tick /\ UNCHANGED relayVars
  <2>1. IInv' /\ held' = held
    BY <1>10, TickKeeps DEF RInv, Tick, queueVars
  <2> QED BY <1>10, <2>1, NothingMoves
<1>11. CASE UNCHANGED vars /\ UNCHANGED relayVars
  <2>1. UNCHANGED <<held, retries, total, next_seq, now>>
    BY <1>11 DEF vars
  <2>2. IInv' /\ held' = held
    BY <2>1, QueueUntouched DEF RInv
  <2> QED BY <1>11, <2>2, NothingMoves
<1> QED BY <1>1, <1>2, <1>3, <1>4, <1>5, <1>6, <1>7, <1>8, <1>9, <1>10, <1>11, RSteps

\* The invariant holds throughout.
LEMMA RInvHolds == RSpec => []RInv
  BY RInvInit, RInvStep, PTL DEF RSpec

\* Whatever the interleaving of the processor, the lookups, the releases and
\* the sweep, every task and every table stays well formed.
THEOREM RelayTypeCorrect == RSpec => []RTypeOK
<1>1. RInv => RTypeOK
  BY DEF RInv, IInv, RelayTypes, RTypeOK, TaskRecord
<1> QED BY <1>1, RInvHolds, PTL

\* hold_relay's second look loses no wakeup: no edit is left in the queue with
\* its key on file and no release of that key to come.
THEOREM NoWakeupIsLost == RSpec => []NoLostWakeup
<1>1. RInv => NoLostWakeup
  BY DEF RInv
<1> QED BY <1>1, RInvHolds, PTL

\* What is filed was checked against a key on file, by whichever task.
THEOREM FiledIsChecked == RSpec => []OnlyCheckedEditsFiled
<1>1. RInv => OnlyCheckedEditsFiled
  BY DEF RInv
<1> QED BY <1>1, RInvHolds, PTL

\* A set with no two elements has at most one.
LEMMA AtMostOne ==
  ASSUME NEW S, \A p, q \in S : p = q
  PROVE  Cardinality(S) <= 1
<1>1. CASE S = {}
  BY <1>1, FS_EmptySet
<1>2. CASE S # {}
  <2>1. PICK p \in S : S = {p}
    BY <1>2
  <2>2. Cardinality({p}) = 1
    BY FS_Singleton
  <2> QED BY <2>1, <2>2
<1> QED BY <1>1, <1>2

\* No edit is ever in two hands, given up and filed, or shown twice, however
\* many releases, evictions and expiries run at once.
THEOREM NoEditTwice == RSpec => []NeverTwice
<1>1. RInv => NeverTwice
  <2> SUFFICES ASSUME RInv PROVE NeverTwice
    OBVIOUS
  <2>1. ASSUME NEW s \in Seq(Edits) PROVE Range(s) = Items(s)
    BY LenProperties DEF Range, Items
  <2>2. \A t \in tasks : Range(t.todo) = Items(t.todo)
    BY <2>1 DEF RInv, RelayTypes, TaskRecord
  <2>3. InTasks = InTodo
    BY <2>2 DEF InTasks, InTodo
  <2>4. ASSUME NEW e \in Edits
        PROVE  Cardinality({p \in 1 .. 5 :
                 e \in <<pending, InProc, InHeld, InTasks, dropped>>[p]}) <= 1
    <3> DEFINE place == <<pending, InProc, InHeld, InTasks, dropped>>
               S == {p \in 1 .. 5 : e \in place[p]}
    <3>1. OneHand(pending, InProc, InHeld, InTasks, dropped)
      BY <2>3 DEF RInv, Apart
    <3>2. \A p \in 1 .. 5 : p = 1 \/ p = 2 \/ p = 3 \/ p = 4 \/ p = 5
      OBVIOUS
    <3>3. place[1] = pending /\ place[2] = InProc /\ place[3] = InHeld
          /\ place[4] = InTasks /\ place[5] = dropped
      OBVIOUS
    <3> HIDE DEF place
    <3>4. \A p, q \in S : p = q
      BY <3>1, <3>2, <3>3 DEF OneHand
    <3>5. Cardinality(S) <= 1
      <4> HIDE DEF S
      <4> QED BY <3>4, AtMostOne
    <3> QED BY <3>5 DEF place
  <2>5. \A t, u \in tasks : t # u => Range(t.todo) \cap Range(u.todo) = {}
    BY <2>2 DEF RInv, TodoOnce
  <2>6. dropped \cap onFile = {}
    BY DEF RInv, FiledApart
  <2>7. IsInjective(shown)
    <3>1. DOMAIN shown = 1 .. Len(shown) /\ Once(shown)
      BY LenProperties DEF RInv, RelayTypes, ShownApart
    <3> QED BY <3>1 DEF IsInjective, Once
  <2> QED BY <2>4, <2>5, <2>6, <2>7 DEF NeverTwice
<1> QED BY <1>1, RInvHolds, PTL

-----------------------------------------------------------------------------
(***************************************************************************)
(* Asked for again before it is given up.                                  *)
(***************************************************************************)

\* forget changes how many wait for a key, never when it is asked for.
LEMMA ForgetKeepsTimes ==
  ASSUME NEW R, NEW gone, \A k \in DOMAIN R : R[k] \in KeyRetry
  PROVE  \A k \in DOMAIN ForgetRetries(R, gone) :
           /\ k \in DOMAIN R
           /\ ForgetRetries(R, gone)[k].attempts = R[k].attempts
           /\ ForgetRetries(R, gone)[k].next_attempt = R[k].next_attempt
  BY DEF ForgetRetries, KeyRetry

\* What a held item finds in the retry table.
LEMMA ItemHasRow ==
  ASSUME IInv
  PROVE  \A i \in held :
           /\ RetryKeyOf(i) \in DOMAIN retries /\ retries[RetryKeyOf(i)] \in KeyRetry
           /\ i.held_at \in Nat /\ i.held_at <= now /\ now \in Nat
  BY DEF IInv, TypeOK, Accounting, SeqIsAgeOrder, HeldRelay

\* A table that gives no new time to a key keeps the three facts.
LEMMA SameTimes ==
  ASSUME AskInv, held' \subseteq held, now' = now, asked' = asked,
         \/ sweep' = sweep
         \/ sweep'.at = sweep.at /\ sweep'.pc = "asleep",
         \A i \in held' : RetryKeyOf(i) \in DOMAIN retries',
         \A k \in DOMAIN retries' :
           /\ k \in DOMAIN retries
           /\ retries'[k].attempts = retries[k].attempts
           /\ retries'[k].next_attempt = retries[k].next_attempt
  PROVE  AskInv'
<1>1. \A i \in held' : RetryKeyOf(i)' = RetryKeyOf(i)
  BY DEF RetryKeyOf
<1>2. EarlyRetriesAreNear'
  BY DEF AskInv, EarlyRetriesAreNear
<1>3. \A i \in held' : Unasked(i)' => Unasked(i)
  BY <1>1 DEF Unasked
<1>4. NextAskIsInTime'
  BY <1>1, <1>3 DEF AskInv, NextAskIsInTime
<1>5. SweepHasAsked'
  BY <1>3 DEF AskInv, SweepHasAsked
<1> QED BY <1>2, <1>4, <1>5 DEF AskInv

\* Holding an edit: a key new to the table is first asked for FirstRetry from
\* now, and one asked for at most once no later than HoldLimit from now.
LEMMA HoldAsks ==
  ASSUME RInv, AskInv, HoldLimit # 0, FirstRetry <= HoldLimit, HoldRelay
  PROVE  AskInv'
<1> DEFINE e == proc.edit
           o == EditOrigin[e]
           k == EditKey[e]
           q == [origin |-> o, key |-> k]
           item == [relay |-> e, origin |-> o, key |-> k, held_at |-> now, seq |-> next_seq]
           W == RetriesWith(q)
<1>1. IInv /\ IInv'
  BY HoldRelayKeeps DEF RInv
<1>2. /\ sweep' = sweep /\ asked' = asked /\ now' = now /\ held' \subseteq held \cup {item}
      /\ \E gone : retries' = ForgetRetries(W, gone)
  BY DEF HoldRelay, Hold, Pushed
<1>3. item.held_at = now
  OBVIOUS
<1> HIDE DEF item
<1>4. now \in Nat /\ FirstRetry \in Nat /\ HoldLimit \in Nat \ {0}
  BY <1>1, HeldQueueAssumption DEF IInv, TypeOK
<1>5. sweep.at \in Nat /\ sweep.at <= now
  BY DEF RInv, RelayTypes, AskInv, SweepHasAsked
<1>6. \A p \in DOMAIN retries : retries[p] \in KeyRetry
  BY <1>1 DEF IInv, TypeOK
<1>7. /\ DOMAIN W = DOMAIN retries \cup {q}
      /\ \A p \in DOMAIN W : W[p] \in KeyRetry
      /\ \A p \in DOMAIN retries : /\ W[p].attempts = retries[p].attempts
                                   /\ W[p].next_attempt = retries[p].next_attempt
      /\ q \notin DOMAIN retries => W[q].next_attempt = now + FirstRetry
  <2>1. DOMAIN W = DOMAIN retries \cup {q}
    BY DEF RetriesWith
  <2>2. ASSUME NEW p \in DOMAIN retries
        PROVE  /\ W[p] \in KeyRetry /\ W[p].attempts = retries[p].attempts
               /\ W[p].next_attempt = retries[p].next_attempt
    BY <1>6 DEF RetriesWith, KeyRetry
  <2>3. ASSUME q \notin DOMAIN retries
        PROVE  W[q] = [waiting |-> 1, attempts |-> 0, next_attempt |-> now + FirstRetry]
    BY <2>3 DEF RetriesWith
  <2>4. q \notin DOMAIN retries => W[q] \in KeyRetry /\ W[q].next_attempt = now + FirstRetry
    BY <1>4, <2>3 DEF KeyRetry
  <2> QED BY <2>1, <2>2, <2>4
<1> HIDE DEF W
<1>8. \A p \in DOMAIN retries' : /\ p \in DOMAIN W
                                 /\ retries'[p].attempts = W[p].attempts
                                 /\ retries'[p].next_attempt = W[p].next_attempt
  BY <1>2, <1>7, ForgetKeepsTimes
<1> HIDE DEF q
<1>9. EarlyRetriesAreNear'
  <2> SUFFICES ASSUME NEW p \in DOMAIN retries', retries'[p].attempts < 2
               PROVE  retries'[p].next_attempt <= now + HoldLimit
    BY <1>2 DEF EarlyRetriesAreNear
  <2>1. CASE p \in DOMAIN retries
    BY <1>7, <1>8, <2>1 DEF AskInv, EarlyRetriesAreNear
  <2>2. CASE p \notin DOMAIN retries
    <3>1. p = q /\ retries'[p].next_attempt = now + FirstRetry
      BY <1>7, <1>8, <2>2
    <3> QED BY <1>4, <3>1
  <2> QED BY <2>1, <2>2
<1>10. ASSUME NEW i \in held', Unasked(i)'
       PROVE  /\ retries'[RetryKeyOf(i)].next_attempt <= i.held_at + HoldLimit
              /\ sweep'.pc = "expire" => i.held_at + HoldLimit > sweep'.at
  <2>1. /\ i.key \notin UnnamedKeys /\ i.relay \notin asked
        /\ retries'[RetryKeyOf(i)].attempts < 2
    BY <1>2, <1>10 DEF Unasked, RetryKeyOf
  <2>2. RetryKeyOf(i) \in DOMAIN retries'
    BY <1>1 DEF IInv, Accounting
  <2>3. CASE i \in held
    <3>1. RetryKeyOf(i) \in DOMAIN retries
      BY <1>1, <2>3, ItemHasRow
    <3>2. /\ retries'[RetryKeyOf(i)].attempts = retries[RetryKeyOf(i)].attempts
          /\ retries'[RetryKeyOf(i)].next_attempt = retries[RetryKeyOf(i)].next_attempt
      BY <1>7, <1>8, <2>2, <3>1
    <3>3. Unasked(i)
      BY <2>1, <3>2 DEF Unasked
    <3> QED BY <1>2, <2>3, <3>2, <3>3 DEF AskInv, NextAskIsInTime, SweepHasAsked
  <2>4. CASE i = item
    <3>1. i.held_at + HoldLimit > sweep'.at
      BY <1>2, <1>3, <1>4, <1>5, <2>4
    <3>2. retries'[RetryKeyOf(i)].next_attempt <= now + HoldLimit
      BY <1>2, <1>9, <2>1, <2>2 DEF EarlyRetriesAreNear
    <3> QED BY <1>3, <2>4, <3>1, <3>2
  <2> QED BY <1>2, <2>3, <2>4
<1>11. NextAskIsInTime'
  BY <1>10 DEF NextAskIsInTime, RetryKeyOf
<1>12. SweepHasAsked'
  BY <1>2, <1>5, <1>10 DEF SweepHasAsked
<1> QED BY <1>9, <1>11, <1>12 DEF AskInv

\* The second retry is at most twice FIRST_RETRY after the first.
LEMMA SecondRetryIsNear ==
  ASSUME 2 * FirstRetry <= HoldLimit
  PROVE  RetryBackoff(1) <= HoldLimit
<1>1. FirstRetry \in Nat /\ MaxRetry \in Nat /\ HoldLimit \in Nat
  BY HeldQueueAssumption
<1> DEFINE tab == <<1, 2, 4, 8, 16, 32>>
<1>2. tab[2] = 2
  OBVIOUS
<1>3. RetryBackoff(1) = IF FirstRetry * tab[2] < MaxRetry THEN FirstRetry * tab[2] ELSE MaxRetry
  BY DEF RetryBackoff
<1> HIDE DEF tab
<1>4. FirstRetry * 2 <= HoldLimit
  BY <1>1
<1> QED BY <1>1, <1>2, <1>3, <1>4

\* The sweep asks for every key due at the time it read, so the key of an edit
\* still unasked is due later than that.
LEMMA SweepAsksAll ==
  ASSUME RInv, AskInv, 2 * FirstRetry <= HoldLimit, SweepAsks
  PROVE  AskInv'
<1>1. IInv /\ now \in Nat /\ HoldLimit \in Nat /\ RetryBackoff(1) <= HoldLimit
      /\ RetryBackoff(1) \in Nat
  BY HeldQueueAssumption, SecondRetryIsNear, RetryBackoffType DEF RInv, IInv, TypeOK
<1>2. sweep' = [pc |-> "expire", at |-> now] /\ held' = held /\ now' = now
  BY DEF SweepAsks, RetriesDue
<1>3. /\ DOMAIN retries' = DOMAIN retries
      /\ \A k \in DOMAIN retries \ DueKeys(now) : retries'[k] = retries[k]
      /\ \A k \in DueKeys(now) :
           /\ retries'[k].attempts = retries[k].attempts + 1
           /\ retries'[k].next_attempt = now + RetryBackoff(retries[k].attempts + 1)
  <2>1. DueKeys(now) \subseteq DOMAIN retries
    BY DEF DueKeys
  <2>2. CASE RetriesDue(now)
    BY <2>1, <2>2 DEF RetriesDue
  <2>3. CASE DueKeys(now) = {} /\ retries' = retries
    BY <2>3
  <2> QED BY <2>2, <2>3 DEF SweepAsks
<1>4. asked \subseteq asked' /\ \A i \in held : RetryKeyOf(i) \in DueKeys(now) => i.relay \in asked'
  BY DEF SweepAsks
<1>5. EarlyRetriesAreNear'
  <2> SUFFICES ASSUME NEW k \in DOMAIN retries, retries'[k].attempts < 2
               PROVE  retries'[k].next_attempt <= now + HoldLimit
    BY <1>2, <1>3 DEF EarlyRetriesAreNear
  <2>1. CASE k \notin DueKeys(now)
    BY <1>3, <2>1 DEF AskInv, EarlyRetriesAreNear
  <2>2. CASE k \in DueKeys(now)
    <3>1. retries[k].attempts \in Nat
      BY <1>1 DEF IInv, TypeOK, KeyRetry
    <3>2. retries[k].attempts = 0
      BY <1>3, <2>2, <3>1
    <3>3. retries'[k].next_attempt = now + RetryBackoff(1)
      BY <1>3, <2>2, <3>2
    <3> QED BY <1>1, <3>3
  <2> QED BY <2>1, <2>2
<1>6. ASSUME NEW i \in held, Unasked(i)'
      PROVE  /\ retries'[RetryKeyOf(i)].next_attempt <= i.held_at + HoldLimit
             /\ i.held_at + HoldLimit > now
  <2> DEFINE k == RetryKeyOf(i)
  <2>1. i.key \notin UnnamedKeys /\ i.relay \notin asked' /\ retries'[k].attempts < 2
    BY <1>6 DEF Unasked, RetryKeyOf
  <2>2. k \in DOMAIN retries /\ retries[k] \in KeyRetry /\ k.key = i.key /\ i.held_at \in Nat
    BY <1>1, ItemHasRow DEF RetryKeyOf
  <2>3. k \notin DueKeys(now) /\ retries'[k] = retries[k] /\ i.relay \notin asked
    BY <1>3, <1>4, <2>1, <2>2
  <2>4. Unasked(i)
    BY <2>1, <2>3 DEF Unasked
  <2>5. retries[k].next_attempt <= i.held_at + HoldLimit
    BY <2>4 DEF AskInv, NextAskIsInTime
  <2> HIDE DEF k
  <2>6. ~ (retries[k].next_attempt <= now)
    BY <2>1, <2>2, <2>3 DEF DueKeys
  <2>7. retries[k].next_attempt \in Nat
    BY <2>2 DEF KeyRetry
  <2>8. i.held_at + HoldLimit > now
    BY <1>1, <2>2, <2>5, <2>6, <2>7
  <2> QED BY <2>3, <2>5, <2>8 DEF k
<1>7. NextAskIsInTime'
  BY <1>2, <1>6 DEF NextAskIsInTime, RetryKeyOf
<1>8. SweepHasAsked'
  BY <1>1, <1>2, <1>6 DEF SweepHasAsked
<1> QED BY <1>5, <1>7, <1>8 DEF AskInv

\* Every step keeps the three facts.
LEMMA AskInvStep ==
  ASSUME RInv, AskInv, FirstRetry # 0, 2 * FirstRetry <= HoldLimit, [RNext]_allVars
  PROVE  AskInv'
<1>0. IInv /\ \A p \in DOMAIN retries : retries[p] \in KeyRetry
  BY DEF RInv, IInv, TypeOK
<1>1. CASE HoldRelay
  <2>1. HoldLimit # 0 /\ FirstRetry <= HoldLimit
    BY HeldQueueAssumption
  <2> QED BY <1>1, <2>1, HoldAsks
<1>2. CASE SweepAsks
  BY <1>2, SweepAsksAll
<1>3. CASE SweepExpires
  <2>1. IInv'
    BY <1>3, SweepExpiresKeeps DEF RInv
  <2>2. /\ held' \subseteq held /\ now' = now /\ asked' = asked
        /\ sweep' = [sweep EXCEPT !.pc = "asleep"]
    BY <1>3 DEF SweepExpires, Expire
  <2>3. sweep'.at = sweep.at /\ sweep'.pc = "asleep"
    BY <2>2 DEF RInv, RelayTypes
  <2>4. \A p \in DOMAIN retries' : /\ p \in DOMAIN retries
                                   /\ retries'[p].attempts = retries[p].attempts
                                   /\ retries'[p].next_attempt = retries[p].next_attempt
    <3>1. CASE Expire(sweep.at)
      <4>1. retries' = ForgetRetries(retries, ExpiredPrefix(sweep.at))
        BY <3>1 DEF Expire
      <4> QED BY <1>0, <4>1, ForgetKeepsTimes
    <3>2. CASE retries' = retries
      BY <3>2
    <3> QED BY <1>3, <3>1, <3>2 DEF SweepExpires
  <2>5. \A i \in held' : RetryKeyOf(i) \in DOMAIN retries'
    BY <2>1 DEF IInv, Accounting
  <2> QED BY <2>2, <2>3, <2>4, <2>5, SameTimes
<1>4. ASSUME NEW k \in Keys, ReleaseHeldRelays(k), sweep' = sweep, asked' = asked
      PROVE  AskInv'
  <2>1. held' = held \ ForKey(held, k) /\ now' = now
    BY <1>4 DEF ReleaseHeldRelays, TakeForSigner
  <2>2. \A i \in held' : RetryKeyOf(i) \in DOMAIN retries /\ RetryKeyOf(i).key # k
    BY <1>0, <2>1, ItemHasRow DEF ForKey, RetryKeyOf
  <2>3. /\ \A i \in held' : RetryKeyOf(i) \in DOMAIN retries'
        /\ \A p \in DOMAIN retries' : p \in DOMAIN retries /\ retries'[p] = retries[p]
    BY <1>4, <2>2 DEF ReleaseHeldRelays, TakeForSigner
  <2> QED BY <1>4, <2>1, <2>3, SameTimes
<1>5. ASSUME UNCHANGED <<held, retries, now, sweep, asked>>
      PROVE  AskInv'
  <2>1. \A i \in held' : RetryKeyOf(i) \in DOMAIN retries'
    BY <1>0, <1>5, ItemHasRow
  <2> QED BY <1>5, <2>1, SameTimes
<1>6. CASE Recheck
  <2>1. EditKey[proc.edit] \in Keys
    BY <1>6, HeldRelaysAssumption DEF Recheck, RInv, RelayTypes
  <2>2. sweep' = sweep /\ asked' = asked
    BY <1>6 DEF Recheck
  <2>3. CASE ReleaseHeldRelays(EditKey[proc.edit])
    BY <1>4, <2>1, <2>2, <2>3
  <2>4. CASE UNCHANGED <<held, retries, total, next_seq, now, tasks>>
    BY <1>5, <2>2, <2>4
  <2> QED BY <1>6, <2>3, <2>4 DEF Recheck
<1>7. CASE \E k \in Keys : KeySettled(k)
  BY <1>4, <1>7 DEF KeySettled
<1>8. CASE Tick /\ UNCHANGED relayVars
  <2>1. UNCHANGED <<held, retries, sweep, asked>> /\ now' = now + 1
    BY <1>8 DEF Tick, queueVars, relayVars
  <2>2. now \in Nat /\ sweep.at \in Nat /\ HoldLimit \in Nat
    BY HeldQueueAssumption DEF RInv, RelayTypes, IInv, TypeOK
  <2>3. NextAskIsInTime'
    BY <2>1 DEF AskInv, NextAskIsInTime, Unasked
  <2>4. SweepHasAsked'
    BY <2>1, <2>2 DEF AskInv, SweepHasAsked, Unasked
  <2>5. EarlyRetriesAreNear'
    <3>1. \A p \in DOMAIN retries : retries[p].next_attempt \in Nat
      BY <1>0 DEF KeyRetry
    <3> QED BY <2>1, <2>2, <3>1 DEF AskInv, EarlyRetriesAreNear
  <2> QED BY <2>3, <2>4, <2>5 DEF AskInv
<1>9. CASE \/ \E e \in Edits : Receive(e)
           \/ FileLive \/ ApplyLive
           \/ \E k \in Keys : KeyFiled(k) \/ LookupMissed(k)
           \/ UNCHANGED vars /\ UNCHANGED relayVars
  BY <1>5, <1>9 DEF Receive, FileLive, ApplyLive, KeyFiled, LookupMissed, vars, relayVars
<1>10. CASE \E t \in tasks : VerifyReleased(t) \/ CheckOvertaken(t)
                             \/ FileReleased(t) \/ ApplyReleased(t)
  BY <1>5, <1>10 DEF VerifyReleased, CheckOvertaken, FileReleased, ApplyReleased
<1> QED BY <1>1, <1>2, <1>3, <1>6, <1>7, <1>8, <1>9, <1>10, RSteps

\* An edit given up for its age had its key asked for again while that edit
\* waited, or joined a key asked for twice already, as long as twice the first
\* retry is no more than the time an edit is held: FIRST_RETRY is 30 s and
\* HOLD_LIMIT 60 s.
THEOREM AskedFirst ==
  ASSUME FirstRetry # 0, 2 * FirstRetry <= HoldLimit
  PROVE  RSpec => AskedBeforeGivenUp
<1>1. RInit => AskInv
  <2> SUFFICES ASSUME RInit PROVE AskInv
    OBVIOUS
  <2>1. held = {} /\ DOMAIN retries = {} /\ sweep = [pc |-> "asleep", at |-> 0] /\ now = 0
    BY DEF RInit, Init
  <2> QED BY <2>1 DEF AskInv, EarlyRetriesAreNear, NextAskIsInTime, SweepHasAsked
<1>2. RInv /\ AskInv /\ [RNext]_allVars => AskInv'
  BY AskInvStep
<1>3. RInv /\ AskInv /\ [RNext]_allVars =>
        [SweepExpires => \A i \in held \ held' : i.key \notin UnnamedKeys =>
           i.relay \in asked \/ retries[RetryKeyOf(i)].attempts >= 2]_allVars
  <2> SUFFICES ASSUME RInv, AskInv, SweepExpires, NEW i \in held \ held',
                      i.key \notin UnnamedKeys
               PROVE  i.relay \in asked \/ retries[RetryKeyOf(i)].attempts >= 2
    OBVIOUS
  <2>1. Expired(i, sweep.at) /\ sweep.pc = "expire"
    <3>1. i \in ExpiredPrefix(sweep.at) /\ sweep.pc = "expire"
      BY DEF SweepExpires, Expire
    <3>2. i \in OfOrigin(held, i.origin) /\ i.seq <= i.seq
      BY DEF OfOrigin, RInv, IInv, TypeOK, HeldRelay
    <3> QED BY <3>1, <3>2 DEF ExpiredPrefix
  <2>2. i.held_at \in Nat /\ sweep.at \in Nat /\ retries[RetryKeyOf(i)].attempts \in Nat
    BY ItemHasRow DEF RInv, RelayTypes, KeyRetry
  <2>3. sweep.at >= i.held_at + HoldLimit
    BY <2>1 DEF Expired
  <2>4. ~ (i.held_at + HoldLimit > sweep.at)
    BY <2>2, <2>3, HeldQueueAssumption
  <2>5. ~ Unasked(i)
    BY <2>1, <2>4 DEF AskInv, SweepHasAsked
  <2> QED BY <2>2, <2>5 DEF Unasked
<1> QED BY <1>1, <1>2, <1>3, RInvHolds, PTL DEF RSpec, AskedBeforeGivenUp

-----------------------------------------------------------------------------
(***************************************************************************)
(* An overtaken edit stays behind.                                         *)
(***************************************************************************)

\* What any step does to the places of the edits: the processor takes from the
\* peers only, the tasks from the queue only, a task is moved by nobody else,
\* and what is shown was in hand and on file.
LEMMA HowEditsMove ==
  ASSUME RInv, [RNext]_allVars
  PROVE  /\ onFile \subseteq onFile' /\ dropped \subseteq dropped'
         /\ InProc' \subseteq InProc \cup pending /\ InTodo' \subseteq InTodo \cup InHeld
         /\ \A t \in tasks : \/ t \in tasks' \/ VerifyReleased(t) \/ CheckOvertaken(t)
                             \/ FileReleased(t) \/ ApplyReleased(t)
         /\ \/ UNCHANGED <<current, shown>>
            \/ /\ proc.pc = "apply" /\ current' = proc.edit
               /\ shown' = Append(shown, proc.edit)
            \/ \E u \in tasks : /\ u.pc = "apply" /\ current' = Head(u.todo)
                                /\ shown' = Append(shown, Head(u.todo))
<1>0. /\ IInv /\ RelayTypes /\ HeldOnce /\ TodoOnce /\ Apart /\ tasks \subseteq TaskRecord
  BY DEF RInv, RelayTypes
<1>1. CASE \E e \in Edits : Receive(e)
  <2>1. PICK e \in Edits : Receive(e)
    BY <1>1
  <2>2. /\ UNCHANGED <<tasks, onFile, current, shown>> /\ e \in pending /\ dropped \subseteq dropped'
        /\ proc' = [pc |-> "hold", edit |-> e] \/ proc' = [pc |-> "idle", edit |-> None]
           \/ proc' = [pc |-> "file", edit |-> e]
    BY <2>1 DEF Receive
  <2>3. InProc' \subseteq {e} /\ InTodo' = InTodo
    BY <2>2 DEF InProc, InTodo
  <2> QED BY <2>2, <2>3
<1>2. CASE HoldRelay \/ FileLive \/ SweepAsks \/ SweepExpires
           \/ (\E k \in Keys : KeyFiled(k) \/ LookupMissed(k))
           \/ (Tick /\ UNCHANGED relayVars) \/ (UNCHANGED vars /\ UNCHANGED relayVars)
  <2>1. UNCHANGED <<tasks, current, shown>> /\ onFile \subseteq onFile' /\ dropped \subseteq dropped'
    BY <1>2 DEF HoldRelay, FileLive, SweepAsks, SweepExpires, KeyFiled, LookupMissed, relayVars
  <2>2. \/ proc' = proc
        \/ proc.pc = "hold" /\ proc' = [proc EXCEPT !.pc = "recheck"]
        \/ proc.pc = "file" /\ proc' = [proc EXCEPT !.pc = "apply"]
        \/ proc' = [pc |-> "idle", edit |-> None]
    BY <1>2 DEF HoldRelay, FileLive, SweepAsks, SweepExpires, KeyFiled, LookupMissed, relayVars
  <2>3. InProc' \subseteq InProc
    BY <1>0, <2>2 DEF InProc, RelayTypes
  <2>4. InTodo' = InTodo
    BY <2>1 DEF InTodo
  <2> QED BY <2>1, <2>3, <2>4
<1>3. CASE Recheck \/ \E k \in Keys : KeySettled(k)
  <2>1. /\ UNCHANGED <<onFile, current, shown, dropped>>
        /\ proc' = proc \/ proc' = [pc |-> "idle", edit |-> None]
    BY <1>3 DEF Recheck, KeySettled
  <2>2. \/ \E k \in Keys : ReleaseHeldRelays(k)
        \/ UNCHANGED <<held, retries, total, next_seq, now, tasks>>
    <3>1. ASSUME Recheck PROVE EditKey[proc.edit] \in Keys
      BY <1>0, <3>1, HeldRelaysAssumption DEF Recheck, RelayTypes
    <3> QED BY <1>3, <3>1 DEF Recheck, KeySettled
  <2>3. tasks \subseteq tasks' /\ InTodo' \subseteq InTodo \cup InHeld
    <3>1. CASE \E k \in Keys : ReleaseHeldRelays(k)
      BY <1>0, <3>1, ReleaseMoves
    <3>2. CASE tasks' = tasks
      BY <3>2 DEF InTodo
    <3> QED BY <2>2, <3>1, <3>2
  <2>4. InProc' \subseteq InProc
    BY <2>1 DEF InProc
  <2> QED BY <2>1, <2>3, <2>4
<1>4. CASE ApplyLive
  <2>1. /\ proc.pc = "apply" /\ current' = proc.edit /\ shown' = Append(shown, proc.edit)
        /\ proc' = [pc |-> "idle", edit |-> None] /\ UNCHANGED <<tasks, onFile, dropped>>
    BY <1>4 DEF ApplyLive
  <2>2. InProc' = {} /\ InTodo' = InTodo
    BY <2>1 DEF InProc, InTodo
  <2> QED BY <2>1, <2>2
<1>5. ASSUME NEW t \in tasks, VerifyReleased(t) \/ CheckOvertaken(t) \/ FileReleased(t)
                              \/ ApplyReleased(t)
      PROVE  /\ proc' = proc /\ onFile \subseteq onFile' /\ dropped \subseteq dropped' /\ InTodo' \subseteq InTodo
             /\ \A v \in tasks : v = t \/ v \in tasks'
  <2>1. proc' = proc /\ onFile \subseteq onFile' /\ dropped \subseteq dropped'
    BY <1>5 DEF VerifyReleased, CheckOvertaken, FileReleased, ApplyReleased
  <2>2. \/ tasks' = (tasks \ {t}) \cup Popped(t)
        \/ \E u \in TaskRecord : u.todo = t.todo /\ tasks' = (tasks \ {t}) \cup {u}
    <3> DEFINE u1 == [t EXCEPT !.pc = "check"]
               u2 == [t EXCEPT !.pc = "file", !.overtaken = EditOvertaken(Head(t.todo))]
               u3 == [t EXCEPT !.pc = "apply"]
    <3>1. t \in TaskRecord /\ EditOvertaken(Head(t.todo)) \in BOOLEAN
      BY <1>0 DEF EditOvertaken
    <3>2. /\ u1 \in TaskRecord /\ u1.todo = t.todo /\ u2 \in TaskRecord /\ u2.todo = t.todo
          /\ u3 \in TaskRecord /\ u3.todo = t.todo
      BY <3>1 DEF TaskRecord
    <3>3. \/ tasks' = (tasks \ {t}) \cup Popped(t) \/ tasks' = (tasks \ {t}) \cup {u1}
          \/ tasks' = (tasks \ {t}) \cup {u2} \/ tasks' = (tasks \ {t}) \cup {u3}
      BY <1>5 DEF VerifyReleased, CheckOvertaken, FileReleased, ApplyReleased
    <3> HIDE DEF u1, u2, u3
    <3> QED BY <3>2, <3>3
  <2>3. InTodo' \subseteq InTodo
    <3>1. CASE tasks' = (tasks \ {t}) \cup Popped(t)
      BY <1>0, <3>1, TaskPops
    <3>2. CASE \E u \in TaskRecord : u.todo = t.todo /\ tasks' = (tasks \ {t}) \cup {u}
      BY <1>0, <3>2, TaskGoesOn
    <3> QED BY <2>2, <3>1, <3>2
  <2> QED BY <2>1, <2>2, <2>3
<1>6. CASE \E t \in tasks : VerifyReleased(t) \/ CheckOvertaken(t) \/ FileReleased(t)
                            \/ ApplyReleased(t)
  <2>1. PICK t \in tasks : VerifyReleased(t) \/ CheckOvertaken(t) \/ FileReleased(t)
                           \/ ApplyReleased(t)
    BY <1>6
  <2>2. /\ proc' = proc /\ onFile \subseteq onFile' /\ dropped \subseteq dropped' /\ InTodo' \subseteq InTodo
        /\ \A v \in tasks : v = t \/ v \in tasks'
    BY <1>5, <2>1
  <2>3. InProc' = InProc
    BY <2>2 DEF InProc
  <2>4. \/ UNCHANGED <<current, shown>>
        \/ /\ t.pc = "apply" /\ current' = Head(t.todo)
           /\ shown' = Append(shown, Head(t.todo))
    BY <2>1 DEF VerifyReleased, CheckOvertaken, FileReleased, ApplyReleased
  <2>5. \A v \in tasks : \/ v \in tasks' \/ VerifyReleased(v) \/ CheckOvertaken(v)
                         \/ FileReleased(v) \/ ApplyReleased(v)
    BY <2>1, <2>2
  <2> QED BY <2>2, <2>3, <2>4, <2>5
<1> QED BY <1>1, <1>2, <1>3, <1>4, <1>6, RSteps

\* Once a release has found its edit overtaken, no step shows the edit.
LEMMA LeftBehindStep ==
  ASSUME RInv, NEW e \in Edits, LeftBehind(e), [RNext]_allVars
  PROVE  LeftBehind(e)'
<1> DEFINE Behind(t) == /\ Head(t.todo) = e
                        /\ \/ t.pc = "check" /\ \E f \in onFile : f > e
                           \/ t.pc = "file" /\ t.overtaken
<1>1. /\ onFile \subseteq onFile' /\ dropped \subseteq dropped'
      /\ InProc' \subseteq InProc \cup pending /\ InTodo' \subseteq InTodo \cup InHeld
      /\ \A t \in tasks : \/ t \in tasks' \/ VerifyReleased(t) \/ CheckOvertaken(t)
                          \/ FileReleased(t) \/ ApplyReleased(t)
      /\ \/ UNCHANGED <<current, shown>>
         \/ proc.pc = "apply" /\ current' = proc.edit /\ shown' = Append(shown, proc.edit)
         \/ \E u \in tasks : /\ u.pc = "apply" /\ current' = Head(u.todo)
                             /\ shown' = Append(shown, Head(u.todo))
  BY HowEditsMove
<1>2. IInv /\ RelayTypes /\ TodoOnce /\ Apart /\ FiledApart /\ tasks \subseteq TaskRecord
  BY DEF RInv, RelayTypes
<1>3. \A t \in tasks : /\ Head(t.todo) \in Edits /\ Head(t.todo) \in Items(t.todo)
                       /\ Head(t.todo) \in InTodo
  BY <1>2, TaskHead DEF InTodo
<1>4. \/ \E t \in tasks : Behind(t)
      \/ e \in onFile \cup dropped /\ e \notin InProc /\ e \notin InTodo
  BY DEF LeftBehind
<1>5. proc.pc = "apply" => proc.edit # e /\ proc.edit \in Edits
  BY <1>2, <1>3, <1>4 DEF InProc, Apart, OneHand, RelayTypes
<1>6. \A u \in tasks : u.pc = "apply" => Head(u.todo) # e
  BY <1>2, <1>3, <1>4 DEF TodoOnce
<1>7. e # current' /\ e \notin Items(shown')
  <2>1. ASSUME NEW x \in Edits, x # e, shown' = Append(shown, x) PROVE e \notin Items(shown')
    BY <1>2, <2>1, ItemsOfAppend DEF RelayTypes, LeftBehind
  <2>2. CASE UNCHANGED <<current, shown>>
    BY <2>2 DEF LeftBehind
  <2>3. CASE proc.pc = "apply" /\ current' = proc.edit /\ shown' = Append(shown, proc.edit)
    BY <1>5, <2>1, <2>3
  <2>4. CASE \E u \in tasks : /\ u.pc = "apply" /\ current' = Head(u.todo)
                              /\ shown' = Append(shown, Head(u.todo))
    BY <1>3, <1>6, <2>1, <2>4
  <2> QED BY <1>1, <2>2, <2>3, <2>4
<1>8. CASE e \in onFile \cup dropped /\ e \notin InProc /\ e \notin InTodo
  <2>1. e \notin pending /\ e \notin InHeld
    BY <1>2, <1>8 DEF FiledApart, Apart, OneHand
  <2>2. e \in onFile' \cup dropped' /\ e \notin InProc' /\ e \notin InTodo'
    BY <1>1, <1>8, <2>1
  <2> QED BY <1>7, <2>2 DEF LeftBehind
<1>9. ASSUME NEW t \in tasks, Behind(t)
      PROVE  LeftBehind(e)'
  <2>1. CASE t \in tasks'
    <3>1. /\ Head(t.todo) = e
          /\ \/ t.pc = "check" /\ \E f \in onFile' : f > e
             \/ t.pc = "file" /\ t.overtaken
      BY <1>1, <1>9
    <3> QED BY <1>7, <2>1, <3>1 DEF LeftBehind
  <2>2. CASE CheckOvertaken(t)
    <3> DEFINE u == [t EXCEPT !.pc = "file", !.overtaken = EditOvertaken(Head(t.todo))]
    <3>1. u \in tasks' /\ t.pc = "check" /\ EditOvertaken(e)
      BY <1>9, <2>2 DEF CheckOvertaken, EditOvertaken
    <3>2. u.pc = "file" /\ u.todo = t.todo /\ (u.overtaken <=> EditOvertaken(e))
      BY <1>2, <1>9 DEF TaskRecord
    <3> HIDE DEF u
    <3>3. Head(u.todo) = e /\ u.pc = "file" /\ u.overtaken
      BY <1>9, <3>1, <3>2
    <3> QED BY <1>7, <3>1, <3>3 DEF LeftBehind
  <2>3. CASE FileReleased(t)
    <3>1. e \in onFile' \cup dropped' /\ tasks' = (tasks \ {t}) \cup Popped(t)
          /\ proc' = proc
      BY <1>9, <2>3 DEF FileReleased
    <3>2. InTodo' = InTodo \ {e}
      BY <1>2, <1>9, <3>1, TaskPops
    <3>3. e \notin InProc'
      BY <1>2, <1>3, <1>9, <3>1 DEF InProc, Apart, OneHand
    <3>4. e \in onFile' \cup dropped' /\ e \notin InTodo'
      BY <3>1, <3>2
    <3> QED BY <1>7, <3>3, <3>4 DEF LeftBehind
  <2>4. CASE VerifyReleased(t) \/ ApplyReleased(t)
    BY <1>9, <2>4 DEF VerifyReleased, ApplyReleased
  <2> QED BY <1>1, <2>1, <2>2, <2>3, <2>4
<1> QED BY <1>4, <1>8, <1>9

\* edit_overtaken's promise: an edit that finds a later revision on file when
\* its release asks is not shown and is not the text, then or ever after.
THEOREM OvertakenIsNotShown == RSpec => OvertakenStaysBehind
<1> SUFFICES ASSUME NEW e \in Edits
             PROVE  RSpec => []((\E t \in tasks, f \in onFile :
                                   t.pc = "check" /\ Head(t.todo) = e /\ f > e)
                                  => [](e # current /\ e \notin Range(shown)))
  BY DEF OvertakenStaysBehind
<1>1. RInv /\ (\E t \in tasks, f \in onFile : t.pc = "check" /\ Head(t.todo) = e /\ f > e)
        => LeftBehind(e)
  <2> SUFFICES ASSUME RInv, NEW t \in tasks, NEW f \in onFile,
                      t.pc = "check", Head(t.todo) = e, f > e
               PROVE  LeftBehind(e)
    OBVIOUS
  <2>1. e \in InTodo
    BY TaskHead DEF RInv, RelayTypes, InTodo
  <2>2. e \notin Items(shown) /\ current \in Items(shown) \cup {None} /\ e # None
    BY <2>1, HeldRelaysAssumption DEF RInv, ShownApart
  <2> QED BY <2>2 DEF LeftBehind
<1>2. RInv /\ LeftBehind(e) /\ [RNext]_allVars => LeftBehind(e)'
  BY LeftBehindStep
<1>3. RInv /\ LeftBehind(e) => e # current /\ e \notin Range(shown)
  <2>1. ASSUME RInv PROVE Range(shown) = Items(shown)
    <3>1. DOMAIN shown = 1 .. Len(shown)
      BY <2>1, LenProperties DEF RInv, RelayTypes
    <3> QED BY <3>1 DEF Range, Items
  <2> QED BY <2>1 DEF LeftBehind
<1> QED BY <1>1, <1>2, <1>3, RInvHolds, PTL DEF RSpec
=============================================================================
