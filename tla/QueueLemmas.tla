---------------------------- MODULE QueueLemmas ----------------------------
(***************************************************************************)
(* What appending to a queue and taking its head do to the set of items in *)
(* it: the facts that the proofs about channels and streams share.         *)
(***************************************************************************)
EXTENDS Naturals, Sequences, SequenceTheorems, TLAPS

\* The items in a queue, and that none is in it twice.
Items(s) == {s[i] : i \in 1 .. Len(s)}
Once(s) == \A i, j \in 1 .. Len(s) : s[i] = s[j] => i = j

\* An empty queue has no items.
LEMMA ItemsOfEmpty == Items(<< >>) = {} /\ Once(<< >>)
  BY DEF Items, Once

\* Appending adds one item; a new item keeps the queue free of duplicates.
LEMMA ItemsOfAppend ==
  ASSUME NEW S, NEW s \in Seq(S), NEW e \in S
  PROVE  /\ Append(s, e) \in Seq(S)
         /\ Len(Append(s, e)) = Len(s) + 1
         /\ Items(Append(s, e)) = Items(s) \cup {e}
         /\ Once(s) /\ e \notin Items(s) => Once(Append(s, e))
<1> DEFINE t == Append(s, e)
<1>1. /\ t \in Seq(S) /\ Len(t) = Len(s) + 1 /\ Len(s) \in Nat
      /\ \A i \in 1 .. Len(s) : t[i] = s[i]
      /\ t[Len(s) + 1] = e
  BY AppendProperties, LenProperties
<1> HIDE DEF t
<1>2. Items(t) = Items(s) \cup {e}
  <2>1. ASSUME NEW x \in Items(t) PROVE x \in Items(s) \cup {e}
    <3>1. PICK i \in 1 .. Len(t) : x = t[i]
      BY <2>1 DEF Items
    <3>2. CASE i = Len(s) + 1
      BY <1>1, <3>1, <3>2
    <3>3. CASE i # Len(s) + 1
      <4>1. i \in 1 .. Len(s)
        BY <1>1, <3>3
      <4> QED BY <1>1, <3>1, <4>1 DEF Items
    <3> QED BY <3>2, <3>3
  <2>2. ASSUME NEW x \in Items(s) PROVE x \in Items(t)
    <3>1. PICK i \in 1 .. Len(s) : x = s[i]
      BY <2>2 DEF Items
    <3>2. i \in 1 .. Len(t) /\ x = t[i]
      BY <1>1, <3>1
    <3> QED BY <3>2 DEF Items
  <2>3. e \in Items(t)
    <3>1. Len(s) + 1 \in 1 .. Len(t) /\ t[Len(s) + 1] = e
      BY <1>1
    <3> QED BY <3>1 DEF Items
  <2> QED BY <2>1, <2>2, <2>3
<1>3. ASSUME Once(s), e \notin Items(s) PROVE Once(t)
  <2> SUFFICES ASSUME NEW i \in 1 .. Len(t), NEW j \in 1 .. Len(t), t[i] = t[j] PROVE i = j
    BY DEF Once
  <2>1. \A k \in 1 .. Len(t) : k = Len(s) + 1 \/ k \in 1 .. Len(s)
    BY <1>1
  <2>2. \A k \in 1 .. Len(s) : s[k] # e
    BY <1>3 DEF Items
  <2> QED BY <1>1, <1>3, <2>1, <2>2 DEF Once
<1> QED BY <1>1, <1>2, <1>3 DEF t

\* Taking the head leaves the other items.
LEMMA ItemsOfTail ==
  ASSUME NEW S, NEW s \in Seq(S), s # << >>
  PROVE  /\ Head(s) \in S /\ Head(s) \in Items(s)
         /\ Tail(s) \in Seq(S) /\ Len(Tail(s)) = Len(s) - 1
         /\ Items(s) = Items(Tail(s)) \cup {Head(s)}
         /\ Once(s) => Once(Tail(s)) /\ Head(s) \notin Items(Tail(s))
<1> DEFINE t == Tail(s)
<1>1. /\ t \in Seq(S) /\ Len(t) = Len(s) - 1 /\ Len(s) \in Nat \ {0} /\ Len(t) \in Nat
      /\ \A i \in 1 .. Len(t) : t[i] = s[i + 1]
      /\ Head(s) = s[1] /\ Head(s) \in S
  BY HeadTailProperties, EmptySeq, LenProperties
<1> HIDE DEF t
<1>2. 1 \in 1 .. Len(s) /\ Head(s) \in Items(s)
  BY <1>1 DEF Items
<1>3. \A i \in 1 .. Len(t) : i + 1 \in 1 .. Len(s) /\ i + 1 # 1
  BY <1>1
<1>4. \A i \in 1 .. Len(s) : i = 1 \/ (i - 1 \in 1 .. Len(t) /\ t[i - 1] = s[i])
  BY <1>1
<1>5. Items(s) = Items(t) \cup {Head(s)}
  <2>1. ASSUME NEW x \in Items(s) PROVE x \in Items(t) \cup {Head(s)}
    <3>1. PICK i \in 1 .. Len(s) : x = s[i]
      BY <2>1 DEF Items
    <3> QED BY <1>1, <1>4, <3>1 DEF Items
  <2>2. ASSUME NEW x \in Items(t) PROVE x \in Items(s)
    <3>1. PICK i \in 1 .. Len(t) : x = t[i]
      BY <2>2 DEF Items
    <3> QED BY <1>1, <1>3, <3>1 DEF Items
  <2> QED BY <1>2, <2>1, <2>2
<1>6. ASSUME Once(s) PROVE Once(t) /\ Head(s) \notin Items(t)
  <2>1. Once(t)
    <3> SUFFICES ASSUME NEW i \in 1 .. Len(t), NEW j \in 1 .. Len(t), t[i] = t[j] PROVE i = j
      BY DEF Once
    <3>1. i + 1 = j + 1
      BY <1>1, <1>3, <1>6 DEF Once
    <3> QED BY <3>1
  <2>2. ASSUME NEW i \in 1 .. Len(t), t[i] = Head(s) PROVE FALSE
    BY <1>1, <1>2, <1>3, <1>6, <2>2 DEF Once
  <2> QED BY <2>1, <2>2 DEF Items
<1> QED BY <1>1, <1>2, <1>5, <1>6 DEF t

\* A queue of one item, or of two.
LEMMA ItemsOfFew ==
  ASSUME NEW S, NEW a \in S, NEW b \in S
  PROVE  /\ <<a>> \in Seq(S) /\ Items(<<a>>) = {a}
         /\ <<a, b>> \in Seq(S) /\ Items(<<a, b>>) = {a, b}
<1>1. <<a>> \in Seq(S) /\ Len(<<a>>) = 1 /\ <<a>>[1] = a
  OBVIOUS
<1>2. <<a, b>> \in Seq(S) /\ Len(<<a, b>>) = 2 /\ <<a, b>>[1] = a /\ <<a, b>>[2] = b
  OBVIOUS
<1>3. 1 .. 1 = {1} /\ 1 .. 2 = {1, 2}
  OBVIOUS
<1>4. Items(<<a>>) = {<<a>>[i] : i \in {1}}
  BY <1>1, <1>3 DEF Items
<1>5. Items(<<a, b>>) = {<<a, b>>[i] : i \in {1, 2}}
  BY <1>2, <1>3 DEF Items
<1>6. Items(<<a, b>>) = {a, b}
  BY <1>2, <1>5
<1> QED BY <1>1, <1>2, <1>4, <1>6

\* Two queues, one after the other.
LEMMA ItemsOfConcat ==
  ASSUME NEW S, NEW s \in Seq(S), NEW t \in Seq(S)
  PROVE  s \o t \in Seq(S) /\ Items(s \o t) = Items(s) \cup Items(t)
<1> DEFINE r == s \o t
<1>1. /\ r \in Seq(S) /\ Len(r) = Len(s) + Len(t)
      /\ \A i \in 1 .. Len(s) + Len(t) :
            r[i] = IF i <= Len(s) THEN s[i] ELSE t[i - Len(s)]
  BY ConcatProperties
<1>2. Len(s) \in Nat /\ Len(t) \in Nat
  BY LenProperties
<1> HIDE DEF r
<1>3. ASSUME NEW x \in Items(r) PROVE x \in Items(s) \cup Items(t)
  <2>1. PICK i \in 1 .. Len(s) + Len(t) : x = r[i]
    BY <1>1, <1>3 DEF Items
  <2>2. CASE i <= Len(s)
    <3>1. i \in 1 .. Len(s) /\ x = s[i]
      BY <1>1, <1>2, <2>1, <2>2
    <3> QED BY <3>1 DEF Items
  <2>3. CASE ~ (i <= Len(s))
    <3>1. i - Len(s) \in 1 .. Len(t) /\ x = t[i - Len(s)]
      BY <1>1, <1>2, <2>1, <2>3
    <3> QED BY <3>1 DEF Items
  <2> QED BY <2>2, <2>3
<1>4. ASSUME NEW x \in Items(s) PROVE x \in Items(r)
  <2>1. PICK i \in 1 .. Len(s) : x = s[i]
    BY <1>4 DEF Items
  <2>2. i \in 1 .. Len(r) /\ x = r[i]
    BY <1>1, <1>2, <2>1
  <2> QED BY <2>2 DEF Items
<1>5. ASSUME NEW x \in Items(t) PROVE x \in Items(r)
  <2>1. PICK i \in 1 .. Len(t) : x = t[i]
    BY <1>5 DEF Items
  <2>2. /\ i + Len(s) \in 1 .. Len(s) + Len(t) /\ ~ (i + Len(s) <= Len(s))
        /\ i + Len(s) - Len(s) = i
    BY <1>2, <2>1
  <2>3. i + Len(s) \in 1 .. Len(r) /\ x = r[i + Len(s)]
    BY <1>1, <2>1, <2>2
  <2> QED BY <2>3 DEF Items
<1> QED BY <1>1, <1>3, <1>4, <1>5 DEF r
=============================================================================
