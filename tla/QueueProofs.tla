---------------------------- MODULE QueueProofs ----------------------------
(***************************************************************************)
(* What the operators of QueueOps.tla preserve, for lists of any length:   *)
(* each keeps a list that holds every frame of a set exactly once.         *)
(***************************************************************************)
EXTENDS QueueOps, SequenceTheorems, WellFoundedInduction, NaturalsInduction, TLAPS

-----------------------------------------------------------------------------
(* The first index that a search of a list selects. *)

(* Every nonempty set of natural numbers has a least element. *)
LEMMA LeastNat ==
  ASSUME NEW T \in SUBSET Nat, T # {}
  PROVE  \E x \in T : \A y \in T : x <= y
<1> DEFINE R == {ss \in Nat \X Nat : ss[1] < ss[2]}
<1>1. IsWellFoundedOn(R, Nat)
  <2>1. R = OpToRel(<, Nat)
    BY Zenon DEF OpToRel
  <2>2. QED
    BY <2>1, NatLessThanWellFounded, Zenon
<1> HIDE DEF R
<1>2. PICK x \in T : \A y \in T : ~(<<y, x>> \in R)
  BY <1>1, WFMin, Zenon
<1>3. \A y \in T : ~(y < x)
  BY <1>2 DEF R
<1>4. QED
  BY <1>3

(* Min of the community modules is that element. *)
LEMMA MinOfNat ==
  ASSUME NEW T \in SUBSET Nat, T # {}
  PROVE  Min(T) \in T /\ \A y \in T : Min(T) <= y
BY LeastNat DEF Min

(* RemoveFirst removes one occurrence, at some index. *)
LEMMA RemoveFirstAt ==
  ASSUME NEW S, NEW s \in Seq(S), NEW e, \E i \in 1 .. Len(s) : s[i] = e
  PROVE  \E i \in 1 .. Len(s) : s[i] = e /\ RemoveFirst(s, e) = RemoveAt(s, i)
<1> DEFINE I == {i \in 1 .. Len(s) : s[i] = e}
<1>1. I \in SUBSET Nat /\ I # {}
  OBVIOUS
<1>2. Min(I) \in I
  BY <1>1, MinOfNat
<1>3. RemoveFirst(s, e) = RemoveAt(s, Min(I))
  BY <1>1 DEF RemoveFirst, SelectInSeq
<1>4. QED
  BY <1>2, <1>3

(* The entries after the one that is removed move up. *)
LEMMA RemoveAtIs ==
  ASSUME NEW S, NEW s \in Seq(S), NEW i \in 1 .. Len(s)
  PROVE  /\ RemoveAt(s, i) \in Seq(S) /\ Len(RemoveAt(s, i)) = Len(s) - 1
         /\ \A k \in 1 .. Len(s) - 1 : RemoveAt(s, i)[k] = IF k < i THEN s[k] ELSE s[k + 1]
<1> DEFINE front == SubSeq(s, 1, i - 1)
           back  == SubSeq(s, i + 1, Len(s))
<1>1. Len(s) \in Nat /\ i \in Nat /\ i <= Len(s) /\ i >= 1 /\ \A k \in 1 .. Len(s) : s[k] \in S
  BY LenProperties, ElementOfSeq
<1>2. /\ front \in Seq(S) /\ Len(front) = i - 1
      /\ \A k \in 1 .. i - 1 : front[k] = s[k]
  <2>1. 1 \in Int /\ i - 1 \in Int /\ \A k \in 1 .. i - 1 : s[k] \in S
    BY <1>1
  <2>2. /\ front \in Seq(S) /\ Len(front) = IF 1 <= i - 1 THEN i - 1 - 1 + 1 ELSE 0
        /\ \A k \in 1 .. i - 1 - 1 + 1 : front[k] = s[1 + k - 1]
    BY ONLY <2>1, SubSeqProperties
  <2> HIDE DEF front
  <2>3. \A k \in 1 .. i - 1 : k \in 1 .. i - 1 - 1 + 1 /\ 1 + k - 1 = k
    BY ONLY <1>1
  <2> QED BY ONLY <1>1, <2>2, <2>3
<1>3. /\ back \in Seq(S) /\ Len(back) = Len(s) - i
      /\ \A k \in 1 .. Len(s) - i : back[k] = s[i + k]
  <2>1. i + 1 \in Int /\ Len(s) \in Int /\ \A k \in i + 1 .. Len(s) : s[k] \in S
    BY <1>1
  <2>2. /\ back \in Seq(S) /\ Len(back) = IF i + 1 <= Len(s) THEN Len(s) - (i + 1) + 1 ELSE 0
        /\ \A k \in 1 .. Len(s) - (i + 1) + 1 : back[k] = s[i + 1 + k - 1]
    BY ONLY <2>1, SubSeqProperties
  <2> HIDE DEF back
  <2>3. \A k \in 1 .. Len(s) - i : k \in 1 .. Len(s) - (i + 1) + 1 /\ i + 1 + k - 1 = i + k
    BY ONLY <1>1
  <2> QED BY ONLY <1>1, <2>2, <2>3
<1>4. RemoveAt(s, i) = front \o back
  BY DEF RemoveAt
<1> HIDE DEF front, back
<1>5. /\ front \o back \in Seq(S)
      /\ Len(front \o back) = Len(front) + Len(back)
      /\ \A k \in 1 .. Len(front) + Len(back) :
           (front \o back)[k] = IF k <= Len(front) THEN front[k] ELSE back[k - Len(front)]
  BY ONLY <1>2, <1>3, ConcatProperties
<1>6. ASSUME NEW k \in 1 .. Len(s) - 1
      PROVE  (front \o back)[k] = IF k < i THEN s[k] ELSE s[k + 1]
  <2>1. CASE k < i
    BY ONLY <1>1, <1>2, <1>3, <1>5, <2>1, k \in 1 .. Len(s) - 1
  <2>2. CASE ~(k < i)
    <3>1. k - (i - 1) \in 1 .. Len(s) - i /\ i + (k - (i - 1)) = k + 1
      BY ONLY <1>1, <2>2, k \in 1 .. Len(s) - 1
    <3>2. (front \o back)[k] = back[k - (i - 1)]
      BY ONLY <1>1, <1>2, <1>3, <1>5, <2>2, k \in 1 .. Len(s) - 1
    <3> QED BY ONLY <1>3, <2>2, <3>1, <3>2
  <2> QED BY <2>1, <2>2
<1> QED BY ONLY <1>1, <1>2, <1>3, <1>4, <1>5, <1>6

-----------------------------------------------------------------------------
(* Lists that hold each member of a set once. *)

(* OneOfEach, by the indices of the list. *)
LEMMA OneOfEachByIndex ==
  ASSUME NEW S, NEW s \in Seq(S), NEW X
  PROVE  OneOfEach(s, X) <=>
           /\ \A a \in 1 .. Len(s), b \in 1 .. Len(s) : s[a] = s[b] => a = b
           /\ \A a \in 1 .. Len(s) : s[a] \in X
           /\ \A x \in X : \E a \in 1 .. Len(s) : s[a] = x
<1>1. DOMAIN s = 1 .. Len(s)
  BY LenProperties
<1>2. IsInjective(s) <=> \A a \in 1 .. Len(s), b \in 1 .. Len(s) : s[a] = s[b] => a = b
  BY <1>1 DEF IsInjective
<1>3. Range(s) = X <=> /\ \A a \in 1 .. Len(s) : s[a] \in X
                       /\ \A x \in X : \E a \in 1 .. Len(s) : s[a] = x
  BY <1>1 DEF Range
<1>4. QED
  BY <1>2, <1>3 DEF OneOfEach

(* A new frame at the tail. *)
LEMMA AppendOneOfEach ==
  ASSUME NEW S, NEW s \in Seq(S), NEW X, OneOfEach(s, X), NEW e \in S, e \notin X
  PROVE  OneOfEach(Append(s, e), X \cup {e})
<1> DEFINE t == Append(s, e)
<1>1. /\ t \in Seq(S)
      /\ Len(t) = Len(s) + 1
      /\ \A k \in 1 .. Len(s) : t[k] = s[k]
      /\ t[Len(s) + 1] = e
  BY AppendProperties
<1>2. DOMAIN s = 1 .. Len(s) /\ DOMAIN t = 1 .. Len(s) + 1 /\ Len(s) \in Nat
  BY <1>1, LenProperties
<1> HIDE DEF t
<1>3. \A k \in 1 .. Len(s) : s[k] \in X
  BY <1>2 DEF OneOfEach, Range
<1>4. IsInjective(t)
  <2> SUFFICES ASSUME NEW a \in 1 .. Len(s) + 1, NEW b \in 1 .. Len(s) + 1, t[a] = t[b]
               PROVE  a = b
    BY <1>2 DEF IsInjective
  <2>1. CASE a \in 1 .. Len(s) /\ b \in 1 .. Len(s)
    BY <2>1, <1>1, <1>2 DEF OneOfEach, IsInjective
  <2>2. CASE a = Len(s) + 1 \/ b = Len(s) + 1
    BY <2>2, <1>1, <1>2, <1>3
  <2>3. QED
    BY <2>1, <2>2, <1>2
<1>5. Range(t) = X \cup {e}
  <2>1. ASSUME NEW x \in Range(t) PROVE x \in X \cup {e}
    <3>1. PICK k \in 1 .. Len(s) + 1 : x = t[k]
      BY <1>2 DEF Range
    <3>2. QED
      BY <3>1, <1>1, <1>2, <1>3
  <2>2. ASSUME NEW x \in X PROVE x \in Range(t)
    <3>1. PICK k \in 1 .. Len(s) : x = s[k]
      BY <1>2 DEF OneOfEach, Range
    <3>2. t[k] = x /\ k \in DOMAIN t
      BY <3>1, <1>1, <1>2
    <3>3. QED
      BY <3>2 DEF Range
  <2>3. e \in Range(t)
    BY <1>1, <1>2 DEF Range
  <2>4. QED
    BY <2>1, <2>2, <2>3
<1>6. QED
  BY <1>4, <1>5 DEF OneOfEach, t

(* The list s with its first m nodes moved behind the others. *)
From(s, m, k) == IF k <= Len(s) - m THEN k + m ELSE k - (Len(s) - m)
Rotation(s, m) == [k \in 1 .. Len(s) |-> s[From(s, m, k)]]

(* A rotation is a one-to-one map of the indices. *)
LEMMA FromIsPermutation ==
  ASSUME NEW S, NEW s \in Seq(S), NEW m \in 0 .. Len(s)
  PROVE  /\ \A a \in 1 .. Len(s) : From(s, m, a) \in 1 .. Len(s)
         /\ \A a \in 1 .. Len(s), b \in 1 .. Len(s) : From(s, m, a) = From(s, m, b) => a = b
         /\ \A j \in 1 .. Len(s) : \E a \in 1 .. Len(s) : From(s, m, a) = j
<1>1. Len(s) \in Nat
  BY LenProperties
<1>2. \A a \in 1 .. Len(s) : From(s, m, a) \in 1 .. Len(s)
  BY <1>1 DEF From
<1>3. \A a \in 1 .. Len(s), b \in 1 .. Len(s) : From(s, m, a) = From(s, m, b) => a = b
  BY <1>1 DEF From
<1>4. ASSUME NEW j \in 1 .. Len(s)
      PROVE  \E a \in 1 .. Len(s) : From(s, m, a) = j
  <2> DEFINE a == IF j > m THEN j - m ELSE j + (Len(s) - m)
  <2>1. a \in 1 .. Len(s) /\ From(s, m, a) = j
    BY <1>1 DEF From
  <2>2. QED
    BY <2>1
<1>5. QED
  BY <1>2, <1>3, <1>4

LEMMA Rotated ==
  ASSUME NEW S, NEW s \in Seq(S), NEW X, OneOfEach(s, X), NEW m \in 0 .. Len(s)
  PROVE  /\ Rotation(s, m) \in Seq(S)
         /\ Len(Rotation(s, m)) = Len(s)
         /\ OneOfEach(Rotation(s, m), X)
<1> DEFINE t == Rotation(s, m)
<1>1. Len(s) \in Nat /\ \A k \in 1 .. Len(s) : s[k] \in S
  BY LenProperties, ElementOfSeq
<1>2. /\ \A a \in 1 .. Len(s), b \in 1 .. Len(s) : s[a] = s[b] => a = b
      /\ \A a \in 1 .. Len(s) : s[a] \in X
      /\ \A x \in X : \E a \in 1 .. Len(s) : s[a] = x
  BY OneOfEachByIndex
<1>3. /\ \A a \in 1 .. Len(s) : From(s, m, a) \in 1 .. Len(s)
      /\ \A a \in 1 .. Len(s), b \in 1 .. Len(s) : From(s, m, a) = From(s, m, b) => a = b
      /\ \A j \in 1 .. Len(s) : \E a \in 1 .. Len(s) : From(s, m, a) = j
  BY FromIsPermutation
<1>4. /\ t \in Seq(S)
      /\ Len(t) = Len(s)
      /\ \A a \in 1 .. Len(s) : t[a] = s[From(s, m, a)]
  BY <1>1, <1>3 DEF Rotation
<1> HIDE DEF t
<1>5. ASSUME NEW a \in 1 .. Len(t), NEW b \in 1 .. Len(t), t[a] = t[b]
      PROVE  a = b
  <2>1. a \in 1 .. Len(s) /\ b \in 1 .. Len(s)
    BY <1>4
  <2>2. s[From(s, m, a)] = s[From(s, m, b)]
    BY <2>1, <1>4, <1>5
  <2>3. From(s, m, a) = From(s, m, b)
    BY <2>1, <2>2, <1>2, <1>3
  <2>4. QED
    BY <2>1, <2>3, <1>3
<1>6. \A a \in 1 .. Len(t) : t[a] \in X
  BY <1>2, <1>3, <1>4
<1>7. ASSUME NEW x \in X
      PROVE  \E a \in 1 .. Len(t) : t[a] = x
  <2>1. PICK j \in 1 .. Len(s) : s[j] = x
    BY <1>2
  <2>2. PICK a \in 1 .. Len(s) : From(s, m, a) = j
    BY <1>3
  <2>3. QED
    BY <2>1, <2>2, <1>4
<1>8. OneOfEach(t, X)
  BY <1>4, <1>5, <1>6, <1>7, OneOfEachByIndex
<1>9. QED
  BY <1>4, <1>8 DEF t

(* A list of the members of a set that is not empty has a head. *)
LEMMA OneOfEachNonempty ==
  ASSUME NEW S, NEW s \in Seq(S), NEW X, OneOfEach(s, X), X # {}
  PROVE  s # << >> /\ s[1] \in X
<1>1. /\ \A a \in 1 .. Len(s) : s[a] \in X
      /\ \A x \in X : \E a \in 1 .. Len(s) : s[a] = x
  BY OneOfEachByIndex
<1>2. 1 \in 1 .. Len(s)
  BY <1>1, LenProperties
<1>3. QED
  BY <1>1, <1>2, EmptySeq

(* The head moved to the tail, by index. *)
LEMMA HeadToTailAt ==
  ASSUME NEW S, NEW s \in Seq(S), s # << >>, NEW e \in S
  PROVE  /\ Len(s) \in Nat \ {0}
         /\ Append(Tail(s), e) \in Seq(S) /\ Len(Append(Tail(s), e)) = Len(s)
         /\ \A k \in 1 .. Len(s) - 1 : Append(Tail(s), e)[k] = s[k + 1]
         /\ Append(Tail(s), e)[Len(s)] = e
<1> DEFINE n == Len(s)
           t == Append(Tail(s), e)
<1>1. n \in Nat \ {0}
  BY EmptySeq, LenProperties
<1>2. /\ Tail(s) \in Seq(S)
      /\ Len(Tail(s)) = n - 1
      /\ \A k \in 1 .. n - 1 : Tail(s)[k] = s[k + 1]
  BY HeadTailProperties
<1>3. /\ t \in Seq(S)
      /\ Len(t) = n
      /\ \A k \in 1 .. n - 1 : t[k] = s[k + 1]
      /\ t[n] = e
  BY <1>1, <1>2, AppendProperties
<1> QED BY <1>1, <1>3

(* What an eviction does to the LRU list. *)
LEMMA HeadToTail ==
  ASSUME NEW S, NEW s \in Seq(S), NEW X, OneOfEach(s, X), s # << >>
  PROVE  /\ Append(Tail(s), s[1]) \in Seq(S)
         /\ OneOfEach(Append(Tail(s), s[1]), X)
<1> DEFINE n == Len(s)
           t == Append(Tail(s), s[1])
<1>1. n \in Nat \ {0} /\ s[1] \in S
  BY EmptySeq, LenProperties, ElementOfSeq
<1>3. /\ t \in Seq(S)
      /\ Len(t) = n
      /\ \A k \in 1 .. n - 1 : t[k] = s[k + 1]
      /\ t[n] = s[1]
  BY <1>1, HeadToTailAt
<1> HIDE DEF t
<1>4. /\ 1 \in 0 .. n
      /\ Rotation(s, 1) \in Seq(S)
      /\ Len(Rotation(s, 1)) = n
      /\ OneOfEach(Rotation(s, 1), X)
  BY <1>1, Rotated
<1>5. \A k \in 1 .. n : Rotation(s, 1)[k] = t[k]
  BY <1>1, <1>3 DEF Rotation, From
<1>6. t = Rotation(s, 1)
  BY <1>3, <1>4, <1>5, SeqEqual
<1>7. QED
  BY <1>4, <1>6 DEF t

(* MoveToTail closes the gap that the element leaves. *)
LEMMA MoveToTailAt ==
  ASSUME NEW S, NEW s \in Seq(S), NEW e, \E i \in 1 .. Len(s) : s[i] = e
  PROVE  \E i \in 1 .. Len(s) :
           /\ s[i] = e
           /\ MoveToTail(s, e) \in Seq(S) /\ Len(MoveToTail(s, e)) = Len(s)
           /\ \A k \in 1 .. Len(s) - 1 :
                MoveToTail(s, e)[k] = IF k < i THEN s[k] ELSE s[k + 1]
           /\ MoveToTail(s, e)[Len(s)] = e
<1> DEFINE n == Len(s)
           t == MoveToTail(s, e)
<1>1. n \in Nat /\ DOMAIN s = 1 .. n /\ \A k \in 1 .. n : s[k] \in S
  BY LenProperties, ElementOfSeq
<1>2. PICK i \in 1 .. n : s[i] = e /\ RemoveFirst(s, e) = RemoveAt(s, i)
  <2>1. \E i \in 1 .. n : s[i] = e
    BY <1>1
  <2>2. QED
    BY <2>1, RemoveFirstAt
<1> DEFINE before == SubSeq(s, 1, i - 1)
           after  == SubSeq(s, i + 1, n)
<1>3. /\ before \in Seq(S) /\ Len(before) = i - 1
      /\ \A k \in 1 .. i - 1 : before[k] = s[k]
  <2>1. i - 1 \in Int /\ \A k \in 1 .. i - 1 : s[k] \in S
    BY <1>1
  <2>2. /\ before \in Seq(S)
        /\ Len(before) = IF 1 <= i - 1 THEN (i - 1) - 1 + 1 ELSE 0
        /\ \A k \in 1 .. (i - 1) - 1 + 1 : before[k] = s[1 + k - 1]
    BY <2>1, SubSeqProperties
  <2> HIDE DEF before
  <2>3. QED
    BY <2>2, <1>1
<1>4. /\ after \in Seq(S) /\ Len(after) = n - i
      /\ \A k \in 1 .. n - i : after[k] = s[k + i]
  <2>1. i + 1 \in Int /\ n \in Int /\ \A k \in i + 1 .. n : s[k] \in S
    BY <1>1
  <2>2. /\ after \in Seq(S)
        /\ Len(after) = IF i + 1 <= n THEN n - (i + 1) + 1 ELSE 0
        /\ \A k \in 1 .. n - (i + 1) + 1 : after[k] = s[(i + 1) + k - 1]
    BY <2>1, SubSeqProperties
  <2> HIDE DEF after
  <2>3. n \in Nat /\ i \in 1 .. n
    BY <1>1
  <2> HIDE DEF n
  <2>4. QED
    BY ONLY <2>2, <2>3
<1> HIDE DEF before, after
<1>5. /\ before \o after \in Seq(S)
      /\ Len(before \o after) = n - 1
      /\ \A k \in 1 .. n - 1 : (before \o after)[k] = IF k < i THEN s[k] ELSE s[k + 1]
  <2>1. /\ before \o after \in Seq(S)
        /\ Len(before \o after) = Len(before) + Len(after)
        /\ \A k \in 1 .. Len(before) + Len(after) :
             (before \o after)[k] = IF k <= Len(before) THEN before[k]
                                                       ELSE after[k - Len(before)]
    BY <1>3, <1>4, ConcatProperties
  <2>2. ASSUME NEW k \in 1 .. n - 1
        PROVE  (before \o after)[k] = IF k < i THEN s[k] ELSE s[k + 1]
    <3>1. CASE k < i
      BY <3>1, <2>1, <1>1, <1>3, <1>4
    <3>2. CASE ~(k < i)
      <4>1. k - (i - 1) \in 1 .. n - i /\ (k - (i - 1)) + i = k + 1
        BY <3>2, <1>1
      <4>2. (before \o after)[k] = after[k - (i - 1)]
        BY <3>2, <2>1, <1>1, <1>3, <1>4
      <4>3. QED
        BY <4>1, <4>2, <3>2, <1>4
    <3>3. QED
      BY <3>1, <3>2
  <2>3. QED
    BY <2>1, <2>2, <1>1, <1>3, <1>4
<1>6. t = Append(before \o after, e)
  BY <1>2 DEF MoveToTail, RemoveAt, before, after
<1> DEFINE u == before \o after
<1> HIDE DEF t, u
<1>7. /\ t \in Seq(S) /\ Len(t) = n
      /\ \A k \in 1 .. n - 1 : t[k] = IF k < i THEN s[k] ELSE s[k + 1]
      /\ t[n] = s[i]
  <2>1. e \in S
    BY <1>1, <1>2
  <2>2. t = Append(u, e)
    BY <1>6 DEF u
  <2>3. u \in Seq(S) /\ Len(u) = n - 1
        /\ \A k \in 1 .. n - 1 : u[k] = IF k < i THEN s[k] ELSE s[k + 1]
    BY <1>5 DEF u
  <2>4. /\ t \in Seq(S) /\ Len(t) = (n - 1) + 1
        /\ \A k \in 1 .. n - 1 : t[k] = u[k]
        /\ t[(n - 1) + 1] = e
    BY <2>1, <2>2, <2>3, AppendProperties
  <2>5. QED
    BY <2>3, <2>4, <1>1, <1>2
<1>8. QED
  BY <1>2, <1>7 DEF t

(* A frame found in the list moved to the tail: what a hit does to it. *)
LEMMA MoveToTailOneOfEach ==
  ASSUME NEW S, NEW s \in Seq(S), NEW X, OneOfEach(s, X), NEW e \in X
  PROVE  MoveToTail(s, e) \in Seq(S) /\ OneOfEach(MoveToTail(s, e), X)
<1> DEFINE n == Len(s)
           t == MoveToTail(s, e)
<1>1. n \in Nat /\ DOMAIN s = 1 .. n
  BY LenProperties
<1>2. \E i \in 1 .. n : s[i] = e
  BY <1>1 DEF OneOfEach, Range
<1>3. PICK i \in 1 .. n :
        /\ s[i] = e
        /\ t \in Seq(S) /\ Len(t) = n
        /\ \A k \in 1 .. n - 1 : t[k] = IF k < i THEN s[k] ELSE s[k + 1]
        /\ t[n] = e
  BY <1>2, MoveToTailAt
<1> HIDE DEF t
<1>7. /\ t \in Seq(S) /\ Len(t) = n
      /\ \A k \in 1 .. n - 1 : t[k] = IF k < i THEN s[k] ELSE s[k + 1]
      /\ t[n] = s[i]
  BY <1>3
<1>8. /\ \A a \in 1 .. n, b \in 1 .. n : s[a] = s[b] => a = b
      /\ \A a \in 1 .. n : s[a] \in X
      /\ \A x \in X : \E a \in 1 .. n : s[a] = x
  BY OneOfEachByIndex
<1>9. ASSUME NEW a \in 1 .. n, NEW b \in 1 .. n, t[a] = t[b]
      PROVE  a = b
  BY <1>1, <1>7, <1>8, <1>9
<1>10. \A a \in 1 .. n : t[a] \in X
  BY <1>1, <1>7, <1>8
<1>11. ASSUME NEW x \in X
       PROVE  \E a \in 1 .. n : t[a] = x
  <2>1. PICK j \in 1 .. n : s[j] = x
    BY <1>8
  <2>2. CASE j < i
    BY <2>1, <2>2, <1>1, <1>7
  <2>3. CASE j = i
    BY <2>1, <2>3, <1>1, <1>7
  <2>4. CASE j > i
    <3>1. j - 1 \in 1 .. n - 1 /\ t[j - 1] = x
      BY <2>1, <2>4, <1>1, <1>7
    <3>2. QED
      BY <3>1, <1>1
  <2>5. QED
    BY <2>2, <2>3, <2>4, <1>1
<1>12. OneOfEach(t, X)
  BY <1>7, <1>9, <1>10, <1>11, OneOfEachByIndex
<1>13. QED
  BY <1>7, <1>12 DEF t

-----------------------------------------------------------------------------
(* The lists of CLOCK carry a reference bit next to each frame. *)

Nodes(S) == [data : S, ref : {0, 1}]

LEMMA FramesInSeq ==
  ASSUME NEW S, NEW q \in Seq(Nodes(S))
  PROVE  /\ FramesIn(q) \in Seq(S)
         /\ Len(FramesIn(q)) = Len(q)
         /\ \A k \in 1 .. Len(q) : FramesIn(q)[k] = q[k].data /\ q[k] \in Nodes(S)
<1>1. Len(q) \in Nat /\ DOMAIN q = 1 .. Len(q) /\ \A k \in 1 .. Len(q) : q[k] \in Nodes(S)
  BY LenProperties, ElementOfSeq
<1>2. FramesIn(q) = [k \in 1 .. Len(q) |-> q[k].data]
  BY <1>1 DEF FramesIn
<1>3. \A k \in 1 .. Len(q) : q[k].data \in S
  BY <1>1 DEF Nodes
<1>4. QED
  BY <1>1, <1>2, <1>3

LEMMA FramesInAppend ==
  ASSUME NEW S, NEW q \in Seq(Nodes(S)), NEW node \in Nodes(S)
  PROVE  /\ Append(q, node) \in Seq(Nodes(S))
         /\ FramesIn(Append(q, node)) = Append(FramesIn(q), node.data)
<1> DEFINE u == Append(q, node)
           v == Append(FramesIn(q), node.data)
<1>1. /\ u \in Seq(Nodes(S)) /\ Len(u) = Len(q) + 1
      /\ \A k \in 1 .. Len(q) : u[k] = q[k]
      /\ u[Len(q) + 1] = node
  BY AppendProperties
<1>2. /\ FramesIn(q) \in Seq(S) /\ Len(FramesIn(q)) = Len(q) /\ Len(q) \in Nat
      /\ \A k \in 1 .. Len(q) : FramesIn(q)[k] = q[k].data
  BY FramesInSeq, LenProperties
<1>3. node.data \in S
  BY DEF Nodes
<1>4. /\ v \in Seq(S) /\ Len(v) = Len(q) + 1
      /\ \A k \in 1 .. Len(q) : v[k] = q[k].data
      /\ v[Len(q) + 1] = node.data
  BY <1>2, <1>3, AppendProperties
<1> HIDE DEF u, v
<1>5. /\ FramesIn(u) \in Seq(S) /\ Len(FramesIn(u)) = Len(u)
      /\ \A k \in 1 .. Len(u) : FramesIn(u)[k] = u[k].data
  BY <1>1, FramesInSeq
<1>6. \A k \in 1 .. Len(q) + 1 : FramesIn(u)[k] = v[k]
  BY <1>1, <1>2, <1>4, <1>5
<1>7. FramesIn(u) = v
  BY <1>1, <1>4, <1>5, <1>6, SeqEqual
<1>8. QED
  BY <1>1, <1>7 DEF u, v

LEMMA FramesInHead ==
  ASSUME NEW S, NEW q \in Seq(Nodes(S)), FramesIn(q) # << >>
  PROVE  q # << >> /\ q[1].data = FramesIn(q)[1]
<1>1. /\ FramesIn(q) \in Seq(S) /\ Len(FramesIn(q)) = Len(q)
      /\ \A k \in 1 .. Len(q) : FramesIn(q)[k] = q[k].data
  BY FramesInSeq
<1>2. 1 \in 1 .. Len(q)
  BY <1>1, EmptySeq
<1>3. QED
  BY <1>1, <1>2, EmptySeq

LEMMA FramesInTail ==
  ASSUME NEW S, NEW q \in Seq(Nodes(S)), q # << >>
  PROVE  Tail(q) \in Seq(Nodes(S)) /\ FramesIn(Tail(q)) = Tail(FramesIn(q))
<1>1. /\ Tail(q) \in Seq(Nodes(S)) /\ Len(Tail(q)) = Len(q) - 1
      /\ \A k \in 1 .. Len(Tail(q)) : Tail(q)[k] = q[k + 1]
  BY HeadTailProperties
<1>2. /\ FramesIn(q) \in Seq(S) /\ Len(FramesIn(q)) = Len(q) /\ Len(q) \in Nat \ {0}
      /\ \A k \in 1 .. Len(q) : FramesIn(q)[k] = q[k].data
  BY FramesInSeq, EmptySeq
<1>3. FramesIn(q) # << >>
  BY <1>2, EmptySeq
<1>4. /\ Tail(FramesIn(q)) \in Seq(S) /\ Len(Tail(FramesIn(q))) = Len(q) - 1
      /\ \A k \in 1 .. Len(q) - 1 : Tail(FramesIn(q))[k] = FramesIn(q)[k + 1]
  BY <1>2, <1>3, HeadTailProperties
<1>5. /\ FramesIn(Tail(q)) \in Seq(S) /\ Len(FramesIn(Tail(q))) = Len(q) - 1
      /\ \A k \in 1 .. Len(q) - 1 : FramesIn(Tail(q))[k] = Tail(q)[k].data
  BY <1>1, FramesInSeq
<1>6. \A k \in 1 .. Len(q) - 1 : FramesIn(Tail(q))[k] = Tail(FramesIn(q))[k]
  BY <1>1, <1>2, <1>4, <1>5
<1>7. QED
  BY <1>1, <1>4, <1>5, <1>6, SeqEqual

(* The list u is q with the reference bit of one node of the frame set. *)
RefSet(q, PFN, ref, u) ==
  \E n \in 1 .. Len(q) :
    /\ q[n].data = PFN
    /\ \A k \in 1 .. Len(q) : u[k] = IF k = n THEN [data |-> PFN, ref |-> ref] ELSE q[k]

(* A hit does that, if the frame is in the list. *)
LEMMA UpdateRefAt ==
  ASSUME NEW S, NEW q \in Seq(Nodes(S)), NEW PFN, NEW ref \in {0, 1}
  PROVE  \/ /\ clock_list_update_ref(q, PFN, ref) = q
            /\ \A k \in 1 .. Len(q) : q[k].data # PFN
         \/ /\ clock_list_update_ref(q, PFN, ref) \in Seq(Nodes(S))
            /\ Len(clock_list_update_ref(q, PFN, ref)) = Len(q)
            /\ RefSet(q, PFN, ref, clock_list_update_ref(q, PFN, ref))
<1> DEFINE I == {k \in 1 .. Len(q) : q[k].data = PFN}
           n == IF I # {} THEN Min(I) ELSE 0
           u == clock_list_update_ref(q, PFN, ref)
<1>1. u = IF n = 0 THEN q ELSE [q EXCEPT ![n].ref = ref]
  BY DEF clock_list_update_ref, SelectInSeq
<1>2. I \in SUBSET Nat /\ 0 \notin I
  OBVIOUS
<1>3. n # 0 => n \in 1 .. Len(q) /\ q[n].data = PFN
  BY <1>2, MinOfNat
<1>4. n = 0 => \A k \in 1 .. Len(q) : q[k].data # PFN
  BY <1>2, MinOfNat
<1> HIDE DEF I, n, u
<1>5. CASE n = 0
  BY <1>1, <1>4, <1>5 DEF u
<1>6. CASE n # 0
  <2> DEFINE node == [data |-> PFN, ref |-> ref]
  <2>1. n \in 1 .. Len(q) /\ q[n] \in Nodes(S) /\ q[n].data = PFN
    BY <1>3, <1>6, ElementOfSeq
  <2>2. node \in Nodes(S) /\ [q[n] EXCEPT !.ref = ref] = node
    BY <2>1 DEF Nodes
  <2>3. u = [q EXCEPT ![n] = node]
    BY <1>1, <1>6, <2>2
  <2> HIDE DEF node
  <2>4. /\ u \in Seq(Nodes(S))
        /\ Len(u) = Len(q)
        /\ \A k \in 1 .. Len(q) : u[k] = IF k = n THEN node ELSE q[k]
    BY <2>1, <2>2, <2>3, ExceptSeq
  <2>5. QED
    BY <2>1, <2>4 DEF u, node, RefSet
<1>7. QED
  BY <1>5, <1>6

LEMMA UpdateRefKeepsFrames ==
  ASSUME NEW S, NEW q \in Seq(Nodes(S)), NEW PFN, NEW ref \in {0, 1}
  PROVE  /\ clock_list_update_ref(q, PFN, ref) \in Seq(Nodes(S))
         /\ FramesIn(clock_list_update_ref(q, PFN, ref)) = FramesIn(q)
<1> DEFINE u == clock_list_update_ref(q, PFN, ref)
<1>1. \/ u = q
      \/ /\ u \in Seq(Nodes(S)) /\ Len(u) = Len(q)
         /\ RefSet(q, PFN, ref, u)
  BY UpdateRefAt
<1> HIDE DEF u
<1>2. CASE u = q
  BY <1>2 DEF u
<1>3. CASE u # q
  <2>1. PICK n \in 1 .. Len(q) :
          /\ q[n].data = PFN
          /\ \A k \in 1 .. Len(q) : u[k] = IF k = n THEN [data |-> PFN, ref |-> ref] ELSE q[k]
    BY <1>1, <1>3 DEF RefSet
  <2>2. u \in Seq(Nodes(S)) /\ Len(u) = Len(q)
    BY <1>1, <1>3
  <2>3. \A k \in 1 .. Len(q) : u[k].data = q[k].data
    BY <2>1
  <2>4. DOMAIN u = 1 .. Len(q) /\ DOMAIN q = 1 .. Len(q)
    BY <2>2, LenProperties
  <2>5. FramesIn(u) = FramesIn(q)
    BY <2>3, <2>4 DEF FramesIn
  <2>6. QED
    BY <2>2, <2>5 DEF u
<1>4. QED
  BY <1>2, <1>3

(* The sweep of clock() moves the first nodes, all referenced, behind the  *)
(* others, and clears their bits.                                          *)
LEMMA SweepAt ==
  ASSUME NEW S, NEW q \in Seq(Nodes(S))
  PROVE  /\ Sweep(q) \in Seq(Nodes(S)) /\ Len(Sweep(q)) = Len(q) /\ Len(q) \in Nat
         /\ \E n \in 0 .. Len(q) :
              /\ \A k \in 1 .. n : q[k].ref = 1
              /\ n < Len(q) => q[n + 1].ref = 0
              /\ \A k \in 1 .. Len(q) :
                   Sweep(q)[k] = IF k <= Len(q) - n THEN q[k + n]
                                 ELSE [data |-> q[k - (Len(q) - n)].data, ref |-> 0]
<1> DEFINE I == {k \in 1 .. Len(q) : q[k].ref = 0}
           n == Referenced(q)
           L == Len(q)
           front == SubSeq(q, n + 1, L)
           back  == [k \in 1 .. n |-> [data |-> q[k].data, ref |-> 0]]
<1>1. L \in Nat /\ \A k \in 1 .. L : q[k] \in Nodes(S)
  BY LenProperties, ElementOfSeq
<1>2. /\ n \in 0 .. L
      /\ \A k \in 1 .. n : q[k].ref = 1
      /\ n < L => q[n + 1].ref = 0
  <2>1. I \in SUBSET Nat
    OBVIOUS
  <2>2. I # {} => Min(I) \in I /\ Min(I) \in 1 .. L /\ \A k \in I : Min(I) <= k
    BY <2>1, MinOfNat
  <2>3. n = IF (IF I # {} THEN Min(I) ELSE 0) = 0 THEN L
            ELSE (IF I # {} THEN Min(I) ELSE 0) - 1
    BY DEF Referenced, SelectInSeq
  <2>4. \A k \in 1 .. L : k \notin I => q[k].ref = 1
    BY <1>1 DEF Nodes
  <2>5. \A k \in I : q[k].ref = 0
    OBVIOUS
  <2> HIDE DEF I, n
  <2>6. CASE I = {}
    BY <1>1, <2>3, <2>4, <2>6
  <2>7. CASE I # {}
    BY <1>1, <2>2, <2>3, <2>4, <2>5, <2>7
  <2>8. QED
    BY <2>6, <2>7
<1>3. Sweep(q) = front \o back
  BY DEF Sweep
<1> HIDE DEF n
<1>4. /\ front \in Seq(Nodes(S))
      /\ Len(front) = L - n
      /\ \A k \in 1 .. L - n : front[k] = q[k + n]
  <2>1. n + 1 \in Int /\ L \in Int /\ \A k \in n + 1 .. L : q[k] \in Nodes(S)
    BY <1>1, <1>2
  <2>2. /\ front \in Seq(Nodes(S))
        /\ Len(front) = IF n + 1 <= L THEN L - (n + 1) + 1 ELSE 0
        /\ \A k \in 1 .. L - (n + 1) + 1 : front[k] = q[(n + 1) + k - 1]
    BY <2>1, SubSeqProperties
  <2> HIDE DEF front
  <2>3. QED
    BY <2>2, <1>1, <1>2
<1>5. /\ back \in Seq(Nodes(S))
      /\ Len(back) = n
      /\ \A k \in 1 .. n : back[k] = [data |-> q[k].data, ref |-> 0]
  <2>1. \A k \in 1 .. n : [data |-> q[k].data, ref |-> 0] \in Nodes(S)
    BY <1>1, <1>2 DEF Nodes
  <2>2. QED
    BY <2>1, <1>2
<1> HIDE DEF front, back
<1> DEFINE u == Sweep(q)
<1>6. /\ u \in Seq(Nodes(S))
      /\ Len(u) = Len(front) + Len(back)
      /\ \A k \in 1 .. Len(front) + Len(back) :
           u[k] = IF k <= Len(front) THEN front[k] ELSE back[k - Len(front)]
  <2>1. front \in Seq(Nodes(S)) /\ back \in Seq(Nodes(S))
    BY <1>4, <1>5
  <2> QED BY <1>3, <2>1, ConcatProperties
<1> HIDE DEF u
<1>7. Len(u) = L
  BY <1>1, <1>2, <1>4, <1>5, <1>6
<1>8. ASSUME NEW k \in 1 .. L
      PROVE  u[k] = IF k <= L - n THEN q[k + n] ELSE [data |-> q[k - (L - n)].data, ref |-> 0]
  <2>1. CASE k <= L - n
    BY <2>1, <1>1, <1>2, <1>4, <1>5, <1>6
  <2>2. CASE ~(k <= L - n)
    <3>1. k - (L - n) \in 1 .. n
      BY <2>2, <1>1, <1>2
    <3>2. u[k] = back[k - (L - n)]
      BY <2>2, <1>1, <1>2, <1>4, <1>5, <1>6
    <3>3. QED
      BY <2>2, <3>1, <3>2, <1>5
  <2>3. QED
    BY <2>1, <2>2
<1>9. QED
  BY <1>1, <1>2, <1>6, <1>7, <1>8 DEF u

(* To the frames in the list that is a rotation. *)
LEMMA SweepRotates ==
  ASSUME NEW S, NEW q \in Seq(Nodes(S))
  PROVE  /\ Sweep(q) \in Seq(Nodes(S))
         /\ Len(Sweep(q)) = Len(q)
         /\ \E m \in 0 .. Len(q) : FramesIn(Sweep(q)) = Rotation(FramesIn(q), m)
<1> DEFINE L == Len(q)
           u == Sweep(q)
<1>1. u \in Seq(Nodes(S)) /\ Len(u) = L /\ L \in Nat
  BY SweepAt
<1>2. PICK n \in 0 .. L : \A k \in 1 .. L :
        u[k] = IF k <= L - n THEN q[k + n] ELSE [data |-> q[k - (L - n)].data, ref |-> 0]
  BY SweepAt
<1> HIDE DEF u
<1>8. /\ FramesIn(q) \in Seq(S) /\ Len(FramesIn(q)) = L
      /\ \A k \in 1 .. L : FramesIn(q)[k] = q[k].data
  BY FramesInSeq
<1>9. /\ FramesIn(u) \in Seq(S) /\ Len(FramesIn(u)) = L
      /\ \A k \in 1 .. L : FramesIn(u)[k] = u[k].data
  BY <1>1, FramesInSeq
<1> DEFINE f == FramesIn(q)
           g == FramesIn(u)
<1> HIDE DEF f, g
<1>10. ASSUME NEW k \in 1 .. L
       PROVE  g[k] = f[From(f, n, k)]
  <2>1. g[k] = u[k].data
    BY <1>9 DEF g
  <2>2. CASE k <= L - n
    <3>1. k + n \in 1 .. L
      BY <2>2, <1>1
    <3>2. g[k] = q[k + n].data
      BY <2>1, <2>2, <1>2
    <3>3. QED
      BY <2>2, <3>1, <3>2, <1>8 DEF From, f
  <2>3. CASE ~(k <= L - n)
    <3>1. k - (L - n) \in 1 .. n /\ k - (L - n) \in 1 .. L
      BY <2>3, <1>1
    <3>2. u[k] = [data |-> q[k - (L - n)].data, ref |-> 0]
      BY <2>3, <1>2
    <3>3. g[k] = q[k - (L - n)].data
      BY <2>1, <3>2
    <3>4. QED
      BY <2>3, <3>1, <3>3, <1>8 DEF From, f
  <2>4. QED
    BY <2>2, <2>3
<1>11. g = Rotation(f, n)
  <2>1. g = [k \in 1 .. L |-> g[k]]
    BY <1>9, LenProperties DEF g
  <2>2. Rotation(f, n) = [k \in 1 .. L |-> f[From(f, n, k)]]
    BY <1>8 DEF Rotation, f
  <2>3. QED
    BY <2>1, <2>2, <1>10
<1>12. QED
  BY <1>1, <1>11 DEF f, g, u
=============================================================================
