--------------------------- MODULE SequenceFacts ---------------------------
(***************************************************************************)
(* What the proofs need of the sequences that model channels and queues:   *)
(* which elements a sequence has after an append, a take from the front, a *)
(* concatenation or a cut, and what SetToSeq makes of a finite set; and    *)
(* that a set of places has a first one.                                   *)
(***************************************************************************)
EXTENDS Integers, Sequences, SequencesExt, FiniteSets, FiniteSetTheorems,
        SequenceTheorems, WellFoundedInduction, TLAPS

\* What stands behind the first of two sequences comes from the second.
LEMMA BehindTheFirst ==
    ASSUME NEW S, NEW s \in Seq(S), NEW t \in Seq(S), NEW j \in 1..Len(t)
    PROVE  /\ Len(s) + j \in 1..Len(s \o t)
           /\ (s \o t)[Len(s) + j] = t[j]
OBVIOUS

\* A place of a sequence shows an element of it.
LEMMA RangeMember ==
    ASSUME NEW S, NEW s \in Seq(S)
    PROVE  /\ Range(s) \subseteq S
           /\ \A i \in 1..Len(s) : s[i] \in Range(s)
           /\ \A e \in Range(s) : \E i \in 1..Len(s) : s[i] = e
  BY DEF Range

LEMMA RangeEmpty ==
    ASSUME NEW S, NEW s \in Seq(S)
    PROVE  (s = <<>>) <=> (Range(s) = {})
  BY DEF Range

LEMMA RangeAppend ==
    ASSUME NEW S, NEW s \in Seq(S), NEW e \in S
    PROVE  /\ Append(s, e) \in Seq(S)
           /\ Range(Append(s, e)) = Range(s) \cup {e}
<1>1. Append(s, e) \in Seq(S) /\ Len(Append(s, e)) = Len(s) + 1
  OBVIOUS
<1>2. ASSUME NEW y \in Range(Append(s, e))
      PROVE  y \in Range(s) \cup {e}
  <2>1. PICK i \in 1..(Len(s) + 1) : Append(s, e)[i] = y
    BY <1>1 DEF Range
  <2>2. CASE i = Len(s) + 1
    BY <2>1, <2>2
  <2>3. CASE i # Len(s) + 1
    <3>1. i \in 1..Len(s) /\ s[i] = y
      BY <2>1, <2>3
    <3> QED
      BY <3>1, RangeMember
  <2> QED
    BY <2>2, <2>3
<1>3. ASSUME NEW y \in Range(s) \cup {e}
      PROVE  y \in Range(Append(s, e))
  <2>1. CASE y \in Range(s)
    <3>1. PICK i \in 1..Len(s) : s[i] = y
      BY <2>1, RangeMember
    <3>2. i \in 1..Len(Append(s, e)) /\ Append(s, e)[i] = y
      BY <3>1
    <3> QED
      BY <3>2, <1>1, RangeMember
  <2>2. CASE y = e
    <3>1. Len(s) + 1 \in 1..Len(Append(s, e)) /\ Append(s, e)[Len(s) + 1] = y
      BY <2>2
    <3> QED
      BY <3>1, <1>1, RangeMember
  <2> QED
    BY <2>1, <2>2
<1> QED
  BY <1>1, <1>2, <1>3

LEMMA RangeHeadTail ==
    ASSUME NEW S, NEW s \in Seq(S), s # <<>>
    PROVE  /\ Head(s) \in S
           /\ Tail(s) \in Seq(S)
           /\ Range(s) = {Head(s)} \cup Range(Tail(s))
<1>1. /\ Head(s) \in S /\ Tail(s) \in Seq(S) /\ Len(Tail(s)) = Len(s) - 1 /\ Len(s) > 0
      /\ Head(s) = s[1]
  OBVIOUS
<1>2. \A i \in 1..(Len(s) - 1) : Tail(s)[i] = s[i + 1]
  OBVIOUS
<1>3. ASSUME NEW y \in Range(s)
      PROVE  y \in {Head(s)} \cup Range(Tail(s))
  <2>1. PICK i \in 1..Len(s) : s[i] = y
    BY RangeMember
  <2>2. CASE i = 1
    BY <2>1, <2>2, <1>1
  <2>3. CASE i # 1
    <3>1. i - 1 \in 1..Len(Tail(s)) /\ Tail(s)[i - 1] = y
      BY <2>1, <2>3, <1>1, <1>2
    <3> QED
      BY <3>1, <1>1, RangeMember
  <2> QED
    BY <2>2, <2>3
<1>4. ASSUME NEW y \in Range(Tail(s))
      PROVE  y \in Range(s)
  <2>1. PICK i \in 1..Len(Tail(s)) : Tail(s)[i] = y
    BY <1>1, RangeMember
  <2>2. i + 1 \in 1..Len(s) /\ s[i + 1] = y
    BY <2>1, <1>1, <1>2
  <2> QED
    BY <2>2, RangeMember
<1>5. Head(s) \in Range(s)
  BY <1>1, RangeMember
<1> QED
  BY <1>1, <1>3, <1>4, <1>5

LEMMA RangeConcat ==
    ASSUME NEW S, NEW s \in Seq(S), NEW t \in Seq(S)
    PROVE  /\ s \o t \in Seq(S)
           /\ Range(s \o t) = Range(s) \cup Range(t)
<1>1. s \o t \in Seq(S) /\ Len(s \o t) = Len(s) + Len(t)
  OBVIOUS
<1>2. ASSUME NEW y \in Range(s \o t)
      PROVE  y \in Range(s) \cup Range(t)
  <2>1. PICK i \in 1..(Len(s) + Len(t)) : (s \o t)[i] = y
    BY <1>1, RangeMember
  <2>2. CASE i <= Len(s)
    <3>1. i \in 1..Len(s) /\ s[i] = y
      BY <2>1, <2>2
    <3> QED
      BY <3>1, RangeMember
  <2>3. CASE ~(i <= Len(s))
    <3>1. i - Len(s) \in 1..Len(t)
      BY <2>3
    <3>2. t[i - Len(s)] = y
      BY <2>1, <3>1, BehindTheFirst
    <3> QED
      BY <3>1, <3>2, RangeMember
  <2> QED
    BY <2>2, <2>3
<1>3. ASSUME NEW y \in Range(s)
      PROVE  y \in Range(s \o t)
  <2>1. PICK i \in 1..Len(s) : s[i] = y
    BY RangeMember
  <2>2. i \in 1..Len(s \o t) /\ (s \o t)[i] = y
    BY <2>1
  <2> QED
    BY <2>2, <1>1, RangeMember
<1>4. ASSUME NEW y \in Range(t)
      PROVE  y \in Range(s \o t)
  <2>1. PICK i \in 1..Len(t) : t[i] = y
    BY RangeMember
  <2>2. Len(s) + i \in 1..Len(s \o t) /\ (s \o t)[Len(s) + i] = y
    BY <2>1, BehindTheFirst
  <2> QED
    BY <2>2, <1>1, RangeMember
<1> QED
  BY <1>1, <1>2, <1>3, <1>4

LEMMA RangeSubSeq ==
    ASSUME NEW S, NEW s \in Seq(S), NEW i \in Nat, NEW j \in Nat, 1 <= i, j <= Len(s)
    PROVE  /\ SubSeq(s, i, j) \in Seq(S)
           /\ Range(SubSeq(s, i, j)) \subseteq Range(s)
<1>1. SubSeq(s, i, j) \in Seq(S)
  OBVIOUS
<1>2. ASSUME NEW y \in Range(SubSeq(s, i, j))
      PROVE  y \in Range(s)
  <2>1. PICK k \in 1..Len(SubSeq(s, i, j)) : SubSeq(s, i, j)[k] = y
    BY <1>1, RangeMember
  <2>2. i + k - 1 \in 1..Len(s) /\ s[i + k - 1] = y
    BY <2>1
  <2> QED
    BY <2>2, RangeMember
<1> QED
  BY <1>1, <1>2

LEMMA ConcatThree ==
    ASSUME NEW S, NEW s \in Seq(S), NEW t \in Seq(S), NEW u \in Seq(S)
    PROVE  (s \o t) \o u = s \o (t \o u)
  BY ConcatAssociative

\* SetToSeq lists a finite set.
LEMMA SetToSeqFacts ==
    ASSUME NEW T, IsFiniteSet(T)
    PROVE  /\ SetToSeq(T) \in Seq(T)
           /\ Range(SetToSeq(T)) = T
<1> DEFINE c == Cardinality(T)
           q == SetToSeq(T)
<1>1. c \in Nat /\ ExistsBijection(1..c, T)
  BY FS_CardinalityType
<1>2. PICK g \in Bijection(1..c, T) : TRUE
  BY <1>1 DEF ExistsBijection
<1>3. g \in [1..c -> T] /\ IsInjective(g)
  BY <1>2 DEF Bijection, Injection, IsInjective
<1>4. q \in [1..c -> T] /\ IsInjective(q)
  BY <1>3 DEF SetToSeq
<1>5. q \in Injection(1..c, T)
  BY <1>4 DEF Injection, IsInjective
<1>6. Cardinality(1..c) = c
  BY <1>1, FS_Interval
<1>7. q \in Surjection(1..c, T)
  BY <1>5, <1>6, FS_Injection
<1>8. Range(q) = T
  BY <1>4, <1>7 DEF Surjection, Range
<1>9. q \in Seq(T)
  BY <1>1, <1>4
<1> QED
  BY <1>8, <1>9

\* What RemoveAt leaves: the elements before the place, and those behind it one
\* place further ahead.
LEMMA RemoveAtLeaves ==
    ASSUME NEW S, NEW s \in Seq(S), NEW x \in DOMAIN s
    PROVE  /\ RemoveAt(s, x) \in Seq(S)
           /\ Len(RemoveAt(s, x)) = Len(s) - 1
           /\ \A j \in 1..(Len(s) - 1) :
                 RemoveAt(s, x)[j] = IF j < x THEN s[j] ELSE s[j + 1]
<1> DEFINE a == SubSeq(s, 1, x - 1)
           b == SubSeq(s, x + 1, Len(s))
<1>1. x \in 1..Len(s) /\ Len(s) \in Nat
  OBVIOUS
<1>2. a \in Seq(S) /\ Len(a) = x - 1 /\ \A j \in 1..(x - 1) : a[j] = s[j]
  BY <1>1
<1>3. /\ b \in Seq(S) /\ Len(b) = Len(s) - x
      /\ \A j \in 1..(Len(s) - x) : b[j] = s[x + j]
  BY <1>1
<1>4. RemoveAt(s, x) = a \o b
  BY DEF RemoveAt
<1> HIDE DEF a, b
<1>5. a \o b \in Seq(S) /\ Len(a \o b) = Len(s) - 1
  BY <1>1, <1>2, <1>3
<1>6. \A j \in 1..(x - 1) : (a \o b)[j] = s[j]
  BY <1>2, <1>3
<1>7. ASSUME NEW j \in x..(Len(s) - 1)
      PROVE  (a \o b)[j] = s[j + 1]
  <2>1. j - (x - 1) \in 1..(Len(s) - x)
    BY <1>1
  <2>2. PICK k \in 1..(Len(s) - x) : k = j - (x - 1)
    BY <2>1
  <2>3. (x - 1) + k = j /\ x + k = j + 1
    BY <1>1, <2>2
  <2>4. a \in Seq(S) /\ b \in Seq(S) /\ k \in 1..Len(b)
    BY <1>2, <1>3, <2>2
  <2>5. (a \o b)[Len(a) + k] = b[k]
    BY <2>4, BehindTheFirst
  <2> QED
    BY <1>2, <1>3, <2>2, <2>3, <2>5
<1>8. \A j \in 1..(Len(s) - 1) : IF j < x THEN j \in 1..(x - 1) ELSE j \in x..(Len(s) - 1)
  BY <1>1
<1> QED
  BY <1>4, <1>5, <1>6, <1>7, <1>8

LEMMA TailIsRemoveFirst ==
    ASSUME NEW S, NEW s \in Seq(S), s # <<>>
    PROVE  1 \in DOMAIN s /\ Head(s) = s[1] /\ Tail(s) = RemoveAt(s, 1)
<1>1. 1 \in DOMAIN s /\ Head(s) = s[1] /\ Len(s) \in Nat /\ Len(s) > 0
  OBVIOUS
<1>2. Tail(s) \in Seq(S) /\ Len(Tail(s)) = Len(s) - 1
  BY <1>1
<1>3. \A j \in 1..(Len(s) - 1) : Tail(s)[j] = s[j + 1]
  BY <1>1
<1>4. RemoveAt(s, 1) \in Seq(S) /\ Len(RemoveAt(s, 1)) = Len(s) - 1
  BY <1>1, RemoveAtLeaves
<1>5. \A j \in 1..(Len(s) - 1) : RemoveAt(s, 1)[j] = Tail(s)[j]
  <2> SUFFICES ASSUME NEW j \in 1..(Len(s) - 1) PROVE RemoveAt(s, 1)[j] = Tail(s)[j]
    OBVIOUS
  <2>1. ~(j < 1)
    BY <1>1
  <2>2. RemoveAt(s, 1)[j] = s[j + 1]
    BY <1>1, <2>1, RemoveAtLeaves
  <2> QED
    BY <1>3, <2>2
<1> QED
  BY <1>1, <1>2, <1>4, <1>5, SeqEqual

\* A set of naturals that is not empty has a least member.
LEMMA LeastMember ==
    ASSUME NEW S \in SUBSET Nat, S # {}
    PROVE  Min(S) \in S /\ \A y \in S : Min(S) <= y
<1> DEFINE T == {0..x : x \in S}
<1>1. T \subseteq FiniteSubsetsOf(Nat)
  <2>1. ASSUME NEW x \in S
        PROVE  0..x \in FiniteSubsetsOf(Nat)
    <3>1. IsFiniteSet(0..x)
      BY FS_Interval
    <3> QED
      BY <3>1 DEF FiniteSubsetsOf
  <2> QED
    BY <2>1
<1>2. IsWellFoundedOn(StrictSubsetOrdering(Nat), FiniteSubsetsOf(Nat))
  BY FS_StrictSubsetOrderingWellFounded
<1>3. T # {}
  OBVIOUS
<1>4. PICK t \in T : \A u \in T : ~(<<u, t>> \in StrictSubsetOrdering(Nat))
  <2> HIDE DEF T
  <2> QED
    BY <1>1, <1>2, <1>3, WFMin
<1>5. PICK x \in S : t = 0..x
  OBVIOUS
<1>6. ASSUME NEW y \in S
      PROVE  x <= y
  <2>1. 0..y \in T
    OBVIOUS
  <2>2. ~(<<0..y, 0..x>> \in StrictSubsetOrdering(Nat))
    BY <1>4, <1>5, <2>1
  <2>3. CASE y < x
    <3>1. x \in 0..x /\ x \notin 0..y
      BY <2>3
    <3>2. 0..y \subseteq 0..x /\ 0..y \in SUBSET Nat /\ 0..x \in SUBSET Nat
      BY <2>3
    <3>3. <<0..y, 0..x>> \in StrictSubsetOrdering(Nat)
      BY <3>1, <3>2 DEF StrictSubsetOrdering
    <3> QED
      BY <2>2, <3>3
  <2> QED
    BY <2>3
<1>7. \E z \in S : \A y \in S : z <= y
  BY <1>6
<1> QED
  BY <1>7 DEF Min
=============================================================================
