-------------------------- MODULE SupervisorProofs --------------------------
(***************************************************************************)
(* Proofs about Supervisor for any children, strategies, intensity, exits, *)
(* failed starts and times: that the core believes what is so, that the    *)
(* brake holds, and that children run once, in their order, and end with   *)
(* their supervisor.                                                       *)
(***************************************************************************)
EXTENDS Supervisor, SequenceFacts

-----------------------------------------------------------------------------
(* The order of children *)

\* A sequence that lists S from the least to the greatest.
Lists(s, S) ==
    /\ s \in Seq(S)
    /\ Len(s) = Cardinality(S)
    /\ \A x \in S : \E k \in 1..Len(s) : s[k] = x
    /\ \A i, j \in 1..Len(s) : i < j <=> s[i] < s[j]

\* A set of one number more, the least, is listed by putting it in front.
LEMMA ListsOneMore ==
    ASSUME NEW S \in SUBSET Nat, IsFiniteSet(S), NEW m \in S, \A y \in S : m <= y,
           NEW t, Lists(t, S \ {m})
    PROVE  Lists(<<m>> \o t, S)
<1> DEFINE s == <<m>> \o t
<1>1. /\ t \in Seq(S \ {m}) /\ Len(t) = Cardinality(S \ {m}) /\ Len(t) \in Nat
      /\ \A x \in S \ {m} : \E k \in 1..Len(t) : t[k] = x
      /\ \A i, j \in 1..Len(t) : i < j <=> t[i] < t[j]
  <2>1. t \in Seq(S \ {m}) /\ Len(t) = Cardinality(S \ {m})
    BY Zenon DEF Lists
  <2>2. \A x \in S \ {m} : \E k \in 1..Len(t) : t[k] = x
    BY Zenon DEF Lists
  <2>3. \A i, j \in 1..Len(t) : i < j <=> t[i] < t[j]
    BY Zenon DEF Lists
  <2>4. Len(t) \in Nat
    BY <2>1
  <2> QED
    BY Zenon, <2>1, <2>2, <2>3, <2>4
<1>10. t \in Seq(S) /\ \A k \in 1..Len(t) : t[k] \in S \ {m}
  <2>1. \A k \in 1..Len(t) : t[k] \in S \ {m}
    BY <1>1, RangeMember
  <2>2. t = [k \in 1..Len(t) |-> t[k]]
    BY <1>1
  <2> QED
    BY <1>1, <2>1, <2>2
<1>2. Cardinality(S) = Len(t) + 1
  <2>1. Cardinality(S \ {m}) = Cardinality(S) - 1 /\ Cardinality(S) \in Nat
    BY FS_RemoveElement, FS_CardinalityType
  <2> QED
    BY <1>1, <2>1
<1>3. s \in Seq(S) /\ Len(s) = Len(t) + 1
  BY <1>1, <1>10
<1>4. s[1] = m /\ \A k \in 1..Len(t) : s[k + 1] = t[k]
  BY <1>1, <1>10
<1> HIDE DEF s
<1>5. \A k \in 1..Len(s) : k = 1 \/ (k - 1 \in 1..Len(t) /\ s[k] = t[k - 1])
  <2> SUFFICES ASSUME NEW k \in 1..Len(s), k # 1
               PROVE  k - 1 \in 1..Len(t) /\ s[k] = t[k - 1]
    OBVIOUS
  <2>1. k - 1 \in 1..Len(t) /\ (k - 1) + 1 = k
    BY <1>1, <1>3
  <2> QED
    BY <1>4, <2>1
<1>6. ASSUME NEW x \in S
      PROVE  \E k \in 1..Len(s) : s[k] = x
  <2>1. CASE x = m
    BY <1>1, <1>3, <1>4, <2>1
  <2>2. CASE x # m
    <3>1. PICK k \in 1..Len(t) : t[k] = x
      BY <1>1, <2>2
    <3>2. k + 1 \in 1..Len(s)
      BY <1>1, <1>3
    <3>3. s[k + 1] = x
      BY <1>4, <3>1
    <3> QED
      BY <3>2, <3>3
  <2> QED
    BY <2>1, <2>2
<1>7. \A k \in 1..Len(s) : k = 1 <=> s[k] = m
  BY <1>10, <1>4, <1>5
<1>8. ASSUME NEW i \in 1..Len(s), NEW j \in 1..Len(s)
      PROVE  i < j <=> s[i] < s[j]
  <2>1. \A k \in 1..Len(s) : s[k] \in S /\ s[k] \in Nat /\ m <= s[k]
    <3>1. \A k \in 1..Len(s) : s[k] \in S
      BY <1>3, RangeMember
    <3> QED
      BY <3>1
  <2>2. CASE i = 1
    BY <1>7, <2>1, <2>2
  <2>3. CASE j = 1
    BY <1>7, <2>1, <2>3
  <2>4. CASE i # 1 /\ j # 1
    <3>1. /\ i - 1 \in 1..Len(t) /\ s[i] = t[i - 1]
          /\ j - 1 \in 1..Len(t) /\ s[j] = t[j - 1]
      BY <1>5, <2>4
    <3>2. (i - 1) < (j - 1) <=> t[i - 1] < t[j - 1]
      BY <1>1, <3>1
    <3> QED
      BY <3>1, <3>2
  <2> QED
    BY <2>2, <2>3, <2>4
<1> QED
  BY <1>2, <1>3, <1>6, <1>8 DEF Lists, s

\* Every finite set of numbers can be listed: a smallest one that cannot would
\* not be empty, and without its least number it could.
LEMMA ListExists ==
    ASSUME NEW S \in SUBSET Nat, IsFiniteSet(S)
    PROVE  \E s : Lists(s, S)
<1> DEFINE T == {U \in FiniteSubsetsOf(Nat) : ~\E s : Lists(s, U)}
<1>1. SUFFICES ASSUME T # {}
               PROVE  FALSE
  BY DEF FiniteSubsetsOf
<1>2. IsWellFoundedOn(StrictSubsetOrdering(Nat), FiniteSubsetsOf(Nat))
  BY FS_StrictSubsetOrderingWellFounded
<1>3. PICK U \in T : \A W \in T : ~(<<W, U>> \in StrictSubsetOrdering(Nat))
  <2>1. T \subseteq FiniteSubsetsOf(Nat)
    OBVIOUS
  <2> HIDE DEF T
  <2> QED
    BY <1>1, <1>2, <2>1, WFMin
<1>4. U \in SUBSET Nat /\ IsFiniteSet(U) /\ ~\E s : Lists(s, U)
  BY <1>3 DEF FiniteSubsetsOf
<1>5. CASE U = {}
  <2>1. Lists(<<>>, {})
    BY FS_EmptySet DEF Lists
  <2> QED
    BY <1>4, <1>5, <2>1
<1>6. CASE U # {}
  <2> DEFINE m == Min(U)
             W == U \ {m}
  <2>1. m \in U /\ \A y \in U : m <= y
    BY <1>4, <1>6, LeastMember
  <2> HIDE DEF m
  <2>2. W \in SUBSET Nat /\ IsFiniteSet(W)
    BY <1>4, FS_RemoveElement
  <2>3. <<W, U>> \in StrictSubsetOrdering(Nat)
    BY <1>4, <2>1 DEF StrictSubsetOrdering
  <2>4. W \notin T
    BY <1>3, <2>3
  <2>5. PICK t : Lists(t, W)
    BY <2>2, <2>4 DEF FiniteSubsetsOf
  <2>6. Lists(<<m>> \o t, U)
    BY <1>4, <2>1, <2>5, ListsOneMore
  <2> QED
    BY <1>4, <2>6
<1> QED
  BY <1>5, <1>6

\* Ascending and Descending list the children they are given.
LEMMA AscendingLists ==
    ASSUME NEW S \in SUBSET Kids
    PROVE  /\ IsFiniteSet(S) /\ Cardinality(S) \in Nat
           /\ Lists(Ascending(S), S)
<1>1. S \in SUBSET Nat /\ IsFiniteSet(S) /\ Cardinality(S) \in Nat
  <2>1. N \in Nat /\ 1 \in Int
    BY SupervisorAssumption
  <2>2. IsFiniteSet(Kids)
    BY <2>1, FS_Interval DEF Kids
  <2>3. IsFiniteSet(S)
    BY <2>2, FS_Subset
  <2> QED
    BY <2>1, <2>3, FS_CardinalityType DEF Kids
<1>2. PICK t : Lists(t, S)
  BY <1>1, ListExists
<1> DEFINE c == Cardinality(S)
           Fits(u) == \A i, j \in DOMAIN u : i < j => u[i] < u[j]
<1>3. t \in [1..c -> S] /\ Fits(t)
  BY <1>1, <1>2 DEF Lists
<1>4. Ascending(S) = CHOOSE u \in [1..c -> S] : Fits(u)
  BY DEF Ascending
<1>5. Ascending(S) \in [1..c -> S] /\ Fits(Ascending(S))
  <2> HIDE DEF Fits, c
  <2> QED
    BY <1>3, <1>4
<1> DEFINE s == Ascending(S)
<1> HIDE DEF s
<1>6. s \in [1..c -> S] /\ \A i, j \in 1..c : i < j => s[i] < s[j]
  BY <1>5 DEF s
<1>7. s \in Seq(S) /\ Len(s) = c
  BY <1>1, <1>6
<1>8. \A i, j \in 1..c : i < j <=> s[i] < s[j]
  <2>1. \A i \in 1..c : s[i] \in Nat /\ i \in Nat
    <3>1. \A i \in 1..c : s[i] \in S /\ i \in Int
      BY <1>1, <1>6
    <3>2. \A i \in 1..c : s[i] \in Nat
      BY <1>1, <3>1
    <3> QED
      BY <1>1, <3>1, <3>2
  <2> QED
    BY <1>6, <2>1
<1>9. \A x \in S : \E k \in 1..c : s[k] = x
  <2>1. s \in Injection(1..c, S)
    <3>1. \A i \in 1..c : s[i] \in Nat /\ i \in Nat
      <4>1. \A i \in 1..c : s[i] \in S /\ i \in Int
        BY <1>1, <1>6
      <4>2. \A i \in 1..c : s[i] \in Nat
        BY <1>1, <4>1
      <4> QED
        BY <1>1, <4>1, <4>2
    <3>2. \A i, j \in 1..c : s[i] = s[j] => i = j
      BY <1>8, <3>1
    <3> QED
      BY <1>6, <3>2 DEF Injection, IsInjective
  <2>2. Cardinality(1..c) = c /\ IsFiniteSet(1..c)
    BY <1>1, FS_Interval
  <2>3. s \in Surjection(1..c, S)
    BY <1>1, <2>1, <2>2, FS_Injection
  <2> QED
    BY <2>3 DEF Surjection
<1> QED
  BY <1>1, <1>7, <1>8, <1>9 DEF Lists, s

LEMMA DescendingLists ==
    ASSUME NEW S \in SUBSET Kids
    PROVE  LET s == Descending(S)
           IN  /\ s \in Seq(S)
               /\ Len(s) \in Nat
               /\ \A x \in S : \E k \in 1..Len(s) : s[k] = x
               /\ \A i, j \in 1..Len(s) : s[i] = s[j] => i = j
<1> DEFINE c == Cardinality(S)
           a == Ascending(S)
           r == [i \in 1..c |-> a[c + 1 - i]]
           Fits(u) == \A i, j \in DOMAIN u : i < j => u[i] > u[j]
<1>1. IsFiniteSet(S) /\ c \in Nat /\ Lists(a, S) /\ S \subseteq Nat
  BY AscendingLists, SupervisorAssumption DEF Kids
<1>2. r \in [1..c -> S] /\ Fits(r)
  <2>1. a \in Seq(S) /\ Len(a) = c /\ \A i, j \in 1..c : i < j <=> a[i] < a[j]
    BY <1>1 DEF Lists
  <2>2. \A i \in 1..c : c + 1 - i \in 1..c /\ i \in Nat /\ a[i] \in S
    BY <1>1, <2>1
  <2> HIDE DEF a
  <2>3. r \in [1..c -> S]
    BY <2>2
  <2>4. ASSUME NEW i \in 1..c, NEW j \in 1..c, i < j
        PROVE  r[i] > r[j]
    <3>1. c + 1 - j < c + 1 - i
      BY <1>1, <2>4
    <3>2. a[c + 1 - j] < a[c + 1 - i]
      BY <2>1, <2>2, <3>1
    <3>3. r[i] = a[c + 1 - i] /\ r[j] = a[c + 1 - j]
      OBVIOUS
    <3>4. r[i] \in Nat /\ r[j] \in Nat
      BY <1>1, <2>3
    <3> QED
      BY <3>2, <3>3, <3>4
  <2> QED
    BY <2>3, <2>4
<1>3. Descending(S) = CHOOSE u \in [1..c -> S] : Fits(u)
  BY DEF Descending
<1>4. Descending(S) \in [1..c -> S] /\ Fits(Descending(S))
  <2> HIDE DEF Fits, c, r
  <2> QED
    BY <1>2, <1>3
<1> DEFINE s == Descending(S)
<1> HIDE DEF s
<1>5. s \in [1..c -> S] /\ \A i, j \in 1..c : i < j => s[i] > s[j]
  BY <1>4 DEF s
<1>6. s \in Seq(S) /\ Len(s) = c
  BY <1>1, <1>5
<1>7. \A i, j \in 1..c : s[i] = s[j] => i = j
  <2>1. \A i \in 1..c : s[i] \in Nat /\ i \in Nat
    <3>1. \A i \in 1..c : s[i] \in S /\ i \in Int
      BY <1>1, <1>5
    <3>2. \A i \in 1..c : s[i] \in Nat
      BY <1>1, <3>1
    <3> QED
      BY <1>1, <3>1, <3>2
  <2> QED
    BY <1>5, <2>1
<1>8. \A x \in S : \E k \in 1..c : s[k] = x
  <2>1. s \in Injection(1..c, S)
    BY <1>5, <1>7 DEF Injection, IsInjective
  <2>2. Cardinality(1..c) = c /\ IsFiniteSet(1..c)
    BY <1>1, FS_Interval
  <2>3. s \in Surjection(1..c, S)
    BY <1>1, <2>1, <2>2, FS_Injection
  <2> QED
    BY <2>3 DEF Surjection
<1> QED
  BY <1>1, <1>6, <1>7, <1>8 DEF s

-----------------------------------------------------------------------------
(* Actions and batches of them *)

Acts == {Start(c) : c \in Kids} \cup {Stop(c) : c \in Kids} \cup {GiveUp}

LEMMA ActFields ==
    /\ \A c : Start(c).op = "start" /\ Start(c).kid = c
    /\ \A c : Stop(c).op = "stop" /\ Stop(c).kid = c
    /\ GiveUp.op = "give_up" /\ GiveUp.kid = NoKid
  BY DEF Start, Stop, GiveUp

LEMMA ActKinds ==
    /\ \A c, d : Start(c) # Stop(d) /\ Start(c) # GiveUp /\ Stop(c) # GiveUp
    /\ \A c, d : Start(c) = Start(d) => c = d
    /\ \A c, d : Stop(c) = Stop(d) => c = d
    /\ \A c \in Kids : Start(c) \in Acts /\ Stop(c) \in Acts
    /\ GiveUp \in Acts
    /\ \A a \in Acts : (\E c \in Kids : a = Start(c)) \/ (\E c \in Kids : a = Stop(c)) \/ a = GiveUp
    /\ \A a \in Acts : a.op = "start" => a.kid \in Kids /\ a = Start(a.kid)
    /\ \A a \in Acts : a.op = "stop" => a.kid \in Kids /\ a = Stop(a.kid)
    /\ \A a \in Acts : a.op = "give_up" => a = GiveUp
<1>1. \A c, d : Start(c) # Stop(d) /\ Start(c) # GiveUp /\ Stop(c) # GiveUp
  <2> SUFFICES ASSUME NEW c, NEW d PROVE Start(c) # Stop(d) /\ Start(c) # GiveUp /\ Stop(c) # GiveUp
    OBVIOUS
  <2>1. Start(c).op = "start" /\ Stop(d).op = "stop" /\ Stop(c).op = "stop" /\ GiveUp.op = "give_up"
    BY ActFields
  <2> QED
    BY <2>1
<1>2. (\A c, d : Start(c) = Start(d) => c = d) /\ (\A c, d : Stop(c) = Stop(d) => c = d)
  <2> SUFFICES ASSUME NEW c, NEW d
               PROVE  (Start(c) = Start(d) => c = d) /\ (Stop(c) = Stop(d) => c = d)
    OBVIOUS
  <2>1. Start(c).kid = c /\ Start(d).kid = d /\ Stop(c).kid = c /\ Stop(d).kid = d
    BY ActFields
  <2> QED
    BY <2>1
<1>3. /\ \A c \in Kids : Start(c) \in Acts /\ Stop(c) \in Acts
      /\ GiveUp \in Acts
      /\ \A a \in Acts : (\E c \in Kids : a = Start(c)) \/ (\E c \in Kids : a = Stop(c)) \/ a = GiveUp
  BY DEF Acts
<1>4. ASSUME NEW a \in Acts
      PROVE  /\ a.op = "start" => a.kid \in Kids /\ a = Start(a.kid)
             /\ a.op = "stop" => a.kid \in Kids /\ a = Stop(a.kid)
             /\ a.op = "give_up" => a = GiveUp
  <2>1. CASE \E c \in Kids : a = Start(c)
    <3>1. PICK c \in Kids : a = Start(c)
      BY <2>1
    <3>2. a.op = "start" /\ a.kid = c
      BY <3>1, ActFields
    <3> QED
      BY <3>1, <3>2
  <2>2. CASE \E c \in Kids : a = Stop(c)
    <3>1. PICK c \in Kids : a = Stop(c)
      BY <2>2
    <3>2. a.op = "stop" /\ a.kid = c
      BY <3>1, ActFields
    <3> QED
      BY <3>1, <3>2
  <2>3. CASE a = GiveUp
    BY <2>3, ActFields
  <2> QED
    BY <1>3, <2>1, <2>2, <2>3
<1> QED
  BY <1>1, <1>2, <1>3, <1>4

\* The places of a sequence put together from two.
LEMMA Places ==
    ASSUME NEW S, NEW s \in Seq(S), NEW t \in Seq(S)
    PROVE  LET q == s \o t
           IN  /\ q \in Seq(S)
               /\ Len(s) \in Nat /\ Len(t) \in Nat /\ Len(q) = Len(s) + Len(t)
               /\ DOMAIN q = 1..(Len(s) + Len(t))
               /\ DOMAIN s = 1..Len(s) /\ DOMAIN t = 1..Len(t)
               /\ \A k \in DOMAIN s : k \in DOMAIN q /\ k <= Len(s) /\ q[k] = s[k]
               /\ \A k \in DOMAIN t : Len(s) + k \in DOMAIN q /\ q[Len(s) + k] = t[k]
               /\ \A k \in DOMAIN q : \/ k \in DOMAIN s /\ k <= Len(s) /\ q[k] = s[k]
                                      \/ /\ k > Len(s) /\ k - Len(s) \in DOMAIN t
                                         /\ q[k] = t[k - Len(s)]
<1> DEFINE q == s \o t
<1>1. /\ q \in Seq(S) /\ Len(s) \in Nat /\ Len(t) \in Nat /\ Len(q) = Len(s) + Len(t)
      /\ DOMAIN q = 1..(Len(s) + Len(t)) /\ DOMAIN s = 1..Len(s) /\ DOMAIN t = 1..Len(t)
  OBVIOUS
<1>2. \A k \in DOMAIN s : k \in DOMAIN q /\ k <= Len(s) /\ q[k] = s[k]
  BY <1>1
<1>3. \A k \in DOMAIN t : Len(s) + k \in DOMAIN q /\ q[Len(s) + k] = t[k]
  BY <1>1, BehindTheFirst
<1> HIDE DEF q
<1>4. ASSUME NEW k \in DOMAIN q, k \notin DOMAIN s
      PROVE  k > Len(s) /\ k - Len(s) \in DOMAIN t /\ q[k] = t[k - Len(s)]
  <2>1. k > Len(s) /\ k - Len(s) \in 1..Len(t) /\ Len(s) + (k - Len(s)) = k
    BY <1>1, <1>4
  <2> QED
    BY <1>1, <1>3, <2>1
<1> QED
  BY <1>1, <1>2, <1>3, <1>4 DEF q

\* The places of a sequence without its first element.
LEMMA TailPlaces ==
    ASSUME NEW S, NEW s \in Seq(S), s # <<>>
    PROVE  /\ Head(s) = s[1] /\ Head(s) \in S /\ 1 \in DOMAIN s
           /\ Tail(s) \in Seq(S) /\ Len(s) \in Nat /\ Len(Tail(s)) = Len(s) - 1
           /\ DOMAIN s = 1..Len(s) /\ DOMAIN Tail(s) = 1..(Len(s) - 1)
           /\ \A k \in DOMAIN Tail(s) : k \in Nat /\ k + 1 \in DOMAIN s /\ Tail(s)[k] = s[k + 1]
           /\ \A k \in DOMAIN s : k \in Nat /\ (k = 1 \/ (k - 1 \in DOMAIN Tail(s) /\ s[k] = Tail(s)[k - 1]))
<1>1. /\ Head(s) = s[1] /\ Head(s) \in S /\ 1 \in DOMAIN s
      /\ Tail(s) \in Seq(S) /\ Len(s) \in Nat /\ Len(Tail(s)) = Len(s) - 1
      /\ DOMAIN s = 1..Len(s) /\ DOMAIN Tail(s) = 1..(Len(s) - 1)
  OBVIOUS
<1>2. \A k \in 1..(Len(s) - 1) : Tail(s)[k] = s[k + 1]
  OBVIOUS
<1>3. ASSUME NEW k \in DOMAIN s, k # 1
      PROVE  k - 1 \in DOMAIN Tail(s) /\ s[k] = Tail(s)[k - 1]
  <2>1. k - 1 \in 1..(Len(s) - 1) /\ (k - 1) + 1 = k
    BY <1>1, <1>3
  <2> QED
    BY <1>1, <1>2, <2>1
<1> QED
  BY <1>1, <1>2, <1>3

\* The starts of some children, in start order.
Starting(b, S) ==
    /\ b \in Seq(Acts)
    /\ Len(b) = Cardinality(S)
    /\ \A k \in DOMAIN b : \E x \in S : b[k] = Start(x)
    /\ \A x \in S : \E k \in DOMAIN b : b[k] = Start(x)
    /\ \A k, m \in DOMAIN b : \A x, y \in S :
          b[k] = Start(x) /\ b[m] = Start(y) => (k < m <=> x < y)

LEMMA StartsFacts ==
    ASSUME NEW S \in SUBSET Kids
    PROVE  Starting(ToStarts(Ascending(S)), S)
<1> DEFINE s == Ascending(S)
           b == ToStarts(s)
<1>1. /\ s \in Seq(S) /\ Len(s) = Cardinality(S) /\ Cardinality(S) \in Nat
      /\ \A x \in S : \E k \in 1..Len(s) : s[k] = x
      /\ \A i, j \in 1..Len(s) : i < j <=> s[i] < s[j]
  <2>1. Lists(s, S) /\ Cardinality(S) \in Nat
    BY AscendingLists
  <2> QED
    BY Zenon, <2>1 DEF Lists
<1> HIDE DEF s
<1>2. \A k \in 1..Len(s) : s[k] \in S
  BY <1>1, RangeMember
<1>3. b = [k \in 1..Len(s) |-> Start(s[k])]
  BY <1>1 DEF ToStarts
<1> HIDE DEF b
<1>4. \A k \in 1..Len(s) : b[k] = Start(s[k]) /\ b[k] \in Acts
  BY <1>2, <1>3, ActKinds
<1>5. b \in Seq(Acts) /\ Len(b) = Len(s) /\ DOMAIN b = 1..Len(s)
  BY <1>1, <1>3, <1>4
<1>6. \A x \in S : \E k \in DOMAIN b : b[k] = Start(x)
  BY <1>1, <1>4, <1>5
<1>7. ASSUME NEW k \in DOMAIN b, NEW m \in DOMAIN b, NEW x \in S, NEW y \in S,
             b[k] = Start(x), b[m] = Start(y)
      PROVE  k < m <=> x < y
  <2>1. s[k] = x /\ s[m] = y
    BY <1>4, <1>5, <1>7, ActKinds
  <2> QED
    BY <1>1, <1>5, <2>1
<1> QED
  BY <1>1, <1>2, <1>4, <1>5, <1>6, <1>7 DEF Starting, b, s

\* The stops of some children.
Stopping(b, S) ==
    /\ b \in Seq(Acts)
    /\ \A k \in DOMAIN b : \E x \in S : b[k] = Stop(x)
    /\ \A x \in S : \E k \in DOMAIN b : b[k] = Stop(x)

LEMMA StopsFacts ==
    ASSUME NEW S \in SUBSET Kids
    PROVE  Stopping(ToStops(Descending(S)), S)
<1> DEFINE s == Descending(S)
           b == ToStops(s)
<1>1. /\ s \in Seq(S) /\ Len(s) \in Nat
      /\ \A x \in S : \E k \in 1..Len(s) : s[k] = x
  BY DescendingLists
<1> HIDE DEF s
<1>2. \A k \in 1..Len(s) : s[k] \in S
  BY <1>1, RangeMember
<1>3. b = [k \in 1..Len(s) |-> Stop(s[k])]
  BY <1>1 DEF ToStops
<1> HIDE DEF b
<1>4. \A k \in 1..Len(s) : b[k] = Stop(s[k]) /\ b[k] \in Acts
  BY <1>2, <1>3, ActKinds
<1>5. b \in Seq(Acts) /\ DOMAIN b = 1..Len(s)
  BY <1>1, <1>3, <1>4
<1>6. \A x \in S : \E k \in DOMAIN b : b[k] = Stop(x)
  BY <1>1, <1>4, <1>5
<1> QED
  BY <1>2, <1>4, <1>5, <1>6 DEF Stopping, b, s

\* What on_child_exit decides when it restarts: the survivors are stopped, and
\* then whoever returns is started, in start order.
Fan(b, c) ==
    /\ b \in Seq(Acts)
    /\ \A k \in DOMAIN b : b[k] # GiveUp
    /\ \A k \in DOMAIN b : \A x \in Kids : b[k] = Start(x) => x \in Affected(c) /\ Returns(x)
    /\ \A x \in Affected(c) : Returns(x) => \E k \in DOMAIN b : b[k] = Start(x)
    /\ \A k \in DOMAIN b : \A x \in Kids :
          b[k] = Stop(x) => x \in Affected(c) /\ x # c /\ running[x]
    /\ \A x \in Affected(c) : x # c /\ running[x] => \E k \in DOMAIN b : b[k] = Stop(x)
    /\ \A k, m \in DOMAIN b : \A x, y \in Kids : b[k] = Stop(x) /\ b[m] = Start(y) => k < m
    /\ \A k, m \in DOMAIN b : \A x, y \in Kids :
          b[k] = Start(x) /\ b[m] = Start(y) => (k < m <=> x < y)

\* What it decides when it gives up: whoever runs, or was to be started, is
\* stopped first.
Quit(b, c) ==
    /\ b \in Seq(Acts)
    /\ Len(b) \in DOMAIN b /\ b[Len(b)] = GiveUp
    /\ \A k \in DOMAIN b : k # Len(b) => k < Len(b) /\ \E x \in Kids : b[k] = Stop(x)
    /\ \A x \in Kids : (IF x \in Affected(c) THEN Returns(x) ELSE running[x])
          => \E k \in DOMAIN b : b[k] = Stop(x)

LEMMA AffectedFacts ==
    ASSUME NEW c \in Kids, strategy \in Strategies
    PROVE  /\ Affected(c) \subseteq Kids /\ c \in Affected(c)
           /\ strategy = "one_for_one" => Affected(c) = {c}
           /\ strategy # "one_for_one" => \A d \in Kids : c < d => d \in Affected(c)
           /\ strategy # "one_for_one" =>
                 \A x \in Affected(c), d \in Kids : x < d => d \in Affected(c)
<1>1. N \in Nat /\ c \in 1..N
  BY SupervisorAssumption DEF Kids
<1>2. strategy \in {"one_for_one", "one_for_all", "rest_for_one"}
  BY SupervisorAssumption
<1>3. CASE strategy = "one_for_one"
  BY <1>3 DEF Affected
<1>4. CASE strategy = "one_for_all"
  BY <1>4 DEF Affected
<1>5. CASE strategy = "rest_for_one"
  <2>1. Affected(c) = c..N
    BY <1>5 DEF Affected
  <2> QED
    BY <1>1, <1>5, <2>1 DEF Kids
<1> QED
  BY <1>2, <1>3, <1>4, <1>5

LEMMA RunFacts ==
    ASSUME NEW c \in Kids, running \in [Kids -> BOOLEAN], strategy \in Strategies,
           NEW after, after = [k \in Kids |-> IF k \in Affected(c) THEN Returns(k)
                                              ELSE [running EXCEPT ![c] = FALSE][k]]
    PROVE  /\ after \in [Kids -> BOOLEAN]
           /\ \A k \in Kids : after[k] = IF k \in Affected(c) THEN Returns(k) ELSE running[k]
<1>1. c \in Affected(c)
  BY AffectedFacts
<1>2. \A k \in Kids : Returns(k) \in BOOLEAN
  BY DEF Returns
<1> QED
  BY <1>1, <1>2

LEMMA FanFacts ==
    ASSUME NEW c \in Kids, running \in [Kids -> BOOLEAN], strategy \in Strategies
    PROVE  LET gone == [running EXCEPT ![c] = FALSE]
               b == ToStops(Survivors(gone, c)) \o ToStarts(ToRestart(c))
           IN  /\ Fan(b, c)
               /\ Cardinality(StartsAmong(b)) = Len(ToRestart(c))
               /\ Len(ToRestart(c)) \in Nat
<1> DEFINE gone == [running EXCEPT ![c] = FALSE]
           V == {k \in Affected(c) : gone[k]}
           R == {k \in Affected(c) : Returns(k)}
           s == ToStops(Descending(V))
           t == ToStarts(Ascending(R))
           b == s \o t
<1>1. V \in SUBSET Kids /\ R \in SUBSET Kids
  BY AffectedFacts
<1>2. \A x \in Kids : x \in V <=> x \in Affected(c) /\ x # c /\ running[x]
  BY <1>1
<1>3. Stopping(s, V) /\ Starting(t, R)
  BY <1>1, StopsFacts, StartsFacts
<1>4. Survivors(gone, c) = Descending(V) /\ ToRestart(c) = Ascending(R)
  BY DEF Survivors, ToRestart
<1>5. Len(ToRestart(c)) = Cardinality(R) /\ Cardinality(R) \in Nat
  BY <1>1, <1>4, AscendingLists DEF Lists
<1>6. \A x : x \in R <=> x \in Affected(c) /\ Returns(x)
  OBVIOUS
<1> HIDE DEF V, R, s, t
<1>7. /\ s \in Seq(Acts) /\ t \in Seq(Acts) /\ Len(t) = Cardinality(R)
      /\ \A k \in DOMAIN s : \E x \in V : s[k] = Stop(x)
      /\ \A x \in V : \E k \in DOMAIN s : s[k] = Stop(x)
      /\ \A k \in DOMAIN t : \E x \in R : t[k] = Start(x)
      /\ \A x \in R : \E k \in DOMAIN t : t[k] = Start(x)
      /\ \A k, m \in DOMAIN t : \A x, y \in R :
            t[k] = Start(x) /\ t[m] = Start(y) => (k < m <=> x < y)
  BY <1>3 DEF Stopping, Starting
<1>8. /\ b \in Seq(Acts)
      /\ Len(s) \in Nat /\ Len(t) \in Nat /\ Len(b) = Len(s) + Len(t)
      /\ DOMAIN b = 1..(Len(s) + Len(t))
      /\ DOMAIN s = 1..Len(s) /\ DOMAIN t = 1..Len(t)
      /\ \A k \in DOMAIN s : k \in DOMAIN b /\ k <= Len(s) /\ b[k] = s[k]
      /\ \A k \in DOMAIN t : Len(s) + k \in DOMAIN b /\ b[Len(s) + k] = t[k]
      /\ \A k \in DOMAIN b : \/ k \in DOMAIN s /\ k <= Len(s) /\ b[k] = s[k]
                             \/ /\ k > Len(s) /\ k - Len(s) \in DOMAIN t
                                /\ b[k] = t[k - Len(s)]
  BY <1>7, Places
<1> HIDE DEF b
<1>9. \A k \in DOMAIN b : \/ k <= Len(s) /\ \E x \in V : b[k] = Stop(x)
                          \/ k > Len(s) /\ k - Len(s) \in DOMAIN t /\ b[k] = t[k - Len(s)]
                             /\ \E x \in R : b[k] = Start(x)
  BY <1>7, <1>8
<1>10. \A k \in DOMAIN b : b[k] # GiveUp
  BY <1>9, ActKinds
<1>11. \A k \in DOMAIN b : \A x \in Kids :
          b[k] = Start(x) => x \in R /\ k > Len(s) /\ k - Len(s) \in DOMAIN t /\ t[k - Len(s)] = Start(x)
  BY <1>9, ActKinds
<1>12. \A k \in DOMAIN b : \A x \in Kids : b[k] = Stop(x) => x \in V /\ k <= Len(s)
  BY <1>9, ActKinds
<1>13. \A x \in R : \E k \in DOMAIN b : b[k] = Start(x)
  BY <1>7, <1>8
<1>14. \A x \in V : \E k \in DOMAIN b : b[k] = Stop(x)
  BY <1>7, <1>8
<1>15. ASSUME NEW k \in DOMAIN b, NEW m \in DOMAIN b, NEW x \in Kids, NEW y \in Kids,
              b[k] = Start(x), b[m] = Start(y)
       PROVE  k < m <=> x < y
  <2>1. /\ x \in R /\ k - Len(s) \in DOMAIN t /\ t[k - Len(s)] = Start(x)
        /\ y \in R /\ m - Len(s) \in DOMAIN t /\ t[m - Len(s)] = Start(y)
    BY <1>11, <1>15
  <2>2. (k - Len(s)) < (m - Len(s)) <=> x < y
    BY <1>7, <2>1
  <2>3. k \in Nat /\ m \in Nat
    BY <1>8
  <2> QED
    BY <1>8, <2>2, <2>3
<1>16. \A k, m \in DOMAIN b : \A x, y \in Kids : b[k] = Stop(x) /\ b[m] = Start(y) => k < m
  <2>1. \A k \in DOMAIN b : k \in Nat
    BY <1>8
  <2> QED
    BY <1>8, <1>11, <1>12, <2>1
<1>17. Fan(b, c)
  <2>1. \A k \in DOMAIN b : \A x \in Kids : b[k] = Start(x) => x \in Affected(c) /\ Returns(x)
    BY <1>11, <1>6
  <2>2. \A x \in Affected(c) : Returns(x) => \E k \in DOMAIN b : b[k] = Start(x)
    BY <1>13, <1>6
  <2>3. \A k \in DOMAIN b : \A x \in Kids : b[k] = Stop(x) => x \in Affected(c) /\ x # c /\ running[x]
    BY <1>12, <1>2
  <2>4. \A x \in Affected(c) : x # c /\ running[x] => \E k \in DOMAIN b : b[k] = Stop(x)
    BY <1>14, <1>2, AffectedFacts
  <2> QED
    BY <1>8, <1>10, <1>15, <1>16, <2>1, <2>2, <2>3, <2>4 DEF Fan
<1>18. Cardinality(StartsAmong(b)) = Len(t)
  <2>1. StartsAmong(b) = (Len(s) + 1)..(Len(s) + Len(t))
    <3>1. ASSUME NEW k \in DOMAIN b
          PROVE  b[k].op = "start" <=> k > Len(s)
      <4>1. CASE k <= Len(s) /\ \E x \in V : b[k] = Stop(x)
        <5>1. b[k].op = "stop"
          BY <4>1, ActFields
        <5> QED
          BY <1>8, <4>1, <5>1
      <4>2. CASE k > Len(s) /\ \E x \in R : b[k] = Start(x)
        BY <4>2, ActFields
      <4> QED
        BY <1>9, <4>1, <4>2
    <3> QED
      BY <1>8, <3>1 DEF StartsAmong
  <2>2. Len(s) + 1 \in Int /\ Len(s) + Len(t) \in Int
    BY <1>8
  <2>3. Cardinality((Len(s) + 1)..(Len(s) + Len(t)))
           = IF Len(s) + 1 > Len(s) + Len(t) THEN 0
             ELSE Len(s) + Len(t) - (Len(s) + 1) + 1
    BY <2>2, FS_Interval
  <2> QED
    BY <1>8, <2>1, <2>3
<1> QED
  BY <1>4, <1>5, <1>7, <1>17, <1>18 DEF b, s, t

LEMMA QuitFacts ==
    ASSUME NEW c \in Kids, NEW after \in [Kids -> BOOLEAN],
           \A k \in Kids : after[k] = IF k \in Affected(c) THEN Returns(k) ELSE running[k]
    PROVE  LET b == GiveUpActions(after)
           IN  Quit(b, c) /\ Cardinality(StartsAmong(b)) = 0
<1> DEFINE V == {k \in Kids : after[k]}
           s == ToStops(Descending(V))
           b == Append(s, GiveUp)
<1>1. GiveUpActions(after) = b
  BY DEF GiveUpActions, ShutdownActions
<1>2. Stopping(s, V) /\ V \subseteq Kids
  BY StopsFacts
<1>3. \A x \in Kids : x \in V <=> (IF x \in Affected(c) THEN Returns(x) ELSE running[x])
  OBVIOUS
<1> HIDE DEF V, s
<1>4. /\ s \in Seq(Acts) /\ GiveUp \in Acts
      /\ \A k \in DOMAIN s : \E x \in V : s[k] = Stop(x)
      /\ \A x \in V : \E k \in DOMAIN s : s[k] = Stop(x)
  BY <1>2, ActKinds DEF Stopping
<1>5. /\ b \in Seq(Acts) /\ Len(s) \in Nat /\ Len(b) = Len(s) + 1
      /\ DOMAIN b = 1..(Len(s) + 1) /\ DOMAIN s = 1..Len(s)
      /\ \A k \in 1..Len(s) : b[k] = s[k]
      /\ b[Len(s) + 1] = GiveUp
  BY <1>4
<1> HIDE DEF b
<1>6. \A k \in DOMAIN b : k # Len(b) => k < Len(b) /\ \E x \in Kids : b[k] = Stop(x)
  BY <1>2, <1>4, <1>5
<1>7. \A x \in V : \E k \in DOMAIN b : b[k] = Stop(x)
  BY <1>4, <1>5
<1>8. Quit(b, c)
  <2>1. \A x \in Kids : (IF x \in Affected(c) THEN Returns(x) ELSE running[x])
            => \E k \in DOMAIN b : b[k] = Stop(x)
    BY <1>3, <1>7
  <2> QED
    BY <1>5, <1>6, <2>1 DEF Quit
<1>9. \A k \in DOMAIN b : b[k].op # "start"
  BY <1>5, <1>6, ActFields
<1>10. StartsAmong(b) = {}
  BY <1>9 DEF StartsAmong
<1> QED
  BY <1>1, <1>8, <1>10, FS_EmptySet

-----------------------------------------------------------------------------
(* The three outcomes of on_child_exit *)

\* Nobody is restarted.
Ends(c, r, rest) ==
    /\ ~ShouldRestart(c, r)
    /\ running' = [running EXCEPT ![c] = FALSE]
    /\ queue' = rest
    /\ restarts' = restarts
    /\ ordered' = ordered

\* The strategy is carried out.
FansOut(c, r, rest) ==
    /\ ShouldRestart(c, r)
    /\ running' \in [Kids -> BOOLEAN]
    /\ \A k \in Kids : running'[k] = IF k \in Affected(c) THEN Returns(k) ELSE running[k]
    /\ \E b : Fan(b, c) /\ queue' = rest \o b
    /\ \E n \in Nat : /\ restarts' = Remembered(n)
                      /\ ~(Len(Remembered(n)) > Intensity)
                      /\ ordered' = ordered \o Repeated(n, now)

\* The supervisor gives up.
Quits(c, r, rest) ==
    /\ ShouldRestart(c, r)
    /\ running' = [k \in Kids |-> FALSE]
    /\ \E b : Quit(b, c) /\ queue' = rest \o b
    /\ \E n \in Nat : restarts' = Remembered(n)
    /\ ordered' = ordered

LEMMA Decides ==
    ASSUME TypeOK, NEW c \in Kids, NEW r, NEW rest, Decide(c, r, rest), rest \in Seq(Acts)
    PROVE  Ends(c, r, rest) \/ FansOut(c, r, rest) \/ Quits(c, r, rest)
<1> DEFINE d == OnChildExit(c, r)
           gone == [running EXCEPT ![c] = FALSE]
           after == [k \in Kids |-> IF k \in Affected(c) THEN Returns(k) ELSE gone[k]]
           n == Len(ToRestart(c))
<1>1. /\ running' = d.run /\ restarts' = d.restarts /\ queue' = rest \o d.actions
      /\ ordered' = ordered \o Repeated(Cardinality(StartsAmong(d.actions)), now)
  BY DEF Decide
<1>2. running \in [Kids -> BOOLEAN] /\ strategy \in Strategies /\ ordered \in Seq(Times)
  BY DEF TypeOK
<1>3. /\ after \in [Kids -> BOOLEAN]
      /\ \A k \in Kids : after[k] = IF k \in Affected(c) THEN Returns(k) ELSE running[k]
  BY <1>2, RunFacts
<1>4. ordered \o Repeated(0, now) = ordered
  <2>1. Repeated(0, now) = <<>>
    BY DEF Repeated
  <2> QED
    BY <1>2, <2>1
<1>5. CASE ~ShouldRestart(c, r)
  <2>1. d = [run |-> gone, restarts |-> restarts, actions |-> <<>>]
    BY <1>5 DEF OnChildExit
  <2>2. StartsAmong(<<>>) = {}
    BY DEF StartsAmong
  <2>3. Cardinality(StartsAmong(<<>>)) = 0
    BY <2>2, FS_EmptySet
  <2>4. rest \o <<>> = rest
    OBVIOUS
  <2> QED
    BY <1>1, <1>4, <1>5, <2>1, <2>3, <2>4 DEF Ends
<1>6. CASE ShouldRestart(c, r) /\ Len(Remembered(n)) > Intensity
  <2>1. d = [run |-> [k \in Kids |-> FALSE], restarts |-> Remembered(n),
             actions |-> GiveUpActions(after)]
    BY <1>6 DEF OnChildExit
  <2>2. Quit(GiveUpActions(after), c) /\ Cardinality(StartsAmong(GiveUpActions(after))) = 0
    <3> HIDE DEF after
    <3> QED
      BY <1>3, QuitFacts
  <2>3. n \in Nat
    BY <1>2, FanFacts
  <2> HIDE DEF n, after, d
  <2>4. running' = [k \in Kids |-> FALSE] /\ restarts' = Remembered(n)
        /\ queue' = rest \o GiveUpActions(after) /\ ordered' = ordered
    BY <1>1, <1>4, <2>1, <2>2
  <2>5. \E u : Quit(u, c) /\ queue' = rest \o u
    BY <2>2, <2>4
  <2>6. \E m \in Nat : restarts' = Remembered(m)
    BY <2>3, <2>4
  <2> QED
    BY Zenon, <1>6, <2>4, <2>5, <2>6 DEF Quits
<1>7. CASE ShouldRestart(c, r) /\ ~(Len(Remembered(n)) > Intensity)
  <2> DEFINE b == ToStops(Survivors(gone, c)) \o ToStarts(ToRestart(c))
  <2>1. d = [run |-> after, restarts |-> Remembered(n), actions |-> b]
    BY <1>7 DEF OnChildExit
  <2>2. Fan(b, c) /\ Cardinality(StartsAmong(b)) = n /\ n \in Nat
    BY <1>2, FanFacts
  <2> HIDE DEF n, after, b, d
  <2>3. running' = after /\ restarts' = Remembered(n) /\ queue' = rest \o b
        /\ ordered' = ordered \o Repeated(n, now)
    BY <1>1, <2>1, <2>2
  <2>4. running' \in [Kids -> BOOLEAN]
        /\ \A k \in Kids : running'[k] = IF k \in Affected(c) THEN Returns(k) ELSE running[k]
    BY <1>3, <2>3
  <2>5. \E m \in Nat : /\ restarts' = Remembered(m)
                       /\ ~(Len(Remembered(m)) > Intensity)
                       /\ ordered' = ordered \o Repeated(m, now)
    BY <1>7, <2>2, <2>3
  <2>6. \E u : Fan(u, c) /\ queue' = rest \o u
    BY <2>2, <2>3
  <2> QED
    BY Zenon, <1>7, <2>4, <2>5, <2>6 DEF FansOut
<1> QED
  BY <1>5, <1>6, <1>7

-----------------------------------------------------------------------------
(* Types *)

States == {"unborn", "up", "dead"}
Exits == Insts \X ExitReasons

\* The types, and how instances, children and exits hang together.
Typed ==
    /\ TypeOK
    /\ queue \in Seq(Acts)
    /\ nextInst >= 1
    /\ \A i \in Insts : state[i] = "unborn" <=> i >= nextInst
    /\ \A i \in Insts : state[i] # "unborn" => kidOf[i] \in Kids
    /\ \A c \in Kids : live[c] # NoInst => live[c] < nextInst /\ kidOf[live[c]] = c
    /\ \A e \in Range(mail) : state[e[1]] = "dead"
    /\ phase # "drain" => queue = <<>>

\* Instances die, and nothing else happens to them; who is dead stays so.
Wanes ==
    /\ state' \in [Insts -> States]
    /\ mail' \in Seq(Exits)
    /\ \A j \in Insts : state'[j] = state[j] \/ (state[j] = "up" /\ state'[j] = "dead")
    /\ \A e \in Range(mail') : state'[e[1]] = "dead"

\* Instances die, and the supervisor has an Exit of each.
WanesHeard ==
    /\ Wanes
    /\ Range(mail) \subseteq Range(mail')
    /\ \A j \in Insts : state[j] = "up" /\ state'[j] # "up" => \E e \in Range(mail') : e[1] = j

\* What is pushed to the front is there with the rest.
LEMMA PushFacts ==
    ASSUME NEW S, NEW s \in Seq(S), NEW e \in S
    PROVE  <<e>> \o s \in Seq(S) /\ Range(<<e>> \o s) = {e} \cup Range(s)
<1> DEFINE u == <<e>>
<1>1. u \in Seq(S) /\ Len(u) = 1 /\ u[1] = e
  OBVIOUS
<1> HIDE DEF u
<1>2. \A i \in 1..Len(u) : i = 1
  BY <1>1
<1>3. Range(u) = {e}
  <2>1. e \in Range(u)
    BY <1>1, RangeMember
  <2>2. \A x \in Range(u) : x = e
    BY <1>1, <1>2, RangeMember
  <2> QED
    BY <2>1, <2>2
<1>4. u \o s \in Seq(S) /\ Range(u \o s) = {e} \cup Range(s)
  BY <1>1, <1>3, RangeConcat
<1> QED
  BY <1>4 DEF u

LEMMA DieFacts ==
    ASSUME Typed, NEW i \in Insts, NEW r \in ExitReasons, Up(i), Die(i, r)
    PROVE  WanesHeard /\ state' = [state EXCEPT ![i] = "dead"]
<1>1. state \in [Insts -> States] /\ mail \in Seq(Exits) /\ state[i] = "up"
  BY DEF Typed, TypeOK, Up, States, Exits
<1>2. \A e \in Range(mail) : e \in Exits /\ state[e[1]] = "dead"
  BY <1>1, RangeMember DEF Typed
<1>3. <<i, r>> \in Exits /\ \A e \in Exits : e[1] \in Insts
  BY DEF Exits
<1>4. PICK e : e = <<i, r>> /\ e \in Exits /\ e[1] = i
  BY <1>3
<1>5. mail' \in Seq(Exits) /\ Range(mail') = {e} \cup Range(mail)
  <2>1. mail' = <<e>> \o mail
    BY <1>4 DEF Die
  <2> QED
    BY <1>1, <1>4, <2>1, PushFacts
<1>6. state' = [state EXCEPT ![i] = "dead"]
  BY DEF Die
<1>7. state' \in [Insts -> States] /\ \A j \in Insts : state'[j] = IF j = i THEN "dead" ELSE state[j]
  BY <1>1, <1>6 DEF States
<1>8. \A x \in Range(mail') : state'[x[1]] = "dead"
  BY <1>2, <1>3, <1>4, <1>5, <1>7
<1>9. \A j \in Insts : state[j] = "up" /\ state'[j] # "up" => \E x \in Range(mail') : x[1] = j
  BY <1>4, <1>5, <1>7
<1> QED
  BY <1>1, <1>5, <1>6, <1>7, <1>8, <1>9 DEF WanesHeard, Wanes

LEMMA SignalFacts ==
    ASSUME Typed, NEW i \in Insts, NEW r \in ExitReasons, Signal(i, r)
    PROVE  /\ WanesHeard
           /\ r = "killed" => state'[i] # "up"
           /\ \A j \in Insts : j # i => state'[j] = state[j]
<1>1. state \in [Insts -> States] /\ mail \in Seq(Exits)
  BY DEF Typed, TypeOK, States, Exits
<1>2. CASE Up(i) /\ Die(i, r)
  BY <1>1, <1>2, DieFacts
<1>3. CASE /\ ~(Up(i) /\ (r = "killed" \/ ~Traps(i)))
           /\ UNCHANGED <<state, mail>>
  BY <1>1, <1>3 DEF WanesHeard, Wanes, Up, Typed
<1> QED
  BY <1>2, <1>3 DEF Signal

\* The deadlines that have passed, and whom they cost.
Overdue == {c \in Kids : \E x \in pending : x[1] = c /\ x[2] <= now}
Killed == {live[c] : c \in Overdue} \cap {i \in Insts : Up(i)}

LEMMA TimeoutFacts ==
    ASSUME Typed, RecvTimeout
    PROVE  /\ WanesHeard
           /\ \A i \in Insts : state'[i] = IF i \in Killed THEN "dead" ELSE state[i]
           /\ \A c \in Kids : live'[c] = IF c \in Overdue THEN NoInst ELSE live[c]
           /\ live' \in [Kids -> Insts \cup {NoInst}]
           /\ pending' \subseteq pending
           /\ phase = "wait" /\ phase' = "drain" /\ queue = <<>> /\ queue' = queue
           /\ \E x \in pending : x[2] <= now
           /\ UNCHANGED <<conf, coreVars, kidOf, nextInst, fails, now>>
<1> DEFINE es == {<<i, "killed">> : i \in Killed}
<1>1. /\ state' = [i \in Insts |-> IF i \in Killed THEN "dead" ELSE state[i]]
      /\ mail' = SetToSeq(es) \o mail
      /\ live' = [c \in Kids |-> IF c \in Overdue THEN NoInst ELSE live[c]]
      /\ pending' = {x \in pending : x[1] \notin Overdue}
  BY DEF RecvTimeout, Overdue, Killed
<1>2. /\ state \in [Insts -> States] /\ mail \in Seq(Exits)
      /\ live \in [Kids -> Insts \cup {NoInst}]
      /\ \A e \in Range(mail) : state[e[1]] = "dead"
  BY DEF Typed, TypeOK, States, Exits
<1>3. /\ phase = "wait" /\ phase' = "drain" /\ queue = <<>> /\ queue' = queue
      /\ \E x \in pending : x[2] <= now
      /\ UNCHANGED <<conf, coreVars, kidOf, nextInst, fails, now>>
  BY DEF RecvTimeout, Typed
<1>4. Killed \subseteq Insts /\ \A i \in Killed : state[i] = "up"
  BY DEF Killed, Up
<1>5. IsFiniteSet(es)
  <2>1. MaxInst \in Nat
    BY SupervisorAssumption
  <2>2. IsFiniteSet(Killed)
    <3>1. IsFiniteSet(Insts)
      BY <2>1, FS_Interval DEF Insts
    <3> QED
      BY <1>4, <3>1, FS_Subset
  <2> DEFINE f == [i \in Killed |-> <<i, "killed">>]
  <2>3. es = {f[i] : i \in Killed} /\ f \in [Killed -> es]
    OBVIOUS
  <2>4. f \in Surjection(Killed, es)
    BY <2>3 DEF Surjection
  <2> QED
    BY <2>2, <2>4, FS_Surjection
<1>6. es \subseteq Exits
  BY <1>4 DEF Exits, ExitReasons
<1>7. SetToSeq(es) \in Seq(Exits) /\ Range(SetToSeq(es)) = es
  <2>1. SetToSeq(es) \in Seq(es) /\ Range(SetToSeq(es)) = es
    BY <1>5, SetToSeqFacts
  <2>2. Seq(es) \subseteq Seq(Exits)
    BY <1>6
  <2> QED
    BY <2>1, <2>2
<1>8. mail' \in Seq(Exits) /\ Range(mail') = es \cup Range(mail)
  <2> HIDE DEF es
  <2> QED
    BY <1>1, <1>2, <1>7, RangeConcat
<1>9. state' \in [Insts -> States]
      /\ \A i \in Insts : state'[i] = IF i \in Killed THEN "dead" ELSE state[i]
  BY <1>1, <1>2 DEF States
<1>10. \A e \in Range(mail) : e[1] \in Insts
  BY <1>2, RangeMember DEF Exits
<1>11. \A e \in Range(mail') : state'[e[1]] = "dead"
  BY <1>2, <1>4, <1>8, <1>9, <1>10
<1>12. ASSUME NEW j \in Insts, state[j] = "up", state'[j] # "up"
       PROVE  \E e \in Range(mail') : e[1] = j
  <2>1. j \in Killed
    BY <1>9, <1>12
  <2>2. <<j, "killed">> \in Range(mail')
    BY <1>8, <2>1
  <2>3. <<j, "killed">>[1] = j
    OBVIOUS
  <2> QED
    BY <2>2, <2>3
<1>13. \A j \in Insts : state'[j] = state[j] \/ (state[j] = "up" /\ state'[j] = "dead")
  BY <1>4, <1>9
<1>14. WanesHeard
  BY <1>8, <1>9, <1>11, <1>12, <1>13 DEF WanesHeard, Wanes
<1>15. /\ \A c \in Kids : live'[c] = IF c \in Overdue THEN NoInst ELSE live[c]
       /\ live' \in [Kids -> Insts \cup {NoInst}]
       /\ pending' \subseteq pending
  BY <1>1, <1>2
<1> QED
  BY <1>3, <1>9, <1>14, <1>15

\* The action in front, by its kind.
LEMMA HeadFacts ==
    ASSUME Typed, phase = "drain", queue # <<>>
    PROVE  /\ Head(queue) = queue[1] /\ Head(queue) \in Acts /\ 1 \in DOMAIN queue
           /\ Tail(queue) \in Seq(Acts)
           /\ Head(queue).op = "start" =>
                 Head(queue).kid \in Kids /\ queue[1] = Start(Head(queue).kid)
           /\ Head(queue).op = "stop" =>
                 Head(queue).kid \in Kids /\ queue[1] = Stop(Head(queue).kid)
           /\ Head(queue).op = "give_up" => queue[1] = GiveUp
<1>1. queue \in Seq(Acts)
  BY DEF Typed
<1>2. /\ Head(queue) = queue[1] /\ Head(queue) \in Acts /\ 1 \in DOMAIN queue
      /\ Tail(queue) \in Seq(Acts)
  BY <1>1, TailPlaces
<1> QED
  BY <1>2, ActKinds

\* What is remembered: the restarts from some place on, behind those before the
\* window, and the new ones.
Keeps(q, f, n) ==
    /\ q \in Seq(Times)
    /\ Len(q) = Len(restarts) - f + 1 + n
    /\ \A k \in 1..(Len(restarts) - f + 1) : q[k] = restarts[k + f - 1]
    /\ \A k \in DOMAIN q : k > Len(restarts) - f + 1 => q[k] = now
    /\ \A k \in 1..(f - 1) : restarts[k] < now - Period

LEMMA RememberedFacts ==
    ASSUME restarts \in Seq(Times), now \in Times, NEW n \in Nat
    PROVE  \E f \in 1..(Len(restarts) + 1) : Keeps(Remembered(n), f, n)
<1> DEFINE old == {k \in DOMAIN restarts : restarts[k] >= now - Period}
           S == old \cup {Len(restarts) + 1}
           f == Min(S)
           a == SubSeq(restarts, f, Len(restarts))
           b == Repeated(n, now)
<1>1. Len(restarts) \in Nat /\ DOMAIN restarts = 1..Len(restarts) /\ Times \subseteq Nat
      /\ Period \in Nat /\ now \in Nat /\ \A k \in DOMAIN restarts : restarts[k] \in Nat
  <2>1. Times \subseteq Nat /\ Period \in Nat
    BY SupervisorAssumption DEF Times
  <2>2. \A k \in 1..Len(restarts) : restarts[k] \in Times
    BY RangeMember
  <2>3. Len(restarts) \in Nat /\ DOMAIN restarts = 1..Len(restarts)
    OBVIOUS
  <2> QED
    BY <2>1, <2>2, <2>3
<1>2. S \in SUBSET Nat /\ S # {}
  BY <1>1
<1>3. f \in S /\ \A y \in S : f <= y
  BY <1>2, LeastMember
<1> HIDE DEF f
<1>4. f \in 1..(Len(restarts) + 1) /\ f \in Nat
  BY <1>1, <1>3
<1>5. ASSUME NEW k \in 1..(f - 1)
      PROVE  restarts[k] < now - Period
  <2>1. k \in DOMAIN restarts /\ ~(f <= k)
    BY <1>1, <1>4
  <2>2. ~(restarts[k] >= now - Period)
    BY <1>3, <2>1
  <2> QED
    BY <1>1, <2>1, <2>2
<1>6. /\ a \in Seq(Times) /\ Len(a) = Len(restarts) - f + 1
      /\ \A k \in 1..(Len(restarts) - f + 1) : a[k] = restarts[k + f - 1]
  BY <1>1, <1>4
<1>7. b \in Seq(Times) /\ Len(b) = n /\ \A k \in 1..n : b[k] = now
  BY DEF Repeated
<1>8. Remembered(n) = a \o b
  BY DEF Remembered, NotBefore, f
<1> HIDE DEF a, b
<1>9. DOMAIN a = 1..Len(a) /\ DOMAIN b = 1..Len(b)
  BY <1>6, <1>7
<1> DEFINE q == a \o b
<1>10. /\ q \in Seq(Times)
       /\ Len(a) \in Nat /\ Len(b) \in Nat /\ Len(q) = Len(a) + Len(b)
       /\ DOMAIN q = 1..(Len(a) + Len(b))
       /\ DOMAIN a = 1..Len(a) /\ DOMAIN b = 1..Len(b)
       /\ \A k \in DOMAIN a : k \in DOMAIN q /\ k <= Len(a) /\ q[k] = a[k]
       /\ \A k \in DOMAIN b : Len(a) + k \in DOMAIN q /\ q[Len(a) + k] = b[k]
       /\ \A k \in DOMAIN q : \/ k \in DOMAIN a /\ k <= Len(a) /\ q[k] = a[k]
                              \/ /\ k > Len(a) /\ k - Len(a) \in DOMAIN b
                                 /\ q[k] = b[k - Len(a)]
  BY <1>6, <1>7, Places
<1> HIDE DEF q
<1>11. \A k \in 1..(Len(restarts) - f + 1) : q[k] = restarts[k + f - 1]
  BY <1>6, <1>9, <1>10
<1>12. ASSUME NEW k \in DOMAIN q, k > Len(restarts) - f + 1
       PROVE  q[k] = now
  <2>1. k \in Nat /\ Len(a) \in Nat /\ ~(k <= Len(a))
    BY <1>6, <1>10, <1>12, <1>7, <1>1, <1>4
  <2>2. k - Len(a) \in DOMAIN b /\ q[k] = b[k - Len(a)]
    BY <1>10, <1>12, <2>1
  <2> QED
    BY <1>7, <1>9, <2>2
<1>13. Len(q) = Len(restarts) - f + 1 + n
  BY <1>6, <1>7, <1>10
<1>14. Remembered(n) = q
  BY <1>8 DEF q
<1>15. Keeps(q, f, n)
  BY <1>5, <1>10, <1>11, <1>12, <1>13 DEF Keeps
<1> QED
  BY <1>4, <1>14, <1>15

\* The parts of it that different steps disturb.
CoreTyped ==
    /\ strategy \in Strategies
    /\ spec \in [Kids -> ChildSpecs]
    /\ running \in [Kids -> BOOLEAN]
    /\ restarts \in Seq(Times)
    /\ ordered \in Seq(Times)
    /\ now \in Times

LoopTyped ==
    /\ pending \subseteq Kids \X Nat
    /\ phase \in {"drain", "wait", "gone"}
    /\ queue \in Seq(Acts)
    /\ phase # "drain" => queue = <<>>

LiveTyped ==
    /\ live \in [Kids -> Insts \cup {NoInst}]
    /\ \A c \in Kids : live[c] # NoInst => live[c] < nextInst /\ kidOf[live[c]] = c

WorldTyped ==
    /\ mail \in Seq(Exits)
    /\ state \in [Insts -> States]
    /\ kidOf \in [Insts -> Kids \cup {NoKid}]
    /\ nextInst \in Nat /\ nextInst >= 1
    /\ fails \in Nat
    /\ \A i \in Insts : state[i] = "unborn" <=> i >= nextInst
    /\ \A i \in Insts : state[i] # "unborn" => kidOf[i] \in Kids
    /\ \A e \in Range(mail) : state[e[1]] = "dead"

LEMMA TypedParts == Typed <=> CoreTyped /\ LoopTyped /\ LiveTyped /\ WorldTyped
<1>1. Seq(Acts) \subseteq Seq([op : {"start", "stop", "give_up"}, kid : Kids \cup {NoKid}])
  <2> DEFINE R == [op : {"start", "stop", "give_up"}, kid : Kids \cup {NoKid}]
  <2>1. Acts \subseteq R
    BY DEF Acts, Start, Stop, GiveUp
  <2> HIDE DEF R
  <2>2. Seq(Acts) \subseteq Seq(R)
    BY <2>1
  <2> QED
    BY <2>2 DEF R
<1>2. Typed => CoreTyped
  BY DEF Typed, TypeOK, CoreTyped
<1>3. Typed => LoopTyped
  BY DEF Typed, TypeOK, LoopTyped
<1>4. Typed => LiveTyped
  BY DEF Typed, TypeOK, LiveTyped
<1>5. Typed => WorldTyped
  BY DEF Typed, TypeOK, WorldTyped, Exits, States
<1>6. CoreTyped /\ LoopTyped /\ LiveTyped /\ WorldTyped => TypeOK
  BY <1>1 DEF TypeOK, CoreTyped, LoopTyped, LiveTyped, WorldTyped, Exits, States
<1>7. CoreTyped /\ LoopTyped /\ LiveTyped /\ WorldTyped => Typed
  BY <1>6 DEF Typed, LoopTyped, LiveTyped, WorldTyped
<1> QED
  BY <1>2, <1>3, <1>4, <1>5, <1>7

\* Instances that only die leave the world well typed.
LEMMA WanesTyped ==
    ASSUME WorldTyped, Wanes, UNCHANGED <<kidOf, nextInst, fails>>
    PROVE  WorldTyped'
<1>1. \A i \in Insts : state'[i] = "unborn" <=> state[i] = "unborn"
  BY DEF Wanes
<1> QED
  BY <1>1 DEF WorldTyped, Wanes

\* The core's answer is well typed.
LEMMA DecideTyped ==
    ASSUME Typed, NEW c \in Kids, NEW r, NEW rest \in Seq(Acts), Decide(c, r, rest),
           UNCHANGED <<conf, now>>
    PROVE  CoreTyped' /\ queue' \in Seq(Acts)
<1>1. TypeOK /\ CoreTyped
  BY TypedParts DEF Typed
<1>2. Ends(c, r, rest) \/ FansOut(c, r, rest) \/ Quits(c, r, rest)
  BY <1>1, Decides
<1>3. \A n \in Nat : Remembered(n) \in Seq(Times)
  <2> TAKE n \in Nat
  <2>1. PICK f \in 1..(Len(restarts) + 1) : Keeps(Remembered(n), f, n)
    BY <1>1, RememberedFacts DEF CoreTyped
  <2> QED
    BY <2>1 DEF Keeps
<1>4. \A n \in Nat : ordered \o Repeated(n, now) \in Seq(Times)
  <2> TAKE n \in Nat
  <2>1. Repeated(n, now) \in Seq(Times)
    BY <1>1 DEF Repeated, CoreTyped
  <2> QED
    BY <1>1, <2>1 DEF CoreTyped
<1>5. strategy' = strategy /\ spec' = spec /\ now' = now
  BY DEF conf
<1>6. CASE Ends(c, r, rest)
  BY <1>1, <1>5, <1>6 DEF Ends, CoreTyped
<1>7. CASE FansOut(c, r, rest)
  <2>1. running' \in [Kids -> BOOLEAN] /\ restarts' \in Seq(Times) /\ ordered' \in Seq(Times)
    BY <1>3, <1>4, <1>7 DEF FansOut
  <2>2. PICK b : Fan(b, c) /\ queue' = rest \o b
    BY <1>7 DEF FansOut
  <2>3. b \in Seq(Acts)
    BY <2>2 DEF Fan
  <2> QED
    BY <1>1, <1>5, <2>1, <2>2, <2>3 DEF CoreTyped
<1>8. CASE Quits(c, r, rest)
  <2>1. running' \in [Kids -> BOOLEAN] /\ restarts' \in Seq(Times) /\ ordered' \in Seq(Times)
    BY <1>1, <1>3, <1>8 DEF Quits, CoreTyped
  <2>2. PICK b : Quit(b, c) /\ queue' = rest \o b
    BY <1>8 DEF Quits
  <2>3. b \in Seq(Acts)
    BY <2>2 DEF Quit
  <2> QED
    BY <1>1, <1>5, <2>1, <2>2, <2>3 DEF CoreTyped
<1> QED
  BY <1>2, <1>6, <1>7, <1>8

LEMMA InitTyped ==
    ASSUME Init
    PROVE  Typed
<1>1. N \in Nat /\ MaxNow \in Nat /\ MaxInst \in Nat
  BY SupervisorAssumption
<1>2. Kids \in SUBSET Kids
  OBVIOUS
<1>3. ToStarts(Ascending(Kids)) \in Seq(Acts)
  BY <1>2, StartsFacts DEF Starting
<1>4. CoreTyped
  BY <1>1 DEF CoreTyped, Init, Times
<1>5. LoopTyped
  BY <1>3 DEF LoopTyped, Init
<1>6. LiveTyped
  BY DEF LiveTyped, Init
<1>7. mail \in Seq(Exits) /\ Range(mail) = {}
  <2>1. mail = <<>> /\ mail \in Seq(Exits)
    BY DEF Init
  <2> QED
    BY <2>1, RangeEmpty
<1>8. WorldTyped
  BY <1>1, <1>7 DEF WorldTyped, Init, States, Insts
<1> QED
  BY <1>4, <1>5, <1>6, <1>8, TypedParts

\* What a step does, for the child it is about.
Starts(c) ==
    /\ DoStart
    /\ queue # <<>> /\ queue[1] = Start(c) /\ queue' = Tail(queue)
    /\ nextInst \in Insts /\ state[nextInst] = "unborn"
    /\ live' = [live EXCEPT ![c] = nextInst]
    /\ state' = [state EXCEPT ![nextInst] = "up"]
    /\ kidOf' = [kidOf EXCEPT ![nextInst] = c]
    /\ nextInst' = nextInst + 1
    /\ UNCHANGED <<conf, coreVars, pending, phase, mail, fails, now>>

Fails(c) ==
    /\ StartFails
    /\ queue # <<>> /\ queue[1] = Start(c)
    /\ Decide(c, "exception", Tail(queue))
    /\ fails' = fails + 1
    /\ UNCHANGED <<conf, live, pending, phase, mail, state, kidOf, nextInst, now>>

Stops(c) ==
    /\ DoStop
    /\ queue # <<>> /\ queue[1] = Stop(c) /\ queue' = Tail(queue)
    /\ live[c] \in Insts
    /\ WanesHeard
    /\ spec[c].shutdown = "brutal_kill" => state'[live[c]] # "up"
    /\ \A j \in Insts : j # live[c] => state'[j] = state[j]
    /\ live' = IF spec[c].shutdown = "brutal_kill" THEN [live EXCEPT ![c] = NoInst] ELSE live
    /\ pending' = IF spec[c].shutdown = "timeout" THEN pending \cup {<<c, now + Patience>>}
                  ELSE pending
    /\ UNCHANGED <<conf, coreVars, phase, kidOf, nextInst, fails, now>>

Hears(c) ==
    /\ RecvExit
    /\ queue = <<>> /\ mail # <<>> /\ mail' = Tail(mail)
    /\ phase \in {"drain", "wait"} /\ phase' = "drain"
    /\ live[c] = Head(mail)[1] /\ live[c] \in Insts
    /\ live' = [live EXCEPT ![c] = NoInst]
    /\ pending' = {x \in pending : x[1] # c}
    /\ \E r \in ExitReasons : Decide(c, r, <<>>)
    /\ UNCHANGED <<conf, state, kidOf, nextInst, fails, now>>

Ignores ==
    /\ RecvExit
    /\ queue = <<>> /\ mail # <<>> /\ mail' = Tail(mail)
    /\ phase \in {"drain", "wait"} /\ phase' = "drain"
    /\ \A c \in Kids : live[c] # Head(mail)[1]
    /\ UNCHANGED <<conf, coreVars, live, pending, queue, state, kidOf, nextInst, fails, now>>

LEMMA DrainSteps ==
    ASSUME Typed
    PROVE  /\ DoStart => \E c \in Kids : Starts(c)
           /\ StartFails => \E c \in Kids : Fails(c)
           /\ DoStop => \E c \in Kids : Stops(c)
<1>1. LiveTyped /\ WorldTyped /\ CoreTyped
  BY TypedParts
<1> DEFINE c == Head(queue).kid
<1>2. ASSUME DoStart
      PROVE  \E d \in Kids : Starts(d)
  <2>1. phase = "drain" /\ queue # <<>> /\ Head(queue).op = "start"
    BY <1>2 DEF DoStart, Draining
  <2>2. c \in Kids /\ queue[1] = Start(c)
    BY <2>1, HeadFacts
  <2>3. nextInst \in Insts /\ nextInst \in Int
    BY <1>2 DEF DoStart, Insts
  <2>4. state[nextInst] = "unborn"
    BY <1>1, <2>3 DEF WorldTyped
  <2> QED
    BY <1>2, <2>1, <2>2, <2>3, <2>4 DEF DoStart, Starts
<1>3. ASSUME StartFails
      PROVE  \E d \in Kids : Fails(d)
  <2>1. phase = "drain" /\ queue # <<>> /\ Head(queue).op = "start"
    BY <1>3 DEF StartFails, Draining
  <2>2. c \in Kids /\ queue[1] = Start(c)
    BY <2>1, HeadFacts
  <2>3. /\ Decide(c, "exception", Tail(queue)) /\ fails' = fails + 1
        /\ UNCHANGED <<conf, live, pending, phase, mail, state, kidOf, nextInst, now>>
    BY <1>3 DEF StartFails
  <2> HIDE DEF c
  <2>4. Fails(c)
    BY <1>3, <2>1, <2>2, <2>3 DEF Fails
  <2> QED
    BY <2>2, <2>4
<1>4. ASSUME DoStop
      PROVE  \E d \in Kids : Stops(d)
  <2> DEFINE how == spec[c].shutdown
             r == IF how = "brutal_kill" THEN "killed" ELSE "shutdown"
  <2>1. phase = "drain" /\ queue # <<>> /\ Head(queue).op = "stop"
    BY <1>4 DEF DoStop, Draining
  <2>2. c \in Kids /\ queue[1] = Stop(c)
    BY <2>1, HeadFacts
  <2>3. /\ live[c] # NoInst
        /\ Signal(live[c], r)
        /\ live' = IF how = "brutal_kill" THEN [live EXCEPT ![c] = NoInst] ELSE live
        /\ pending' = IF how = "timeout" THEN pending \cup {<<c, now + Patience>>} ELSE pending
        /\ queue' = Tail(queue)
        /\ UNCHANGED <<conf, coreVars, phase, kidOf, nextInst, fails, now>>
    BY <1>4 DEF DoStop
  <2>4. live[c] \in Insts
    BY <1>1, <2>2, <2>3 DEF LiveTyped
  <2>5. r \in ExitReasons /\ (how = "brutal_kill" => r = "killed")
    BY DEF ExitReasons
  <2> HIDE DEF r, c
  <2>6. /\ WanesHeard
        /\ r = "killed" => state'[live[c]] # "up"
        /\ \A j \in Insts : j # live[c] => state'[j] = state[j]
    BY <2>3, <2>4, <2>5, SignalFacts
  <2>7. Stops(c)
    BY <1>4, <2>1, <2>2, <2>3, <2>4, <2>5, <2>6 DEF Stops
  <2> QED
    BY <2>2, <2>7
<1> QED
  BY <1>2, <1>3, <1>4

LEMMA RecvSteps ==
    ASSUME Typed, RecvExit
    PROVE  Ignores \/ \E c \in Kids : Hears(c)
<1> DEFINE i == Head(mail)[1]
           r == Head(mail)[2]
<1>1. /\ phase \in {"drain", "wait"} /\ queue = <<>> /\ mail # <<>>
      /\ mail' = Tail(mail) /\ phase' = "drain"
      /\ UNCHANGED <<conf, state, kidOf, nextInst, fails, now>>
      /\ \/ \E c \in Kids :
               /\ live[c] = i
               /\ live' = [live EXCEPT ![c] = NoInst]
               /\ pending' = {x \in pending : x[1] # c}
               /\ Decide(c, r, <<>>)
         \/ /\ \A c \in Kids : live[c] # i
            /\ UNCHANGED <<coreVars, live, pending, queue>>
  BY DEF RecvExit
<1>2. i \in Insts /\ r \in ExitReasons
  <2>1. mail \in Seq(Exits)
    BY TypedParts DEF WorldTyped
  <2>2. Head(mail) \in Exits
    BY <1>1, <2>1
  <2> QED
    BY <2>2 DEF Exits
<1> HIDE DEF r
<1>3. ASSUME NEW c \in Kids, live[c] = i, live' = [live EXCEPT ![c] = NoInst],
             pending' = {x \in pending : x[1] # c}, Decide(c, r, <<>>)
      PROVE  Hears(c)
  BY <1>1, <1>2, <1>3 DEF Hears
<1>4. ASSUME \A c \in Kids : live[c] # i, UNCHANGED <<coreVars, live, pending, queue>>
      PROVE  Ignores
  BY <1>1, <1>4 DEF Ignores
<1> QED
  BY <1>1, <1>3, <1>4

LEMMA TypedStep ==
    ASSUME Typed, [Next]_vars
    PROVE  Typed'
<1>1. /\ CoreTyped /\ LoopTyped /\ LiveTyped /\ WorldTyped
      /\ queue # <<>> => Tail(queue) \in Seq(Acts)
  <2>1. CoreTyped /\ LoopTyped /\ LiveTyped /\ WorldTyped
    BY TypedParts
  <2> QED
    BY <2>1 DEF LoopTyped
<1>2. \A c \in Kids : live[c] # NoInst => live[c] \in Insts /\ live[c] \in Int
  BY <1>1 DEF LiveTyped, Insts
<1>3. CoreTyped' /\ LoopTyped' /\ LiveTyped' /\ WorldTyped' => Typed'
  BY TypedParts, PTL
<1>4. ASSUME DoStart
      PROVE  Typed'
  <2>1. PICK c \in Kids : Starts(c)
    BY <1>4, DrainSteps
  <2>2. CoreTyped'
    BY <1>1, <2>1 DEF Starts, CoreTyped, conf, coreVars
  <2>3. LoopTyped'
    BY <1>1, <2>1 DEF Starts, LoopTyped, DoStart, Draining
  <2>4. LiveTyped'
    <3>1. live' \in [Kids -> Insts \cup {NoInst}]
      BY <1>1, <2>1 DEF Starts, LiveTyped
    <3>2. ASSUME NEW d \in Kids, live'[d] # NoInst
          PROVE  live'[d] < nextInst' /\ kidOf'[live'[d]] = d
      <4>1. CASE d = c
        BY <1>1, <2>1, <4>1 DEF Starts, LiveTyped, WorldTyped
      <4>2. CASE d # c
        <5>1. live'[d] = live[d] /\ live[d] < nextInst /\ kidOf[live[d]] = d /\ live[d] \in Insts
          BY <1>1, <1>2, <2>1, <3>2, <4>2 DEF Starts, LiveTyped
        <5> QED
          BY <1>1, <1>2, <2>1, <5>1 DEF Starts, WorldTyped, Insts
      <4> QED
        BY <4>1, <4>2
    <3> QED
      BY <3>1, <3>2 DEF LiveTyped
  <2>5. WorldTyped'
    <3>1. /\ mail' = mail /\ fails' = fails /\ nextInst' = nextInst + 1
          /\ \A i \in Insts : state'[i] = IF i = nextInst THEN "up" ELSE state[i]
          /\ \A i \in Insts : kidOf'[i] = IF i = nextInst THEN c ELSE kidOf[i]
          /\ state' \in [Insts -> States] /\ kidOf' \in [Insts -> Kids \cup {NoKid}]
      BY <1>1, <2>1 DEF Starts, WorldTyped, States
    <3>2. \A e \in Range(mail) : e[1] \in Insts
      BY <1>1, RangeMember DEF WorldTyped, Exits
    <3>3. \A e \in Range(mail') : state'[e[1]] = "dead"
      BY <1>1, <2>1, <3>1, <3>2 DEF Starts, WorldTyped
    <3>4. \A i \in Insts : state'[i] = "unborn" <=> i >= nextInst'
      BY <1>1, <2>1, <3>1 DEF Starts, WorldTyped, Insts
    <3>5. \A i \in Insts : state'[i] # "unborn" => kidOf'[i] \in Kids
      BY <1>1, <2>1, <3>1 DEF WorldTyped
    <3> QED
      BY <1>1, <3>1, <3>3, <3>4, <3>5 DEF WorldTyped
  <2> QED
    BY <1>3, <2>2, <2>3, <2>4, <2>5
<1>5. ASSUME StartFails
      PROVE  Typed'
  <2>1. PICK c \in Kids : Fails(c)
    BY <1>5, DrainSteps
  <2>2. CoreTyped' /\ queue' \in Seq(Acts)
    BY <1>1, <2>1, DecideTyped DEF Fails
  <2>3. LoopTyped'
    BY <1>1, <2>1, <2>2 DEF Fails, LoopTyped, StartFails, Draining
  <2>4. LiveTyped'
    BY <1>1, <2>1 DEF Fails, LiveTyped
  <2>5. WorldTyped'
    BY <1>1, <2>1 DEF Fails, WorldTyped
  <2> QED
    BY <1>3, <2>2, <2>3, <2>4, <2>5
<1>6. ASSUME StopUnknown
      PROVE  Typed'
  <2>1. CoreTyped' /\ LiveTyped' /\ WorldTyped'
    BY <1>1, <1>6 DEF StopUnknown, CoreTyped, LiveTyped, WorldTyped, conf, coreVars, worldVars
  <2>2. LoopTyped'
    BY <1>1, <1>6 DEF StopUnknown, Draining, LoopTyped
  <2> QED
    BY <1>3, <2>1, <2>2
<1>7. ASSUME DoStop
      PROVE  Typed'
  <2>1. PICK c \in Kids : Stops(c)
    BY <1>7, DrainSteps
  <2>2. CoreTyped'
    BY <1>1, <2>1 DEF Stops, CoreTyped, conf, coreVars
  <2>3. LoopTyped'
    <3>1. now + Patience \in Nat
      BY <1>1, SupervisorAssumption DEF CoreTyped, Times
    <3>2. pending' \subseteq Kids \X Nat
      BY <1>1, <2>1, <3>1 DEF Stops, LoopTyped
    <3> QED
      BY <1>1, <2>1, <3>2 DEF Stops, LoopTyped, DoStop, Draining
  <2>4. LiveTyped'
    BY <1>1, <2>1 DEF Stops, LiveTyped
  <2>5. WorldTyped'
    BY <1>1, <2>1, WanesTyped DEF Stops, WanesHeard
  <2> QED
    BY <1>3, <2>2, <2>3, <2>4, <2>5
<1>8. ASSUME DoGiveUp
      PROVE  Typed'
  <2>1. CoreTyped'
    BY <1>1, <1>8 DEF DoGiveUp, CoreTyped, conf, coreVars
  <2>2. LoopTyped' /\ LiveTyped'
    BY <1>1, <1>8 DEF DoGiveUp, LoopTyped, LiveTyped
  <2>3. mail' \in Seq(Exits) /\ Range(mail') = {}
    <3>1. mail' = <<>> /\ mail' \in Seq(Exits)
      BY <1>8 DEF DoGiveUp
    <3> QED
      BY <3>1, RangeEmpty
  <2>4. /\ state' \in [Insts -> States]
        /\ \A i \in Insts : state'[i] = state[i] \/ (state[i] = "up" /\ state'[i] = "dead")
    BY <1>1, <1>8 DEF DoGiveUp, WorldTyped, States, Up
  <2>5. WorldTyped'
    BY <1>1, <1>8, <2>3, <2>4, WanesTyped DEF DoGiveUp, Wanes
  <2> QED
    BY <1>3, <2>1, <2>2, <2>5
<1>9. ASSUME RecvWait
      PROVE  Typed'
  <2>1. CoreTyped' /\ LiveTyped' /\ WorldTyped'
    BY <1>1, <1>9 DEF RecvWait, CoreTyped, LiveTyped, WorldTyped, conf, coreVars, worldVars
  <2>2. LoopTyped'
    BY <1>1, <1>9 DEF RecvWait, LoopTyped
  <2> QED
    BY <1>3, <2>1, <2>2
<1>10. ASSUME RecvExit
       PROVE  Typed'
  <2>1. ASSUME mail # <<>>, mail' = Tail(mail), UNCHANGED <<state, kidOf, nextInst, fails>>
        PROVE  WorldTyped'
    <3>1. Tail(mail) \in Seq(Exits) /\ Range(Tail(mail)) \subseteq Range(mail)
      BY <1>1, <2>1, RangeHeadTail DEF WorldTyped
    <3> QED
      BY <1>1, <2>1, <3>1 DEF WorldTyped
  <2>2. ASSUME Ignores
        PROVE  Typed'
    <3>1. CoreTyped' /\ LiveTyped'
      BY <1>1, <2>2 DEF Ignores, CoreTyped, LiveTyped, conf, coreVars
    <3>2. LoopTyped'
      BY <1>1, <2>2 DEF Ignores, LoopTyped
    <3> QED
      BY <1>3, <2>1, <2>2, <3>1, <3>2 DEF Ignores
  <2>3. ASSUME NEW c \in Kids, Hears(c)
        PROVE  Typed'
    <3>1. PICK r \in ExitReasons : Decide(c, r, <<>>)
      BY <2>3 DEF Hears
    <3>2. <<>> \in Seq(Acts)
      OBVIOUS
    <3>3. CoreTyped' /\ queue' \in Seq(Acts)
      BY <2>3, <3>1, <3>2, DecideTyped DEF Hears
    <3>4. LoopTyped'
      BY <1>1, <2>3, <3>3 DEF Hears, LoopTyped
    <3>5. LiveTyped'
      BY <1>1, <2>3 DEF Hears, LiveTyped
    <3> QED
      BY <1>3, <2>1, <2>3, <3>3, <3>4, <3>5 DEF Hears
  <2> QED
    BY <1>10, <2>2, <2>3, RecvSteps
<1>11. ASSUME RecvTimeout
       PROVE  Typed'
  <2>1. /\ WanesHeard
        /\ \A c \in Kids : live'[c] = IF c \in Overdue THEN NoInst ELSE live[c]
        /\ live' \in [Kids -> Insts \cup {NoInst}]
        /\ pending' \subseteq pending
        /\ phase = "wait" /\ phase' = "drain" /\ queue = <<>> /\ queue' = queue
        /\ UNCHANGED <<conf, coreVars, kidOf, nextInst, fails, now>>
    BY <1>11, TimeoutFacts
  <2>2. CoreTyped'
    BY <1>1, <2>1 DEF CoreTyped, conf, coreVars
  <2>3. LoopTyped'
    BY <1>1, <2>1 DEF LoopTyped
  <2>4. LiveTyped'
    BY <1>1, <2>1 DEF LiveTyped
  <2>5. WorldTyped'
    BY <1>1, <2>1, WanesTyped DEF WanesHeard
  <2> QED
    BY <1>3, <2>2, <2>3, <2>4, <2>5
<1>12. ASSUME NEW i \in Insts, NEW r \in {"normal", "exception"}, ChildExits(i, r)
       PROVE  Typed'
  <2>1. /\ WanesHeard
        /\ UNCHANGED <<conf, coreVars, loopVars, kidOf, nextInst, fails, now>>
    BY <1>12, DieFacts DEF ChildExits, ExitReasons
  <2>2. CoreTyped' /\ LoopTyped' /\ LiveTyped'
    BY <1>1, <2>1 DEF CoreTyped, LoopTyped, LiveTyped, conf, coreVars, loopVars
  <2>3. WorldTyped'
    BY <1>1, <2>1, WanesTyped DEF WanesHeard
  <2> QED
    BY <1>3, <2>2, <2>3
<1>13. ASSUME Tick
       PROVE  Typed'
  <2>1. LoopTyped' /\ LiveTyped' /\ WorldTyped'
    BY <1>1, <1>13 DEF Tick, LoopTyped, LiveTyped, WorldTyped, conf, coreVars, loopVars, worldVars
  <2>2. now' \in Times
    BY <1>1, <1>13, SupervisorAssumption DEF Tick, CoreTyped, Times
  <2>3. CoreTyped'
    BY <1>1, <1>13, <2>2 DEF Tick, CoreTyped, conf, coreVars
  <2> QED
    BY <1>3, <2>1, <2>3
<1>14. ASSUME UNCHANGED vars
       PROVE  Typed'
  <2>1. CoreTyped' /\ LoopTyped' /\ LiveTyped' /\ WorldTyped'
    BY <1>1, <1>14 DEF vars, CoreTyped, LoopTyped, LiveTyped, WorldTyped, conf, coreVars,
                       loopVars, worldVars
  <2> QED
    BY <1>3, <2>1
<1> QED
  BY <1>4, <1>5, <1>6, <1>7, <1>8, <1>9, <1>10, <1>11, <1>12, <1>13, <1>14 DEF Next, Loop

\* Beyond the types: actions are about children, an instance in the table of the
\* loop or in an Exit has been spawned, an instance in the table is of its child,
\* and whoever an Exit tells of is dead (registry.rs 731-739).
THEOREM SupervisorTyped == Spec => []Typed
<1>1. Init => Typed
  BY InitTyped
<1>2. Typed /\ [Next]_vars => Typed'
  BY TypedStep
<1> QED
  BY <1>1, <1>2, PTL DEF Spec

\* What the core, the loop and the children keep has its type; what the core
\* remembers of restarts are times at which there was one, whatever
\* forget_restarts_before dropped.
THEOREM SupervisorTypes == Spec => []TypeOK
<1>1. Typed => TypeOK
  BY DEF Typed
<1> QED
  BY <1>1, SupervisorTyped, PTL

-----------------------------------------------------------------------------
(* The brake *)

\* The remembered restart that stands for the one ordered as the k-th.
Trace(k) == Len(restarts) - (Len(ordered) - k)

\* What the core remembers is in order and in the past, and for every restart
\* ordered it remembers one no older, unless that one is out of the window.
Remembering ==
    /\ \A i, j \in DOMAIN restarts : i <= j => restarts[i] <= restarts[j]
    /\ \A i \in DOMAIN restarts : restarts[i] <= now
    /\ \A k \in DOMAIN ordered :
          \/ ordered[k] < now - Period
          \/ Trace(k) \in DOMAIN restarts /\ restarts[Trace(k)] >= ordered[k]

LEMMA TimesFacts ==
    ASSUME CoreTyped
    PROVE  /\ Times \subseteq Nat /\ Period \in Nat /\ Intensity \in Nat /\ now \in Nat
           /\ Len(restarts) \in Nat /\ DOMAIN restarts = 1..Len(restarts)
           /\ \A k \in DOMAIN restarts : restarts[k] \in Nat
           /\ Len(ordered) \in Nat /\ DOMAIN ordered = 1..Len(ordered)
           /\ \A k \in DOMAIN ordered : ordered[k] \in Nat
<1>1. Times \subseteq Nat /\ Period \in Nat /\ Intensity \in Nat
  BY SupervisorAssumption DEF Times
<1>2. restarts \in Seq(Times) /\ ordered \in Seq(Times) /\ now \in Times
  BY DEF CoreTyped
<1>3. \A k \in 1..Len(restarts) : restarts[k] \in Times
  BY <1>2, RangeMember
<1>4. \A k \in 1..Len(ordered) : ordered[k] \in Times
  BY <1>2, RangeMember
<1>5. /\ Len(restarts) \in Nat /\ DOMAIN restarts = 1..Len(restarts)
      /\ Len(ordered) \in Nat /\ DOMAIN ordered = 1..Len(ordered)
  BY <1>2
<1> QED
  BY Zenon, <1>1, <1>2, <1>3, <1>4, <1>5

\* What is remembered stays in order and in the past when restarts are added.
LEMMA KeepsOrder ==
    ASSUME CoreTyped, Remembering, NEW n \in Nat, NEW f \in 1..(Len(restarts) + 1),
           NEW q, Keeps(q, f, n)
    PROVE  /\ \A i, j \in DOMAIN q : i <= j => q[i] <= q[j]
           /\ \A i \in DOMAIN q : q[i] <= now
<1>1. /\ now \in Nat /\ Len(restarts) \in Nat /\ DOMAIN restarts = 1..Len(restarts)
      /\ \A k \in DOMAIN restarts : restarts[k] \in Nat /\ restarts[k] <= now
      /\ \A i, j \in DOMAIN restarts : i <= j => restarts[i] <= restarts[j]
  BY TimesFacts DEF Remembering
<1> DEFINE m == Len(restarts) - f + 1
<1>2. /\ q \in Seq(Times) /\ Len(q) = m + n /\ DOMAIN q = 1..(m + n)
      /\ \A k \in 1..m : q[k] = restarts[k + f - 1] /\ k + f - 1 \in DOMAIN restarts
      /\ \A k \in DOMAIN q : k > m => q[k] = now
  BY <1>1 DEF Keeps
<1>3. m \in Nat /\ f \in Nat
  BY <1>1
<1> HIDE DEF m
<1>4. \A i \in DOMAIN q : q[i] <= now /\ q[i] \in Nat
  <2> TAKE i \in DOMAIN q
  <2>1. CASE i > m
    BY <1>1, <1>2, <2>1
  <2>2. CASE ~(i > m)
    <3>1. i \in 1..m
      BY <1>2, <1>3, <2>2
    <3> QED
      BY <1>1, <1>2, <3>1
  <2> QED
    BY <2>1, <2>2
<1>5. ASSUME NEW i \in DOMAIN q, NEW j \in DOMAIN q, i <= j
      PROVE  q[i] <= q[j]
  <2>1. CASE j > m
    BY <1>1, <1>2, <1>4, <2>1
  <2>2. CASE ~(j > m)
    <3>1. i \in 1..m /\ j \in 1..m /\ i + f - 1 <= j + f - 1
      BY <1>2, <1>3, <1>5, <2>2
    <3> QED
      BY <1>1, <1>2, <3>1
  <2> QED
    BY <2>1, <2>2
<1> QED
  BY <1>4, <1>5

LEMMA EndsBrakes ==
    ASSUME CoreTyped, Remembering, BrakeHolds, UNCHANGED <<restarts, ordered, now>>
    PROVE  Remembering' /\ BrakeHolds'
  BY DEF Remembering, BrakeHolds, Trace

\* A place that the core keeps, after restarts before it were dropped.
LEMMA KeepsTrace ==
    ASSUME CoreTyped, Remembering, NEW n \in Nat, NEW f \in 1..(Len(restarts) + 1),
           NEW q, Keeps(q, f, n), NEW k \in DOMAIN ordered, NEW m, NEW p \in Nat,
           m = Trace(k) - (f - 1) + p, p <= n
    PROVE  \/ ordered[k] < now - Period
           \/ m \in DOMAIN q /\ q[m] >= ordered[k]
<1>1. /\ now \in Nat /\ Len(restarts) \in Nat /\ DOMAIN restarts = 1..Len(restarts)
      /\ Len(ordered) \in Nat /\ DOMAIN ordered = 1..Len(ordered) /\ Period \in Nat
      /\ \A j \in DOMAIN restarts : restarts[j] \in Nat /\ restarts[j] <= now
      /\ \A i, j \in DOMAIN restarts : i <= j => restarts[i] <= restarts[j]
      /\ \A j \in DOMAIN ordered : ordered[j] \in Nat
  BY TimesFacts DEF Remembering
<1> DEFINE h == Len(restarts) - f + 1
           t == Trace(k)
<1>2. /\ q \in Seq(Times) /\ Len(q) = h + n /\ DOMAIN q = 1..(h + n)
      /\ \A j \in 1..h : q[j] = restarts[j + f - 1] /\ j + f - 1 \in DOMAIN restarts
      /\ \A j \in DOMAIN q : j > h => q[j] = now
      /\ \A j \in 1..(f - 1) : restarts[j] < now - Period
  BY <1>1 DEF Keeps
<1>3. h \in Nat /\ f \in Nat /\ t \in Int
  BY <1>1 DEF Trace
<1>4. ordered[k] < now - Period \/ (t \in DOMAIN restarts /\ restarts[t] >= ordered[k])
  BY DEF Remembering
<1> HIDE DEF t
<1>5. CASE t \in DOMAIN restarts /\ restarts[t] >= ordered[k] /\ t <= f - 1
  <2>1. restarts[t] < now - Period
    BY <1>1, <1>2, <1>3, <1>5
  <2> QED
    BY <1>1, <1>5, <2>1
<1>6. CASE t \in DOMAIN restarts /\ restarts[t] >= ordered[k] /\ t > f - 1
  <2>1. m = t - (f - 1) + p
    BY DEF t
  <2>2. m \in DOMAIN q /\ m \in Nat
    BY <1>1, <1>2, <1>3, <1>6, <2>1
  <2>3. CASE m > h
    <3>1. q[m] = now
      BY <1>2, <2>2, <2>3
    <3> QED
      BY <1>1, <1>6, <2>2, <3>1
  <2>4. CASE ~(m > h)
    <3>1. m \in 1..h /\ m + f - 1 >= t
      BY <1>1, <1>2, <1>3, <1>6, <2>1, <2>2, <2>4
    <3>2. q[m] = restarts[m + f - 1] /\ m + f - 1 \in DOMAIN restarts
      BY <1>2, <3>1
    <3>3. restarts[t] <= restarts[m + f - 1]
      BY <1>1, <1>6, <3>1, <3>2
    <3> QED
      BY <1>1, <1>6, <2>2, <3>2, <3>3
  <2> QED
    BY <2>3, <2>4
<1> QED
  BY <1>3, <1>4, <1>5, <1>6, <1>1

LEMMA FansOutBrakes ==
    ASSUME CoreTyped, Remembering, BrakeHolds, NEW c, NEW r, NEW rest, FansOut(c, r, rest),
           now' = now
    PROVE  Remembering' /\ BrakeHolds'
<1>1. /\ Period \in Nat /\ Intensity \in Nat /\ now \in Nat
      /\ Len(restarts) \in Nat /\ Len(ordered) \in Nat /\ DOMAIN ordered = 1..Len(ordered)
      /\ \A k \in DOMAIN ordered : ordered[k] \in Nat
  BY TimesFacts
<1>2. PICK n \in Nat : /\ restarts' = Remembered(n)
                       /\ ~(Len(Remembered(n)) > Intensity)
                       /\ ordered' = ordered \o Repeated(n, now)
  BY DEF FansOut
<1>3. PICK f \in 1..(Len(restarts) + 1) : Keeps(restarts', f, n)
  BY <1>2, RememberedFacts DEF CoreTyped
<1> DEFINE h == Len(restarts) - f + 1
<1>4. h \in Nat /\ Len(restarts') = h + n /\ DOMAIN restarts' = 1..(h + n) /\ h + n <= Intensity
      /\ \A k \in DOMAIN restarts' : k > h => restarts'[k] = now
  <2>1. h \in Nat
    BY <1>1
  <2>2. restarts' \in Seq(Times) /\ Len(restarts') = h + n
        /\ \A k \in DOMAIN restarts' : k > h => restarts'[k] = now
    BY <1>3 DEF Keeps
  <2> HIDE DEF h
  <2>3. DOMAIN restarts' = 1..(h + n)
    BY <2>2
  <2> QED
    BY <1>1, <1>2, <2>1, <2>2, <2>3
<1>5. /\ Len(ordered') = Len(ordered) + n /\ DOMAIN ordered' = 1..(Len(ordered) + n)
      /\ \A k \in DOMAIN ordered : ordered'[k] = ordered[k]
      /\ \A k \in DOMAIN ordered' : k > Len(ordered) => ordered'[k] = now
  <2> DEFINE b == Repeated(n, now)
  <2>1. b \in Seq(Nat) /\ Len(b) = n /\ \A k \in 1..n : b[k] = now
    BY <1>1 DEF Repeated
  <2>2. ordered \in Seq(Nat)
    BY <1>1 DEF CoreTyped, Times
  <2>3. ordered' = ordered \o b
    BY <1>2
  <2> HIDE DEF b
  <2>4. Len(ordered') = Len(ordered) + n /\ DOMAIN ordered' = 1..(Len(ordered) + n)
        /\ \A k \in DOMAIN ordered : ordered'[k] = ordered[k]
    <3>1. ordered \o b \in Seq(Nat) /\ Len(ordered \o b) = Len(ordered) + n
      BY <2>1, <2>2
    <3>2. \A k \in 1..Len(ordered) : (ordered \o b)[k] = ordered[k]
      BY <2>1, <2>2
    <3> QED
      BY <1>1, <2>3, <3>1, <3>2
  <2>5. ASSUME NEW k \in DOMAIN ordered', k > Len(ordered)
        PROVE  ordered'[k] = now
    <3>1. k - Len(ordered) \in 1..Len(b) /\ Len(ordered) + (k - Len(ordered)) = k
      BY <1>1, <2>1, <2>4, <2>5
    <3>2. ordered'[k] = b[k - Len(ordered)]
      BY <2>1, <2>2, <2>3, <3>1, BehindTheFirst
    <3> QED
      BY <2>1, <3>1, <3>2
  <2> QED
    BY <2>4, <2>5
<1> HIDE DEF h
<1>6. ASSUME NEW k \in DOMAIN ordered'
      PROVE  \/ ordered'[k] < now - Period
             \/ Trace(k)' \in DOMAIN restarts' /\ restarts'[Trace(k)'] >= ordered'[k]
  <2> DEFINE m == Trace(k)'
  <2>1. m = (h + n) - (Len(ordered) + n - k) /\ k \in 1..(Len(ordered) + n)
    BY <1>4, <1>5 DEF Trace
  <2>2. CASE k > Len(ordered)
    <3>1. m \in 1..(h + n) /\ m > h
      BY <1>1, <1>4, <2>1, <2>2
    <3>2. restarts'[m] = now /\ ordered'[k] = now
      BY <1>4, <1>5, <2>2, <3>1
    <3> QED
      BY <1>1, <1>4, <3>1, <3>2
  <2>3. CASE ~(k > Len(ordered))
    <3>1. k \in DOMAIN ordered /\ ordered'[k] = ordered[k]
      BY <1>1, <1>5, <2>1, <2>3
    <3> HIDE DEF m
    <3>4. Trace(k) = Len(restarts) - (Len(ordered) - k)
      BY DEF Trace
    <3>5. h = Len(restarts) - f + 1 /\ h \in Nat /\ f \in Nat
      BY <1>1, <1>4 DEF h
    <3>6. k \in Nat
      BY <1>1, <3>1
    <3>2. m = Trace(k) - (f - 1) + 0
      BY <1>1, <2>1, <3>4, <3>5, <3>6
    <3>3. \/ ordered[k] < now - Period
          \/ m \in DOMAIN restarts' /\ restarts'[m] >= ordered[k]
      <4>1. 0 \in Nat /\ 0 <= n
        OBVIOUS
      <4> QED
        BY <1>3, <3>1, <3>2, <4>1, KeepsTrace
    <3> QED
      BY <3>1, <3>3 DEF m
  <2> QED
    BY <2>2, <2>3
<1>7. Remembering'
  <2>1. /\ \A i, j \in DOMAIN restarts' : i <= j => restarts'[i] <= restarts'[j]
        /\ \A i \in DOMAIN restarts' : restarts'[i] <= now
    BY <1>3, KeepsOrder
  <2> QED
    BY <1>6, <2>1 DEF Remembering
<1>8. ASSUME NEW i \in DOMAIN ordered', i + Intensity \in DOMAIN ordered'
      PROVE  ordered'[i + Intensity] > ordered'[i] + Period
  <2>1. CASE i + Intensity <= Len(ordered)
    <3>1. i \in DOMAIN ordered /\ i + Intensity \in DOMAIN ordered
      BY <1>1, <1>5, <1>8, <2>1
    <3> QED
      BY <1>5, <3>1 DEF BrakeHolds
  <2>2. CASE i + Intensity > Len(ordered)
    <3>1. ordered'[i + Intensity] = now
      BY <1>5, <1>8, <2>2
    <3>2. ~(Trace(i)' >= 1)
      BY <1>1, <1>4, <1>5, <1>8 DEF Trace
    <3>3. ordered'[i] < now - Period
      BY <1>4, <1>6, <3>2
    <3>4. ordered'[i] \in Nat
      <4>1. CASE i > Len(ordered)
        BY <1>1, <1>5, <4>1
      <4>2. CASE ~(i > Len(ordered))
        BY <1>1, <1>5, <4>2
      <4> QED
        BY <4>1, <4>2
    <3> QED
      BY <1>1, <3>1, <3>3, <3>4
  <2> QED
    BY <1>1, <1>5, <2>1, <2>2
<1>9. BrakeHolds'
  BY <1>8 DEF BrakeHolds
<1> QED
  BY <1>7, <1>9

LEMMA QuitsBrakes ==
    ASSUME CoreTyped, Remembering, BrakeHolds, NEW c, NEW r, NEW rest, Quits(c, r, rest),
           now' = now
    PROVE  Remembering' /\ BrakeHolds'
<1>1. Len(restarts) \in Nat /\ Len(ordered) \in Nat /\ DOMAIN ordered = 1..Len(ordered)
  BY TimesFacts
<1>2. PICK n \in Nat : restarts' = Remembered(n)
  BY DEF Quits
<1>3. PICK f \in 1..(Len(restarts) + 1) : Keeps(restarts', f, n)
  BY <1>2, RememberedFacts DEF CoreTyped
<1>4. ordered' = ordered
  BY DEF Quits
<1>5. ASSUME NEW k \in DOMAIN ordered
      PROVE  \/ ordered[k] < now - Period
             \/ Trace(k)' \in DOMAIN restarts' /\ restarts'[Trace(k)'] >= ordered[k]
  <2> DEFINE m == Trace(k)'
  <2>1. Len(restarts') = Len(restarts) - f + 1 + n
    BY <1>3 DEF Keeps
  <2>2. m = Trace(k) - (f - 1) + n
    BY <1>1, <1>4, <2>1 DEF Trace
  <2> HIDE DEF m
  <2>3. \/ ordered[k] < now - Period
        \/ m \in DOMAIN restarts' /\ restarts'[m] >= ordered[k]
    <3>1. n <= n
      OBVIOUS
    <3> QED
      BY <1>3, <2>2, <3>1, KeepsTrace
  <2> QED
    BY <2>3 DEF m
<1>6. /\ \A i, j \in DOMAIN restarts' : i <= j => restarts'[i] <= restarts'[j]
      /\ \A i \in DOMAIN restarts' : restarts'[i] <= now
  BY <1>3, KeepsOrder
<1> QED
  BY <1>4, <1>5, <1>6 DEF Remembering, BrakeHolds

LEMMA DecideBrakes ==
    ASSUME Typed, Remembering, BrakeHolds, NEW c \in Kids, NEW r, NEW rest \in Seq(Acts),
           Decide(c, r, rest), now' = now
    PROVE  Remembering' /\ BrakeHolds'
<1>1. TypeOK /\ CoreTyped
  BY TypedParts DEF Typed
<1>2. Ends(c, r, rest) \/ FansOut(c, r, rest) \/ Quits(c, r, rest)
  BY <1>1, Decides
<1> QED
  BY <1>1, <1>2, EndsBrakes, FansOutBrakes, QuitsBrakes DEF Ends

LEMMA TickBrakes ==
    ASSUME Typed, Remembering, BrakeHolds, Tick
    PROVE  Remembering' /\ BrakeHolds'
<1>1. /\ Period \in Nat /\ now \in Nat
      /\ \A k \in DOMAIN restarts : restarts[k] \in Nat
      /\ \A k \in DOMAIN ordered : ordered[k] \in Nat
  BY TypedParts, TimesFacts
<1>2. restarts' = restarts /\ ordered' = ordered /\ now' = now + 1
  BY DEF Tick, coreVars
<1> QED
  BY <1>1, <1>2 DEF Remembering, BrakeHolds, Trace

LEMMA BrakeStep ==
    ASSUME Typed, Remembering, BrakeHolds, [Next]_vars
    PROVE  Remembering' /\ BrakeHolds'
<1>1. CoreTyped /\ queue \in Seq(Acts)
  BY TypedParts DEF LoopTyped
<1>2. UNCHANGED <<restarts, ordered, now>> => Remembering' /\ BrakeHolds'
  BY <1>1, EndsBrakes
<1>3. DoStart => Remembering' /\ BrakeHolds'
  BY <1>2 DEF DoStart, coreVars
<1>4. ASSUME StartFails
      PROVE  Remembering' /\ BrakeHolds'
  <2>1. PICK c \in Kids : Fails(c)
    BY <1>4, DrainSteps
  <2>2. Tail(queue) \in Seq(Acts)
    BY <1>1, <2>1 DEF Fails
  <2> QED
    BY <2>1, <2>2, DecideBrakes DEF Fails
<1>5. StopUnknown => Remembering' /\ BrakeHolds'
  BY <1>2 DEF StopUnknown, coreVars
<1>6. DoStop => Remembering' /\ BrakeHolds'
  BY <1>2 DEF DoStop, coreVars
<1>7. DoGiveUp => Remembering' /\ BrakeHolds'
  BY <1>2 DEF DoGiveUp, coreVars
<1>8. RecvWait => Remembering' /\ BrakeHolds'
  BY <1>2 DEF RecvWait, coreVars
<1>9. ASSUME RecvExit
      PROVE  Remembering' /\ BrakeHolds'
  <2>1. ASSUME NEW c \in Kids, Hears(c)
        PROVE  Remembering' /\ BrakeHolds'
    <3>1. <<>> \in Seq(Acts)
      OBVIOUS
    <3> QED
      BY <2>1, <3>1, DecideBrakes DEF Hears
  <2>2. Ignores => Remembering' /\ BrakeHolds'
    BY <1>2 DEF Ignores, coreVars
  <2> QED
    BY <1>9, <2>1, <2>2, RecvSteps
<1>10. RecvTimeout => Remembering' /\ BrakeHolds'
  BY <1>2 DEF RecvTimeout, coreVars
<1>11. ASSUME NEW i \in Insts, NEW r \in {"normal", "exception"}, ChildExits(i, r)
       PROVE  Remembering' /\ BrakeHolds'
  BY <1>2, <1>11 DEF ChildExits, coreVars
<1>12. Tick => Remembering' /\ BrakeHolds'
  BY TickBrakes
<1>13. UNCHANGED vars => Remembering' /\ BrakeHolds'
  BY <1>2 DEF vars, coreVars
<1> QED
  BY <1>3, <1>4, <1>5, <1>6, <1>7, <1>8, <1>9, <1>10, <1>11, <1>12, <1>13 DEF Next, Loop

\* Whatever the strategy fans out to, however starts fail and time passes, the
\* core never orders more than intensity restarts within period_ms: what
\* forget_restarts_before drops could not have counted.
THEOREM SupervisorBrakeHolds == Spec => []BrakeHolds
<1>1. Init => Remembering /\ BrakeHolds
  BY DEF Init, Remembering, BrakeHolds
<1>2. Typed /\ Remembering /\ BrakeHolds /\ [Next]_vars => Remembering' /\ BrakeHolds'
  BY BrakeStep
<1> QED
  BY <1>1, <1>2, SupervisorTyped, PTL DEF Spec

-----------------------------------------------------------------------------
(* What is queued *)

GivesUp(q) == \E k \in DOMAIN q : q[k] = GiveUp

\* The last that is queued of a child is that it starts.
Due(q, c) ==
    \E k \in DOMAIN q : q[k] = Start(c) /\ \A j \in DOMAIN q : q[j] = Stop(c) => j < k

\* Nothing of a child is queued.
Free(q, c) == \A k \in DOMAIN q : q[k] # Start(c) /\ q[k] # Stop(c)

\* The supervisor goes on.
Firm == ~GivesUp(queue) /\ phase # "gone"

\* What is queued when the action in front has been taken.
LEMMA TailQueued ==
    ASSUME NEW q \in Seq(Acts), q # <<>>
    PROVE  /\ \A d : Free(q, d) => Free(Tail(q), d)
           /\ \A d : Due(q, d) /\ q[1] # Start(d) => Due(Tail(q), d)
           /\ GivesUp(Tail(q)) => GivesUp(q)
           /\ GivesUp(q) => q[1] = GiveUp \/ GivesUp(Tail(q))
<1>1. /\ 1 \in DOMAIN q
      /\ \A k \in DOMAIN Tail(q) : k \in Nat /\ k + 1 \in DOMAIN q /\ Tail(q)[k] = q[k + 1]
      /\ \A k \in DOMAIN q : k \in Nat /\ (k = 1 \/ (k - 1 \in DOMAIN Tail(q) /\ q[k] = Tail(q)[k - 1]))
  BY TailPlaces
<1>2. ASSUME NEW d, Free(q, d)
      PROVE  Free(Tail(q), d)
  BY <1>1, <1>2 DEF Free
<1>3. ASSUME NEW d, Due(q, d), q[1] # Start(d)
      PROVE  Due(Tail(q), d)
  <2>1. PICK k \in DOMAIN q : q[k] = Start(d) /\ \A j \in DOMAIN q : q[j] = Stop(d) => j < k
    BY <1>3 DEF Due
  <2>2. k - 1 \in DOMAIN Tail(q) /\ Tail(q)[k - 1] = Start(d) /\ k \in Nat
    BY <1>1, <1>3, <2>1
  <2>3. \A j \in DOMAIN Tail(q) : Tail(q)[j] = Stop(d) => j < k - 1
    BY <1>1, <2>1, <2>2
  <2> QED
    BY <2>2, <2>3 DEF Due
<1>4. GivesUp(Tail(q)) => GivesUp(q)
  BY <1>1 DEF GivesUp
<1>5. GivesUp(q) => q[1] = GiveUp \/ GivesUp(Tail(q))
  BY <1>1 DEF GivesUp
<1> QED
  BY <1>2, <1>3, <1>4, <1>5

\* A start in front was all there was of its child, or there is more of it.
LEMMA StartInFront ==
    ASSUME NEW q \in Seq(Acts), q # <<>>, NEW c \in Kids, q[1] = Start(c), Due(q, c)
    PROVE  Due(Tail(q), c) \/ Free(Tail(q), c)
<1>1. /\ 1 \in DOMAIN q
      /\ \A k \in DOMAIN Tail(q) : k \in Nat /\ k + 1 \in DOMAIN q /\ Tail(q)[k] = q[k + 1]
      /\ \A k \in DOMAIN q : k \in Nat /\ (k = 1 \/ (k - 1 \in DOMAIN Tail(q) /\ q[k] = Tail(q)[k - 1]))
      /\ Tail(q) \in Seq(Acts)
  BY TailPlaces
<1>2. PICK k \in DOMAIN q : q[k] = Start(c) /\ \A j \in DOMAIN q : q[j] = Stop(c) => j < k
  BY DEF Due
<1>3. CASE k # 1
  <2>1. k - 1 \in DOMAIN Tail(q) /\ Tail(q)[k - 1] = Start(c) /\ k \in Nat
    BY <1>1, <1>2, <1>3
  <2>2. \A j \in DOMAIN Tail(q) : Tail(q)[j] = Stop(c) => j < k - 1
    BY <1>1, <1>2, <2>1
  <2> QED
    BY <2>1, <2>2 DEF Due
<1>4. CASE k = 1
  <2>1. \A j \in DOMAIN Tail(q) : Tail(q)[j] # Stop(c)
    BY <1>1, <1>2, <1>4
  <2>2. CASE \E j \in DOMAIN Tail(q) : Tail(q)[j] = Start(c)
    BY <2>1, <2>2 DEF Due
  <2>3. CASE \A j \in DOMAIN Tail(q) : Tail(q)[j] # Start(c)
    BY <2>1, <2>3 DEF Free
  <2> QED
    BY <2>2, <2>3
<1> QED
  BY <1>3, <1>4

\* What a fan-out adds to what is queued.
LEMMA FanQueued ==
    ASSUME NEW rest \in Seq(Acts), NEW c \in Kids, NEW b, Fan(b, c), strategy \in Strategies
    PROVE  LET q == rest \o b
           IN  /\ \A d \in Affected(c) : Returns(d) => Due(q, d)
               /\ \A d \in Kids \ Affected(c) : Due(rest, d) => Due(q, d)
               /\ \A d \in Kids \ Affected(c) : Free(rest, d) => Free(q, d)
               /\ GivesUp(rest) => GivesUp(q)
<1> DEFINE q == rest \o b
<1>1. b \in Seq(Acts) /\ Affected(c) \subseteq Kids
  BY AffectedFacts DEF Fan
<1>2. /\ Len(rest) \in Nat /\ DOMAIN q = 1..(Len(rest) + Len(b)) /\ Len(b) \in Nat
      /\ DOMAIN rest = 1..Len(rest) /\ DOMAIN b = 1..Len(b)
      /\ \A k \in DOMAIN rest : k \in DOMAIN q /\ k <= Len(rest) /\ q[k] = rest[k]
      /\ \A k \in DOMAIN b : Len(rest) + k \in DOMAIN q /\ q[Len(rest) + k] = b[k]
      /\ \A k \in DOMAIN q : \/ k \in DOMAIN rest /\ k <= Len(rest) /\ q[k] = rest[k]
                             \/ /\ k > Len(rest) /\ k - Len(rest) \in DOMAIN b
                                /\ q[k] = b[k - Len(rest)]
  BY <1>1, Places
<1> HIDE DEF q
<1>3. ASSUME NEW d \in Affected(c), Returns(d)
      PROVE  Due(q, d)
  <2>1. PICK k \in DOMAIN b : b[k] = Start(d)
    BY <1>3 DEF Fan
  <2>2. \A j \in DOMAIN b : b[j] = Stop(d) => j < k
    BY <1>1, <2>1 DEF Fan
  <2>3. Len(rest) + k \in DOMAIN q /\ q[Len(rest) + k] = Start(d)
    BY <1>2, <2>1
  <2>4. \A j \in DOMAIN q : q[j] = Stop(d) => j < Len(rest) + k
    <3> SUFFICES ASSUME NEW j \in DOMAIN q, q[j] = Stop(d)
                 PROVE  j < Len(rest) + k
      OBVIOUS
    <3>1. CASE j <= Len(rest)
      BY <1>2, <2>1, <3>1
    <3>2. CASE j - Len(rest) \in DOMAIN b /\ q[j] = b[j - Len(rest)]
      <4>1. j - Len(rest) < k
        BY <2>2, <3>2
      <4> QED
        BY <1>2, <4>1
    <3> QED
      BY <1>2, <3>1, <3>2
  <2> QED
    BY <2>3, <2>4 DEF Due
<1>4. ASSUME NEW d \in Kids \ Affected(c)
      PROVE  \A k \in DOMAIN q : q[k] = Start(d) \/ q[k] = Stop(d) => k \in DOMAIN rest /\ q[k] = rest[k]
  BY <1>2 DEF Fan
<1>5. ASSUME NEW d \in Kids \ Affected(c), Due(rest, d)
      PROVE  Due(q, d)
  <2>1. PICK k \in DOMAIN rest : rest[k] = Start(d) /\ \A j \in DOMAIN rest : rest[j] = Stop(d) => j < k
    BY <1>5 DEF Due
  <2> QED
    BY <1>2, <1>4, <2>1 DEF Due
<1>6. ASSUME NEW d \in Kids \ Affected(c), Free(rest, d)
      PROVE  Free(q, d)
  BY <1>4, <1>6 DEF Free
<1>7. GivesUp(rest) => GivesUp(q)
  BY <1>2 DEF GivesUp
<1> QED
  BY <1>3, <1>5, <1>6, <1>7 DEF q

\* A supervisor that gives up says so in what it queues.
LEMMA QuitQueued ==
    ASSUME NEW rest \in Seq(Acts), NEW c \in Kids, NEW b, Quit(b, c)
    PROVE  GivesUp(rest \o b)
<1>1. b \in Seq(Acts) /\ Len(b) \in DOMAIN b /\ b[Len(b)] = GiveUp
  BY DEF Quit
<1> DEFINE q == rest \o b
<1>2. \A k \in DOMAIN b : Len(rest) + k \in DOMAIN q /\ q[Len(rest) + k] = b[k]
  BY <1>1, Places
<1> QED
  BY <1>1, <1>2 DEF GivesUp

\* A supervisor that goes on has not given up before.
LEMMA DecideFirm ==
    ASSUME TypeOK, NEW c \in Kids, NEW r, NEW rest \in Seq(Acts), Decide(c, r, rest),
           GivesUp(rest)
    PROVE  GivesUp(queue')
<1>1. Ends(c, r, rest) \/ FansOut(c, r, rest) \/ Quits(c, r, rest)
  BY Decides
<1>2. strategy \in Strategies
  BY DEF TypeOK
<1>3. CASE Ends(c, r, rest)
  BY <1>3 DEF Ends
<1>4. CASE FansOut(c, r, rest)
  <2>1. PICK b : Fan(b, c) /\ queue' = rest \o b
    BY <1>4 DEF FansOut
  <2> QED
    BY <1>2, <2>1, FanQueued
<1>5. CASE Quits(c, r, rest)
  <2>1. PICK b : Quit(b, c) /\ queue' = rest \o b
    BY <1>5 DEF Quits
  <2> QED
    BY <2>1, QuitQueued
<1> QED
  BY <1>1, <1>3, <1>4, <1>5

LEMMA FirmBefore ==
    ASSUME Typed, [Next]_vars, Firm'
    PROVE  Firm
<1>1. queue \in Seq(Acts) /\ TypeOK
  BY TypedParts DEF LoopTyped, Typed
<1>2. ~GivesUp(queue') /\ phase' # "gone"
  BY DEF Firm, GivesUp
<1>3. GivesUp(queue) => queue # <<>>
  BY DEF GivesUp
<1>4. ASSUME queue # <<>>, queue' = Tail(queue), Head(queue).op # "give_up", phase # "gone"
      PROVE  Firm
  <2>1. queue[1] # GiveUp
    BY <1>1, <1>4, TailPlaces, ActFields
  <2> QED
    BY <1>1, <1>2, <1>4, <2>1, TailQueued DEF Firm
<1>5. DoStart \/ StopUnknown \/ DoStop => Firm
  BY <1>4 DEF DoStart, StopUnknown, DoStop, Draining
<1>6. ASSUME StartFails
      PROVE  Firm
  <2>1. PICK c \in Kids : Fails(c)
    BY <1>6, DrainSteps
  <2>2. Tail(queue) \in Seq(Acts) /\ queue # <<>>
    BY <1>1, <2>1 DEF Fails
  <2>3. ~GivesUp(Tail(queue))
    BY <1>1, <1>2, <2>1, <2>2, DecideFirm DEF Fails
  <2>4. queue[1] # GiveUp
    BY <2>1, ActKinds DEF Fails
  <2>5. phase # "gone"
    BY <1>6 DEF StartFails, Draining
  <2> QED
    BY <1>1, <2>2, <2>3, <2>4, <2>5, TailQueued DEF Firm
<1>7. DoGiveUp => Firm
  BY <1>2 DEF DoGiveUp
<1>8. RecvWait \/ RecvExit => Firm
  BY <1>3 DEF RecvWait, RecvExit, Firm
<1>9. RecvTimeout => Firm
  BY <1>2 DEF RecvTimeout, Firm
<1>10. ASSUME NEW i \in Insts, NEW r \in {"normal", "exception"}, ChildExits(i, r)
       PROVE  Firm
  BY <1>2, <1>10 DEF ChildExits, loopVars, Firm
<1>11. Tick \/ UNCHANGED vars => Firm
  BY <1>2 DEF Tick, vars, loopVars, Firm
<1> QED
  BY <1>5, <1>6, <1>7, <1>8, <1>9, <1>10, <1>11 DEF Next, Loop

-----------------------------------------------------------------------------
(* What the core believes is so *)

\* Deadlines run for children that are given time, and none for a supervisor
\* of one_for_one, which stops nobody before it gives up.
Patient ==
    /\ \A x \in pending : spec[x[1]].shutdown = "timeout"
    /\ Firm /\ strategy = "one_for_one" =>
          pending = {} /\ \A k \in DOMAIN queue : \A c \in Kids : queue[k] # Stop(c)

\* An instance is there that is up, or whose Exit is still to be heard.
Kept(c) == live[c] # NoInst /\ (Up(live[c]) \/ \E e \in Range(mail) : e[1] = live[c])

\* A child is to be started, or is left alone with its instance.
Heard(c) == Due(queue, c) \/ (Free(queue, c) /\ Kept(c))

Matching ==
    Firm => \A c \in Kids :
        /\ spec[c].restart = "permanent" => running[c]
        /\ ~Disturbed(c) /\ running[c] => Heard(c)

LEMMA DecidePatient ==
    ASSUME TypeOK, NEW c \in Kids, NEW r, NEW rest \in Seq(Acts), Decide(c, r, rest),
           ~GivesUp(queue'), strategy = "one_for_one",
           \A k \in DOMAIN rest : \A d \in Kids : rest[k] # Stop(d)
    PROVE  \A k \in DOMAIN queue' : \A d \in Kids : queue'[k] # Stop(d)
<1>1. Ends(c, r, rest) \/ FansOut(c, r, rest) \/ Quits(c, r, rest)
  BY Decides
<1>2. CASE Ends(c, r, rest)
  BY <1>2 DEF Ends
<1>3. CASE FansOut(c, r, rest)
  <2>1. PICK b : Fan(b, c) /\ queue' = rest \o b
    BY <1>3 DEF FansOut
  <2>2. Affected(c) = {c} /\ b \in Seq(Acts)
    BY <2>1, AffectedFacts DEF TypeOK, Fan
  <2>3. \A k \in DOMAIN b : \A d \in Kids : b[k] # Stop(d)
    BY <2>1, <2>2 DEF Fan
  <2> DEFINE q == rest \o b
  <2>4. \A k \in DOMAIN q : \/ k \in DOMAIN rest /\ k <= Len(rest) /\ q[k] = rest[k]
                            \/ /\ k > Len(rest) /\ k - Len(rest) \in DOMAIN b
                               /\ q[k] = b[k - Len(rest)]
    BY <2>2, Places
  <2> HIDE DEF q
  <2>5. \A k \in DOMAIN q : \A d \in Kids : q[k] # Stop(d)
    BY <2>3, <2>4
  <2> QED
    BY <2>1, <2>5 DEF q
<1>4. CASE Quits(c, r, rest)
  <2>1. PICK b : Quit(b, c) /\ queue' = rest \o b
    BY <1>4 DEF Quits
  <2> QED
    BY <2>1, QuitQueued
<1> QED
  BY <1>1, <1>2, <1>3, <1>4

LEMMA PatientStep ==
    ASSUME Typed, Patient, [Next]_vars
    PROVE  Patient'
<1>1. /\ TypeOK /\ queue \in Seq(Acts) /\ pending \subseteq Kids \X Nat
      /\ ~GivesUp(queue) /\ phase # "gone" <=> Firm
  BY TypedParts DEF LoopTyped, Typed, Firm
<1>2. Firm' => Firm /\ ~GivesUp(queue')
  BY FirmBefore DEF Firm, GivesUp
<1> DEFINE Calm(q) == \A k \in DOMAIN q : \A c \in Kids : q[k] # Stop(c)
<1>3. queue # <<>> /\ Calm(queue) => Calm(Tail(queue)) /\ Tail(queue) \in Seq(Acts)
  BY <1>1, TailPlaces
<1>4. Firm' /\ strategy = "one_for_one" => pending = {} /\ Calm(queue)
  BY <1>2 DEF Patient
<1> HIDE DEF Calm
<1>5. ASSUME pending' \subseteq pending, UNCHANGED conf,
             Firm' /\ strategy = "one_for_one" => Calm(queue')
      PROVE  Patient'
  BY <1>4, <1>5 DEF Patient, Calm, conf
<1>6. ASSUME UNCHANGED <<conf, pending, queue>>
      PROVE  Patient'
  BY <1>4, <1>5, <1>6
<1>7. ASSUME queue # <<>>, queue' = Tail(queue), UNCHANGED <<conf, pending>>
      PROVE  Patient'
  BY <1>3, <1>4, <1>5, <1>7
<1>8. DoStart \/ StopUnknown => Patient'
  BY <1>7 DEF DoStart, StopUnknown, Draining
<1>9. ASSUME StartFails
      PROVE  Patient'
  <2>1. PICK c \in Kids : Fails(c)
    BY <1>9, DrainSteps
  <2>2. Firm' /\ strategy = "one_for_one" => Calm(queue')
    <3> SUFFICES ASSUME Firm', strategy = "one_for_one"
                 PROVE  Calm(queue')
      OBVIOUS
    <3>1. Tail(queue) \in Seq(Acts) /\ Calm(Tail(queue))
      BY <1>3, <1>4, <2>1 DEF Fails
    <3> QED
      BY <1>1, <1>2, <2>1, <3>1, DecidePatient DEF Fails, Calm
  <2> QED
    BY <1>5, <2>1, <2>2 DEF Fails
<1>10. ASSUME DoStop
       PROVE  Patient'
  <2>1. PICK c \in Kids : Stops(c)
    BY <1>10, DrainSteps
  <2>2. ~(Firm' /\ strategy = "one_for_one")
    <3>1. 1 \in DOMAIN queue /\ queue[1] = Stop(c)
      BY <1>1, <2>1, TailPlaces DEF Stops
    <3> QED
      BY <1>4, <3>1 DEF Calm
  <2>3. \A x \in pending' : x \in pending \/ (x = <<c, now + Patience>> /\ spec[c].shutdown = "timeout")
    BY <2>1 DEF Stops
  <2>4. \A x \in pending' : spec[x[1]].shutdown = "timeout"
    BY <2>3 DEF Patient
  <2> QED
    BY <2>1, <2>2, <2>4 DEF Stops, Patient, conf
<1>11. ASSUME DoGiveUp
       PROVE  Patient'
  BY <1>11, <1>2, <1>5 DEF DoGiveUp, Firm
<1>12. RecvWait => Patient'
  BY <1>6 DEF RecvWait
<1>13. ASSUME RecvExit
       PROVE  Patient'
  <2>1. ASSUME NEW c \in Kids, Hears(c)
        PROVE  Patient'
    <3>1. PICK r \in ExitReasons : Decide(c, r, <<>>)
      BY <2>1 DEF Hears
    <3>2. <<>> \in Seq(Acts) /\ \A k \in DOMAIN <<>> : \A d \in Kids : <<>>[k] # Stop(d)
      OBVIOUS
    <3>3. Firm' /\ strategy = "one_for_one" => Calm(queue')
      BY <1>1, <1>2, <3>1, <3>2, DecidePatient DEF Calm
    <3> QED
      BY <1>5, <2>1, <3>3 DEF Hears
  <2>2. Ignores => Patient'
    BY <1>6 DEF Ignores
  <2> QED
    BY <1>13, <2>1, <2>2, RecvSteps
<1>14. ASSUME RecvTimeout
       PROVE  Patient'
  <2>1. pending' \subseteq pending /\ queue' = queue /\ UNCHANGED conf
    BY <1>14, TimeoutFacts
  <2> QED
    BY <1>4, <1>5, <2>1
<1>15. ASSUME NEW i \in Insts, NEW r \in {"normal", "exception"}, ChildExits(i, r)
       PROVE  Patient'
  BY <1>6, <1>15 DEF ChildExits, loopVars
<1>16. Tick \/ UNCHANGED vars => Patient'
  BY <1>6 DEF Tick, vars, loopVars
<1> QED
  BY <1>8, <1>9, <1>10, <1>11, <1>12, <1>13, <1>14, <1>15, <1>16 DEF Next, Loop

\* What happens to the instances leaves those alone whose Exit is to be heard.
LEMMA WanesKeep ==
    ASSUME Typed, WanesHeard, NEW c \in Kids, Kept(c), live'[c] = live[c]
    PROVE  Kept(c)'
<1>1. live[c] \in Insts /\ live[c] # NoInst
  BY TypedParts DEF LiveTyped, Kept
<1>2. CASE Up(live[c])
  <2>1. CASE state'[live[c]] = "up"
    BY <1>1, <1>2, <2>1 DEF Kept, Up
  <2>2. CASE state'[live[c]] # "up"
    <3>1. \E e \in Range(mail') : e[1] = live[c]
      BY <1>1, <1>2, <2>2 DEF WanesHeard, Up
    <3> QED
      BY <1>1, <3>1 DEF Kept
  <2> QED
    BY <2>1, <2>2
<1>3. CASE \E e \in Range(mail) : e[1] = live[c]
  BY <1>1, <1>3 DEF Kept, WanesHeard
<1> QED
  BY <1>2, <1>3 DEF Kept

\* Whatever the core decides, the children it takes for running are heard of,
\* if those it did not decide about are.
LEMMA DecideMatches ==
    ASSUME TypeOK, NEW c \in Kids, NEW r, NEW rest \in Seq(Acts), Decide(c, r, rest),
           UNCHANGED conf, ~GivesUp(queue'),
           \A d \in Kids \ {c} :
              /\ spec[d].restart = "permanent" => running[d]
              /\ ~Disturbed(d) /\ running[d] => Due(rest, d) \/ (Free(rest, d) /\ Kept(d)')
    PROVE  Matching'
<1>1. Ends(c, r, rest) \/ FansOut(c, r, rest) \/ Quits(c, r, rest)
  BY Decides
<1>2. running \in [Kids -> BOOLEAN] /\ strategy \in Strategies
  BY DEF TypeOK
<1>3. SUFFICES ASSUME NEW d \in Kids
               PROVE  /\ spec[d].restart = "permanent" => running'[d]
                      /\ ~Disturbed(d) /\ running'[d] => Due(queue', d) \/ (Free(queue', d) /\ Kept(d)')
  BY DEF Matching, conf, Disturbed, Heard, Due, Free
<1>4. CASE Ends(c, r, rest)
  <2>1. queue' = rest /\ running'[d] = IF d = c THEN FALSE ELSE running[d]
    BY <1>2, <1>4 DEF Ends
  <2>2. spec[c].restart # "permanent"
    BY <1>4 DEF Ends, ShouldRestart
  <2> QED
    BY <2>1, <2>2
<1>5. CASE FansOut(c, r, rest)
  <2>1. PICK b : Fan(b, c) /\ queue' = rest \o b
    BY <1>5 DEF FansOut
  <2>2. running'[d] = IF d \in Affected(c) THEN Returns(d) ELSE running[d]
    BY <1>5 DEF FansOut
  <2>3. CASE d \in Affected(c)
    BY <1>2, <2>1, <2>2, <2>3, FanQueued DEF Returns
  <2>4. CASE d \notin Affected(c)
    <3>1. d # c
      BY <1>2, <2>4, AffectedFacts
    <3>2. /\ Due(rest, d) => Due(queue', d)
          /\ Free(rest, d) => Free(queue', d)
      BY <1>2, <2>1, <2>4, FanQueued
    <3> QED
      BY <2>2, <2>4, <3>1, <3>2
  <2> QED
    BY <2>3, <2>4
<1>6. CASE Quits(c, r, rest)
  <2>1. PICK b : Quit(b, c) /\ queue' = rest \o b
    BY <1>6 DEF Quits
  <2> QED
    BY <2>1, QuitQueued
<1> QED
  BY <1>1, <1>4, <1>5, <1>6

\* A step that leaves the core alone, and what is heard of each child too.
LEMMA StillMatching ==
    ASSUME Matching, Firm, UNCHANGED <<conf, running>>,
           \A d \in Kids : running[d] /\ ~Disturbed(d) /\ Heard(d) => Heard(d)'
    PROVE  Matching'
<1>1. \A d \in Kids : Disturbed(d)' = Disturbed(d)
  BY DEF Disturbed, conf
<1> QED
  BY <1>1 DEF Matching, conf

LEMMA StartMatches ==
    ASSUME Typed, Matching, Firm, NEW c \in Kids, Starts(c)
    PROVE  Matching'
<1>1. LiveTyped /\ WorldTyped /\ queue \in Seq(Acts)
  BY TypedParts DEF LoopTyped
<1>2. /\ queue # <<>> /\ queue[1] = Start(c) /\ queue' = Tail(queue) /\ nextInst \in Insts
      /\ live' = [live EXCEPT ![c] = nextInst] /\ state' = [state EXCEPT ![nextInst] = "up"]
      /\ mail' = mail /\ UNCHANGED <<conf, running>>
  BY DEF Starts, coreVars
<1>3. ASSUME NEW d \in Kids, Heard(d)
      PROVE  Heard(d)'
  <2>1. CASE d = c
    <3>1. 1 \in DOMAIN queue
      BY <1>1, <1>2, TailPlaces
    <3>2. Due(queue, c)
      BY <1>2, <1>3, <2>1, <3>1 DEF Heard, Free
    <3>3. Due(Tail(queue), c) \/ Free(Tail(queue), c)
      BY <1>1, <1>2, <3>2, StartInFront
    <3>4. Kept(c)'
      BY <1>1, <1>2 DEF Kept, Up, LiveTyped, WorldTyped, Insts, NoInst
    <3> QED
      BY <1>2, <2>1, <3>3, <3>4 DEF Heard
  <2>2. CASE d # c
    <3>1. queue[1] # Start(d)
      BY <1>2, <2>2, ActKinds
    <3>2. (Due(queue, d) => Due(Tail(queue), d)) /\ (Free(queue, d) => Free(Tail(queue), d))
      BY <1>1, <1>2, <3>1, TailQueued
    <3>3. Kept(d) => Kept(d)'
      <4>1. live'[d] = live[d]
        BY <1>1, <1>2, <2>2 DEF LiveTyped
      <4>2. live[d] # NoInst => live[d] \in Insts /\ live[d] # nextInst
        BY <1>1, <1>2 DEF LiveTyped, Insts
      <4> QED
        BY <1>1, <1>2, <4>1, <4>2 DEF Kept, Up, WorldTyped
    <3> QED
      BY <1>2, <1>3, <3>2, <3>3 DEF Heard
  <2> QED
    BY <2>1, <2>2
<1> QED
  BY <1>2, <1>3, StillMatching

\* A stop in front is not the last that is queued of its child.
LEMMA StopInFront ==
    ASSUME NEW q \in Seq(Acts), q # <<>>, NEW c \in Kids, q[1] = Stop(c),
           q = queue, Heard(c)
    PROVE  Due(Tail(q), c)
<1>1. 1 \in DOMAIN q
  BY TailPlaces
<1>2. Due(q, c)
  BY <1>1 DEF Heard, Free
<1>3. q[1] # Start(c)
  BY ActKinds
<1> QED
  BY <1>2, <1>3, TailQueued

\* Another child's stop in front changes nothing that is queued of a child.
LEMMA OtherStop ==
    ASSUME NEW q \in Seq(Acts), q # <<>>, NEW c \in Kids, q[1] = Stop(c), NEW d
    PROVE  /\ Due(q, d) => Due(Tail(q), d)
           /\ Free(q, d) => Free(Tail(q), d)
<1>1. q[1] # Start(d)
  BY ActKinds
<1> QED
  BY <1>1, TailQueued

LEMMA StopMatches ==
    ASSUME Typed, Matching, Firm, NEW c \in Kids, Stops(c)
    PROVE  Matching'
<1>1. LiveTyped /\ queue \in Seq(Acts)
  BY TypedParts DEF LoopTyped
<1>2. /\ queue # <<>> /\ queue[1] = Stop(c) /\ queue' = Tail(queue) /\ WanesHeard
      /\ live' = IF spec[c].shutdown = "brutal_kill" THEN [live EXCEPT ![c] = NoInst] ELSE live
      /\ UNCHANGED <<conf, running>>
  BY DEF Stops, coreVars
<1>3. ASSUME NEW d \in Kids, Heard(d)
      PROVE  Heard(d)'
  <2>1. CASE d = c
    BY <1>1, <1>2, <1>3, <2>1, StopInFront DEF Heard
  <2>2. CASE d # c
    <3>1. live'[d] = live[d]
      BY <1>1, <1>2, <2>2 DEF LiveTyped
    <3>2. Kept(d) => Kept(d)'
      BY <1>2, <3>1, WanesKeep
    <3> QED
      BY <1>1, <1>2, <1>3, <3>2, OtherStop DEF Heard
  <2> QED
    BY <2>1, <2>2
<1> QED
  BY <1>2, <1>3, StillMatching

LEMMA TimeoutMatches ==
    ASSUME Typed, Patient, Matching, Firm, RecvTimeout
    PROVE  Matching'
<1>1. LiveTyped /\ WorldTyped
  BY TypedParts
<1>2. /\ WanesHeard
      /\ \A c \in Kids : live'[c] = IF c \in Overdue THEN NoInst ELSE live[c]
      /\ queue' = queue /\ UNCHANGED <<conf, running>>
      /\ \E x \in pending : x[2] <= now
  BY TimeoutFacts DEF coreVars
<1>3. strategy # "one_for_one"
  BY <1>2 DEF Patient
<1>4. \A d \in Overdue : Disturbed(d)
  BY <1>3 DEF Overdue, Patient, Disturbed
<1>5. ASSUME NEW d \in Kids, ~Disturbed(d), Heard(d)
      PROVE  Heard(d)'
  <2>1. live'[d] = live[d]
    BY <1>2, <1>4, <1>5
  <2>2. Kept(d) => Kept(d)'
    BY <1>2, <2>1, WanesKeep
  <2> QED
    BY <1>2, <1>5, <2>2 DEF Heard
<1> QED
  BY <1>2, <1>5, StillMatching

\* What is heard when the Exit in front is taken out: for whom it was not.
LEMMA TailKeeps ==
    ASSUME Typed, mail # <<>>, mail' = Tail(mail), state' = state, NEW d \in Kids,
           live'[d] = live[d], live[d] # Head(mail)[1], Kept(d)
    PROVE  Kept(d)'
<1>1. mail \in Seq(Exits)
  BY TypedParts DEF WorldTyped
<1>2. Range(mail) = {Head(mail)} \cup Range(Tail(mail))
  BY <1>1, RangeHeadTail
<1> QED
  BY <1>2 DEF Kept, Up

LEMMA MatchingStep ==
    ASSUME Typed, Patient, Matching, [Next]_vars
    PROVE  Matching'
<1>1. SUFFICES ASSUME Firm'
               PROVE  Matching'
  BY DEF Matching
<1>2. /\ Firm /\ ~GivesUp(queue') /\ phase' # "gone"
      /\ TypeOK /\ queue \in Seq(Acts) /\ LiveTyped /\ WorldTyped
  <2>1. Firm
    BY <1>1, FirmBefore
  <2>2. ~GivesUp(queue') /\ phase' # "gone"
    BY <1>1 DEF Firm, GivesUp
  <2>3. TypeOK /\ queue \in Seq(Acts) /\ LiveTyped /\ WorldTyped
    BY TypedParts DEF LoopTyped, Typed
  <2> QED
    BY <2>1, <2>2, <2>3
<1>3. ASSUME UNCHANGED <<conf, running, queue, live, state, mail>>
      PROVE  Matching'
  <2>1. \A d \in Kids : Heard(d) => Heard(d)'
    BY <1>3 DEF Heard, Due, Free, Kept, Up
  <2> QED
    BY <1>2, <1>3, <2>1, StillMatching
<1>4. DoStart => Matching'
  BY <1>2, DrainSteps, StartMatches
<1>5. ASSUME StartFails
      PROVE  Matching'
  <2>1. PICK c \in Kids : Fails(c)
    BY <1>5, DrainSteps
  <2>2. /\ queue # <<>> /\ queue[1] = Start(c) /\ Tail(queue) \in Seq(Acts)
        /\ Decide(c, "exception", Tail(queue)) /\ UNCHANGED <<conf, live, mail, state>>
    BY <1>2, <2>1 DEF Fails
  <2>3. ASSUME NEW d \in Kids \ {c}
        PROVE  /\ spec[d].restart = "permanent" => running[d]
               /\ ~Disturbed(d) /\ running[d]
                     => Due(Tail(queue), d) \/ (Free(Tail(queue), d) /\ Kept(d)')
    <3>1. queue[1] # Start(d)
      BY <2>2, ActKinds
    <3>2. (Due(queue, d) => Due(Tail(queue), d)) /\ (Free(queue, d) => Free(Tail(queue), d))
      BY <1>2, <2>2, <3>1, TailQueued
    <3>3. Kept(d) => Kept(d)'
      BY <2>2 DEF Kept, Up
    <3> QED
      BY <1>2, <3>2, <3>3 DEF Matching, Heard
  <2> QED
    BY <1>2, <2>2, <2>3, DecideMatches
<1>6. ASSUME StopUnknown
      PROVE  Matching'
  <2> DEFINE c == Head(queue).kid
  <2>1. /\ phase = "drain" /\ queue # <<>> /\ Head(queue).op = "stop" /\ queue' = Tail(queue)
        /\ UNCHANGED <<conf, running, live, state, mail>>
    BY <1>6 DEF StopUnknown, Draining, coreVars, worldVars
  <2>2. c \in Kids /\ queue[1] = Stop(c)
    BY <2>1, HeadFacts
  <2> HIDE DEF c
  <2>3. ASSUME NEW d \in Kids, Heard(d)
        PROVE  Heard(d)'
    <3>1. CASE d = c
      BY <1>2, <2>1, <2>2, <2>3, <3>1, StopInFront DEF Heard
    <3>2. CASE d # c
      <4>1. Kept(d) => Kept(d)'
        BY <2>1 DEF Kept, Up
      <4> QED
        BY <1>2, <2>1, <2>2, <2>3, <4>1, OtherStop DEF Heard
    <3> QED
      BY <3>1, <3>2
  <2> QED
    BY <1>2, <2>1, <2>3, StillMatching
<1>7. DoStop => Matching'
  BY <1>2, DrainSteps, StopMatches
<1>8. DoGiveUp => Matching'
  BY <1>2 DEF DoGiveUp
<1>9. RecvWait => Matching'
  BY <1>3 DEF RecvWait, coreVars, worldVars
<1>10. ASSUME RecvExit
       PROVE  Matching'
  <2>1. ASSUME Ignores
        PROVE  Matching'
    <3>1. /\ mail # <<>> /\ mail' = Tail(mail) /\ \A d \in Kids : live[d] # Head(mail)[1]
          /\ UNCHANGED <<conf, running, live, queue, state>>
      BY <2>1 DEF Ignores, coreVars
    <3>2. ASSUME NEW d \in Kids, Heard(d)
          PROVE  Heard(d)'
      <4>1. Kept(d) => Kept(d)'
        BY <3>1, TailKeeps
      <4> QED
        BY <3>1, <3>2, <4>1 DEF Heard
    <3> QED
      BY <1>2, <3>1, <3>2, StillMatching
  <2>2. ASSUME NEW c \in Kids, Hears(c)
        PROVE  Matching'
    <3>1. PICK r \in ExitReasons : Decide(c, r, <<>>)
      BY <2>2 DEF Hears
    <3>2. /\ queue = <<>> /\ mail # <<>> /\ mail' = Tail(mail) /\ state' = state
          /\ live[c] = Head(mail)[1] /\ live[c] # NoInst
          /\ live' = [live EXCEPT ![c] = NoInst] /\ UNCHANGED conf
      BY <2>2 DEF Hears, Insts, NoInst
    <3>3. \A d : ~Due(<<>>, d) /\ Free(<<>>, d)
      BY DEF Due, Free
    <3>4. ASSUME NEW d \in Kids \ {c}
          PROVE  Kept(d) => Kept(d)'
      <4>1. live'[d] = live[d]
        BY <1>2, <3>2 DEF LiveTyped
      <4>2. Kept(d) => live[d] # live[c]
        BY <1>2, <3>2 DEF Kept, LiveTyped
      <4> QED
        BY <3>2, <4>1, <4>2, TailKeeps
    <3>5. \A d \in Kids \ {c} :
              /\ spec[d].restart = "permanent" => running[d]
              /\ ~Disturbed(d) /\ running[d] => Due(<<>>, d) \/ (Free(<<>>, d) /\ Kept(d)')
      BY <1>2, <3>2, <3>3, <3>4 DEF Matching, Heard
    <3>6. <<>> \in Seq(Acts)
      OBVIOUS
    <3> QED
      BY <1>2, <3>1, <3>2, <3>5, <3>6, DecideMatches
  <2> QED
    BY <1>10, <2>1, <2>2, RecvSteps
<1>11. RecvTimeout => Matching'
  BY <1>2, TimeoutMatches
<1>12. ASSUME NEW i \in Insts, NEW r \in {"normal", "exception"}, ChildExits(i, r)
       PROVE  Matching'
  <2>1. WanesHeard /\ UNCHANGED <<conf, running, live, queue>>
    BY <1>12, DieFacts DEF ChildExits, ExitReasons, coreVars, loopVars
  <2>2. ASSUME NEW d \in Kids, Heard(d)
        PROVE  Heard(d)'
    <3>1. Kept(d) => Kept(d)'
      BY <2>1, WanesKeep
    <3> QED
      BY <2>1, <2>2, <3>1 DEF Heard
  <2> QED
    BY <1>2, <2>1, <2>2, StillMatching
<1>13. Tick \/ UNCHANGED vars => Matching'
  BY <1>3 DEF Tick, vars, coreVars, loopVars, worldVars
<1> QED
  BY <1>4, <1>5, <1>6, <1>7, <1>8, <1>9, <1>10, <1>11, <1>12, <1>13 DEF Next, Loop

LEMMA InitMatching ==
    ASSUME Init
    PROVE  Patient /\ Matching
<1> DEFINE q == ToStarts(Ascending(Kids))
<1>1. queue = q /\ running = [c \in Kids |-> TRUE] /\ pending = {} /\ Kids \in SUBSET Kids
  BY DEF Init
<1>2. /\ q \in Seq(Acts)
      /\ \A k \in DOMAIN q : \E x \in Kids : q[k] = Start(x)
      /\ \A x \in Kids : \E k \in DOMAIN q : q[k] = Start(x)
  BY <1>1, StartsFacts DEF Starting
<1> HIDE DEF q
<1>3. \A k \in DOMAIN q : \A x \in Kids : q[k] # Stop(x)
  BY <1>2, ActKinds
<1>4. \A x \in Kids : Due(q, x)
  BY <1>2, <1>3 DEF Due
<1> QED
  BY <1>1, <1>3, <1>4 DEF Patient, Matching, Heard

\* When the supervisor waits and has heard of everything, every child its core
\* takes for running has a live instance, and every permanent child is among
\* those, whatever on_child_exit made of exits and failed starts before.
THEOREM SupervisorCoreMatchesWorld == Spec => []CoreMatchesWorld
<1>1. Init => Patient /\ Matching
  BY InitMatching
<1>2. Typed /\ Patient /\ Matching /\ [Next]_vars => Patient' /\ Matching'
  BY PatientStep, MatchingStep
<1>3. Typed /\ Matching => CoreMatchesWorld
  <2> SUFFICES ASSUME Typed, Matching, Quiet, NEW c \in Kids, ~Disturbed(c)
               PROVE  /\ running[c] => HasLive(c)
                      /\ spec[c].restart = "permanent" => running[c]
    BY DEF CoreMatchesWorld
  <2>1. queue = <<>> /\ mail = <<>> /\ phase = "wait"
    BY TypedParts DEF Quiet, LoopTyped
  <2>2. Firm /\ ~Due(queue, c)
    BY <2>1 DEF Firm, GivesUp, Due
  <2>3. Range(mail) = {}
    <3>1. mail \in Seq(Exits)
      BY TypedParts DEF WorldTyped
    <3> QED
      BY <2>1, <3>1, RangeEmpty
  <2> QED
    BY <2>2, <2>3 DEF Matching, Heard, Kept, HasLive
<1> QED
  BY <1>1, <1>2, <1>3, SupervisorTyped, PTL DEF Spec

-----------------------------------------------------------------------------
(* Children start in their order *)

Coming(q, d) == \E k \in DOMAIN q : q[k] = Start(d)

\* Behind the start of a child come those of the children after it that return.
Promised(q) ==
    \A c, d \in Kids : c < d /\ Returns(d) =>
        \A k \in DOMAIN q : q[k] = Start(c) => \E m \in DOMAIN q : k < m /\ q[m] = Start(d)

\* A child is not older than one before it, or is to be started once more.
Younger ==
    Firm /\ strategy # "one_for_one" =>
        /\ Promised(queue)
        /\ \A c, d \in Kids :
              c < d /\ Returns(d) /\ live[c] # NoInst /\ live[d] # NoInst
                  => live[c] < live[d] \/ Coming(queue, d)

LEMMA PromisedTail ==
    ASSUME NEW q \in Seq(Acts), q # <<>>
    PROVE  /\ Promised(q) => Promised(Tail(q))
           /\ \A d : Coming(q, d) => q[1] = Start(d) \/ Coming(Tail(q), d)
           /\ \A c, d \in Kids : Promised(q) /\ q[1] = Start(c) /\ c < d /\ Returns(d)
                 => Coming(Tail(q), d)
<1>1. /\ 1 \in DOMAIN q
      /\ \A k \in DOMAIN Tail(q) : k \in Nat /\ k + 1 \in DOMAIN q /\ Tail(q)[k] = q[k + 1]
      /\ \A k \in DOMAIN q : k \in Nat /\ (k = 1 \/ (k - 1 \in DOMAIN Tail(q) /\ q[k] = Tail(q)[k - 1]))
  BY TailPlaces
<1>2. ASSUME Promised(q), NEW c \in Kids, NEW d \in Kids, c < d, Returns(d),
             NEW k \in DOMAIN Tail(q), Tail(q)[k] = Start(c)
      PROVE  \E m \in DOMAIN Tail(q) : k < m /\ Tail(q)[m] = Start(d)
  <2>1. k + 1 \in DOMAIN q /\ q[k + 1] = Start(c) /\ k \in Nat
    BY <1>1, <1>2
  <2>2. PICK m \in DOMAIN q : k + 1 < m /\ q[m] = Start(d)
    BY <1>2, <2>1 DEF Promised
  <2>3. m - 1 \in DOMAIN Tail(q) /\ Tail(q)[m - 1] = Start(d) /\ k < m - 1
    BY <1>1, <2>1, <2>2
  <2> QED
    BY <2>3
<1>3. Promised(q) => Promised(Tail(q))
  BY <1>2 DEF Promised
<1>4. \A d : Coming(q, d) => q[1] = Start(d) \/ Coming(Tail(q), d)
  BY <1>1 DEF Coming
<1>5. ASSUME NEW c \in Kids, NEW d \in Kids, Promised(q), q[1] = Start(c), c < d, Returns(d)
      PROVE  Coming(Tail(q), d)
  <2>1. PICK m \in DOMAIN q : 1 < m /\ q[m] = Start(d)
    BY <1>1, <1>5 DEF Promised
  <2>2. m - 1 \in DOMAIN Tail(q) /\ Tail(q)[m - 1] = Start(d)
    BY <1>1, <2>1
  <2> QED
    BY <2>2 DEF Coming
<1> QED
  BY <1>3, <1>4, <1>5

LEMMA DecidePromises ==
    ASSUME TypeOK, NEW c \in Kids, NEW r, NEW rest \in Seq(Acts), Decide(c, r, rest),
           strategy # "one_for_one", ~GivesUp(queue'), Promised(rest)
    PROVE  /\ Promised(queue')
           /\ \A d : Coming(rest, d) => Coming(queue', d)
           /\ ShouldRestart(c, r) /\ Returns(c) => Coming(queue', c)
<1>1. Ends(c, r, rest) \/ FansOut(c, r, rest) \/ Quits(c, r, rest)
  BY Decides
<1>2. strategy \in Strategies
  BY DEF TypeOK
<1>3. CASE Ends(c, r, rest)
  BY <1>3 DEF Ends
<1>4. CASE FansOut(c, r, rest)
  <2>1. PICK b : Fan(b, c) /\ queue' = rest \o b
    BY <1>4 DEF FansOut
  <2>2. b \in Seq(Acts)
    BY <2>1 DEF Fan
  <2> DEFINE q == rest \o b
  <2>3. /\ Len(rest) \in Nat /\ DOMAIN q = 1..(Len(rest) + Len(b)) /\ Len(b) \in Nat
        /\ DOMAIN rest = 1..Len(rest) /\ DOMAIN b = 1..Len(b)
        /\ \A k \in DOMAIN rest : k \in DOMAIN q /\ k <= Len(rest) /\ q[k] = rest[k]
        /\ \A k \in DOMAIN b : Len(rest) + k \in DOMAIN q /\ q[Len(rest) + k] = b[k]
        /\ \A k \in DOMAIN q : \/ k \in DOMAIN rest /\ k <= Len(rest) /\ q[k] = rest[k]
                               \/ /\ k > Len(rest) /\ k - Len(rest) \in DOMAIN b
                                  /\ q[k] = b[k - Len(rest)]
    BY <2>2, Places
  <2> HIDE DEF q
  <2>4. ASSUME NEW x \in Kids, NEW d \in Kids, x < d, Returns(d), NEW k \in DOMAIN q, q[k] = Start(x)
        PROVE  \E m \in DOMAIN q : k < m /\ q[m] = Start(d)
    <3>1. CASE k \in DOMAIN rest /\ q[k] = rest[k]
      <4>1. PICK m \in DOMAIN rest : k < m /\ rest[m] = Start(d)
        BY <2>4, <3>1 DEF Promised
      <4> QED
        BY <2>3, <4>1
    <3>2. CASE k > Len(rest) /\ k - Len(rest) \in DOMAIN b /\ q[k] = b[k - Len(rest)]
      <4>1. x \in Affected(c)
        BY <2>1, <2>4, <3>2 DEF Fan
      <4>2. d \in Affected(c)
        BY <1>2, <2>4, <4>1, AffectedFacts
      <4>3. PICK m \in DOMAIN b : b[m] = Start(d)
        BY <2>1, <2>4, <4>2 DEF Fan
      <4>4. k - Len(rest) < m
        BY <2>1, <2>4, <3>2, <4>3 DEF Fan
      <4>5. Len(rest) + m \in DOMAIN q /\ q[Len(rest) + m] = Start(d) /\ k < Len(rest) + m
        BY <2>3, <4>3, <4>4
      <4> QED
        BY <4>5
    <3> QED
      BY <2>3, <3>1, <3>2
  <2>5. Promised(q)
    BY <2>4 DEF Promised
  <2>6. \A d : Coming(rest, d) => Coming(q, d)
    BY <2>3 DEF Coming
  <2>7. ShouldRestart(c, r) /\ Returns(c) => Coming(q, c)
    <3>1. Returns(c) => \E k \in DOMAIN b : b[k] = Start(c)
      BY <1>2, <2>1, AffectedFacts DEF Fan
    <3> QED
      BY <2>3, <3>1 DEF Coming
  <2> QED
    BY <2>1, <2>5, <2>6, <2>7 DEF q
<1>5. CASE Quits(c, r, rest)
  <2>1. PICK b : Quit(b, c) /\ queue' = rest \o b
    BY <1>5 DEF Quits
  <2> QED
    BY <2>1, QuitQueued
<1> QED
  BY <1>1, <1>3, <1>4, <1>5

\* Instances that are only forgotten leave the order as it is.
LEMMA ForgetYounger ==
    ASSUME Younger, Firm, UNCHANGED conf,
           \A c \in Kids : live'[c] = live[c] \/ live'[c] = NoInst,
           strategy # "one_for_one" /\ Promised(queue) => Promised(queue'),
           strategy # "one_for_one" /\ Promised(queue) =>
               \A d \in Kids : Returns(d) /\ Coming(queue, d) => Coming(queue', d)
    PROVE  Younger'
<1>1. \A d : Returns(d)' = Returns(d)
  BY DEF Returns, conf
<1>2. strategy' = strategy
  BY DEF conf
<1>3. SUFFICES ASSUME strategy # "one_for_one"
               PROVE  /\ Promised(queue)'
                      /\ \A c, d \in Kids :
                            c < d /\ Returns(d) /\ live'[c] # NoInst /\ live'[d] # NoInst
                                => live'[c] < live'[d] \/ Coming(queue', d)
  BY <1>1, <1>2 DEF Younger, Coming
<1>4. Promised(queue) /\ Promised(queue')
  BY <1>3 DEF Younger
<1>5. Promised(queue)'
  BY <1>4 DEF Promised, Returns, conf
<1>6. ASSUME NEW c \in Kids, NEW d \in Kids, c < d, Returns(d), live'[c] # NoInst, live'[d] # NoInst
      PROVE  live'[c] < live'[d] \/ Coming(queue', d)
  <2>1. live'[c] = live[c] /\ live'[d] = live[d]
    BY <1>6
  <2>2. live[c] < live[d] \/ Coming(queue, d)
    BY <1>3, <1>6, <2>1 DEF Younger
  <2> QED
    BY <1>3, <1>4, <1>6, <2>1, <2>2
<1> QED
  BY <1>5, <1>6

LEMMA YoungerStep ==
    ASSUME Typed, Younger, [Next]_vars
    PROVE  Younger'
<1>1. SUFFICES ASSUME Firm'
               PROVE  Younger'
  BY DEF Younger
<1>2. /\ Firm /\ ~GivesUp(queue') /\ phase' # "gone"
      /\ TypeOK /\ queue \in Seq(Acts) /\ LiveTyped /\ WorldTyped
  <2>1. Firm
    BY <1>1, FirmBefore
  <2>2. ~GivesUp(queue') /\ phase' # "gone"
    BY <1>1 DEF Firm, GivesUp
  <2>3. TypeOK /\ queue \in Seq(Acts) /\ LiveTyped /\ WorldTyped
    BY TypedParts DEF LoopTyped, Typed
  <2> QED
    BY <2>1, <2>2, <2>3
<1>3. ASSUME UNCHANGED <<conf, queue>>,
             \A c \in Kids : live'[c] = live[c] \/ live'[c] = NoInst
      PROVE  Younger'
  BY <1>2, <1>3, ForgetYounger
<1>4. ASSUME NEW c \in Kids, queue # <<>>, queue[1] = Stop(c), queue' = Tail(queue),
             UNCHANGED conf, \A d \in Kids : live'[d] = live[d] \/ live'[d] = NoInst
      PROVE  Younger'
  <2>1. \A d : queue[1] # Start(d)
    BY <1>4, ActKinds
  <2>2. Promised(queue) => Promised(queue')
    BY <1>2, <1>4, PromisedTail
  <2>3. \A d \in Kids : Coming(queue, d) => Coming(queue', d)
    BY <1>2, <1>4, <2>1, PromisedTail
  <2> QED
    BY <1>2, <1>4, <2>2, <2>3, ForgetYounger
<1>5. ASSUME DoStart
      PROVE  Younger'
  <2>1. PICK a \in Kids : Starts(a)
    BY <1>5, DrainSteps
  <2>2. /\ queue # <<>> /\ queue[1] = Start(a) /\ queue' = Tail(queue) /\ nextInst \in Insts
        /\ live' = [live EXCEPT ![a] = nextInst] /\ UNCHANGED conf
    BY <2>1 DEF Starts
  <2>3. SUFFICES ASSUME strategy # "one_for_one"
                 PROVE  /\ Promised(queue)'
                        /\ \A c, d \in Kids :
                              c < d /\ Returns(d) /\ live'[c] # NoInst /\ live'[d] # NoInst
                                  => live'[c] < live'[d] \/ Coming(queue', d)
    BY <2>2 DEF Younger, Coming, conf, Returns
  <2>4. Promised(queue)
    BY <1>2, <2>3 DEF Younger
  <2>5. Promised(queue')
    BY <1>2, <2>2, <2>4, PromisedTail
  <2>6. Promised(queue)'
    BY <2>2, <2>5 DEF Promised, Returns, conf
  <2>7. ASSUME NEW c \in Kids, NEW d \in Kids, c < d, Returns(d), live'[c] # NoInst, live'[d] # NoInst
        PROVE  live'[c] < live'[d] \/ Coming(queue', d)
    <3>1. c # d /\ \A x \in Kids : live'[x] = IF x = a THEN nextInst ELSE live[x]
      BY <1>2, <2>2, <2>7, SupervisorAssumption DEF LiveTyped, Kids
    <3>2. CASE c = a
      BY <1>2, <2>2, <2>4, <2>7, <3>2, PromisedTail
    <3>3. CASE d = a
      BY <1>2, <2>7, <3>1, <3>3 DEF LiveTyped
    <3>4. CASE c # a /\ d # a
      <4>1. live[c] < live[d] \/ Coming(queue, d)
        BY <1>2, <2>3, <2>7, <3>1, <3>4 DEF Younger
      <4>2. queue[1] # Start(d)
        BY <2>2, <3>4, ActKinds
      <4>3. Coming(queue, d) => Coming(queue', d)
        BY <1>2, <2>2, <4>2, PromisedTail
      <4> QED
        BY <3>1, <3>4, <4>1, <4>3
    <3> QED
      BY <3>2, <3>3, <3>4
  <2> QED
    BY <2>6, <2>7
<1>6. ASSUME StartFails
      PROVE  Younger'
  <2>1. PICK a \in Kids : Fails(a)
    BY <1>6, DrainSteps
  <2>2. /\ queue # <<>> /\ queue[1] = Start(a) /\ Tail(queue) \in Seq(Acts)
        /\ Decide(a, "exception", Tail(queue)) /\ UNCHANGED <<conf, live>>
    BY <1>2, <2>1 DEF Fails
  <2>3. ASSUME strategy # "one_for_one", Promised(queue)
        PROVE  /\ Promised(queue')
               /\ \A d \in Kids : Returns(d) /\ Coming(queue, d) => Coming(queue', d)
    <3>1. Promised(Tail(queue))
      BY <1>2, <2>2, <2>3, PromisedTail
    <3>2. /\ Promised(queue')
          /\ \A d : Coming(Tail(queue), d) => Coming(queue', d)
          /\ ShouldRestart(a, "exception") /\ Returns(a) => Coming(queue', a)
      BY <1>2, <2>2, <2>3, <3>1, DecidePromises
    <3>3. Returns(a) => ShouldRestart(a, "exception")
      BY <1>2, SupervisorAssumption DEF Returns, ShouldRestart, WarrantsRestart, TypeOK
    <3>4. ASSUME NEW d \in Kids, Returns(d), Coming(queue, d)
          PROVE  Coming(queue', d)
      <4>1. CASE d = a
        BY <3>2, <3>3, <3>4, <4>1
      <4>2. CASE d # a
        <5>1. queue[1] # Start(d)
          BY <2>2, <4>2, ActKinds
        <5> QED
          BY <1>2, <2>2, <3>2, <3>4, <5>1, PromisedTail
      <4> QED
        BY <4>1, <4>2
    <3> QED
      BY <3>2, <3>4
  <2> QED
    BY <1>2, <2>2, <2>3, ForgetYounger
<1>7. ASSUME StopUnknown
      PROVE  Younger'
  <2>1. /\ phase = "drain" /\ queue # <<>> /\ Head(queue).op = "stop" /\ queue' = Tail(queue)
        /\ UNCHANGED <<conf, live>>
    BY <1>7 DEF StopUnknown, Draining
  <2>2. PICK c \in Kids : queue[1] = Stop(c)
    BY <2>1, HeadFacts
  <2> QED
    BY <1>4, <2>1, <2>2
<1>8. ASSUME DoStop
      PROVE  Younger'
  <2>1. PICK c \in Kids : Stops(c)
    BY <1>8, DrainSteps
  <2>2. \A d \in Kids : live'[d] = live[d] \/ live'[d] = NoInst
    BY <1>2, <2>1 DEF Stops, LiveTyped
  <2> QED
    BY <1>4, <2>1, <2>2 DEF Stops
<1>9. DoGiveUp => Younger'
  BY <1>2 DEF DoGiveUp
<1>10. RecvWait => Younger'
  BY <1>3 DEF RecvWait
<1>11. ASSUME RecvExit
       PROVE  Younger'
  <2>1. ASSUME NEW c \in Kids, Hears(c)
        PROVE  Younger'
    <3>1. PICK r \in ExitReasons : Decide(c, r, <<>>)
      BY <2>1 DEF Hears
    <3>2. queue = <<>> /\ live' = [live EXCEPT ![c] = NoInst] /\ UNCHANGED conf
      BY <2>1 DEF Hears
    <3>3. <<>> \in Seq(Acts) /\ Promised(<<>>)
      BY DEF Promised
    <3>4. strategy # "one_for_one" => Promised(queue')
      BY <1>2, <3>1, <3>3, DecidePromises
    <3>5. \A d : ~Coming(queue, d)
      BY <3>2 DEF Coming
    <3>6. \A d \in Kids : live'[d] = live[d] \/ live'[d] = NoInst
      BY <1>2, <3>2 DEF LiveTyped
    <3> QED
      BY <1>2, <3>2, <3>4, <3>5, <3>6, ForgetYounger
  <2>2. Ignores => Younger'
    BY <1>3 DEF Ignores
  <2> QED
    BY <1>11, <2>1, <2>2, RecvSteps
<1>12. ASSUME RecvTimeout
       PROVE  Younger'
  <2>1. /\ \A c \in Kids : live'[c] = IF c \in Overdue THEN NoInst ELSE live[c]
        /\ queue' = queue /\ UNCHANGED conf
    BY <1>12, TimeoutFacts
  <2> QED
    BY <1>3, <2>1
<1>13. ASSUME NEW i \in Insts, NEW r \in {"normal", "exception"}, ChildExits(i, r)
       PROVE  Younger'
  BY <1>3, <1>13 DEF ChildExits, loopVars
<1>14. Tick \/ UNCHANGED vars => Younger'
  BY <1>3 DEF Tick, vars, loopVars
<1> QED
  BY <1>5, <1>6, <1>7, <1>8, <1>9, <1>10, <1>11, <1>12, <1>13, <1>14 DEF Next, Loop

LEMMA InitYounger ==
    ASSUME Init
    PROVE  Younger
<1> DEFINE q == ToStarts(Ascending(Kids))
<1>1. queue = q /\ live = [c \in Kids |-> NoInst] /\ Kids \in SUBSET Kids
  BY DEF Init
<1>2. /\ \A x \in Kids : \E k \in DOMAIN q : q[k] = Start(x)
      /\ \A k, m \in DOMAIN q : \A x, y \in Kids :
            q[k] = Start(x) /\ q[m] = Start(y) => (k < m <=> x < y)
  BY <1>1, StartsFacts DEF Starting
<1> HIDE DEF q
<1>3. Promised(q)
  BY <1>2 DEF Promised
<1> QED
  BY <1>1, <1>3 DEF Younger

\* When the supervisor of one_for_all or rest_for_one waits and has heard of
\* everything, a child that returns is younger than each before it: what on_child_exit
\* fans out starts them again in their order, batch after batch.
THEOREM SupervisorLaterChildIsYounger == Spec => []LaterChildIsYounger
<1>1. Init => Younger
  BY InitYounger
<1>2. Typed /\ Younger /\ [Next]_vars => Younger'
  BY YoungerStep
<1>3. Typed /\ Younger => LaterChildIsYounger
  <2> SUFFICES ASSUME Typed, Younger, Quiet
               PROVE  LaterChildIsYounger
    BY DEF LaterChildIsYounger
  <2>1. queue = <<>> /\ phase = "wait"
    BY TypedParts DEF Quiet, LoopTyped
  <2>2. Firm /\ \A d : ~Coming(queue, d)
    BY <2>1 DEF Firm, GivesUp, Coming
  <2> QED
    BY <2>2 DEF Younger, LaterChildIsYounger, Returns
<1> QED
  BY <1>1, <1>2, <1>3, SupervisorTyped, PTL DEF Spec

-----------------------------------------------------------------------------
(* Children run once *)

Living(c) == \E i \in Insts : Up(i) /\ kidOf[i] = c

\* One start of a child is queued at most.
Lone(q, c) == \A k, m \in DOMAIN q : q[k] = Start(c) /\ q[m] = Start(c) => k = m

\* Between two starts of a child there is a stop of it.
Apart(q, c) ==
    \A k, m \in DOMAIN q : k < m /\ q[k] = Start(c) /\ q[m] = Start(c) =>
        \E j \in DOMAIN q : k < j /\ j < m /\ q[j] = Stop(c)

\* A child that runs is stopped before it is started.
Cleared(q, c) ==
    \A k \in DOMAIN q : q[k] = Start(c) /\ Living(c) =>
        strategy # "one_for_one" /\ \E j \in DOMAIN q : j < k /\ q[j] = Stop(c)

LEMMA TailOne ==
    ASSUME NEW q \in Seq(Acts), q # <<>>, NEW d
    PROVE  /\ Lone(q, d) => Lone(Tail(q), d)
           /\ Lone(q, d) /\ q[1] = Start(d) => ~Coming(Tail(q), d)
           /\ Apart(q, d) => Apart(Tail(q), d)
           /\ Coming(Tail(q), d) => Coming(q, d)
           /\ Cleared(q, d) /\ q[1] = Start(d) => ~Living(d)
           /\ Cleared(q, d) /\ q[1] # Stop(d) => Cleared(Tail(q), d)
           /\ ~Living(d) => Cleared(Tail(q), d)
           /\ Apart(q, d) /\ q[1] = Start(d) =>
                 \A k \in DOMAIN Tail(q) : Tail(q)[k] = Start(d) =>
                     \E j \in DOMAIN Tail(q) : j < k /\ Tail(q)[j] = Stop(d)
<1> DEFINE t == Tail(q)
<1>1. /\ 1 \in DOMAIN q
      /\ \A k \in DOMAIN t : k \in Nat /\ k + 1 \in DOMAIN q /\ t[k] = q[k + 1] /\ k >= 1
      /\ \A k \in DOMAIN q : k \in Nat /\ k >= 1
      /\ \A k \in DOMAIN q : (k = 1 \/ (k - 1 \in DOMAIN t /\ q[k] = t[k - 1]))
  <2>1. /\ 1 \in DOMAIN q /\ DOMAIN q = 1..Len(q) /\ DOMAIN Tail(q) = 1..(Len(q) - 1)
        /\ Len(q) \in Nat
        /\ \A k \in DOMAIN Tail(q) : k \in Nat /\ k + 1 \in DOMAIN q /\ Tail(q)[k] = q[k + 1]
        /\ \A k \in DOMAIN q : k \in Nat /\ (k = 1 \/ (k - 1 \in DOMAIN Tail(q) /\ q[k] = Tail(q)[k - 1]))
    BY TailPlaces
  <2> HIDE DEF t
  <2>2. t = Tail(q)
    BY DEF t
  <2> QED
    BY <2>1, <2>2
<1> HIDE DEF t
<1>2. Lone(q, d) => Lone(t, d)
  <2> SUFFICES ASSUME Lone(q, d), NEW k \in DOMAIN t, NEW m \in DOMAIN t, t[k] = Start(d), t[m] = Start(d)
               PROVE  k = m
    BY DEF Lone
  <2>1. k + 1 = m + 1
    BY <1>1 DEF Lone
  <2> QED
    BY <1>1, <2>1
<1>3. Lone(q, d) /\ q[1] = Start(d) => ~Coming(t, d)
  <2> SUFFICES ASSUME Lone(q, d), q[1] = Start(d), NEW k \in DOMAIN t, t[k] = Start(d)
               PROVE  FALSE
    BY DEF Coming
  <2>1. k + 1 = 1
    BY <1>1 DEF Lone
  <2> QED
    BY <1>1, <2>1
<1>4. ASSUME Apart(q, d)
      PROVE  Apart(t, d)
  <2> SUFFICES ASSUME NEW k \in DOMAIN t, NEW m \in DOMAIN t, k < m, t[k] = Start(d), t[m] = Start(d)
               PROVE  \E j \in DOMAIN t : k < j /\ j < m /\ t[j] = Stop(d)
    BY DEF Apart
  <2>1. /\ k + 1 \in DOMAIN q /\ m + 1 \in DOMAIN q /\ k + 1 < m + 1
        /\ q[k + 1] = Start(d) /\ q[m + 1] = Start(d)
    BY <1>1
  <2>2. PICK j \in DOMAIN q : k + 1 < j /\ j < m + 1 /\ q[j] = Stop(d)
    BY <1>4, <2>1 DEF Apart
  <2>3. j - 1 \in DOMAIN t /\ t[j - 1] = Stop(d) /\ k < j - 1 /\ j - 1 < m
    BY <1>1, <2>2
  <2> QED
    BY <2>3
<1>5. Coming(t, d) => Coming(q, d)
  BY <1>1 DEF Coming
<1>6. Cleared(q, d) /\ q[1] = Start(d) => ~Living(d)
  <2> SUFFICES ASSUME Cleared(q, d), q[1] = Start(d), Living(d)
               PROVE  FALSE
    OBVIOUS
  <2>1. PICK j \in DOMAIN q : j < 1
    BY <1>1 DEF Cleared
  <2> QED
    BY <1>1, <2>1
<1>7. ASSUME Cleared(q, d), q[1] # Stop(d)
      PROVE  Cleared(t, d)
  <2> SUFFICES ASSUME NEW k \in DOMAIN t, t[k] = Start(d), Living(d)
               PROVE  strategy # "one_for_one" /\ \E j \in DOMAIN t : j < k /\ t[j] = Stop(d)
    BY DEF Cleared
  <2>1. k + 1 \in DOMAIN q /\ q[k + 1] = Start(d)
    BY <1>1
  <2>2. PICK j \in DOMAIN q : j < k + 1 /\ q[j] = Stop(d) /\ strategy # "one_for_one"
    BY <1>7, <2>1 DEF Cleared
  <2>3. j - 1 \in DOMAIN t /\ t[j - 1] = Stop(d) /\ j - 1 < k
    BY <1>1, <1>7, <2>2
  <2> QED
    BY <2>2, <2>3
<1>8. ~Living(d) => Cleared(t, d)
  BY DEF Cleared
<1>9. ASSUME Apart(q, d), q[1] = Start(d), NEW k \in DOMAIN t, t[k] = Start(d)
      PROVE  \E j \in DOMAIN t : j < k /\ t[j] = Stop(d)
  <2>1. k + 1 \in DOMAIN q /\ 1 < k + 1 /\ q[k + 1] = Start(d)
    BY <1>1, <1>9
  <2>2. PICK j \in DOMAIN q : 1 < j /\ j < k + 1 /\ q[j] = Stop(d)
    BY <1>1, <1>9, <2>1 DEF Apart
  <2>3. j - 1 \in DOMAIN t /\ t[j - 1] = Stop(d) /\ j - 1 < k
    BY <1>1, <1>9, <2>2
  <2> QED
    BY <2>3
<1> QED
  BY <1>2, <1>3, <1>4, <1>5, <1>6, <1>7, <1>8, <1>9 DEF t

\* The starts of a child that are queued when a fan-out, or a shutdown, is added.
LEMMA FanOne ==
    ASSUME NEW rest \in Seq(Acts), NEW c \in Kids, NEW b, Fan(b, c), strategy \in Strategies,
           NEW d \in Kids
    PROVE  LET q == rest \o b
           IN  /\ ~Coming(rest, d) => Lone(q, d)
               /\ d \notin Affected(c) =>
                     /\ Lone(rest, d) => Lone(q, d)
                     /\ Coming(q, d) => Coming(rest, d)
               /\ Apart(rest, d)
                     /\ (d \in Affected(c) /\ Returns(d) /\ Coming(rest, d) => d # c /\ running[d])
                     => Apart(q, d)
               /\ Cleared(rest, d)
                     /\ (d \in Affected(c) /\ Returns(d) /\ Living(d) =>
                            strategy # "one_for_one" /\ d # c /\ running[d])
                     => Cleared(q, d)
<1> DEFINE q == rest \o b
           L == Len(rest)
<1>1. b \in Seq(Acts)
  BY DEF Fan
<1>2. /\ L \in Nat /\ DOMAIN q = 1..(L + Len(b)) /\ Len(b) \in Nat
      /\ DOMAIN rest = 1..L /\ DOMAIN b = 1..Len(b)
      /\ \A k \in DOMAIN rest : k \in DOMAIN q /\ k <= L /\ q[k] = rest[k]
      /\ \A k \in DOMAIN b : L + k \in DOMAIN q /\ q[L + k] = b[k]
      /\ \A k \in DOMAIN q : \/ k \in DOMAIN rest /\ k <= L /\ q[k] = rest[k]
                             \/ /\ k > L /\ k - L \in DOMAIN b
                                /\ q[k] = b[k - L]
  BY <1>1, Places
<1> HIDE DEF q, L
<1>3. \A k \in DOMAIN q : k \in Nat
  BY <1>2
\* A start is among the rest, or the only one added, of a child that is affected.
<1>4. \A k \in DOMAIN q : q[k] = Start(d) =>
          \/ k \in DOMAIN rest /\ rest[k] = Start(d)
          \/ k > L /\ k - L \in DOMAIN b /\ b[k - L] = Start(d) /\ d \in Affected(c) /\ Returns(d)
  BY <1>2 DEF Fan
<1>5. ASSUME NEW k \in DOMAIN b, NEW m \in DOMAIN b, b[k] = Start(d), b[m] = Start(d)
      PROVE  k = m
  <2>1. /\ k < m <=> d < d
        /\ m < k <=> d < d
    BY <1>5 DEF Fan
  <2>2. d \in Int
    BY SupervisorAssumption DEF Kids
  <2>3. k \in Int /\ m \in Int
    BY <1>2
  <2> QED
    BY <2>1, <2>2, <2>3
<1>6. ASSUME NEW k \in DOMAIN q, NEW m \in DOMAIN q, q[k] = Start(d), q[m] = Start(d), k > L, m > L
      PROVE  k = m
  <2>1. k - L = m - L
    BY <1>2, <1>4, <1>5, <1>6
  <2> QED
    BY <1>2, <1>3, <2>1
<1>7. ~Coming(rest, d) => Lone(q, d)
  BY <1>4, <1>6 DEF Coming, Lone
<1>8. d \notin Affected(c) => (Lone(rest, d) => Lone(q, d)) /\ (Coming(q, d) => Coming(rest, d))
  BY <1>4 DEF Coming, Lone
\* A stop of a running survivor is added before its start.
<1>9. ASSUME d \in Affected(c), d # c, running[d], NEW m \in DOMAIN q, q[m] = Start(d), m > L
      PROVE  \E j \in DOMAIN q : L < j /\ j < m /\ q[j] = Stop(d)
  <2>1. PICK j \in DOMAIN b : b[j] = Stop(d)
    BY <1>9 DEF Fan
  <2>2. m - L \in DOMAIN b /\ b[m - L] = Start(d)
    BY <1>2, <1>4, <1>9
  <2>3. j < m - L
    BY <2>1, <2>2 DEF Fan
  <2>4. L + j \in DOMAIN q /\ q[L + j] = Stop(d) /\ L < L + j /\ L + j < m
    BY <1>2, <1>3, <2>1, <2>3
  <2> QED
    BY <2>4
<1>10. ASSUME Apart(rest, d), d \in Affected(c) /\ Returns(d) /\ Coming(rest, d) => d # c /\ running[d]
       PROVE  Apart(q, d)
  <2> SUFFICES ASSUME NEW k \in DOMAIN q, NEW m \in DOMAIN q, k < m, q[k] = Start(d), q[m] = Start(d)
               PROVE  \E j \in DOMAIN q : k < j /\ j < m /\ q[j] = Stop(d)
    BY DEF Apart
  <2>1. CASE m \in DOMAIN rest /\ rest[m] = Start(d)
    <3>1. k \in DOMAIN rest /\ rest[k] = Start(d)
      BY <1>2, <1>3, <1>4, <2>1
    <3>2. PICK j \in DOMAIN rest : k < j /\ j < m /\ rest[j] = Stop(d)
      BY <1>10, <2>1, <3>1 DEF Apart
    <3> QED
      BY <1>2, <3>2
  <2>2. CASE m > L /\ d \in Affected(c) /\ Returns(d)
    <3>1. k \in DOMAIN rest /\ rest[k] = Start(d) /\ k <= L
      BY <1>2, <1>3, <1>4, <1>6, <2>2
    <3>2. d # c /\ running[d]
      BY <1>10, <2>2, <3>1 DEF Coming
    <3>3. PICK j \in DOMAIN q : L < j /\ j < m /\ q[j] = Stop(d)
      BY <1>9, <2>2, <3>2
    <3>4. k < j
      BY <1>2, <1>3, <3>1, <3>3
    <3> QED
      BY <3>3, <3>4
  <2> QED
    BY <1>4, <2>1, <2>2
<1>11. ASSUME Cleared(rest, d),
              d \in Affected(c) /\ Returns(d) /\ Living(d) => strategy # "one_for_one" /\ d # c /\ running[d]
       PROVE  Cleared(q, d)
  <2> SUFFICES ASSUME NEW k \in DOMAIN q, q[k] = Start(d), Living(d)
               PROVE  strategy # "one_for_one" /\ \E j \in DOMAIN q : j < k /\ q[j] = Stop(d)
    BY DEF Cleared
  <2>1. CASE k \in DOMAIN rest /\ rest[k] = Start(d)
    BY <1>2, <1>11, <2>1 DEF Cleared
  <2>2. CASE k > L /\ d \in Affected(c) /\ Returns(d)
    BY <1>9, <1>11, <2>2
  <2> QED
    BY <1>4, <2>1, <2>2
<1> QED
  BY <1>7, <1>8, <1>10, <1>11 DEF q

LEMMA QuitOne ==
    ASSUME NEW rest \in Seq(Acts), NEW c \in Kids, NEW b, Quit(b, c), NEW d \in Kids
    PROVE  LET q == rest \o b
           IN  /\ Lone(rest, d) => Lone(q, d)
               /\ Coming(q, d) => Coming(rest, d)
               /\ Apart(rest, d) => Apart(q, d)
               /\ Cleared(rest, d) => Cleared(q, d)
<1> DEFINE q == rest \o b
<1>1. b \in Seq(Acts)
  BY DEF Quit
<1>2. /\ Len(rest) \in Nat /\ DOMAIN q = 1..(Len(rest) + Len(b)) /\ Len(b) \in Nat
      /\ DOMAIN rest = 1..Len(rest) /\ DOMAIN b = 1..Len(b)
      /\ \A k \in DOMAIN rest : k \in DOMAIN q /\ k <= Len(rest) /\ q[k] = rest[k]
      /\ \A k \in DOMAIN b : Len(rest) + k \in DOMAIN q /\ q[Len(rest) + k] = b[k]
      /\ \A k \in DOMAIN q : \/ k \in DOMAIN rest /\ k <= Len(rest) /\ q[k] = rest[k]
                             \/ /\ k > Len(rest) /\ k - Len(rest) \in DOMAIN b
                                /\ q[k] = b[k - Len(rest)]
  BY <1>1, Places
<1> HIDE DEF q
<1>3. \A k \in DOMAIN b : b[k] # Start(d)
  BY ActKinds DEF Quit
<1>4. \A k \in DOMAIN q : q[k] = Start(d) => k \in DOMAIN rest /\ rest[k] = Start(d)
  BY <1>2, <1>3
<1>5. (Lone(rest, d) => Lone(q, d)) /\ (Coming(q, d) => Coming(rest, d))
  BY <1>4 DEF Lone, Coming
<1>6. Apart(rest, d) => Apart(q, d)
  <2> SUFFICES ASSUME Apart(rest, d), NEW k \in DOMAIN q, NEW m \in DOMAIN q, k < m,
                      q[k] = Start(d), q[m] = Start(d)
               PROVE  \E j \in DOMAIN q : k < j /\ j < m /\ q[j] = Stop(d)
    BY DEF Apart
  <2>1. PICK j \in DOMAIN rest : k < j /\ j < m /\ rest[j] = Stop(d)
    BY <1>4 DEF Apart
  <2> QED
    BY <1>2, <2>1
<1>7. Cleared(rest, d) => Cleared(q, d)
  <2> SUFFICES ASSUME Cleared(rest, d), NEW k \in DOMAIN q, q[k] = Start(d), Living(d)
               PROVE  strategy # "one_for_one" /\ \E j \in DOMAIN q : j < k /\ q[j] = Stop(d)
    BY DEF Cleared
  <2>1. PICK j \in DOMAIN rest : j < k /\ rest[j] = Stop(d) /\ strategy # "one_for_one"
    BY <1>4 DEF Cleared
  <2> QED
    BY <1>2, <2>1
<1> QED
  BY <1>5, <1>6, <1>7 DEF q

\* The children whose stop is over before their start: a single child is
\* restarted when it is dead, a brutal kill is applied at once.
Single(c) ==
    \/ strategy = "one_for_one"
    \/ spec[c].shutdown = "brutal_kill" /\ fails <= 1

OneLive(c) == \A i \in Insts : Up(i) /\ kidOf[i] = c => live[c] = i

\* Only a start that failed queues a child twice, and only a supervisor in
\* which one failed has starts queued when it gives up.
Sole ==
    /\ strategy = "one_for_one" \/ fails = 0 => \A c \in Kids : Lone(queue, c)
    /\ fails = 0 /\ GivesUp(queue) => \A c \in Kids : ~Coming(queue, c)

One ==
    \A c \in Kids : Single(c) => OneLive(c) /\ Apart(queue, c) /\ Cleared(queue, c)

\* The core takes for running what runs or is to be started.
Believed ==
    Firm => \A c \in Kids :
        /\ Single(c)
        /\ strategy = "one_for_one" \/ Returns(c)
        /\ Living(c) \/ Coming(queue, c)
        => running[c]

\* The core decides about one child, which is dead and not to be started.
LEMMA DecideOne ==
    ASSUME TypeOK, NEW c \in Kids, NEW r, NEW rest \in Seq(Acts), Decide(c, r, rest),
           NEW d \in Kids, Apart(rest, d), Cleared(rest, d),
           d = c => ~Living(c) /\ ~Coming(rest, c),
           /\ strategy # "one_for_one" /\ Returns(d) /\ d # c
           /\ Living(d) \/ Coming(rest, d)
           => running[d]
    PROVE  /\ Apart(queue', d) /\ Cleared(queue', d)
           /\ /\ strategy = "one_for_one" \/ Returns(d)
              /\ d # c /\ (Living(d) \/ Coming(rest, d)) => running[d]
              /\ ~GivesUp(queue')
              /\ Living(d) \/ Coming(queue', d)
              => running'[d]
<1>1. Ends(c, r, rest) \/ FansOut(c, r, rest) \/ Quits(c, r, rest)
  BY Decides
<1>2. strategy \in Strategies /\ running \in [Kids -> BOOLEAN]
  BY DEF TypeOK
<1>3. CASE Ends(c, r, rest)
  <2>1. queue' = rest /\ running'[d] = IF d = c THEN FALSE ELSE running[d]
    BY <1>2, <1>3 DEF Ends
  <2> QED
    BY <2>1
<1>4. CASE FansOut(c, r, rest)
  <2>1. PICK b : Fan(b, c) /\ queue' = rest \o b
    BY <1>4 DEF FansOut
  <2>2. /\ c \in Affected(c)
        /\ strategy = "one_for_one" => Affected(c) = {c}
    BY <1>2, AffectedFacts
  <2>3. /\ Apart(rest, d)
                     /\ (d \in Affected(c) /\ Returns(d) /\ Coming(rest, d) => d # c /\ running[d])
                     => Apart(queue', d)
        /\ Cleared(rest, d)
                     /\ (d \in Affected(c) /\ Returns(d) /\ Living(d) =>
                            strategy # "one_for_one" /\ d # c /\ running[d])
                     => Cleared(queue', d)
        /\ d \notin Affected(c) => (Coming(queue', d) => Coming(rest, d))
    <3> DEFINE q == rest \o b
    <3>1. /\ d \notin Affected(c) =>
                     /\ Lone(rest, d) => Lone(q, d)
                     /\ Coming(q, d) => Coming(rest, d)
          /\ Apart(rest, d)
                     /\ (d \in Affected(c) /\ Returns(d) /\ Coming(rest, d) => d # c /\ running[d])
                     => Apart(q, d)
          /\ Cleared(rest, d)
                     /\ (d \in Affected(c) /\ Returns(d) /\ Living(d) =>
                            strategy # "one_for_one" /\ d # c /\ running[d])
                     => Cleared(q, d)
      BY <1>2, <2>1, FanOne
    <3> HIDE DEF q
    <3>2. queue' = q
      BY <2>1 DEF q
    <3> QED
      BY <3>1, <3>2
  <2>4. Cleared(queue', d)
    BY <2>2, <2>3
  <2>5. Apart(queue', d)
    BY <2>2, <2>3
  <2>6. ASSUME strategy = "one_for_one" \/ Returns(d),
               d # c /\ (Living(d) \/ Coming(rest, d)) => running[d],
               Living(d) \/ Coming(queue', d)
        PROVE  running'[d]
    <3>1. running'[d] = IF d \in Affected(c) THEN Returns(d) ELSE running[d]
      BY <1>4 DEF FansOut
    <3>2. ShouldRestart(c, r) => Returns(c)
      BY DEF ShouldRestart, Returns
    <3>3. CASE d \in Affected(c)
      BY <1>4, <2>2, <2>6, <3>1, <3>2, <3>3 DEF FansOut
    <3>4. CASE d \notin Affected(c)
      BY <2>2, <2>3, <2>6, <3>1, <3>4
    <3> QED
      BY <3>3, <3>4
  <2> QED
    BY <2>4, <2>5, <2>6
<1>5. CASE Quits(c, r, rest)
  <2>1. PICK b : Quit(b, c) /\ queue' = rest \o b
    BY <1>5 DEF Quits
  <2>2. GivesUp(queue')
    BY <2>1, QuitQueued
  <2>3. Apart(queue', d) /\ Cleared(queue', d)
    BY <2>1, QuitOne
  <2> QED
    BY <2>2, <2>3
<1> QED
  BY <1>1, <1>3, <1>4, <1>5

LEMMA DecideSole ==
    ASSUME TypeOK, NEW c \in Kids, NEW r, NEW rest \in Seq(Acts), Decide(c, r, rest),
           NEW d \in Kids, Lone(rest, d), d \in Affected(c) => ~Coming(rest, d)
    PROVE  Lone(queue', d)
<1>1. Ends(c, r, rest) \/ FansOut(c, r, rest) \/ Quits(c, r, rest)
  BY Decides
<1>2. strategy \in Strategies
  BY DEF TypeOK
<1>3. CASE Ends(c, r, rest)
  BY <1>3 DEF Ends
<1>4. CASE FansOut(c, r, rest)
  <2>1. PICK b : Fan(b, c) /\ queue' = rest \o b
    BY <1>4 DEF FansOut
  <2> DEFINE q == rest \o b
  <2>2. /\ ~Coming(rest, d) => Lone(q, d)
        /\ d \notin Affected(c) =>
              /\ Lone(rest, d) => Lone(q, d)
              /\ Coming(q, d) => Coming(rest, d)
    BY <1>2, <2>1, FanOne
  <2> HIDE DEF q
  <2>3. queue' = q
    BY <2>1 DEF q
  <2> QED
    BY <2>2, <2>3
<1>5. CASE Quits(c, r, rest)
  <2>1. PICK b : Quit(b, c) /\ queue' = rest \o b
    BY <1>5 DEF Quits
  <2> QED
    BY <2>1, QuitOne
<1> QED
  BY <1>1, <1>3, <1>4, <1>5

\* A supervisor that gives up on an Exit has no starts queued.
LEMMA DecideQuiet ==
    ASSUME TypeOK, NEW c \in Kids, NEW r, Decide(c, r, <<>>), GivesUp(queue')
    PROVE  \A d \in Kids : ~Coming(queue', d)
<1> DEFINE e == <<>>
<1>1. e \in Seq(Acts) /\ ~GivesUp(e) /\ \A d : ~Coming(e, d)
  BY DEF GivesUp, Coming
<1>2. Ends(c, r, e) \/ FansOut(c, r, e) \/ Quits(c, r, e)
  BY <1>1, Decides
<1> HIDE DEF e
<1>3. CASE Ends(c, r, e)
  BY <1>1, <1>3 DEF Ends
<1>4. CASE FansOut(c, r, e)
  <2>1. PICK b : Fan(b, c) /\ queue' = e \o b
    BY <1>4 DEF FansOut
  <2>2. b \in Seq(Acts) /\ \A k \in DOMAIN b : b[k] # GiveUp
    BY <2>1 DEF Fan
  <2>3. e \o b = b
    BY <2>2 DEF e
  <2> QED
    BY <2>1, <2>2, <2>3 DEF GivesUp
<1>5. CASE Quits(c, r, e)
  <2>1. PICK b : Quit(b, c) /\ queue' = e \o b
    BY <1>5 DEF Quits
  <2> QED
    BY <1>1, <2>1, QuitOne
<1> QED
  BY <1>2, <1>3, <1>4, <1>5

\* What is cleared for more children is so for fewer.
LEMMA ClearedLess ==
    ASSUME NEW d, Cleared(queue', d), Living(d)' => Living(d), UNCHANGED conf
    PROVE  Cleared(queue, d)'
  BY DEF Cleared, conf

LEMMA SingleBefore ==
    ASSUME Typed, UNCHANGED conf, fails' >= fails, fails' \in Nat, NEW d, Single(d)'
    PROVE  Single(d)
<1>1. fails \in Nat
  BY TypedParts DEF WorldTyped
<1> QED
  BY <1>1 DEF Single, conf

LEMMA LivingLess ==
    ASSUME UNCHANGED kidOf, \A i \in Insts : state'[i] = "up" => state[i] = "up"
    PROVE  \A d : Living(d)' => Living(d)
  BY DEF Living, Up

\* A step that starts nothing and takes at most a stop from the queue.
LEMMA FewerAlone ==
    ASSUME Typed, Sole, One, Believed, Firm' => Firm,
           UNCHANGED <<conf, running, kidOf, fails>>,
           \A i \in Insts : state'[i] = "up" => state[i] = "up",
           \A d \in Kids : Single(d) /\ OneLive(d) => OneLive(d)',
           \A d \in Kids : Lone(queue, d) => Lone(queue', d),
           \A d \in Kids : Apart(queue, d) => Apart(queue', d),
           \A d \in Kids : Coming(queue', d) => Coming(queue, d),
           GivesUp(queue') => GivesUp(queue),
           \A d \in Kids : Single(d) /\ OneLive(d) /\ Cleared(queue, d) => Cleared(queue, d)'
    PROVE  Sole' /\ One' /\ Believed'
<1>1. \A d : Living(d)' => Living(d)
  BY LivingLess
<1>2. \A d : Single(d)' <=> Single(d)
  BY DEF Single, conf
<1>3. Sole'
  BY DEF Sole, Lone, Coming, GivesUp, conf
<1>4. One'
  <2> SUFFICES ASSUME NEW d \in Kids, Single(d)'
               PROVE  OneLive(d)' /\ Apart(queue, d)' /\ Cleared(queue, d)'
    BY DEF One
  <2>1. Single(d) /\ OneLive(d) /\ Apart(queue, d) /\ Cleared(queue, d)
    BY <1>2 DEF One
  <2>2. Apart(queue', d)
    BY <2>1
  <2>3. Apart(queue, d)'
    BY <2>2 DEF Apart
  <2> QED
    BY <2>1, <2>3
<1>5. Believed'
  <2> SUFFICES ASSUME Firm', NEW d \in Kids, Single(d)', strategy = "one_for_one" \/ Returns(d)',
                      Living(d)' \/ Coming(queue, d)'
               PROVE  running'[d]
    BY DEF Believed, conf
  <2>1. Returns(d)' = Returns(d) /\ (Coming(queue, d)' => Coming(queue', d))
    BY DEF Returns, Coming, conf
  <2>2. Living(d) \/ Coming(queue, d)
    BY <1>1, <2>1
  <2> QED
    BY <1>2, <2>1, <2>2 DEF Believed
<1> QED
  BY <1>3, <1>4, <1>5

LEMMA StartAlone ==
    ASSUME Typed, Sole, One, Believed, Firm' => Firm, NEW a \in Kids, Starts(a)
    PROVE  Sole' /\ One' /\ Believed'
<1>1. LiveTyped /\ WorldTyped /\ queue \in Seq(Acts)
  BY TypedParts DEF LoopTyped
<1>2. /\ queue # <<>> /\ queue[1] = Start(a) /\ queue' = Tail(queue) /\ nextInst \in Insts
      /\ live' = [live EXCEPT ![a] = nextInst] /\ state' = [state EXCEPT ![nextInst] = "up"]
      /\ kidOf' = [kidOf EXCEPT ![nextInst] = a] /\ UNCHANGED <<conf, running, fails>>
      /\ state[nextInst] = "unborn"
  BY DEF Starts, coreVars
<1>3. 1 \in DOMAIN queue
  BY <1>1, <1>2, TailPlaces
<1>4. /\ \A i \in Insts : state'[i] = IF i = nextInst THEN "up" ELSE state[i]
      /\ \A i \in Insts : kidOf'[i] = IF i = nextInst THEN a ELSE kidOf[i]
      /\ \A d \in Kids : live'[d] = IF d = a THEN nextInst ELSE live[d]
  BY <1>1, <1>2 DEF LiveTyped, WorldTyped
<1>5. \A d \in Kids : d # a => (Living(d)' <=> Living(d))
  BY <1>2, <1>4 DEF Living, Up
<1>6. \A d : Single(d)' <=> Single(d)
  BY <1>2 DEF Single, conf
<1>7. GivesUp(Tail(queue)) => GivesUp(queue)
  BY <1>1, <1>2, TailQueued
<1>8. \A d \in Kids : Coming(queue', d) => Coming(queue, d)
  BY <1>1, <1>2, TailOne
<1>9. Sole'
  <2>1. \A d \in Kids : Lone(queue, d) => Lone(queue', d)
    BY <1>1, <1>2, TailOne
  <2> QED
    BY <1>2, <1>7, <1>8, <2>1 DEF Sole, Lone, Coming, GivesUp, conf
<1>10. ASSUME NEW d \in Kids, Single(d)
       PROVE  OneLive(d)' /\ Apart(queue, d)' /\ Cleared(queue, d)'
  <2>1. OneLive(d) /\ Apart(queue, d) /\ Cleared(queue, d)
    BY <1>10 DEF One
  <2>2. Apart(queue, d)'
    <3>1. Apart(queue', d)
      BY <1>1, <1>2, <2>1, TailOne
    <3> QED
      BY <3>1 DEF Apart
  <2>3. CASE d = a
    <3>1. ~Living(a)
      BY <1>1, <1>2, <2>1, <2>3, TailOne
    <3>2. OneLive(a)'
      BY <1>2, <1>4, <3>1 DEF OneLive, Living, Up
    <3>3. Cleared(queue, a)'
      <4> DEFINE t == Tail(queue)
      <4>1. strategy = "one_for_one" => \A k \in DOMAIN t : t[k] # Start(a)
        <5>1. strategy = "one_for_one" => Lone(queue, a)
          BY DEF Sole
        <5>2. strategy = "one_for_one" => ~Coming(Tail(queue), a)
          BY <1>1, <1>2, <5>1, TailOne
        <5> QED
          BY <5>2 DEF Coming
      <4>2. \A k \in DOMAIN t : t[k] = Start(a) => \E j \in DOMAIN t : j < k /\ t[j] = Stop(a)
        BY <1>1, <1>2, <2>1, <2>3, TailOne
      <4>3. queue' = t /\ strategy' = strategy
        BY <1>2 DEF conf
      <4> HIDE DEF t
      <4> QED
        BY <4>1, <4>2, <4>3 DEF Cleared
    <3> QED
      BY <2>2, <2>3, <3>2, <3>3
  <2>4. CASE d # a
    <3>1. queue[1] # Stop(d)
      BY <1>2, ActKinds
    <3>2. Cleared(queue', d)
      BY <1>1, <1>2, <2>1, <3>1, TailOne
    <3>3. Cleared(queue, d)'
      BY <1>2, <1>5, <2>4, <3>2, ClearedLess
    <3>4. OneLive(d)'
      BY <1>2, <1>4, <2>1, <2>4 DEF OneLive, Up
    <3> QED
      BY <2>2, <3>3, <3>4
  <2> QED
    BY <2>3, <2>4
<1>11. One'
  BY <1>6, <1>10 DEF One
<1>12. Believed'
  <2> SUFFICES ASSUME Firm', NEW d \in Kids, Single(d)', strategy = "one_for_one" \/ Returns(d),
                      Living(d)' \/ Coming(queue, d)'
               PROVE  running'[d]
    BY <1>2 DEF Believed, conf, Returns
  <2>1. Coming(queue, a)
    BY <1>2, <1>3 DEF Coming
  <2>2. Living(d) \/ Coming(queue, d)
    BY <1>5, <1>8, <2>1 DEF Coming
  <2> QED
    BY <1>2, <1>6, <2>2 DEF Believed
<1> QED
  BY <1>9, <1>11, <1>12

LEMMA FailAlone ==
    ASSUME Typed, Sole, One, Believed, Firm' => Firm, NEW a \in Kids, Fails(a), phase = "drain"
    PROVE  Sole' /\ One' /\ Believed'
<1>1. /\ TypeOK /\ WorldTyped /\ queue \in Seq(Acts) /\ strategy \in Strategies
      /\ fails \in Nat /\ running \in [Kids -> BOOLEAN]
  BY TypedParts DEF LoopTyped, Typed, WorldTyped, CoreTyped
<1>2. /\ queue # <<>> /\ queue[1] = Start(a) /\ Tail(queue) \in Seq(Acts)
      /\ Decide(a, "exception", Tail(queue)) /\ fails' = fails + 1
      /\ UNCHANGED <<conf, live, state, kidOf>>
  BY <1>1 DEF Fails
<1> DEFINE rest == Tail(queue)
<1>3. /\ \A d : Living(d)' <=> Living(d)
      /\ \A d : OneLive(d)' <=> OneLive(d)
  BY <1>2 DEF Living, OneLive, Up
<1>4. \A d : Single(d)' => Single(d) /\ (strategy = "one_for_one" \/ fails = 0)
  BY <1>1, <1>2 DEF Single, conf
<1>5. Coming(queue, a)
  BY <1>1, <1>2, TailPlaces DEF Coming
<1>6. ASSUME strategy = "one_for_one" \/ fails = 0
      PROVE  /\ ~Coming(rest, a)
             /\ \A d \in Kids : Lone(rest, d)
  <2>1. \A d \in Kids : Lone(queue, d)
    BY <1>6 DEF Sole
  <2> QED
    BY <1>1, <1>2, <2>1, TailOne
<1>7. Sole'
  <2>1. ASSUME strategy = "one_for_one", NEW d \in Kids
        PROVE  Lone(queue', d)
    <3>1. d \in Affected(a) => d = a
      BY <1>1, <2>1, AffectedFacts
    <3>2. Lone(rest, d) /\ (d \in Affected(a) => ~Coming(rest, d))
      BY <1>6, <2>1, <3>1
    <3> QED
      BY <1>1, <1>2, <3>2, DecideSole
  <2>2. fails' # 0
    BY <1>1, <1>2
  <2> QED
    BY <1>2, <2>1, <2>2 DEF Sole, Lone, conf
\* If a decision on a failed start does without giving up, the supervisor went on.
<1>8. fails = 0 => Firm
  BY <1>5 DEF Sole, Firm
<1>9. ASSUME NEW d \in Kids, Single(d)'
      PROVE  /\ OneLive(d)' /\ Apart(queue, d)' /\ Cleared(queue, d)'
             /\ Firm' /\ (strategy = "one_for_one" \/ Returns(d))
                /\ (Living(d) \/ Coming(queue', d)) => running'[d]
  <2>1. Single(d) /\ (strategy = "one_for_one" \/ fails = 0)
    BY <1>4, <1>9
  <2>2. OneLive(d) /\ Apart(queue, d) /\ Cleared(queue, d)
    BY <2>1 DEF One
  <2>3. queue[1] # Stop(d)
    BY <1>2, ActKinds
  <2>4. Apart(rest, d) /\ Cleared(rest, d)
    BY <1>1, <1>2, <2>2, <2>3, TailOne
  <2>5. d = a => ~Living(a) /\ ~Coming(rest, a)
    BY <1>1, <1>2, <1>6, <2>1, <2>2, TailOne
  <2>6. Coming(rest, d) => Coming(queue, d)
    BY <1>1, <1>2, TailOne
  <2>7. ASSUME Firm, strategy = "one_for_one" \/ Returns(d), Living(d) \/ Coming(rest, d)
        PROVE  running[d]
    BY <2>1, <2>6, <2>7 DEF Believed
  <2>8. /\ strategy # "one_for_one" /\ Returns(d) /\ d # a
        /\ Living(d) \/ Coming(rest, d)
        => running[d]
    BY <1>8, <2>1, <2>7
  <2> HIDE DEF rest
  <2>9. /\ Apart(queue', d) /\ Cleared(queue', d)
        /\ /\ strategy = "one_for_one" \/ Returns(d)
           /\ d # a /\ (Living(d) \/ Coming(rest, d)) => running[d]
           /\ ~GivesUp(queue')
           /\ Living(d) \/ Coming(queue', d)
           => running'[d]
    <3>1. rest \in Seq(Acts) /\ Decide(a, "exception", rest)
      BY <1>2 DEF rest
    <3> QED
      BY <1>1, <2>4, <2>5, <2>8, <3>1, DecideOne
  <2>10. Firm' => ~GivesUp(queue')
    BY DEF Firm, GivesUp
  <2>11. OneLive(d)' /\ Apart(queue, d)' /\ Cleared(queue, d)'
    <3>1. Apart(queue, d)'
      BY <2>9 DEF Apart
    <3> QED
      BY <1>2, <1>3, <2>2, <2>9, <3>1, ClearedLess
  <2> QED
    BY <2>7, <2>9, <2>10, <2>11
<1>10. One'
  BY <1>9 DEF One
<1>11. Believed'
  <2> SUFFICES ASSUME Firm', NEW d \in Kids, Single(d)', strategy = "one_for_one" \/ Returns(d),
                      Living(d)' \/ Coming(queue, d)'
               PROVE  running'[d]
    BY <1>2 DEF Believed, conf, Returns
  <2>1. Living(d) \/ Coming(queue', d)
    BY <1>3 DEF Coming
  <2> QED
    BY <1>9, <2>1
<1> QED
  BY <1>7, <1>10, <1>11

LEMMA HearAlone ==
    ASSUME Typed, Sole, One, Believed, Firm, NEW c \in Kids, Hears(c)
    PROVE  Sole' /\ One' /\ Believed'
<1>1. /\ TypeOK /\ WorldTyped /\ LiveTyped /\ strategy \in Strategies
      /\ running \in [Kids -> BOOLEAN]
  BY TypedParts DEF Typed, CoreTyped
<1>2. PICK r \in ExitReasons : Decide(c, r, <<>>)
  BY DEF Hears
<1>3. /\ queue = <<>> /\ mail # <<>> /\ live[c] = Head(mail)[1] /\ live[c] \in Insts
      /\ live' = [live EXCEPT ![c] = NoInst] /\ UNCHANGED <<conf, state, kidOf, fails>>
  BY DEF Hears
<1>4. state[live[c]] = "dead"
  <2>1. mail \in Seq(Exits)
    BY <1>1 DEF WorldTyped
  <2>2. Head(mail) \in Range(mail)
    BY <1>3, <2>1, RangeHeadTail
  <2> QED
    BY <1>1, <1>3, <2>2 DEF WorldTyped
<1>5. OneLive(c) => ~Living(c)
  BY <1>4 DEF OneLive, Living, Up
<1> DEFINE e == <<>>
<1>6. /\ e \in Seq(Acts) /\ \A d : ~Coming(e, d) /\ Lone(e, d) /\ Apart(e, d) /\ Cleared(e, d)
      /\ Decide(c, r, e)
  BY <1>2 DEF Coming, Lone, Apart, Cleared
<1> HIDE DEF e
<1>7. \A d \in Kids : Lone(queue', d)
  BY <1>1, <1>6, DecideSole
<1>8. GivesUp(queue') => \A d \in Kids : ~Coming(queue', d)
  BY <1>1, <1>2, DecideQuiet
<1>9. Sole'
  BY <1>7, <1>8 DEF Sole, Lone, Coming, GivesUp
<1>10. /\ \A d : Living(d)' <=> Living(d)
       /\ \A d : Single(d)' <=> Single(d)
  BY <1>3 DEF Living, Up, Single, conf
<1>11. ASSUME NEW d \in Kids, Single(d)
       PROVE  /\ OneLive(d)' /\ Apart(queue, d)' /\ Cleared(queue, d)'
              /\ Firm' /\ (strategy = "one_for_one" \/ Returns(d))
                 /\ (Living(d) \/ Coming(queue', d)) => running'[d]
  <2>1. OneLive(d)
    BY <1>11 DEF One
  <2>2. d = c => ~Living(c) /\ ~Coming(e, c)
    BY <1>5, <1>6, <2>1
  <2>3. (strategy = "one_for_one" \/ Returns(d)) /\ (Living(d) \/ Coming(e, d)) => running[d]
    BY <1>6, <1>11 DEF Believed
  <2>4. /\ Apart(queue', d) /\ Cleared(queue', d)
        /\ /\ strategy = "one_for_one" \/ Returns(d)
           /\ d # c /\ (Living(d) \/ Coming(e, d)) => running[d]
           /\ ~GivesUp(queue')
           /\ Living(d) \/ Coming(queue', d)
           => running'[d]
    BY <1>1, <1>6, <2>2, <2>3, DecideOne
  <2>5. Firm' => ~GivesUp(queue')
    BY DEF Firm, GivesUp
  <2>6. OneLive(d)'
    <3>1. CASE d = c
      BY <1>3, <1>5, <2>1, <3>1 DEF OneLive, Living, Up
    <3>2. CASE d # c
      <4>1. live'[d] = live[d]
        BY <1>1, <1>3, <3>2 DEF LiveTyped
      <4> QED
        BY <1>3, <2>1, <4>1 DEF OneLive, Up
    <3> QED
      BY <3>1, <3>2
  <2>7. Apart(queue, d)' /\ Cleared(queue, d)'
    <3>1. Apart(queue, d)'
      BY <2>4 DEF Apart
    <3> QED
      BY <1>3, <1>10, <2>4, <3>1, ClearedLess
  <2> QED
    BY <2>3, <2>4, <2>5, <2>6, <2>7
<1>12. One'
  BY <1>10, <1>11 DEF One
<1>13. Believed'
  <2> SUFFICES ASSUME Firm', NEW d \in Kids, Single(d)', strategy = "one_for_one" \/ Returns(d),
                      Living(d)' \/ Coming(queue, d)'
               PROVE  running'[d]
    BY <1>3 DEF Believed, conf, Returns
  <2>1. Living(d) \/ Coming(queue', d)
    BY <1>10 DEF Coming
  <2> QED
    BY <1>10, <1>11, <2>1
<1> QED
  BY <1>9, <1>12, <1>13

\* A stop in front is taken: its child does not run any more, or it is one that
\* nothing else is queued of.
LEMMA StopAlone ==
    ASSUME Typed, Sole, One, Believed, Firm' => Firm, NEW c \in Kids,
           queue # <<>>, queue[1] = Stop(c), queue' = Tail(queue),
           UNCHANGED <<conf, running, kidOf, fails>>,
           \A i \in Insts : state'[i] = "up" => state[i] = "up",
           \A d \in Kids : Single(d) /\ OneLive(d) => OneLive(d)',
           strategy # "one_for_one" /\ Single(c) /\ OneLive(c) => ~Living(c)'
    PROVE  Sole' /\ One' /\ Believed'
<1>1. queue \in Seq(Acts)
  BY TypedParts DEF LoopTyped
<1>2. /\ \A d \in Kids : Lone(queue, d) => Lone(queue', d)
      /\ \A d \in Kids : Apart(queue, d) => Apart(queue', d)
      /\ \A d \in Kids : Coming(queue', d) => Coming(queue, d)
      /\ GivesUp(queue') => GivesUp(queue)
  BY <1>1, TailOne, TailQueued
<1>3. \A d : Living(d)' => Living(d)
  BY LivingLess
<1>4. ASSUME NEW d \in Kids, Single(d), OneLive(d), Cleared(queue, d)
      PROVE  Cleared(queue, d)'
  <2>1. CASE d # c
    <3>1. queue[1] # Stop(d)
      BY <2>1, ActKinds
    <3>2. Cleared(queue', d)
      BY <1>1, <1>4, <3>1, TailOne
    <3> QED
      BY <1>3, <3>2, ClearedLess
  <2>2. CASE d = c /\ strategy # "one_for_one"
    BY <1>4, <2>2 DEF Cleared
  <2>3. CASE d = c /\ strategy = "one_for_one"
    <3>1. Living(c) => ~Coming(queue, c)
      BY <1>4, <2>3 DEF Cleared, Coming
    <3>2. Living(c)' => ~Coming(queue', c)
      BY <1>2, <1>3, <3>1
    <3> QED
      BY <2>3, <3>2 DEF Cleared, Coming
  <2> QED
    BY <2>1, <2>2, <2>3
<1> QED
  BY <1>2, <1>4, FewerAlone

\* A step that leaves the queue alone.
LEMMA CalmAlone ==
    ASSUME Typed, Sole, One, Believed, Firm' => Firm,
           UNCHANGED <<conf, running, kidOf, fails, queue>>,
           \A i \in Insts : state'[i] = "up" => state[i] = "up",
           \A d \in Kids : Single(d) /\ OneLive(d) => OneLive(d)'
    PROVE  Sole' /\ One' /\ Believed'
<1>1. \A d : Living(d)' => Living(d)
  BY LivingLess
<1>2. \A d \in Kids : Cleared(queue, d) => Cleared(queue, d)'
  BY <1>1, ClearedLess
<1> QED
  BY <1>2, FewerAlone

LEMMA AloneStep ==
    ASSUME Typed, Sole, One, Believed, [Next]_vars
    PROVE  Sole' /\ One' /\ Believed'
<1>1. /\ TypeOK /\ WorldTyped /\ LiveTyped /\ queue \in Seq(Acts)
      /\ Firm' => Firm
  <2>1. TypeOK /\ WorldTyped /\ LiveTyped /\ queue \in Seq(Acts)
    BY TypedParts DEF LoopTyped, Typed
  <2>2. Firm' => Firm
    BY FirmBefore
  <2> QED
    BY <2>1, <2>2
<1>2. ASSUME UNCHANGED <<conf, running, kidOf, fails, queue, state, live>>
      PROVE  Sole' /\ One' /\ Believed'
  BY <1>1, <1>2, CalmAlone DEF OneLive, Up
<1>3. DoStart => Sole' /\ One' /\ Believed'
  BY <1>1, DrainSteps, StartAlone
<1>4. StartFails => Sole' /\ One' /\ Believed'
  BY <1>1, DrainSteps, FailAlone DEF StartFails, Draining
<1>5. ASSUME StopUnknown
      PROVE  Sole' /\ One' /\ Believed'
  <2>5. phase = "drain" /\ queue # <<>> /\ Head(queue).op = "stop" /\ queue' = Tail(queue)
    BY <1>5 DEF StopUnknown, Draining
  <2>6. live[Head(queue).kid] = NoInst
    BY <1>5 DEF StopUnknown
  <2>2. PICK c \in Kids : queue[1] = Stop(c) /\ live[c] = NoInst
    BY <2>5, <2>6, HeadFacts
  <2>7. UNCHANGED <<conf, running, kidOf, fails, live, state>>
    BY <1>5 DEF StopUnknown, coreVars, worldVars
  <2>1. /\ queue # <<>> /\ queue' = Tail(queue)
        /\ UNCHANGED <<conf, running, kidOf, fails, live, state>>
        /\ live[c] = NoInst
    BY <2>2, <2>5, <2>7
  <2>3. OneLive(c) => ~Living(c)'
    <3>1. NoInst \notin Insts
      BY SupervisorAssumption DEF NoInst, Insts
    <3> QED
      BY <2>1, <3>1 DEF OneLive, Living, Up
  <2>4. \A d \in Kids : OneLive(d) => OneLive(d)'
    BY <2>1 DEF OneLive, Up
  <2> QED
    BY <1>1, <2>1, <2>2, <2>3, <2>4, StopAlone
<1>6. ASSUME DoStop
      PROVE  Sole' /\ One' /\ Believed'
  <2>1. PICK c \in Kids : Stops(c)
    BY <1>6, DrainSteps
  <2>2. /\ queue # <<>> /\ queue[1] = Stop(c) /\ queue' = Tail(queue)
        /\ live[c] \in Insts /\ WanesHeard
        /\ spec[c].shutdown = "brutal_kill" => state'[live[c]] # "up"
        /\ live' = IF spec[c].shutdown = "brutal_kill" THEN [live EXCEPT ![c] = NoInst] ELSE live
        /\ UNCHANGED <<conf, running, kidOf, fails>>
    BY <2>1 DEF Stops, coreVars
  <2>3. \A i \in Insts : state'[i] = "up" => state[i] = "up"
    BY <2>2 DEF WanesHeard, Wanes
  <2>4. spec[c].shutdown = "brutal_kill" /\ OneLive(c) => ~Living(c)'
    BY <2>2, <2>3 DEF OneLive, Living, Up
  <2>5. ASSUME NEW d \in Kids, OneLive(d)
        PROVE  OneLive(d)'
    <3>1. CASE d = c /\ spec[c].shutdown = "brutal_kill"
      BY <2>4, <2>5, <3>1 DEF OneLive, Living
    <3>2. CASE ~(d = c /\ spec[c].shutdown = "brutal_kill")
      <4>1. live'[d] = live[d]
        BY <1>1, <2>2, <3>2 DEF LiveTyped
      <4> QED
        BY <2>2, <2>3, <2>5, <4>1 DEF OneLive, Up
    <3> QED
      BY <3>1, <3>2
  <2>6. strategy # "one_for_one" /\ Single(c) /\ OneLive(c) => ~Living(c)'
    BY <2>4 DEF Single
  <2> QED
    BY <1>1, <2>2, <2>3, <2>5, <2>6, StopAlone
<1>7. ASSUME DoGiveUp
      PROVE  Sole' /\ One' /\ Believed'
  <2>1. /\ queue' = <<>> /\ phase' = "gone" /\ UNCHANGED <<conf, running, kidOf, fails, live>>
        /\ \A i \in Insts : state'[i] = "up" => state[i] = "up"
    BY <1>1, <1>7 DEF DoGiveUp, coreVars, WorldTyped
  <2>2. /\ \A d \in Kids : OneLive(d) => OneLive(d)'
        /\ \A d \in Kids : Lone(queue', d) /\ Apart(queue', d) /\ ~Coming(queue', d)
        /\ \A d \in Kids : Cleared(queue, d)'
        /\ ~GivesUp(queue')
    BY <2>1 DEF OneLive, Up, Lone, Apart, Coming, Cleared, GivesUp
  <2> QED
    BY <1>1, <2>1, <2>2, FewerAlone
<1>8. RecvWait => Sole' /\ One' /\ Believed'
  BY <1>2 DEF RecvWait, coreVars, worldVars
<1>9. ASSUME RecvExit
      PROVE  Sole' /\ One' /\ Believed'
  <2>1. ASSUME NEW c \in Kids, Hears(c)
        PROVE  Sole' /\ One' /\ Believed'
    <3>1. Firm
      BY <2>1 DEF Hears, Firm, GivesUp
    <3> QED
      BY <2>1, <3>1, HearAlone
  <2>2. Ignores => Sole' /\ One' /\ Believed'
    BY <1>2 DEF Ignores, coreVars
  <2> QED
    BY <1>9, <2>1, <2>2, RecvSteps
<1>10. ASSUME RecvTimeout
       PROVE  Sole' /\ One' /\ Believed'
  <2>1. /\ WanesHeard
        /\ \A i \in Insts : state'[i] = IF i \in Killed THEN "dead" ELSE state[i]
        /\ \A c \in Kids : live'[c] = IF c \in Overdue THEN NoInst ELSE live[c]
        /\ UNCHANGED <<conf, running, kidOf, fails, queue>>
    BY <1>10, TimeoutFacts DEF coreVars
  <2>2. \A i \in Insts : state'[i] = "up" => state[i] = "up"
    BY <2>1
  <2>3. ASSUME NEW d \in Kids, OneLive(d)
        PROVE  OneLive(d)'
    <3>1. CASE d \in Overdue
      <4>1. \A i \in Insts : Up(i) /\ kidOf[i] = d => i \in Killed
        BY <2>3, <3>1 DEF OneLive, Killed
      <4> QED
        BY <2>1, <2>2, <4>1 DEF OneLive, Up
    <3>2. CASE d \notin Overdue
      BY <2>1, <2>2, <2>3, <3>2 DEF OneLive, Up
    <3> QED
      BY <3>1, <3>2
  <2> QED
    BY <1>1, <2>1, <2>2, <2>3, CalmAlone
<1>11. ASSUME NEW i \in Insts, NEW r \in {"normal", "exception"}, ChildExits(i, r)
       PROVE  Sole' /\ One' /\ Believed'
  <2>1. WanesHeard /\ UNCHANGED <<conf, running, kidOf, fails, queue, live>>
    BY <1>11, DieFacts DEF ChildExits, ExitReasons, coreVars, loopVars
  <2>2. \A j \in Insts : state'[j] = "up" => state[j] = "up"
    BY <2>1 DEF WanesHeard, Wanes
  <2>3. \A d \in Kids : OneLive(d) => OneLive(d)'
    BY <2>1, <2>2 DEF OneLive, Up
  <2> QED
    BY <1>1, <2>1, <2>2, <2>3, CalmAlone
<1>12. Tick \/ UNCHANGED vars => Sole' /\ One' /\ Believed'
  BY <1>2 DEF Tick, vars, coreVars, loopVars, worldVars
<1> QED
  BY <1>3, <1>4, <1>5, <1>6, <1>7, <1>8, <1>9, <1>10, <1>11, <1>12 DEF Next, Loop

LEMMA InitAlone ==
    ASSUME Init
    PROVE  Sole /\ One /\ Believed
<1> DEFINE q == ToStarts(Ascending(Kids))
<1>1. /\ queue = q /\ Kids \in SUBSET Kids /\ running = [c \in Kids |-> TRUE]
      /\ \A i \in Insts : state[i] # "up"
  BY DEF Init
<1>2. /\ q \in Seq(Acts)
      /\ \A k \in DOMAIN q : \E x \in Kids : q[k] = Start(x)
      /\ \A k, m \in DOMAIN q : \A x, y \in Kids :
            q[k] = Start(x) /\ q[m] = Start(y) => (k < m <=> x < y)
  BY <1>1, StartsFacts DEF Starting
<1> HIDE DEF q
<1>3. \A k \in DOMAIN q : k \in Int
  BY <1>2
<1>4. \A d \in Kids : d \in Int
  BY SupervisorAssumption DEF Kids
<1>5. ASSUME NEW d \in Kids
      PROVE  Lone(q, d) /\ Apart(q, d)
  <2>1. ASSUME NEW k \in DOMAIN q, NEW m \in DOMAIN q, q[k] = Start(d), q[m] = Start(d)
        PROVE  k = m
    <3>1. (k < m <=> d < d) /\ (m < k <=> d < d)
      BY <1>2, <2>1
    <3> QED
      BY <1>3, <1>4, <3>1
  <2> QED
    BY <1>3, <2>1 DEF Lone, Apart
<1>6. \A d : ~Living(d)
  BY <1>1 DEF Living, Up
<1>7. ~GivesUp(q)
  BY <1>2, ActKinds DEF GivesUp
<1> QED
  BY <1>1, <1>5, <1>6, <1>7 DEF Sole, One, Believed, OneLive, Living, Cleared

\* Under one_for_one, and for a child that is killed to be stopped while at most
\* one start has failed, no child has two instances at the same time: whatever
\* on_child_exit queues, an earlier instance has gone when the next is started.
THEOREM SupervisorOneInstance == Spec => []OneInstance
<1>1. Init => Sole /\ One /\ Believed
  BY InitAlone
<1>2. Typed /\ Sole /\ One /\ Believed /\ [Next]_vars => Sole' /\ One' /\ Believed'
  BY AloneStep
<1>3. Typed /\ One => OneInstance
  <2> SUFFICES ASSUME Typed, One, NEW i \in Insts, NEW j \in Insts,
                      Up(i), Up(j), kidOf[i] = kidOf[j], Single(kidOf[i])
               PROVE  i = j
    BY DEF OneInstance, Single
  <2>1. kidOf[i] \in Kids
    BY TypedParts DEF WorldTyped, Up
  <2>2. OneLive(kidOf[i])
    BY <2>1 DEF One
  <2> QED
    BY <2>2 DEF OneLive
<1> QED
  BY <1>1, <1>2, <1>3, SupervisorTyped, PTL DEF Spec

-----------------------------------------------------------------------------
(* Children end with their supervisor *)

\* The place where the supervisor will give up.
GivesUpAt(q, p) ==
    p \in DOMAIN q /\ q[p] = GiveUp /\ \A m \in DOMAIN q : m < p => q[m] # GiveUp

\* The last that is queued of a child before that place is that it stops.
LeftStopped(q, c, p) ==
    \E j \in DOMAIN q :
        /\ j < p /\ q[j] = Stop(c)
        /\ \A k \in DOMAIN q : j < k /\ k < p => q[k] # Start(c)

Swept(q, c) == \A p \in DOMAIN q : GivesUpAt(q, p) => LeftStopped(q, c, p)

\* It is, if the child is started before.
StartsEnd(q, c) ==
    \A p \in DOMAIN q : GivesUpAt(q, p) =>
        \A k \in DOMAIN q : k < p /\ q[k] = Start(c) => LeftStopped(q, c, p)

LEMMA TailSwept ==
    ASSUME NEW q \in Seq(Acts), q # <<>>, q[1] # GiveUp, NEW d
    PROVE  /\ q[1] # Stop(d) /\ Swept(q, d) => Swept(Tail(q), d)
           /\ q[1] = Start(d) /\ StartsEnd(q, d) => Swept(Tail(q), d)
           /\ StartsEnd(q, d) => StartsEnd(Tail(q), d)
<1> DEFINE t == Tail(q)
<1>1. /\ 1 \in DOMAIN q
      /\ \A k \in DOMAIN t : k \in Nat /\ k + 1 \in DOMAIN q /\ t[k] = q[k + 1] /\ k >= 1
      /\ \A k \in DOMAIN q : k \in Nat /\ k >= 1
      /\ \A k \in DOMAIN q : (k = 1 \/ (k - 1 \in DOMAIN t /\ q[k] = t[k - 1]))
  <2>1. /\ 1 \in DOMAIN q /\ DOMAIN q = 1..Len(q) /\ DOMAIN Tail(q) = 1..(Len(q) - 1)
        /\ Len(q) \in Nat
        /\ \A k \in DOMAIN Tail(q) : k \in Nat /\ k + 1 \in DOMAIN q /\ Tail(q)[k] = q[k + 1]
        /\ \A k \in DOMAIN q : k \in Nat /\ (k = 1 \/ (k - 1 \in DOMAIN Tail(q) /\ q[k] = Tail(q)[k - 1]))
    BY TailPlaces
  <2> HIDE DEF t
  <2>2. t = Tail(q)
    BY DEF t
  <2> QED
    BY <2>1, <2>2
<1> HIDE DEF t
<1>2. ASSUME NEW p \in DOMAIN t, GivesUpAt(t, p)
      PROVE  p + 1 \in DOMAIN q /\ GivesUpAt(q, p + 1)
  <2>1. p + 1 \in DOMAIN q /\ q[p + 1] = GiveUp
    BY <1>1, <1>2 DEF GivesUpAt
  <2>2. ASSUME NEW m \in DOMAIN q, m < p + 1
        PROVE  q[m] # GiveUp
    <3>1. CASE m = 1
      BY <3>1
    <3>2. CASE m # 1
      <4>1. m - 1 \in DOMAIN t /\ q[m] = t[m - 1] /\ m - 1 < p
        BY <1>1, <2>2, <3>2
      <4> QED
        BY <1>2, <4>1 DEF GivesUpAt
    <3> QED
      BY <3>1, <3>2
  <2> QED
    BY <2>1, <2>2 DEF GivesUpAt
<1>3. ASSUME NEW p \in DOMAIN t, NEW j \in DOMAIN q, j # 1, j < p + 1, q[j] = Stop(d),
             \A k \in DOMAIN q : j < k /\ k < p + 1 => q[k] # Start(d)
      PROVE  LeftStopped(t, d, p)
  <2>1. j - 1 \in DOMAIN t /\ t[j - 1] = Stop(d) /\ j - 1 < p
    BY <1>1, <1>3
  <2>2. ASSUME NEW k \in DOMAIN t, j - 1 < k, k < p
        PROVE  t[k] # Start(d)
    <3>1. k + 1 \in DOMAIN q /\ t[k] = q[k + 1] /\ j < k + 1 /\ k + 1 < p + 1
      BY <1>1, <2>2
    <3> QED
      BY <1>3, <3>1
  <2> QED
    BY <2>1, <2>2 DEF LeftStopped
<1>4. ASSUME q[1] # Stop(d), NEW p \in DOMAIN t, LeftStopped(q, d, p + 1)
      PROVE  LeftStopped(t, d, p)
  <2>1. PICK j \in DOMAIN q : /\ j < p + 1 /\ q[j] = Stop(d)
                              /\ \A k \in DOMAIN q : j < k /\ k < p + 1 => q[k] # Start(d)
    BY <1>4 DEF LeftStopped
  <2>2. j # 1
    BY <1>4, <2>1
  <2> QED
    BY <1>3, <2>1, <2>2
<1>5. q[1] # Stop(d) /\ Swept(q, d) => Swept(t, d)
  BY <1>2, <1>4 DEF Swept
<1>6. ASSUME q[1] = Start(d), StartsEnd(q, d)
      PROVE  Swept(t, d)
  <2> SUFFICES ASSUME NEW p \in DOMAIN t, GivesUpAt(t, p)
               PROVE  LeftStopped(t, d, p)
    BY DEF Swept
  <2>1. p + 1 \in DOMAIN q /\ GivesUpAt(q, p + 1) /\ 1 < p + 1
    BY <1>1, <1>2
  <2>2. LeftStopped(q, d, p + 1)
    BY <1>1, <1>6, <2>1 DEF StartsEnd
  <2>3. q[1] # Stop(d)
    BY <1>6, ActKinds
  <2> QED
    BY <1>4, <2>2, <2>3
<1>7. ASSUME StartsEnd(q, d)
      PROVE  StartsEnd(t, d)
  <2> SUFFICES ASSUME NEW p \in DOMAIN t, GivesUpAt(t, p), NEW k \in DOMAIN t, k < p, t[k] = Start(d)
               PROVE  LeftStopped(t, d, p)
    BY DEF StartsEnd
  <2>1. p + 1 \in DOMAIN q /\ GivesUpAt(q, p + 1)
    BY <1>2
  <2>2. k + 1 \in DOMAIN q /\ q[k + 1] = Start(d) /\ 1 < k + 1 /\ k + 1 < p + 1
    BY <1>1
  <2>3. PICK j \in DOMAIN q : /\ j < p + 1 /\ q[j] = Stop(d)
                              /\ \A m \in DOMAIN q : j < m /\ m < p + 1 => q[m] # Start(d)
    BY <1>7, <2>1, <2>2 DEF StartsEnd, LeftStopped
  <2>4. j # 1
    BY <2>2, <2>3
  <2> QED
    BY <1>3, <2>3, <2>4
<1> QED
  BY <1>5, <1>6, <1>7 DEF t

\* What is added behind the place where the supervisor will give up.
LEMMA BehindSwept ==
    ASSUME NEW rest \in Seq(Acts), NEW b \in Seq(Acts), GivesUp(rest), NEW d
    PROVE  LET q == rest \o b
           IN  /\ Swept(rest, d) => Swept(q, d)
               /\ StartsEnd(rest, d) => StartsEnd(q, d)
<1> DEFINE q == rest \o b
<1>1. /\ Len(rest) \in Nat /\ DOMAIN q = 1..(Len(rest) + Len(b)) /\ Len(b) \in Nat
      /\ DOMAIN rest = 1..Len(rest) /\ DOMAIN b = 1..Len(b)
      /\ \A k \in DOMAIN rest : k \in DOMAIN q /\ k <= Len(rest) /\ q[k] = rest[k]
      /\ \A k \in DOMAIN b : Len(rest) + k \in DOMAIN q /\ q[Len(rest) + k] = b[k]
      /\ \A k \in DOMAIN q : \/ k \in DOMAIN rest /\ k <= Len(rest) /\ q[k] = rest[k]
                             \/ /\ k > Len(rest) /\ k - Len(rest) \in DOMAIN b
                                /\ q[k] = b[k - Len(rest)]
  BY Places
<1> HIDE DEF q
<1>2. PICK g \in DOMAIN rest : rest[g] = GiveUp
  BY DEF GivesUp
<1>3. ASSUME NEW p \in DOMAIN q, GivesUpAt(q, p)
      PROVE  p \in DOMAIN rest /\ GivesUpAt(rest, p)
  <2>1. g \in DOMAIN q /\ q[g] = GiveUp
    BY <1>1, <1>2
  <2>2. ~(g < p)
    BY <1>3, <2>1 DEF GivesUpAt
  <2>3. p \in DOMAIN rest
    BY <1>1, <1>2, <2>2
  <2> QED
    BY <1>1, <1>3, <2>3 DEF GivesUpAt
<1>4. ASSUME NEW p \in DOMAIN rest, LeftStopped(rest, d, p)
      PROVE  LeftStopped(q, d, p)
  <2>1. PICK j \in DOMAIN rest : /\ j < p /\ rest[j] = Stop(d)
                                 /\ \A k \in DOMAIN rest : j < k /\ k < p => rest[k] # Start(d)
    BY <1>4 DEF LeftStopped
  <2>2. \A k \in DOMAIN q : k < p => k \in DOMAIN rest /\ q[k] = rest[k]
    BY <1>1
  <2> QED
    BY <1>1, <2>1, <2>2 DEF LeftStopped
<1>5. Swept(rest, d) => Swept(q, d)
  BY <1>3, <1>4 DEF Swept
<1>6. ASSUME StartsEnd(rest, d)
      PROVE  StartsEnd(q, d)
  <2> SUFFICES ASSUME NEW p \in DOMAIN q, GivesUpAt(q, p), NEW k \in DOMAIN q, k < p, q[k] = Start(d)
               PROVE  LeftStopped(q, d, p)
    BY DEF StartsEnd
  <2>1. p \in DOMAIN rest /\ GivesUpAt(rest, p)
    BY <1>3
  <2>2. k \in DOMAIN rest /\ rest[k] = Start(d)
    BY <1>1, <2>1
  <2> QED
    BY <1>4, <1>6, <2>1, <2>2 DEF StartsEnd
<1> QED
  BY <1>5, <1>6 DEF q

\* A shutdown ends the children that it stops.
LEMMA QuitSwept ==
    ASSUME NEW rest \in Seq(Acts), ~GivesUp(rest), NEW c \in Kids, NEW b, Quit(b, c), NEW d \in Kids,
           IF d \in Affected(c) THEN Returns(d) ELSE running[d]
    PROVE  Swept(rest \o b, d)
<1> DEFINE q == rest \o b
<1>1. b \in Seq(Acts)
  BY DEF Quit
<1>2. /\ Len(rest) \in Nat /\ DOMAIN q = 1..(Len(rest) + Len(b)) /\ Len(b) \in Nat
      /\ DOMAIN rest = 1..Len(rest) /\ DOMAIN b = 1..Len(b)
      /\ \A k \in DOMAIN rest : k \in DOMAIN q /\ k <= Len(rest) /\ q[k] = rest[k]
      /\ \A k \in DOMAIN b : Len(rest) + k \in DOMAIN q /\ q[Len(rest) + k] = b[k]
      /\ \A k \in DOMAIN q : \/ k \in DOMAIN rest /\ k <= Len(rest) /\ q[k] = rest[k]
                             \/ /\ k > Len(rest) /\ k - Len(rest) \in DOMAIN b
                                /\ q[k] = b[k - Len(rest)]
  BY <1>1, Places
<1> HIDE DEF q
<1>3. \A k \in DOMAIN b : b[k] # Start(d) /\ (k # Len(b) => b[k] # GiveUp)
  BY ActKinds DEF Quit
<1>4. PICK j \in DOMAIN b : b[j] = Stop(d)
  BY DEF Quit
<1>5. j # Len(b)
  BY <1>4, ActKinds DEF Quit
<1>6. ASSUME NEW p \in DOMAIN q, GivesUpAt(q, p)
      PROVE  LeftStopped(q, d, p)
  <2>1. p > Len(rest) /\ p - Len(rest) \in DOMAIN b /\ b[p - Len(rest)] = GiveUp
    BY <1>2, <1>6 DEF GivesUpAt, GivesUp
  <2>2. p - Len(rest) = Len(b)
    BY <1>3, <2>1
  <2>3. Len(rest) + j \in DOMAIN q /\ q[Len(rest) + j] = Stop(d) /\ Len(rest) + j < p
    BY <1>2, <1>4, <1>5, <2>1, <2>2
  <2>4. \A k \in DOMAIN q : Len(rest) + j < k => q[k] # Start(d)
    BY <1>2, <1>3
  <2> QED
    BY <2>3, <2>4 DEF LeftStopped
<1> QED
  BY <1>6 DEF Swept, q

LEMMA DecideSwept ==
    ASSUME TypeOK, NEW c \in Kids, NEW r, NEW rest \in Seq(Acts), Decide(c, r, rest),
           NEW d \in Kids, strategy = "one_for_one" \/ Returns(d),
           Living(d) => Swept(rest, d), StartsEnd(rest, d),
           ~GivesUp(rest) /\ d # c /\ (Living(d) \/ Coming(rest, d)) => running[d]
    PROVE  (Living(d) => Swept(queue', d)) /\ StartsEnd(queue', d)
<1>1. Ends(c, r, rest) \/ FansOut(c, r, rest) \/ Quits(c, r, rest)
  BY Decides
<1>2. strategy \in Strategies
  BY DEF TypeOK
<1>3. CASE Ends(c, r, rest)
  BY <1>3 DEF Ends
<1>4. ASSUME NEW b \in Seq(Acts), queue' = rest \o b, GivesUp(rest)
      PROVE  (Living(d) => Swept(queue', d)) /\ StartsEnd(queue', d)
  BY <1>4, BehindSwept
<1>5. CASE FansOut(c, r, rest)
  <2>1. PICK b : Fan(b, c) /\ queue' = rest \o b
    BY <1>5 DEF FansOut
  <2>2. b \in Seq(Acts) /\ \A k \in DOMAIN b : b[k] # GiveUp
    BY <2>1 DEF Fan
  <2>3. CASE ~GivesUp(rest)
    <3> DEFINE q == rest \o b
    <3>1. \A k \in DOMAIN q : \/ k \in DOMAIN rest /\ k <= Len(rest) /\ q[k] = rest[k]
                              \/ /\ k > Len(rest) /\ k - Len(rest) \in DOMAIN b
                                 /\ q[k] = b[k - Len(rest)]
      BY <2>2, Places
    <3> HIDE DEF q
    <3>2. \A k \in DOMAIN q : q[k] # GiveUp
      BY <2>2, <2>3, <3>1 DEF GivesUp
    <3>3. Swept(q, d) /\ StartsEnd(q, d)
      BY <3>2 DEF Swept, StartsEnd, GivesUpAt
    <3> QED
      BY <2>1, <3>3 DEF q
  <2> QED
    BY <1>4, <2>1, <2>2, <2>3
<1>6. CASE Quits(c, r, rest)
  <2>1. PICK b : Quit(b, c) /\ queue' = rest \o b
    BY <1>6 DEF Quits
  <2>2. b \in Seq(Acts)
    BY <2>1 DEF Quit
  <2>3. CASE ~GivesUp(rest) /\ (Living(d) \/ Coming(rest, d))
    <3>1. ShouldRestart(c, r) => Returns(c)
      BY DEF ShouldRestart, Returns
    <3>2. /\ c \in Affected(c)
          /\ strategy = "one_for_one" => Affected(c) = {c}
      BY <1>2, AffectedFacts
    <3>3. d = c => Returns(d)
      BY <1>6, <3>1 DEF Quits
    <3>4. IF d \in Affected(c) THEN Returns(d) ELSE running[d]
      BY <2>3, <3>2, <3>3
    <3>5. Swept(queue', d)
      BY <2>1, <2>3, <3>4, QuitSwept
    <3>6. StartsEnd(queue', d)
      BY <3>5 DEF Swept, StartsEnd
    <3> QED
      BY <3>5, <3>6
  <2>4. CASE ~GivesUp(rest) /\ ~(Living(d) \/ Coming(rest, d))
    <3>1. ~Coming(queue', d)
      BY <2>1, <2>4, QuitOne
    <3>2. StartsEnd(queue', d)
      BY <3>1 DEF StartsEnd, Coming
    <3> QED
      BY <2>4, <3>2
  <2> QED
    BY <1>4, <2>1, <2>2, <2>3, <2>4
<1> QED
  BY <1>1, <1>3, <1>5, <1>6

\* A child that a supervisor which gives up is sure to kill.
Clean(c) ==
    /\ spec[c].shutdown = "brutal_kill"
    /\ strategy = "one_for_one" \/ (Returns(c) /\ fails <= 1)

Leaving ==
    \A c \in Kids : Clean(c) => (Living(c) => Swept(queue, c)) /\ StartsEnd(queue, c)

Ended == phase = "gone" => \A i \in Insts : Up(i) => Traps(i) /\ ~Clean(kidOf[i])

LEMMA CleanFacts ==
    ASSUME NEW d, Clean(d)
    PROVE  Single(d) /\ (strategy = "one_for_one" \/ Returns(d))
  BY DEF Clean, Single

LEMMA CleanBefore ==
    ASSUME Typed, UNCHANGED <<conf, fails>> \/ (UNCHANGED conf /\ fails' = fails + 1)
    PROVE  /\ \A d : Clean(d)' => Clean(d)
           /\ fails' = fails + 1 => \A d : Clean(d)' => strategy = "one_for_one" \/ fails = 0
<1>1. fails \in Nat
  BY TypedParts DEF WorldTyped
<1> QED
  BY <1>1 DEF Clean, Returns, conf

\* A step that leaves the queue alone and starts nobody.
LEMMA CalmLeaving ==
    ASSUME Typed, Leaving, Ended, UNCHANGED <<conf, fails, kidOf, queue>>,
           \A i \in Insts : state'[i] = "up" => state[i] = "up",
           phase' = "gone" => phase = "gone"
    PROVE  Leaving' /\ Ended'
<1>1. \A d : Living(d)' => Living(d)
  BY LivingLess
<1>2. \A d : Clean(d)' <=> Clean(d)
  BY DEF Clean, Returns, conf
<1>3. Leaving'
  <2>1. \A d : (Swept(queue, d)' <=> Swept(queue, d)) /\ (StartsEnd(queue, d)' <=> StartsEnd(queue, d))
    BY DEF Swept, StartsEnd, GivesUpAt, LeftStopped
  <2> QED
    BY <1>1, <1>2, <2>1 DEF Leaving
<1>4. Ended'
  BY <1>2 DEF Ended, Up, Traps, conf
<1> QED
  BY <1>3, <1>4

\* A step that changes what is queued, in a supervisor that goes on.
LEMMA QueuedLeaving ==
    ASSUME phase' # "gone",
           \A d \in Kids : Clean(d)' =>
               (Living(d)' => Swept(queue', d)) /\ StartsEnd(queue', d)
    PROVE  Leaving' /\ Ended'
<1>1. \A d : (Swept(queue', d) => Swept(queue, d)') /\ (StartsEnd(queue', d) => StartsEnd(queue, d)')
  BY DEF Swept, StartsEnd, GivesUpAt, LeftStopped
<1>2. Leaving'
  BY <1>1 DEF Leaving
<1> QED
  BY <1>2 DEF Ended

LEMMA StartLeaves ==
    ASSUME Typed, Leaving, NEW a \in Kids, Starts(a), phase = "drain"
    PROVE  Leaving' /\ Ended'
<1>1. LiveTyped /\ WorldTyped /\ queue \in Seq(Acts)
  BY TypedParts DEF LoopTyped
<1>2. /\ queue # <<>> /\ queue[1] = Start(a) /\ queue' = Tail(queue)
      /\ state' = [state EXCEPT ![nextInst] = "up"]
      /\ kidOf' = [kidOf EXCEPT ![nextInst] = a] /\ UNCHANGED <<conf, fails, phase>>
      /\ state[nextInst] = "unborn"
  BY DEF Starts
<1>3. \A d \in Kids : queue[1] # GiveUp /\ queue[1] # Stop(d)
  BY <1>2, ActKinds
<1>4. /\ \A i \in Insts : state'[i] = IF i = nextInst THEN "up" ELSE state[i]
      /\ \A i \in Insts : kidOf'[i] = IF i = nextInst THEN a ELSE kidOf[i]
  BY <1>1, <1>2 DEF LiveTyped, WorldTyped
<1>5. \A d \in Kids : d # a => (Living(d)' <=> Living(d))
  BY <1>2, <1>4 DEF Living, Up
<1>6. ASSUME NEW d \in Kids, Clean(d)'
      PROVE  (Living(d)' => Swept(queue', d)) /\ StartsEnd(queue', d)
  <2>1. Clean(d)
    BY <1>2, <1>6, CleanBefore
  <2>2. (Living(d) => Swept(queue, d)) /\ StartsEnd(queue, d)
    BY <2>1 DEF Leaving
  <2>3. StartsEnd(queue', d)
    BY <1>1, <1>2, <1>3, <2>2, TailSwept
  <2>4. d = a => Swept(queue', d)
    BY <1>1, <1>2, <1>3, <2>2, TailSwept
  <2>5. d # a /\ Living(d) => Swept(queue', d)
    BY <1>1, <1>2, <1>3, <2>2, TailSwept
  <2> QED
    BY <1>5, <2>3, <2>4, <2>5
<1>7. phase' # "gone"
  BY <1>2
<1> QED
  BY <1>6, <1>7, QueuedLeaving

LEMMA FailLeaves ==
    ASSUME Typed, Believed, Leaving, NEW a \in Kids, Fails(a), phase = "drain"
    PROVE  Leaving' /\ Ended'
<1>1. TypeOK /\ queue \in Seq(Acts) /\ queue # <<>> /\ queue[1] = Start(a)
  BY TypedParts DEF LoopTyped, Typed, Fails
<1>2. PICK rest : rest = Tail(queue)
  OBVIOUS
<1>3. /\ Decide(a, "exception", rest) /\ rest \in Seq(Acts)
      /\ fails' = fails + 1 /\ UNCHANGED <<conf, phase, state, kidOf>>
  BY <1>1, <1>2 DEF Fails
<1>4. \A d \in Kids : queue[1] # GiveUp /\ queue[1] # Stop(d)
  BY <1>1, ActKinds
<1>5. GivesUp(queue) => GivesUp(rest)
  BY <1>1, <1>2, <1>4, TailQueued
<1>6. ASSUME NEW d \in Kids, Clean(d)'
      PROVE  (Living(d)' => Swept(queue', d)) /\ StartsEnd(queue', d)
  <2>1. Clean(d)
    BY <1>3, <1>6, CleanBefore
  <2>2. (Living(d) => Swept(queue, d)) /\ StartsEnd(queue, d)
    BY <2>1 DEF Leaving
  <2>3. (Living(d) => Swept(rest, d)) /\ StartsEnd(rest, d)
    BY <1>1, <1>2, <1>4, <2>2, TailSwept
  <2>4. Single(d) /\ (strategy = "one_for_one" \/ Returns(d))
    BY <2>1, CleanFacts
  <2>5. Coming(rest, d) => Coming(queue, d)
    BY <1>1, <1>2, TailOne
  <2>6. ~GivesUp(rest) /\ d # a /\ (Living(d) \/ Coming(rest, d)) => running[d]
    BY <1>5, <2>4, <2>5 DEF Believed, Firm
  <2>7. (Living(d) => Swept(queue', d)) /\ StartsEnd(queue', d)
    BY <1>1, <1>3, <2>3, <2>4, <2>6, DecideSwept
  <2>8. Living(d)' => Living(d)
    BY <1>3 DEF Living, Up
  <2> QED
    BY <2>7, <2>8
<1>7. phase' # "gone"
  BY <1>3
<1> QED
  BY <1>6, <1>7, QueuedLeaving

\* A stop in front of the queue is taken, and its child does not run any more.
LEMMA StopLeaves ==
    ASSUME Typed, Leaving, NEW c \in Kids, queue # <<>>, queue[1] = Stop(c),
           queue' = Tail(queue), UNCHANGED <<conf, kidOf, fails, phase>>, phase # "gone",
           \A i \in Insts : state'[i] = "up" => state[i] = "up",
           Clean(c) => ~Living(c)'
    PROVE  Leaving' /\ Ended'
<1>1. queue \in Seq(Acts)
  BY TypedParts DEF LoopTyped
<1>2. queue[1] # GiveUp /\ \A d \in Kids : d # c => queue[1] # Stop(d)
  BY ActKinds
<1>3. \A d : Living(d)' => Living(d)
  BY LivingLess
<1>4. ASSUME NEW d \in Kids, Clean(d)'
      PROVE  (Living(d)' => Swept(queue', d)) /\ StartsEnd(queue', d)
  <2>1. Clean(d)
    BY <1>4, CleanBefore
  <2>2. (Living(d) => Swept(queue, d)) /\ StartsEnd(queue, d)
    BY <2>1 DEF Leaving
  <2>3. StartsEnd(queue', d)
    BY <1>1, <1>2, <2>2, TailSwept
  <2>4. d # c /\ Living(d) => Swept(queue', d)
    BY <1>1, <1>2, <2>2, TailSwept
  <2> QED
    BY <1>3, <2>1, <2>3, <2>4
<1>5. phase' # "gone"
  OBVIOUS
<1> QED
  BY <1>4, <1>5, QueuedLeaving

LEMMA HearLeaves ==
    ASSUME Typed, Believed, NEW c \in Kids, Hears(c)
    PROVE  Leaving' /\ Ended'
<1>1. TypeOK
  BY DEF Typed
<1>2. PICK r \in ExitReasons : Decide(c, r, <<>>)
  BY DEF Hears
<1>3. /\ queue = <<>> /\ phase \in {"drain", "wait"} /\ phase' = "drain"
      /\ UNCHANGED <<conf, state, kidOf, fails>>
  BY DEF Hears
<1>4. PICK rest : rest = <<>>
  OBVIOUS
<1>5. /\ rest \in Seq(Acts) /\ Decide(c, r, rest) /\ ~GivesUp(rest)
      /\ \A d : Swept(rest, d) /\ StartsEnd(rest, d) /\ ~Coming(rest, d)
  BY <1>2, <1>4 DEF Swept, StartsEnd, Coming, GivesUp, GivesUpAt
<1>6. Firm
  BY <1>3 DEF Firm, GivesUp
<1>7. ASSUME NEW d \in Kids, Clean(d)'
      PROVE  (Living(d)' => Swept(queue', d)) /\ StartsEnd(queue', d)
  <2>1. Clean(d)
    BY <1>3, <1>7, CleanBefore
  <2>2. Single(d) /\ (strategy = "one_for_one" \/ Returns(d))
    BY <2>1, CleanFacts
  <2>3. Living(d) => running[d]
    BY <1>6, <2>2 DEF Believed
  <2>4. (Living(d) => Swept(queue', d)) /\ StartsEnd(queue', d)
    BY <1>1, <1>5, <2>2, <2>3, DecideSwept
  <2>5. Living(d)' => Living(d)
    BY <1>3 DEF Living, Up
  <2> QED
    BY <2>4, <2>5
<1>8. phase' # "gone"
  BY <1>3
<1> QED
  BY <1>7, <1>8, QueuedLeaving

\* What was to be stopped has been when the supervisor gives up.
LEMMA GiveUpLeaves ==
    ASSUME Typed, Leaving, DoGiveUp
    PROVE  Leaving' /\ Ended'
<1>1. queue \in Seq(Acts) /\ WorldTyped
  BY TypedParts DEF LoopTyped
<1>2. /\ phase = "drain" /\ queue # <<>> /\ Head(queue).op = "give_up"
      /\ queue' = <<>> /\ UNCHANGED <<conf, kidOf, fails>>
      /\ state' = [i \in Insts |-> IF Up(i) /\ ~Traps(i) THEN "dead" ELSE state[i]]
  BY DEF DoGiveUp, Draining
<1>3. queue[1] = GiveUp /\ 1 \in DOMAIN queue /\ \A k \in DOMAIN queue : k >= 1
  <2>1. queue[1] = GiveUp /\ 1 \in DOMAIN queue
    BY <1>2, HeadFacts
  <2>2. \A k \in DOMAIN queue : k >= 1
    BY <1>1
  <2> QED
    BY <2>1, <2>2
<1>4. GivesUpAt(queue, 1)
  <2>1. \A m \in DOMAIN queue : ~(m < 1)
    BY <1>1
  <2> QED
    BY <1>3, <2>1 DEF GivesUpAt
<1>5. \A d : ~Swept(queue, d)
  <2>1. \A j \in DOMAIN queue : ~(j < 1)
    BY <1>1
  <2> QED
    BY <1>3, <1>4, <2>1 DEF Swept, LeftStopped
<1>6. \A i \in Insts : state'[i] = "up" => Up(i) /\ Traps(i)
  BY <1>2 DEF Up
<1>7. Leaving'
  BY <1>2 DEF Leaving, Swept, StartsEnd, GivesUpAt
<1>8. ASSUME NEW i \in Insts, Up(i)'
      PROVE  Traps(i)' /\ ~Clean(kidOf[i])'
  <2>1. Up(i) /\ Traps(i)
    BY <1>6, <1>8 DEF Up
  <2>2. kidOf[i] \in Kids /\ Living(kidOf[i])
    BY <1>1, <2>1 DEF WorldTyped, Up, Living
  <2>3. ~Clean(kidOf[i])
    BY <1>5, <2>2 DEF Leaving
  <2> QED
    BY <1>2, <2>1, <2>3 DEF Traps, Clean, Returns, conf
<1> QED
  BY <1>7, <1>8 DEF Ended

LEMMA LeavingStep ==
    ASSUME Typed, One, Believed, Leaving, Ended, [Next]_vars
    PROVE  Leaving' /\ Ended'
<1>1. WorldTyped /\ LiveTyped
  BY TypedParts
<1>2. \A c \in Kids : Clean(c) => OneLive(c)
  BY CleanFacts DEF One
<1>3. ASSUME UNCHANGED <<conf, kidOf, fails, queue, state>>, phase' = "gone" => phase = "gone"
      PROVE  Leaving' /\ Ended'
  BY <1>3, CalmLeaving
<1>4. DoStart => Leaving' /\ Ended'
  BY DrainSteps, StartLeaves DEF DoStart, Draining
<1>5. StartFails => Leaving' /\ Ended'
  BY DrainSteps, FailLeaves DEF StartFails, Draining
<1>6. ASSUME StopUnknown
      PROVE  Leaving' /\ Ended'
  <2>1. /\ phase = "drain" /\ queue # <<>> /\ Head(queue).op = "stop" /\ queue' = Tail(queue)
        /\ live[Head(queue).kid] = NoInst
    BY <1>6 DEF StopUnknown, Draining
  <2>2. PICK c \in Kids : queue[1] = Stop(c) /\ live[c] = NoInst
    BY <2>1, HeadFacts
  <2>3. UNCHANGED <<conf, kidOf, fails, phase, live, state>>
    BY <1>6 DEF StopUnknown, worldVars
  <2>4. NoInst \notin Insts
    BY SupervisorAssumption DEF NoInst, Insts
  <2>5. Clean(c) => ~Living(c)'
    BY <1>2, <2>2, <2>3, <2>4 DEF OneLive, Living, Up
  <2> QED
    BY <2>1, <2>2, <2>3, <2>5, StopLeaves
<1>7. ASSUME DoStop
      PROVE  Leaving' /\ Ended'
  <2>1. PICK c \in Kids : Stops(c)
    BY <1>7, DrainSteps
  <2>2. /\ queue # <<>> /\ queue[1] = Stop(c) /\ queue' = Tail(queue) /\ WanesHeard
        /\ spec[c].shutdown = "brutal_kill" => state'[live[c]] # "up"
        /\ UNCHANGED <<conf, kidOf, fails, phase>>
    BY <2>1 DEF Stops
  <2>3. \A i \in Insts : state'[i] = "up" => state[i] = "up"
    BY <2>2 DEF WanesHeard, Wanes
  <2>4. Clean(c) => ~Living(c)'
    BY <1>2, <2>2, <2>3 DEF Clean, OneLive, Living, Up
  <2>5. phase # "gone"
    BY <1>7 DEF DoStop, Draining
  <2> QED
    BY <2>2, <2>3, <2>4, <2>5, StopLeaves
<1>8. DoGiveUp => Leaving' /\ Ended'
  BY GiveUpLeaves
<1>9. RecvWait => Leaving' /\ Ended'
  BY <1>3 DEF RecvWait, worldVars
<1>10. ASSUME RecvExit
       PROVE  Leaving' /\ Ended'
  <2>1. Ignores => Leaving' /\ Ended'
    BY <1>3 DEF Ignores
  <2> QED
    BY <1>10, <2>1, RecvSteps, HearLeaves
<1>11. ASSUME RecvTimeout
       PROVE  Leaving' /\ Ended'
  <2>1. /\ WanesHeard /\ phase' = "drain" /\ UNCHANGED <<conf, kidOf, fails, queue>>
    BY <1>11, TimeoutFacts
  <2>2. \A i \in Insts : state'[i] = "up" => state[i] = "up"
    BY <2>1 DEF WanesHeard, Wanes
  <2> QED
    BY <2>1, <2>2, CalmLeaving
<1>12. ASSUME NEW i \in Insts, NEW r \in {"normal", "exception"}, ChildExits(i, r)
       PROVE  Leaving' /\ Ended'
  <2>1. WanesHeard /\ UNCHANGED <<conf, kidOf, fails, queue, phase>>
    BY <1>12, DieFacts DEF ChildExits, ExitReasons, loopVars
  <2>2. \A j \in Insts : state'[j] = "up" => state[j] = "up"
    BY <2>1 DEF WanesHeard, Wanes
  <2> QED
    BY <2>1, <2>2, CalmLeaving
<1>13. Tick \/ UNCHANGED vars => Leaving' /\ Ended'
  BY <1>3 DEF Tick, vars, loopVars, worldVars
<1> QED
  BY <1>4, <1>5, <1>6, <1>7, <1>8, <1>9, <1>10, <1>11, <1>12, <1>13 DEF Next, Loop

LEMMA InitLeaving ==
    ASSUME Init
    PROVE  Leaving /\ Ended
<1>1. PICK q : q = ToStarts(Ascending(Kids)) /\ queue = q
  BY DEF Init
<1>2. \A k \in DOMAIN q : \E x \in Kids : q[k] = Start(x)
  BY <1>1, StartsFacts DEF Starting
<1>3. \A k \in DOMAIN q : q[k] # GiveUp
  BY <1>2, ActKinds
<1>4. phase = "drain"
  BY DEF Init
<1> QED
  BY <1>1, <1>3, <1>4 DEF Leaving, Swept, StartsEnd, GivesUpAt, Ended

\* When a supervisor has given up, what is still up of its children traps exits;
\* and a child that shutdown() kills is gone, unless it is a temporary one that
\* a fan-out had already struck from the running flags (supervisor.rs 263-303),
\* or a second start had failed.  What is queued before GiveUp ends, for every
\* other child that runs or is to be started, with its Stop.
THEOREM SupervisorGivesUpCleanly == Spec => []GivesUpCleanly
<1>1. Init => Sole /\ One /\ Believed /\ Leaving /\ Ended
  BY InitAlone, InitLeaving
<1>2. Typed /\ Sole /\ One /\ Believed /\ Leaving /\ Ended /\ [Next]_vars
      => (Sole /\ One /\ Believed /\ Leaving /\ Ended)'
  BY AloneStep, LeavingStep
<1>3. Typed /\ Ended => GivesUpCleanly
  <2> SUFFICES ASSUME Typed, Ended, phase = "gone", NEW i \in Insts, Up(i)
               PROVE  /\ Traps(i)
                      /\ spec[kidOf[i]].shutdown = "brutal_kill" =>
                            /\ strategy # "one_for_one"
                            /\ spec[kidOf[i]].restart = "temporary" \/ fails > 1
    BY DEF GivesUpCleanly
  <2>1. Traps(i) /\ ~Clean(kidOf[i])
    BY DEF Ended
  <2>2. fails \in Nat
    BY TypedParts DEF WorldTyped
  <2> QED
    BY <2>1, <2>2 DEF Clean, Returns
<1> QED
  BY <1>1, <1>2, <1>3, SupervisorTyped, PTL DEF Spec
=============================================================================
