--------------------------- MODULE MailboxProofs ---------------------------
(***************************************************************************)
(* Proofs about Mailbox for any set of senders and refs and any bound on   *)
(* the pushes: its types, that no wake-up of a push is lost, that the      *)
(* queue keeps the order the pushes promise, that no message is lost or    *)
(* returned twice, and that all of this is what MailboxSpec promises.      *)
(***************************************************************************)
EXTENDS Mailbox, FiniteSetTheorems, TLAPS

\* What stands behind the first of two sequences comes from the second.
LEMMA ConcatRight ==
    ASSUME NEW S, NEW a \in Seq(S), NEW b \in Seq(S), NEW j \in 1..(Len(a) + Len(b)),
           ~(j <= Len(a))
    PROVE  (a \o b)[j] = b[j - Len(a)]
OBVIOUS

\* What RemoveAt returns: a sequence one shorter, each element the one that
\* stood at the same place, or at the next one from the removed place on.
LEMMA RemoveAtFacts ==
    ASSUME NEW S, NEW q \in Seq(S), NEW i \in DOMAIN q
    PROVE  /\ RemoveAt(q, i) \in Seq(S)
           /\ Len(RemoveAt(q, i)) = Len(q) - 1
           /\ \A j \in DOMAIN RemoveAt(q, i) :
                 RemoveAt(q, i)[j] = IF j < i THEN q[j] ELSE q[j + 1]
<1> DEFINE a == SubSeq(q, 1, i - 1)
           b == SubSeq(q, i + 1, Len(q))
<1>1. i \in 1..Len(q)
  OBVIOUS
<1>2. /\ a \in Seq(S) /\ Len(a) = i - 1
      /\ \A j \in 1..(i - 1) : a[j] = q[j]
  BY <1>1
<1>3. /\ b \in Seq(S) /\ Len(b) = Len(q) - i
      /\ \A j \in 1..(Len(q) - i) : b[j] = q[i + j]
  BY <1>1
<1>4. RemoveAt(q, i) = a \o b
  BY DEF RemoveAt
<1> HIDE DEF a, b
<1>5. a \o b \in Seq(S) /\ Len(a \o b) = Len(q) - 1
  BY <1>1, <1>2, <1>3
<1>6. ASSUME NEW j \in 1..(Len(q) - 1)
      PROVE  (a \o b)[j] = IF j < i THEN q[j] ELSE q[j + 1]
  <2>1. CASE j < i
    BY <2>1, <1>1, <1>2, <1>3
  <2>2. CASE ~(j < i)
    <3>1. (a \o b)[j] = b[j - (i - 1)]
      <4>1. j \in 1..(Len(a) + Len(b)) /\ ~(j <= Len(a)) /\ j - Len(a) = j - (i - 1)
        BY <2>2, <1>1, <1>2, <1>3
      <4>2. (a \o b)[j] = b[j - Len(a)]
        BY <4>1, <1>2, <1>3, ConcatRight
      <4> QED
        BY <4>1, <4>2
    <3>2. j - (i - 1) \in 1..(Len(q) - i) /\ i + (j - (i - 1)) = j + 1
      BY <2>2, <1>1
    <3> QED
      BY <3>1, <3>2, <2>2, <1>1, <1>3
  <2> QED
    BY <2>1, <2>2
<1>7. DOMAIN (a \o b) = 1..(Len(q) - 1)
  BY <1>5
<1> QED
  BY <1>4, <1>5, <1>6, <1>7

-----------------------------------------------------------------------------

LEMMA InitTypeOK == Init => TypeOK
<1> SUFFICES ASSUME Init PROVE TypeOK
  OBVIOUS
<1>1. queue \in Seq(Msgs)
  BY DEF Init
<1>2. spc \in [Senders -> {"idle", "notify"}]
  BY DEF Init
<1>3. closed \in BOOLEAN /\ permit \in BOOLEAN /\ timed \in BOOLEAN
  BY DEF Init
<1>4. dataCount \in Int /\ nextId \in Nat \ {0} /\ taken \subseteq Nat
  BY DEF Init
<1>5. /\ cpc \in {"open", "notify", "done"}
      /\ rpc \in {"idle", "check", "gap", "waiting"}
      /\ want \in Refs \cup {NoRef}
  BY DEF Init
<1> QED
  BY <1>1, <1>2, <1>3, <1>4, <1>5 DEF TypeOK

\* One step of a push keeps the types; the four pushes differ in the message
\* and in the end of the queue it goes to.
LEMMA PushTypeOK ==
    ASSUME TypeOK, NEW s \in Senders, Push(s)
    PROVE  TypeOK'
<1> USE MailboxAssumption
<1>1. queue' \in Seq(Msgs)
  <2>1. CASE PushData(s)
    BY <2>1 DEF PushData, TypeOK, Msgs, AppendedKinds
  <2>2. CASE \E r \in Refs : PushTagged(s, r)
    BY <2>2 DEF PushTagged, TypeOK, Msgs, AppendedKinds
  <2>3. CASE \E r \in Refs : PushSpawnReply(s, r)
    BY <2>3 DEF PushSpawnReply, TypeOK, Msgs, AppendedKinds
  <2>4. CASE \E r \in Refs \cup {NoRef} : PushSystem(s, r)
    BY <2>4 DEF PushSystem, TypeOK, Msgs, SystemKinds
  <2> QED
    BY <2>1, <2>2, <2>3, <2>4 DEF Push
<1>2. dataCount' \in Int
  <2>1. dataCount' = dataCount \/ dataCount' = dataCount + 1
    BY DEF Push, PushData, PushTagged, PushSpawnReply, PushSystem
  <2> QED
    BY <2>1 DEF TypeOK
<1>3. Accepted(s)
  BY DEF Push, PushData, PushTagged, PushSpawnReply, PushSystem
<1>4. spc' \in [Senders -> {"idle", "notify"}] /\ nextId' \in Nat \ {0}
  BY <1>3 DEF Accepted, TypeOK
<1> QED
  BY <1>1, <1>2, <1>3, <1>4 DEF TypeOK, Accepted

LEMMA TakeTypeOK ==
    ASSUME TypeOK, RecvTake
    PROVE  TypeOK'
<1>1. PICK i \in DOMAIN queue :
          /\ queue' = RemoveAt(queue, i)
          /\ dataCount' = IF Counted(queue[i]) THEN dataCount - 1 ELSE dataCount
          /\ taken' = taken \cup {queue[i].id}
  BY DEF RecvTake
<1>2. queue' \in Seq(Msgs)
  BY <1>1, RemoveAtFacts DEF TypeOK
<1>3. queue[i].id \in Nat
  <2>1. queue[i] \in Msgs
    BY DEF TypeOK
  <2> QED
    BY <2>1 DEF Msgs
<1>4. dataCount' \in Int /\ taken' \subseteq Nat
  <2>1. dataCount' = dataCount \/ dataCount' = dataCount - 1
    BY <1>1
  <2>2. dataCount' \in Int
    BY <2>1 DEF TypeOK
  <2>3. taken' \subseteq Nat
    BY <1>1, <1>3 DEF TypeOK
  <2> QED
    BY <2>2, <2>3
<1> QED
  BY <1>2, <1>4 DEF TypeOK, RecvTake

\* The type invariant of the mailbox: every operation of mailbox.rs keeps the
\* queue a queue of messages and the counters counters.
THEOREM MailboxTypeOK == Spec => []TypeOK
<1>1. TypeOK /\ [Next]_vars => TypeOK'
  <2> SUFFICES ASSUME TypeOK, [Next]_vars PROVE TypeOK'
    OBVIOUS
  <2>1. ASSUME NEW s \in Senders, Push(s) PROVE TypeOK'
    BY <2>1, PushTypeOK
  <2>2. ASSUME NEW s \in Senders, NotifyOne(s) PROVE TypeOK'
    BY <2>2 DEF NotifyOne, TypeOK
  <2>3. CASE Close
    BY <2>3 DEF Close, TypeOK
  <2>4. CASE NotifyWaiters
    BY <2>4 DEF NotifyWaiters, TypeOK
  <2>5. ASSUME NEW w \in Refs \cup {NoRef}, NEW t \in BOOLEAN, RecvCall(w, t)
        PROVE  TypeOK'
    BY <2>5 DEF RecvCall, TypeOK
  <2>6. CASE RecvTake
    BY <2>6, TakeTypeOK
  <2>7. CASE RecvMiss
    BY <2>7 DEF RecvMiss, TypeOK
  <2>8. CASE Park
    BY <2>8 DEF Park, TypeOK
  <2>9. CASE TimeoutExpires
    BY <2>9 DEF TimeoutExpires, TypeOK
  <2>10. CASE UNCHANGED vars
    BY <2>10 DEF vars, TypeOK
  <2> QED
    BY <2>1, <2>2, <2>3, <2>4, <2>5, <2>6, <2>7, <2>8, <2>9, <2>10
    DEF Next, Receiver
<1> QED
  BY <1>1, InitTypeOK, PTL DEF Spec

-----------------------------------------------------------------------------

\* No push is slept through: NoLostWakeup is inductive once the types are
\* known.  A message can only start to match a sleeper by being pushed, and
\* its sender then owes a notify_one; the notify_one wakes a parked receiver
\* and leaves the permit to one that is about to park, which looks at it first.
THEOREM MailboxNoLostWakeup == Spec => []NoLostWakeup
<1>1. Init => NoLostWakeup
  BY DEF Init, NoLostWakeup
<1>2. TypeOK /\ NoLostWakeup /\ [Next]_vars => NoLostWakeup'
  <2> SUFFICES ASSUME TypeOK, NoLostWakeup, [Next]_vars PROVE NoLostWakeup'
    OBVIOUS
  <2>1. ASSUME NEW s \in Senders, Push(s) PROVE NoLostWakeup'
    <3>1. Accepted(s)
      BY <2>1 DEF Push, PushData, PushTagged, PushSpawnReply, PushSystem
    <3>2. spc'[s] = "notify"
      BY <3>1 DEF Accepted, TypeOK
    <3> QED
      BY <3>2 DEF NoLostWakeup
  <2>2. ASSUME NEW s \in Senders, NotifyOne(s) PROVE NoLostWakeup'
    BY <2>2 DEF NotifyOne, NoLostWakeup
  <2>3. CASE Close
    BY <2>3 DEF Close, NoLostWakeup
  <2>4. CASE NotifyWaiters
    BY <2>4 DEF NotifyWaiters, NoLostWakeup
  <2>5. ASSUME NEW w \in Refs \cup {NoRef}, NEW t \in BOOLEAN, RecvCall(w, t)
        PROVE  NoLostWakeup'
    BY <2>5 DEF RecvCall, NoLostWakeup
  <2>6. CASE RecvTake
    BY <2>6 DEF RecvTake, NoLostWakeup
  <2>7. CASE RecvMiss
    BY <2>7 DEF RecvMiss, NoLostWakeup
  <2>8. CASE Park
    BY <2>8 DEF Park, NoLostWakeup
  <2>9. CASE TimeoutExpires
    BY <2>9 DEF TimeoutExpires, NoLostWakeup
  <2>10. CASE UNCHANGED vars
    BY <2>10 DEF vars, NoLostWakeup
  <2> QED
    BY <2>1, <2>2, <2>3, <2>4, <2>5, <2>6, <2>7, <2>8, <2>9, <2>10
    DEF Next, Receiver
<1> QED
  BY <1>1, <1>2, MailboxTypeOK, PTL DEF Spec

-----------------------------------------------------------------------------

\* Ids are handed out in the order of the pushes.
IdsBelowNext == \A i \in DOMAIN queue : queue[i].id < nextId

\* QueueOrder with what makes it inductive: a new message has the largest id.
OrderInv == QueueOrder /\ IdsBelowNext

\* Appending a message of an appended kind, or putting a system message in
\* front, keeps the order.
LEMMA PushOrder ==
    ASSUME TypeOK, OrderInv, NEW s \in Senders, Push(s)
    PROVE  OrderInv'
<1> USE MailboxAssumption DEF TypeOK
<1>1. nextId' = nextId + 1
  BY DEF Push, PushData, PushTagged, PushSpawnReply, PushSystem, Accepted
<1>2. \A i \in DOMAIN queue : queue[i] \in Msgs /\ queue[i].id \in Nat
  <2>1. \A i \in DOMAIN queue : queue[i] \in Msgs
    OBVIOUS
  <2> QED
    BY <2>1 DEF Msgs
<1>3. ASSUME NEW m \in Msgs, m.id = nextId, m.kind \in AppendedKinds,
             queue' = Append(queue, m)
      PROVE  OrderInv'
  <2>1. /\ DOMAIN queue' = 1..(Len(queue) + 1)
        /\ \A j \in DOMAIN queue' :
              queue'[j] = IF j = Len(queue) + 1 THEN m ELSE queue[j]
    BY <1>3
  <2>2. \A j \in DOMAIN queue' : j # Len(queue) + 1 => j \in DOMAIN queue
    BY <2>1
  <2>3. \A i \in DOMAIN queue : queue[i].kind \in AppendedKinds \cup SystemKinds
    BY <1>2 DEF Msgs
  <2>4. QueueOrder'
    BY <1>2, <1>3, <2>1, <2>2, <2>3 DEF OrderInv, QueueOrder, IdsBelowNext
  <2>5. IdsBelowNext'
    BY <1>1, <1>2, <1>3, <2>1, <2>2 DEF OrderInv, IdsBelowNext
  <2> QED
    BY <2>4, <2>5 DEF OrderInv
<1>4. ASSUME NEW m \in Msgs, m.id = nextId, m.kind \in SystemKinds,
             queue' = <<m>> \o queue
      PROVE  OrderInv'
  <2>1. /\ DOMAIN queue' = 1..(Len(queue) + 1)
        /\ \A j \in DOMAIN queue' :
              queue'[j] = IF j = 1 THEN m ELSE queue[j - 1]
    BY <1>4
  <2>2. \A j \in DOMAIN queue' : j # 1 => j - 1 \in DOMAIN queue
    BY <2>1
  <2>3. \A i \in DOMAIN queue : queue[i].kind \in AppendedKinds \cup SystemKinds
    BY <1>2 DEF Msgs
  <2>4. QueueOrder'
    BY SMTT(30), <1>2, <1>4, <2>1, <2>2, <2>3 DEF OrderInv, QueueOrder, IdsBelowNext
  <2>5. IdsBelowNext'
    BY <1>1, <1>2, <1>4, <2>1, <2>2 DEF OrderInv, IdsBelowNext
  <2> QED
    BY <2>4, <2>5 DEF OrderInv
<1>5. CASE PushData(s)
  BY <1>3, <1>5 DEF PushData, Msgs, AppendedKinds
<1>6. CASE \E r \in Refs : PushTagged(s, r)
  BY <1>3, <1>6 DEF PushTagged, Msgs, AppendedKinds
<1>7. CASE \E r \in Refs : PushSpawnReply(s, r)
  BY <1>3, <1>7 DEF PushSpawnReply, Msgs, AppendedKinds
<1>8. CASE \E r \in Refs \cup {NoRef} : PushSystem(s, r)
  BY <1>4, <1>8 DEF PushSystem, Msgs, SystemKinds
<1> QED
  BY <1>5, <1>6, <1>7, <1>8 DEF Push

\* Taking a message out, from the front or from the middle, keeps the order of
\* the others.
LEMMA TakeOrder ==
    ASSUME TypeOK, OrderInv, RecvTake
    PROVE  OrderInv'
<1>1. PICK i \in DOMAIN queue : queue' = RemoveAt(queue, i)
  BY DEF RecvTake
<1>2. /\ DOMAIN queue' = 1..(Len(queue) - 1)
      /\ \A j \in DOMAIN queue' : queue'[j] = IF j < i THEN queue[j] ELSE queue[j + 1]
  BY <1>1, RemoveAtFacts DEF TypeOK
<1> DEFINE at(j) == IF j < i THEN j ELSE j + 1
<1>3. \A j \in DOMAIN queue' : at(j) \in DOMAIN queue /\ queue'[j] = queue[at(j)]
  BY <1>2 DEF TypeOK
<1>4. \A j, k \in DOMAIN queue' : j < k => at(j) < at(k)
  BY <1>2 DEF TypeOK
<1> HIDE DEF at
<1>5. QueueOrder'
  BY <1>3, <1>4 DEF OrderInv, QueueOrder
<1>6. IdsBelowNext'
  BY <1>3 DEF OrderInv, IdsBelowNext, RecvTake
<1> QED
  BY <1>5, <1>6 DEF OrderInv

\* Signals stand ahead of data, newest first, and data keeps its arrival order,
\* in every state of the mailbox: what push_front, push_back and the removals
\* of recv and recv_ref add up to.
THEOREM MailboxQueueOrder == Spec => []QueueOrder
<1>1. Init => OrderInv
  BY DEF Init, OrderInv, QueueOrder, IdsBelowNext
<1>2. TypeOK /\ OrderInv /\ [Next]_vars => OrderInv'
  <2> SUFFICES ASSUME TypeOK, OrderInv, [Next]_vars PROVE OrderInv'
    OBVIOUS
  <2>1. ASSUME NEW s \in Senders, Push(s) PROVE OrderInv'
    BY <2>1, PushOrder
  <2>2. CASE RecvTake
    BY <2>2, TakeOrder
  <2>3. CASE UNCHANGED <<queue, nextId>>
    BY <2>3 DEF OrderInv, QueueOrder, IdsBelowNext
  <2> QED
    BY <2>1, <2>2, <2>3
    DEF Next, Receiver, NotifyOne, Close, NotifyWaiters, RecvCall, RecvMiss,
        Park, TimeoutExpires, vars
<1>3. OrderInv => QueueOrder
  BY DEF OrderInv
<1> QED
  BY <1>1, <1>2, <1>3, MailboxTypeOK, PTL DEF Spec
-----------------------------------------------------------------------------
(* No message is lost, returned twice or miscounted. *)

\* What is in the queue beside the element at one place of the other: q is u with
\* u[k] left out.
Without(q, u, k) ==
    /\ k \in DOMAIN u
    /\ \A j \in DOMAIN u : j # k =>
          LET i == IF j < k THEN j ELSE j - 1 IN i \in DOMAIN q /\ u[j] = q[i]
    /\ \A i \in DOMAIN q :
          LET j == IF i < k THEN i ELSE i + 1 IN j \in DOMAIN u /\ u[j] = q[i]

LEMMA AppendWithout ==
    ASSUME NEW S, NEW q \in Seq(S), NEW m \in S
    PROVE  Without(q, Append(q, m), Len(q) + 1) /\ Append(q, m)[Len(q) + 1] = m
<1> DEFINE u == Append(q, m)
<1>1. /\ DOMAIN u = 1..(Len(q) + 1) /\ DOMAIN q = 1..Len(q) /\ Len(q) \in Nat
      /\ \A i \in 1..Len(q) : u[i] = q[i]
      /\ u[Len(q) + 1] = m
  OBVIOUS
<1> HIDE DEF u
<1>2. \A i \in DOMAIN q : i \in DOMAIN u /\ i < Len(q) + 1 /\ u[i] = q[i]
  BY <1>1
<1>3. \A j \in DOMAIN u : j # Len(q) + 1 => j < Len(q) + 1 /\ j \in DOMAIN q /\ u[j] = q[j]
  BY <1>1
<1> QED
  BY <1>1, <1>2, <1>3 DEF Without, u

LEMMA PrependWithout ==
    ASSUME NEW S, NEW q \in Seq(S), NEW m \in S
    PROVE  Without(q, <<m>> \o q, 1) /\ (<<m>> \o q)[1] = m
<1> DEFINE u == <<m>> \o q
<1>1. /\ DOMAIN u = 1..(Len(q) + 1) /\ DOMAIN q = 1..Len(q) /\ Len(q) \in Nat
      /\ u[1] = m
      /\ \A i \in 1..Len(q) : u[i + 1] = q[i]
  OBVIOUS
<1> HIDE DEF u
<1>2. \A i \in DOMAIN q : i + 1 \in DOMAIN u /\ ~(i < 1) /\ u[i + 1] = q[i]
  BY <1>1
<1>3. ASSUME NEW j \in DOMAIN u, j # 1
      PROVE  ~(j < 1) /\ j - 1 \in DOMAIN q /\ u[j] = q[j - 1]
  <2>1. j - 1 \in 1..Len(q) /\ (j - 1) + 1 = j /\ ~(j < 1)
    BY <1>1, <1>3
  <2> QED
    BY <1>1, <2>1
<1> QED
  BY <1>1, <1>2, <1>3 DEF Without, u

LEMMA RemovedWithout ==
    ASSUME NEW S, NEW u \in Seq(S), NEW k \in DOMAIN u
    PROVE  Without(RemoveAt(u, k), u, k)
<1> DEFINE q == RemoveAt(u, k)
<1>1. /\ DOMAIN q = 1..(Len(u) - 1) /\ DOMAIN u = 1..Len(u) /\ Len(u) \in Nat
      /\ \A j \in DOMAIN q : q[j] = IF j < k THEN u[j] ELSE u[j + 1]
  <2>1. q \in Seq(S) /\ Len(q) = Len(u) - 1
    BY RemoveAtFacts
  <2>2. \A j \in DOMAIN q : q[j] = IF j < k THEN u[j] ELSE u[j + 1]
    BY RemoveAtFacts
  <2> QED
    BY <2>1, <2>2
<1> HIDE DEF q
<1>2. ASSUME NEW j \in DOMAIN u, j # k
      PROVE  LET i == IF j < k THEN j ELSE j - 1 IN i \in DOMAIN q /\ u[j] = q[i]
  <2>1. CASE j < k
    BY <1>1, <2>1
  <2>2. CASE ~(j < k)
    <3>1. j - 1 \in DOMAIN q /\ ~(j - 1 < k) /\ (j - 1) + 1 = j
      BY <1>1, <1>2, <2>2
    <3> QED
      BY <1>1, <2>2, <3>1
  <2> QED
    BY <2>1, <2>2
<1>3. ASSUME NEW i \in DOMAIN q
      PROVE  LET j == IF i < k THEN i ELSE i + 1 IN j \in DOMAIN u /\ u[j] = q[i]
  BY <1>1
<1> QED
  BY <1>2, <1>3 DEF Without, q

Once(q) == \A i, j \in DOMAIN q : q[i].id = q[j].id => i = j
IdsOf(q) == {q[i].id : i \in DOMAIN q}
CountedOf(q) == {m \in {q[i] : i \in DOMAIN q} : Counted(m)}

\* One message more: its id is new, and it counts if it is Data or Tagged.
LEMMA OneMore ==
    ASSUME NEW q \in Seq(Msgs), NEW u \in Seq(Msgs), NEW k, Without(q, u, k)
    PROVE  /\ IdsOf(u) = IdsOf(q) \cup {u[k].id}
           /\ CountedOf(u) = CountedOf(q) \cup (IF Counted(u[k]) THEN {u[k]} ELSE {})
           /\ Once(q) /\ u[k].id \notin IdsOf(q) => Once(u)
           /\ Once(u) => Once(q) /\ u[k].id \notin IdsOf(q)
<1>1. k \in DOMAIN u /\ k \in Nat /\ DOMAIN u = 1..Len(u) /\ DOMAIN q = 1..Len(q)
      /\ Len(u) \in Nat /\ Len(q) \in Nat
  BY DEF Without
<1>2. \A j \in DOMAIN u : j = k \/ \E i \in DOMAIN q : u[j] = q[i]
  BY DEF Without
<1>3. \A i \in DOMAIN q : \E j \in DOMAIN u : j # k /\ u[j] = q[i]
  <2> SUFFICES ASSUME NEW i \in DOMAIN q
               PROVE  \E j \in DOMAIN u : j # k /\ u[j] = q[i]
    OBVIOUS
  <2> DEFINE j == IF i < k THEN i ELSE i + 1
  <2>1. j \in DOMAIN u /\ u[j] = q[i]
    BY DEF Without
  <2>2. j # k
    BY <1>1
  <2> QED
    BY <2>1, <2>2
<1>4. IdsOf(u) = IdsOf(q) \cup {u[k].id}
  <2>1. \A x : (\E j \in DOMAIN u : x = u[j].id)
                 => (x = u[k].id \/ \E i \in DOMAIN q : x = q[i].id)
    BY <1>2
  <2>2. \A x : (\E i \in DOMAIN q : x = q[i].id)
                 => \E j \in DOMAIN u : x = u[j].id
    BY <1>3
  <2>3. IdsOf(u) \subseteq IdsOf(q) \cup {u[k].id}
    BY <2>1 DEF IdsOf
  <2>4. IdsOf(q) \cup {u[k].id} \subseteq IdsOf(u)
    BY <1>1, <2>2 DEF IdsOf
  <2> QED
    BY <2>3, <2>4
<1>5. CountedOf(u) = CountedOf(q) \cup (IF Counted(u[k]) THEN {u[k]} ELSE {})
  <2>1. \A x : (\E j \in DOMAIN u : x = u[j]) <=> (x = u[k] \/ \E i \in DOMAIN q : x = q[i])
    BY <1>1, <1>2, <1>3
  <2> QED
    BY <2>1 DEF CountedOf
<1>6. ASSUME Once(q), u[k].id \notin IdsOf(q)
      PROVE  Once(u)
  <2> SUFFICES ASSUME NEW i \in DOMAIN u, NEW j \in DOMAIN u, u[i].id = u[j].id
               PROVE  i = j
    BY DEF Once
  <2>1. i = k <=> j = k
    BY <1>2, <1>6 DEF IdsOf
  <2>2. CASE i # k /\ j # k
    <3> DEFINE a == IF i < k THEN i ELSE i - 1
               b == IF j < k THEN j ELSE j - 1
    <3>1. a \in DOMAIN q /\ u[i] = q[a] /\ b \in DOMAIN q /\ u[j] = q[b]
      BY <2>2 DEF Without
    <3>2. a = b
      BY <1>6, <3>1 DEF Once
    <3> QED
      BY <1>1, <2>2, <3>2
  <2> QED
    BY <2>1, <2>2
<1>7. ASSUME Once(u)
      PROVE  Once(q) /\ u[k].id \notin IdsOf(q)
  <2>1. u[k].id \notin IdsOf(q)
    BY <1>1, <1>3, <1>7 DEF Once, IdsOf
  <2>2. ASSUME NEW i \in DOMAIN q, NEW j \in DOMAIN q, q[i].id = q[j].id
        PROVE  i = j
    <3> DEFINE a == IF i < k THEN i ELSE i + 1
               b == IF j < k THEN j ELSE j + 1
    <3>1. a \in DOMAIN u /\ u[a] = q[i] /\ b \in DOMAIN u /\ u[b] = q[j]
      BY DEF Without
    <3>2. a = b
      BY <1>7, <2>2, <3>1 DEF Once
    <3> QED
      BY <1>1, <3>2
  <2> QED
    BY <2>1, <2>2 DEF Once
<1> QED
  BY <1>4, <1>5, <1>6, <1>7

\* A push puts one message with the next id somewhere, and counts it if it is
\* Data or Tagged.
LEMMA PushAdds ==
    ASSUME TypeOK, NEW s \in Senders, Push(s)
    PROVE  \E k : /\ Without(queue, queue', k) /\ queue' \in Seq(Msgs)
                  /\ queue'[k].id = nextId
                  /\ dataCount' = dataCount + (IF Counted(queue'[k]) THEN 1 ELSE 0)
<1>0. queue \in Seq(Msgs) /\ nextId \in Nat /\ dataCount \in Int
  BY DEF TypeOK
<1>1. ASSUME NEW m \in Msgs, queue' = Append(queue, m), m.id = nextId,
             dataCount' = dataCount + (IF Counted(m) THEN 1 ELSE 0)
      PROVE  /\ Without(queue, queue', Len(queue) + 1) /\ queue' \in Seq(Msgs)
             /\ queue'[Len(queue) + 1].id = nextId
             /\ dataCount' = dataCount + (IF Counted(queue'[Len(queue) + 1]) THEN 1 ELSE 0)
  <2>1. Without(queue, queue', Len(queue) + 1) /\ queue'[Len(queue) + 1] = m
    BY <1>0, <1>1, AppendWithout
  <2>2. queue' \in Seq(Msgs)
    BY <1>0, <1>1
  <2> QED
    BY <1>1, <2>1, <2>2
<1>2. ASSUME NEW m \in Msgs, queue' = <<m>> \o queue, m.id = nextId, ~Counted(m),
             dataCount' = dataCount
      PROVE  /\ Without(queue, queue', 1) /\ queue' \in Seq(Msgs)
             /\ queue'[1].id = nextId
             /\ dataCount' = dataCount + (IF Counted(queue'[1]) THEN 1 ELSE 0)
  <2>1. Without(queue, queue', 1) /\ queue'[1] = m
    BY <1>0, <1>2, PrependWithout
  <2>2. queue' \in Seq(Msgs)
    BY <1>0, <1>2
  <2> QED
    BY <1>0, <1>2, <2>1, <2>2
<1>3. CASE PushData(s)
  <2> DEFINE m == [kind |-> "data", ref |-> NoRef, id |-> nextId]
  <2>1. m \in Msgs /\ Counted(m) /\ m.id = nextId
    BY <1>0 DEF Msgs, AppendedKinds, Counted
  <2>2. queue' = Append(queue, m) /\ dataCount' = dataCount + 1
    BY <1>3 DEF PushData
  <2> HIDE DEF m
  <2> QED
    BY <1>1, <2>1, <2>2
<1>4. ASSUME NEW r \in Refs, PushTagged(s, r)
      PROVE  \E k : /\ Without(queue, queue', k) /\ queue' \in Seq(Msgs)
                    /\ queue'[k].id = nextId
                    /\ dataCount' = dataCount + (IF Counted(queue'[k]) THEN 1 ELSE 0)
  <2> DEFINE m == [kind |-> "tagged", ref |-> r, id |-> nextId]
  <2>1. m \in Msgs /\ Counted(m) /\ m.id = nextId
    BY <1>0 DEF Msgs, AppendedKinds, Counted
  <2>2. queue' = Append(queue, m) /\ dataCount' = dataCount + 1
    BY <1>4 DEF PushTagged
  <2> HIDE DEF m
  <2> QED
    BY <1>1, <2>1, <2>2
<1>5. ASSUME NEW r \in Refs, PushSpawnReply(s, r)
      PROVE  \E k : /\ Without(queue, queue', k) /\ queue' \in Seq(Msgs)
                    /\ queue'[k].id = nextId
                    /\ dataCount' = dataCount + (IF Counted(queue'[k]) THEN 1 ELSE 0)
  <2> DEFINE m == [kind |-> "spawn_reply", ref |-> r, id |-> nextId]
  <2>1. m \in Msgs /\ ~Counted(m) /\ m.id = nextId
    BY <1>0 DEF Msgs, AppendedKinds, Counted
  <2>2. queue' = Append(queue, m) /\ dataCount' = dataCount + 0
    BY <1>0, <1>5 DEF PushSpawnReply
  <2> HIDE DEF m
  <2> QED
    BY <1>1, <2>1, <2>2
<1>6. ASSUME NEW r \in Refs \cup {NoRef}, PushSystem(s, r)
      PROVE  \E k : /\ Without(queue, queue', k) /\ queue' \in Seq(Msgs)
                    /\ queue'[k].id = nextId
                    /\ dataCount' = dataCount + (IF Counted(queue'[k]) THEN 1 ELSE 0)
  <2> DEFINE m == [kind |-> IF r = NoRef THEN "exit" ELSE "down", ref |-> r, id |-> nextId]
  <2>1. m \in Msgs /\ ~Counted(m) /\ m.id = nextId
    BY <1>0 DEF Msgs, SystemKinds, Counted
  <2>2. queue' = <<m>> \o queue /\ dataCount' = dataCount
    BY <1>6 DEF PushSystem
  <2> HIDE DEF m
  <2> QED
    BY <1>2, <2>1, <2>2
<1> QED
  BY <1>3, <1>4, <1>5, <1>6 DEF Push

\* Conservation, and that what is counted can be.
Kept == Conservation /\ IsFiniteSet(CountedOf(queue))

LEMMA PushConserves ==
    ASSUME TypeOK, Kept, NEW s \in Senders, Push(s)
    PROVE  Kept'
<1>1. PICK k : /\ Without(queue, queue', k) /\ queue' \in Seq(Msgs)
               /\ queue'[k].id = nextId
               /\ dataCount' = dataCount + (IF Counted(queue'[k]) THEN 1 ELSE 0)
  BY PushAdds
<1>2. nextId' = nextId + 1 /\ taken' = taken
  BY DEF Push, PushData, PushTagged, PushSpawnReply, PushSystem, Accepted
<1>3. /\ IdsOf(queue) \cup taken = 1..(nextId - 1) /\ IdsOf(queue) \cap taken = {}
      /\ Once(queue) /\ dataCount = Cardinality(CountedOf(queue))
      /\ IsFiniteSet(CountedOf(queue))
  BY DEF Kept, Conservation, IdsOf, Once, CountedOf, Queued
<1>4. queue \in Seq(Msgs) /\ nextId \in Nat \ {0} /\ dataCount \in Int
  BY DEF TypeOK
<1> DEFINE m == queue'[k]
<1>5. /\ IdsOf(queue') = IdsOf(queue) \cup {nextId}
      /\ CountedOf(queue') = CountedOf(queue) \cup (IF Counted(m) THEN {m} ELSE {})
      /\ nextId \notin IdsOf(queue) => Once(queue')
  BY <1>1, <1>3, <1>4, OneMore
<1>6. nextId \notin IdsOf(queue) /\ nextId \notin taken
  BY <1>3, <1>4
<1>7. m \notin CountedOf(queue)
  BY <1>1, <1>6 DEF CountedOf, IdsOf
<1> HIDE DEF m
<1>8. IdsOf(queue') \cup taken' = 1..(nextId' - 1)
  <2>1. 1..(nextId' - 1) = (1..(nextId - 1)) \cup {nextId}
    BY <1>2, <1>4
  <2> QED
    BY <1>2, <1>3, <1>5, <2>1
<1>9. IdsOf(queue') \cap taken' = {}
  BY <1>2, <1>3, <1>5, <1>6
<1>10. dataCount' = Cardinality(CountedOf(queue')) /\ IsFiniteSet(CountedOf(queue'))
  <2>1. CASE Counted(m)
    <3>1. CountedOf(queue') = CountedOf(queue) \cup {m} /\ dataCount' = dataCount + 1
      BY <1>1, <1>5, <2>1 DEF m
    <3> QED
      BY <1>3, <1>7, <3>1, FS_AddElement
  <2>2. CASE ~Counted(m)
    <3>1. CountedOf(queue') = CountedOf(queue) /\ dataCount' = dataCount
      BY <1>1, <1>4, <1>5, <2>2 DEF m
    <3> QED
      BY <1>3, <3>1
  <2> QED
    BY <2>1, <2>2
<1> QED
  BY <1>5, <1>6, <1>8, <1>9, <1>10 DEF Kept, Conservation, IdsOf, Once, CountedOf, Queued

LEMMA TakeConserves ==
    ASSUME TypeOK, Kept, RecvTake
    PROVE  Kept'
<1>1. PICK k \in DOMAIN queue :
          /\ queue' = RemoveAt(queue, k)
          /\ dataCount' = IF Counted(queue[k]) THEN dataCount - 1 ELSE dataCount
          /\ taken' = taken \cup {queue[k].id}
  BY DEF RecvTake
<1>2. nextId' = nextId
  BY DEF RecvTake
<1>3. /\ IdsOf(queue) \cup taken = 1..(nextId - 1) /\ IdsOf(queue) \cap taken = {}
      /\ Once(queue) /\ dataCount = Cardinality(CountedOf(queue))
      /\ IsFiniteSet(CountedOf(queue))
  BY DEF Kept, Conservation, IdsOf, Once, CountedOf, Queued
<1>4. queue \in Seq(Msgs) /\ queue' \in Seq(Msgs)
  BY <1>1, RemoveAtFacts DEF TypeOK
<1>5. Without(queue', queue, k)
  BY <1>1, <1>4, RemovedWithout
<1> DEFINE m == queue[k]
<1>6. /\ IdsOf(queue) = IdsOf(queue') \cup {m.id}
      /\ CountedOf(queue) = CountedOf(queue') \cup (IF Counted(m) THEN {m} ELSE {})
      /\ Once(queue') /\ m.id \notin IdsOf(queue')
  BY <1>3, <1>4, <1>5, OneMore
<1>7. m \notin CountedOf(queue')
  BY <1>6 DEF CountedOf, IdsOf
<1>8. taken' = taken \cup {m.id}
      /\ dataCount' = IF Counted(m) THEN dataCount - 1 ELSE dataCount
  BY <1>1
<1> HIDE DEF m
<1>9. /\ IdsOf(queue') \cup taken' = 1..(nextId' - 1)
      /\ IdsOf(queue') \cap taken' = {}
  BY <1>2, <1>3, <1>6, <1>8
<1>10. dataCount' = Cardinality(CountedOf(queue')) /\ IsFiniteSet(CountedOf(queue'))
  <2>1. CASE Counted(m)
    <3>1. CountedOf(queue') = CountedOf(queue) \ {m} /\ m \in CountedOf(queue)
      BY <1>6, <1>7, <2>1
    <3> QED
      BY <1>3, <1>8, <2>1, <3>1, FS_RemoveElement
  <2>2. CASE ~Counted(m)
    <3>1. CountedOf(queue') = CountedOf(queue)
      BY <1>6, <2>2
    <3> QED
      BY <1>3, <1>8, <2>2, <3>1
  <2> QED
    BY <2>1, <2>2
<1> QED
  BY <1>6, <1>9, <1>10 DEF Kept, Conservation, IdsOf, Once, CountedOf, Queued

\* Whatever is pushed, closed, received with a ref or without and given up
\* waiting for: each accepted message is queued once or was returned once, and
\* data_count (push_data, push_tagged, recv, recv_ref) is what is queued of Data
\* and Tagged.
THEOREM MailboxConservation == Spec => []Conservation
<1>1. Init => Kept
  <2> SUFFICES ASSUME Init PROVE Kept
    OBVIOUS
  <2>1. DOMAIN queue = {} /\ dataCount = 0 /\ nextId = 1 /\ taken = {}
    BY DEF Init
  <2>2. CountedOf(queue) = {} /\ Queued = {}
    BY <2>1 DEF CountedOf, Queued
  <2>3. IsFiniteSet({}) /\ Cardinality({}) = 0
    BY FS_EmptySet
  <2>4. {m \in Queued : Counted(m)} = {} /\ {queue[i].id : i \in DOMAIN queue} = {}
        /\ 1..(nextId - 1) = {}
    BY <2>1, <2>2
  <2> QED
    BY <2>1, <2>2, <2>3, <2>4 DEF Kept, Conservation
<1>2. TypeOK /\ Kept /\ [Next]_vars => Kept'
  <2> SUFFICES ASSUME TypeOK, Kept, [Next]_vars PROVE Kept'
    OBVIOUS
  <2>1. ASSUME NEW s \in Senders, Push(s) PROVE Kept'
    BY <2>1, PushConserves
  <2>2. CASE RecvTake
    BY <2>2, TakeConserves
  <2>3. CASE UNCHANGED <<queue, dataCount, nextId, taken>>
    BY <2>3 DEF Kept, Conservation, CountedOf, Queued
  <2> QED
    BY <2>1, <2>2, <2>3
    DEF Next, Receiver, NotifyOne, Close, NotifyWaiters, RecvCall, RecvMiss,
        Park, TimeoutExpires, vars
<1>3. Kept => Conservation
  BY DEF Kept
<1> QED
  BY <1>1, <1>2, <1>3, MailboxTypeOK, PTL DEF Spec

-----------------------------------------------------------------------------
(* The mailbox implements MailboxSpec. *)

\* A push adds its message to what is queued, at whichever end.
LEMMA PushQueued ==
    ASSUME TypeOK, NEW s \in Senders, Push(s)
    PROVE  \E kind \in Promise!Kinds \cup Promise!Signals, r \in Refs \cup {NoRef} :
              /\ ~closed \/ kind \in Promise!Signals
              /\ Queued' = Queued \cup {[kind |-> kind, ref |-> r, id |-> nextId]}
<1> DEFINE M(kind, r) == [kind |-> kind, ref |-> r, id |-> nextId]
<1>0. queue \in Seq(Msgs)
  BY DEF TypeOK
<1>1. ASSUME NEW kind \in AppendedKinds, NEW r \in Refs \cup {NoRef},
             queue' = Append(queue, M(kind, r))
      PROVE  Queued' = Queued \cup {M(kind, r)}
  <2>1. M(kind, r) \in Msgs
    BY DEF TypeOK, Msgs
  <2> DEFINE m == M(kind, r)
  <2> HIDE DEF m
  <2>2. /\ DOMAIN Append(queue, m) = 1..(Len(queue) + 1)
        /\ \A i \in 1..Len(queue) : Append(queue, m)[i] = queue[i]
        /\ Append(queue, m)[Len(queue) + 1] = m
    BY <1>0, <2>1 DEF m
  <2>3. DOMAIN queue = 1..Len(queue) /\ Len(queue) \in Nat
    BY <1>0
  <2>4. \A x : (\E i \in DOMAIN Append(queue, m) : x = Append(queue, m)[i])
                <=> (x = m \/ \E i \in DOMAIN queue : x = queue[i])
    <3>1. 1..(Len(queue) + 1) = (1..Len(queue)) \cup {Len(queue) + 1}
      BY <2>3
    <3> QED
      BY <2>2, <2>3, <3>1
  <2> QED
    BY <1>1, <2>4 DEF Queued, m
<1>2. ASSUME NEW kind \in SystemKinds, NEW r \in Refs \cup {NoRef},
             queue' = <<M(kind, r)>> \o queue
      PROVE  Queued' = Queued \cup {M(kind, r)}
  <2>1. M(kind, r) \in Msgs
    BY DEF TypeOK, Msgs
  <2> DEFINE m == M(kind, r)
             q == <<m>> \o queue
  <2> HIDE DEF m
  <2>2. /\ DOMAIN q = 1..(Len(queue) + 1)
        /\ q[1] = m
        /\ \A i \in 1..Len(queue) : q[i + 1] = queue[i]
    BY <1>0, <2>1 DEF m
  <2> HIDE DEF q
  <2>3. DOMAIN queue = 1..Len(queue) /\ Len(queue) \in Nat
    BY <1>0
  <2>4. \A x : (\E i \in DOMAIN q : x = q[i])
                <=> (x = m \/ \E i \in DOMAIN queue : x = queue[i])
    <3>1. \A i \in 1..(Len(queue) + 1) : i = 1 \/ (i - 1 \in 1..Len(queue) /\ i = (i - 1) + 1)
      BY <2>3
    <3>2. \A i \in 1..Len(queue) : i + 1 \in 1..(Len(queue) + 1)
      BY <2>3
    <3>3. 1 \in 1..(Len(queue) + 1)
      BY <2>3
    <3>4. ASSUME NEW i \in DOMAIN q PROVE q[i] = m \/ \E j \in DOMAIN queue : q[i] = queue[j]
      <4>1. CASE i = 1
        BY <4>1, <2>2
      <4>2. CASE i - 1 \in 1..Len(queue) /\ i = (i - 1) + 1
        <5>1. q[(i - 1) + 1] = queue[i - 1]
          BY <4>2, <2>2
        <5> QED
          BY <4>2, <5>1, <2>3
      <4> QED
        BY <4>1, <4>2, <3>1, <2>2
    <3>5. ASSUME NEW i \in DOMAIN queue PROVE \E j \in DOMAIN q : q[j] = queue[i]
      BY <2>2, <2>3, <3>2
    <3>6. \E j \in DOMAIN q : q[j] = m
      BY <2>2, <3>3
    <3> QED
      BY <3>4, <3>5, <3>6
  <2> QED
    BY <1>2, <2>4 DEF Queued, m, q
<1>3. CASE PushData(s)
  BY <1>3, <1>1 DEF PushData, AppendedKinds, Promise!Kinds
<1>4. CASE \E r \in Refs : PushTagged(s, r)
  BY <1>4, <1>1 DEF PushTagged, AppendedKinds, Promise!Kinds
<1>5. CASE \E r \in Refs : PushSpawnReply(s, r)
  BY <1>5, <1>1 DEF PushSpawnReply, AppendedKinds, Promise!Kinds
<1>6. CASE \E r \in Refs \cup {NoRef} : PushSystem(s, r)
  <2>1. PICK r \in Refs \cup {NoRef} : PushSystem(s, r)
    BY <1>6
  <2>2. (IF r = NoRef THEN "exit" ELSE "down") \in SystemKinds
    BY DEF SystemKinds
  <2>3. Queued' = Queued \cup {M(IF r = NoRef THEN "exit" ELSE "down", r)}
    BY <2>1, <2>2, <1>2 DEF PushSystem
  <2> QED
    BY <2>2, <2>3 DEF SystemKinds, Promise!Signals
<1> QED
  BY <1>3, <1>4, <1>5, <1>6 DEF Push

\* Taking a message out of the middle takes exactly that one out, since no two
\* queued messages are the same, and it is the one the promise prefers, since
\* the queue is in the promise's order.
LEMMA TakeQueued ==
    ASSUME TypeOK, QueueOrder, RecvTake
    PROVE  \E m \in Queued : Promise!Preferred(m, want) /\ Queued' = Queued \ {m}
<1>1. PICK i \in DOMAIN queue : IsFirstMatch(queue, want, i) /\ queue' = RemoveAt(queue, i)
  BY DEF RecvTake
<1>2. /\ DOMAIN queue' = 1..(Len(queue) - 1)
      /\ \A j \in DOMAIN queue' : queue'[j] = IF j < i THEN queue[j] ELSE queue[j + 1]
  BY <1>1, RemoveAtFacts DEF TypeOK
<1>3. DOMAIN queue = 1..Len(queue) /\ Len(queue) \in Nat /\ i \in 1..Len(queue)
  BY DEF TypeOK
<1>4. \A j \in DOMAIN queue : queue[j].id \in Nat
  <2>1. \A j \in DOMAIN queue : queue[j] \in Msgs
    BY DEF TypeOK
  <2> QED
    BY <2>1 DEF Msgs
<1>5. \A j \in DOMAIN queue : j # i => queue[j] # queue[i]
  <2> SUFFICES ASSUME NEW j \in DOMAIN queue, j # i PROVE queue[j] # queue[i]
    OBVIOUS
  <2>1. CASE j < i
    BY <2>1, <1>3, <1>4 DEF QueueOrder, SystemKinds, AppendedKinds
  <2>2. CASE i < j
    BY <2>2, <1>3, <1>4 DEF QueueOrder, SystemKinds, AppendedKinds
  <2> QED
    BY <2>1, <2>2, <1>3
<1>6. \A x : (\E j \in DOMAIN queue' : x = queue'[j])
             <=> (\E j \in DOMAIN queue : x = queue[j]) /\ x # queue[i]
  <2>1. ASSUME NEW j \in DOMAIN queue' PROVE \E k \in DOMAIN queue : k # i /\ queue'[j] = queue[k]
    <3>1. CASE j < i
      BY <3>1, <1>2, <1>3
    <3>2. CASE ~(j < i)
      <4>1. j + 1 \in DOMAIN queue /\ j + 1 # i
        BY <3>2, <1>2, <1>3
      <4> QED
        BY <4>1, <3>2, <1>2
    <3> QED
      BY <3>1, <3>2
  <2>2. ASSUME NEW k \in DOMAIN queue, k # i PROVE \E j \in DOMAIN queue' : queue'[j] = queue[k]
    <3>1. CASE k < i
      <4>1. k \in DOMAIN queue'
        BY <3>1, <1>2, <1>3
      <4> QED
        BY <4>1, <3>1, <1>2
    <3>2. CASE ~(k < i)
      <4>1. k - 1 \in DOMAIN queue' /\ ~(k - 1 < i) /\ (k - 1) + 1 = k
        BY <3>2, <2>2, <1>2, <1>3
      <4> QED
        BY <4>1, <1>2
    <3> QED
      BY <3>1, <3>2
  <2> QED
    BY <2>1, <2>2, <1>5
<1>7. Queued' = Queued \ {queue[i]}
  BY <1>6 DEF Queued
<1>8. Promise!Preferred(queue[i], want)
  <2>1. Promise!Wanted(queue[i], want)
    BY <1>1 DEF IsFirstMatch, Matches, Promise!Wanted
  <2>2. ASSUME NEW k \in DOMAIN queue, Promise!Wanted(queue[k], want)
        PROVE  queue[k] = queue[i] \/ Promise!Before(queue[i], queue[k])
    <3>1. ~(k < i)
      BY <1>1, <1>3, <2>2 DEF IsFirstMatch, Matches, Promise!Wanted
    <3>2. CASE k = i
      BY <3>2
    <3>3. CASE i < k
      BY <3>3, <1>3 DEF QueueOrder, Promise!Before, SystemKinds, AppendedKinds,
         Promise!Kinds, Promise!Signals
    <3> QED
      BY <3>1, <3>2, <3>3, <1>3
  <2> QED
    BY <2>1, <2>2 DEF Promise!Preferred, Queued
<1> QED
  BY <1>7, <1>8 DEF Queued

\* The safety half of ImplementsPromise, for any senders, refs and bound: the
\* queue, the mutex and the Notify of mailbox.rs behave as the mailbox
\* MailboxSpec describes.
THEOREM MailboxImplementsPromise == Spec => Promise!ASafety
<1>1. Init => Promise!AInit
  BY DEF Init, Promise!AInit, Queued
<1>2. TypeOK /\ QueueOrder /\ [Next]_vars => [Promise!ANext]_(Promise!avars)
  <2> SUFFICES ASSUME TypeOK, QueueOrder, [Next]_vars PROVE [Promise!ANext]_(Promise!avars)
    OBVIOUS
  <2>1. ASSUME NEW s \in Senders, Push(s) PROVE Promise!Accept
    <3>1. Accepted(s)
      BY <2>1 DEF Push, PushData, PushTagged, PushSpawnReply, PushSystem
    <3> QED
      BY <2>1, <3>1, PushQueued DEF Accepted, Promise!Accept
  <2>2. CASE RecvTake
    <3>1. Promise!Give
      BY <2>2, TakeQueued DEF RecvTake, Promise!Give
    <3> QED
      BY <3>1 DEF Promise!ANext
  <2>3. CASE RecvMiss
    <3>1. CASE closed
      <4>1. \A m \in Queued : ~Promise!Wanted(m, want)
        BY <2>3 DEF RecvMiss, HasMatch, Matches, Promise!Wanted, Queued
      <4> QED
        BY <2>3, <3>1, <4>1 DEF RecvMiss, Promise!GiveUp, Promise!ANext, Queued
    <3>2. CASE ~closed
      BY <2>3, <3>2 DEF RecvMiss, Promise!avars, Queued
    <3> QED
      BY <3>1, <3>2
  <2>4. CASE Close
    <3>1. CASE closed
      BY <2>4, <3>1 DEF Close, Promise!avars, Queued, TypeOK
    <3>2. CASE ~closed
      BY <2>4, <3>2 DEF Close, Promise!Shut, Promise!ANext, Queued
    <3> QED
      BY <3>1, <3>2
  <2>5. ASSUME NEW w \in Refs \cup {NoRef}, NEW t \in BOOLEAN, RecvCall(w, t) PROVE Promise!Ask
    BY <2>5 DEF RecvCall, Promise!Ask, Queued
  <2>6. CASE TimeoutExpires
    BY <2>6 DEF TimeoutExpires, Promise!GiveUp, Promise!ANext, Queued
  <2>7. CASE \E s \in Senders : NotifyOne(s)
    BY <2>7 DEF NotifyOne, Promise!avars, Queued
  <2>8. CASE NotifyWaiters
    BY <2>8 DEF NotifyWaiters, Promise!avars, Queued
  <2>9. CASE Park
    BY <2>9 DEF Park, Promise!avars, Queued
  <2>10. CASE UNCHANGED vars
    BY <2>10 DEF vars, Promise!avars, Queued
  <2> QED
    BY <2>1, <2>2, <2>3, <2>4, <2>5, <2>6, <2>7, <2>8, <2>9, <2>10
    DEF Next, Receiver, Promise!ANext
<1> QED
  BY <1>1, <1>2, MailboxTypeOK, MailboxQueueOrder, PTL DEF Spec, Promise!ASafety
=============================================================================
