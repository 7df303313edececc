-------------------------- MODULE ApplicationProofs --------------------------
(***************************************************************************)
(* Proofs about Application for any clients, servers, plans of calls,      *)
(* children and deaths: that calls return the replies to themselves, and   *)
(* that a pool's children are what it takes for them and end with it.      *)
(***************************************************************************)
EXTENDS Application, SequenceFacts

-----------------------------------------------------------------------------
(* Types *)

Callers == Clients \cup Servers
Reasons == {"normal", "exception", "shutdown", "killed"}
Words == [kind : {"request", "reply", "cast"}, ref : Nat, n : Nat]
Exits == [kind : {"exit"}, ref : {0}, n : Insts, reason : Reasons]
Msgs == Words \cup Exits

Results == {"open", "ok", "foreign", "timeout"}
CallRecs ==
    [by : Callers, to : Servers \cup {Pool}, op : Ops \cup {NoOp}, timed : BOOLEAN, ref : Nat,
     behind : SUBSET Nat, served : Nat, result : Results]
CastRecs == [by : Callers, to : Servers, stop : BOOLEAN, done : BOOLEAN]

Acts ==
    [op : {"start", "stop"}, id : Ids, kind : Kinds] \cup [op : {"give_up"}]

Talk ==
    /\ up \subseteq Particles
    /\ mail \in [Particles -> Seq(Msgs)]
    /\ nextRef \in [Particles -> Nat]
    /\ waits \in [Particles -> Nat]
    /\ handling \in [Particles -> Nat]
    /\ calls \in Seq(CallRecs)
    /\ casts \in Seq(CastRecs)
    /\ plan.calls \in 0..MaxCalls /\ Len(calls) <= plan.calls

Children ==
    /\ children \in [Ids -> Kinds \cup {NoKind}]
    /\ recent \in Nat
    /\ live \in [Ids -> Insts \cup {NoInst}]
    /\ pending \subseteq Ids
    /\ queue \in Seq(Acts)
    /\ phase \in {"drain", "wait", "gave_up", "killed"}
    /\ state \in [Insts -> {"unborn", "up", "dead"}]
    /\ born \in [Insts -> [id : Ids, kind : Kinds] \cup {NoKind}]
    /\ asked \subseteq Insts
    /\ spoiled \subseteq Ids
    /\ spent \in [exits : 0..MaxExits, fails : Nat]

Typed == Talk /\ Children

-----------------------------------------------------------------------------
(* What makes a call return its own reply *)

\* A message in q's mailbox is about a call that was made to q or by q.
Fits(q, m, ks, ns, st) ==
    /\ m.kind = "request" => m.n \in DOMAIN ks /\ ks[m.n].to = q /\ ks[m.n].served = 0
    /\ m.kind = "reply" => /\ m.n \in DOMAIN ks /\ ks[m.n].by = q
                           /\ ks[m.n].ref = m.ref /\ ks[m.n].served = 1
    /\ m.kind = "cast" => m.n \in DOMAIN ns /\ ns[m.n].to = q
    /\ m.kind = "exit" => q = Pool /\ m.n \in Insts /\ st[m.n] = "dead"

IsCast(m, n) == m.kind = "cast" /\ m.n = n

\* A mailbox holds a request once, behind the casts that were sent before it.
Sound(q, s, ks, ns, st) ==
    /\ \A i \in DOMAIN s : Fits(q, s[i], ks, ns, st)
    /\ \A i, j \in DOMAIN s :
          s[i].kind = "request" /\ s[j].kind = "request" /\ s[i].n = s[j].n => i = j
    /\ \A i \in DOMAIN s : s[i].kind = "request" =>
          \A n \in ks[s[i].n].behind :
              ns[n].done \/ \E j \in 1..(i - 1) : IsCast(s[j], n)

Mailboxes == \A q \in Particles : Sound(q, mail[q], calls, casts, state)

WaitsOwn ==
    \A p \in Particles : waits[p] # NoCall =>
        p \in Callers /\ waits[p] \in DOMAIN calls /\ calls[waits[p]].by = p

HandlesOwn ==
    \A q \in Particles : handling[q] # NoCall =>
        /\ q \in Servers /\ handling[q] \in DOMAIN calls
        /\ calls[handling[q]].to = q /\ calls[handling[q]].served = 1

RefsOnce ==
    \A k \in DOMAIN calls :
        /\ calls[k].ref < nextRef[calls[k].by]
        /\ calls[k].behind \subseteq DOMAIN casts
        /\ calls[k].to = Pool => calls[k].op \in Ops
        /\ \A l \in DOMAIN calls :
              calls[l].by = calls[k].by /\ calls[l].ref = calls[k].ref => k = l

CastsKept ==
    \A n \in DOMAIN casts :
        \/ casts[n].to \notin up
        \/ casts[n].done
        \/ \E i \in DOMAIN mail[casts[n].to] : IsCast(mail[casts[n].to][i], n)

ServedInOrder ==
    \A k \in DOMAIN calls :
        /\ calls[k].served \in {0, 1}
        /\ calls[k].served = 1 => \A n \in calls[k].behind : casts[n].done
        /\ calls[k].result = "ok" => calls[k].served = 1
        /\ calls[k].by \in Clients => calls[k].result # "foreign"

Answering == Mailboxes /\ WaitsOwn /\ HandlesOwn /\ RefsOnce /\ CastsKept /\ ServedInOrder

-----------------------------------------------------------------------------
(* What makes the pool's children what it takes for them *)

Alive == Pool \in up
StartsNext(s, id) == \E j \in DOMAIN s : s[j].op = "start" /\ s[j].id = id
Stops(s, id) == \E j \in DOMAIN s : s[j].op = "stop" /\ s[j].id = id
GivesUp(s) == \E j \in DOMAIN s : s[j].op = "give_up"
HasExit(s, i) == \E j \in DOMAIN s : s[j].kind = "exit" /\ s[j].n = i
Begun == {i \in Insts : state[i] # "unborn"}
Unasked(i) == Up(i) /\ i \notin asked

\* The queue holds one start of a child, or one stop of what is none, or the
\* stops of everything and the end.
QueueShape ==
    /\ phase # "drain" \/ ~Alive => queue = <<>>
    /\ phase \in {"gave_up", "killed"} => ~Alive
    /\ \A id \in Ids : StartsNext(queue, id) => Len(queue) = 1 /\ IsChild(id)
    /\ \A id \in Ids : Stops(queue, id) => ~IsChild(id)
    /\ GivesUp(queue) => \A id \in Ids : ~IsChild(id)
    /\ \A j \in DOMAIN queue : queue[j].op = "give_up" <=> j = Len(queue) /\ GivesUp(queue)
    /\ ~GivesUp(queue) => Len(queue) <= 1

\* What is live for an id was started for it.
LiveBorn ==
    /\ \A i \in Begun : born[i] \in [id : Ids, kind : Kinds]
    /\ \A id \in Ids : live[id] # NoInst => live[id] \in Begun /\ born[live[id]].id = id
    /\ asked \subseteq Begun

\* What nobody asked to stop is live for its id, which is a child or about to
\* be stopped; what is about to be started is not there.
Kept ==
    Alive => \A i \in Begun : Unasked(i) =>
        /\ live[born[i].id] = i
        /\ IsChild(born[i].id) \/ Stops(queue, born[i].id)
        /\ ~StartsNext(queue, born[i].id)

\* A child is up, or its exit is on its way, or it is about to be started.
Heard ==
    Alive => \A id \in Ids \ spoiled : IsChild(id) /\ ~StartsNext(queue, id) =>
        /\ live[id] # NoInst
        /\ id \notin pending
        /\ Up(live[id]) \/ HasExit(mail[Pool], live[id])

\* What the loop may still take for a child that has to be restarted.
Restartable == {i \in Begun : ~Unasked(i) /\ live[born[i].id] = i}

Requested == {k \in DOMAIN calls : calls[k].to = Pool /\ calls[k].served = 1}

\* Each instance is owed to a request that was served or to an exit.
RoomLeft ==
    Alive /\ ~GivesUp(queue) =>
        Cardinality(Begun) + Cardinality(Restartable) + Len(queue)
            <= Cardinality(Requested) + spent.exits

Minding == QueueShape /\ LiveBorn /\ Kept /\ Heard /\ RoomLeft /\ PoolLeavesNothing

IInv == Typed /\ Answering /\ Minding

-----------------------------------------------------------------------------
(* How mailboxes stay sound *)

\* What was known of calls, casts and instances is still so.
Later(ks, ns, st, ks2, ns2, st2) ==
    /\ DOMAIN ks \subseteq DOMAIN ks2 /\ DOMAIN ns \subseteq DOMAIN ns2
    /\ \A k \in DOMAIN ks :
          /\ ks2[k].to = ks[k].to /\ ks2[k].by = ks[k].by
          /\ ks2[k].ref = ks[k].ref /\ ks2[k].behind = ks[k].behind
          /\ ks[k].served = 1 => ks2[k].served = 1
    /\ \A n \in DOMAIN ns : ns2[n].to = ns[n].to /\ (ns[n].done => ns2[n].done)
    /\ \A i \in Insts : st[i] = "dead" => st2[i] = "dead"

LEMMA SoundLater ==
    ASSUME NEW q, NEW s, NEW ks, NEW ns, NEW st, NEW ks2, NEW ns2, NEW st2,
           Sound(q, s, ks, ns, st), Later(ks, ns, st, ks2, ns2, st2),
           \A k \in DOMAIN ks : ks[k].behind \subseteq DOMAIN ns,
           \A i \in DOMAIN s : s[i].kind = "request" => ks2[s[i].n].served = 0
    PROVE  Sound(q, s, ks2, ns2, st2)
<1>1. \A i \in DOMAIN s : Fits(q, s[i], ks2, ns2, st2)
  BY DEF Sound, Later, Fits
<1>2. ASSUME NEW i \in DOMAIN s, s[i].kind = "request", NEW n \in ks2[s[i].n].behind
      PROVE  ns2[n].done \/ \E j \in 1..(i - 1) : IsCast(s[j], n)
  <2>1. s[i].n \in DOMAIN ks
    BY <1>2 DEF Sound, Fits
  <2>2. n \in ks[s[i].n].behind /\ n \in DOMAIN ns
    BY <1>2, <2>1 DEF Later
  <2>3. ns[n].done \/ \E j \in 1..(i - 1) : IsCast(s[j], n)
    BY <1>2, <2>2 DEF Sound
  <2> QED
    BY <2>2, <2>3 DEF Later
<1> QED
  BY <1>1, <1>2 DEF Sound

LEMMA SoundEmpty ==
    ASSUME NEW q, NEW ks, NEW ns, NEW st
    PROVE  Sound(q, <<>>, ks, ns, st)
BY DEF Sound

LEMMA SoundAppend ==
    ASSUME NEW q, NEW s \in Seq(Msgs), NEW m \in Msgs, NEW ks, NEW ns, NEW st,
           Sound(q, s, ks, ns, st), Fits(q, m, ks, ns, st),
           m.kind = "request" =>
               /\ \A i \in DOMAIN s : s[i].kind = "request" => s[i].n # m.n
               /\ \A n \in ks[m.n].behind : ns[n].done \/ \E j \in DOMAIN s : IsCast(s[j], n)
    PROVE  Sound(q, Append(s, m), ks, ns, st)
<1> DEFINE t == Append(s, m)
<1>1. /\ Len(t) = Len(s) + 1 /\ DOMAIN t = 1..(Len(s) + 1) /\ DOMAIN s = 1..Len(s)
      /\ Len(s) \in Nat
      /\ t[Len(s) + 1] = m
      /\ \A i \in 1..Len(s) : t[i] = s[i]
  OBVIOUS
<1> HIDE DEF t
<1>2. \A i \in DOMAIN t : Fits(q, t[i], ks, ns, st)
  BY <1>1 DEF Sound
<1>3. ASSUME NEW i \in DOMAIN t, NEW j \in DOMAIN t,
             t[i].kind = "request", t[j].kind = "request", t[i].n = t[j].n
      PROVE  i = j
  BY <1>1, <1>3 DEF Sound
<1>4. ASSUME NEW i \in DOMAIN t, t[i].kind = "request", NEW n \in ks[t[i].n].behind
      PROVE  ns[n].done \/ \E j \in 1..(i - 1) : IsCast(t[j], n)
  <2>1. CASE i = Len(s) + 1
    <3>1. ns[n].done \/ \E j \in DOMAIN s : IsCast(s[j], n)
      BY <1>1, <1>4, <2>1
    <3>2. i - 1 = Len(s)
      BY <1>1, <2>1
    <3> QED
      BY <1>1, <3>1, <3>2
  <2>2. CASE i \in 1..Len(s)
    <3>1. ns[n].done \/ \E j \in 1..(i - 1) : IsCast(s[j], n)
      BY <1>1, <1>4, <2>2 DEF Sound
    <3>2. \A j \in 1..(i - 1) : j \in 1..Len(s)
      BY <1>1, <2>2
    <3> QED
      BY <1>1, <3>1, <3>2
  <2> QED
    BY <1>1, <2>1, <2>2
<1> QED
  BY <1>2, <1>3, <1>4 DEF Sound, t

LEMMA SoundPrepend ==
    ASSUME NEW q, NEW s \in Seq(Msgs), NEW t \in Seq(Msgs), NEW ks, NEW ns, NEW st,
           Sound(q, s, ks, ns, st),
           \A i \in DOMAIN t : t[i].kind = "exit" /\ Fits(q, t[i], ks, ns, st)
    PROVE  Sound(q, t \o s, ks, ns, st)
<1> DEFINE u == t \o s
           a == Len(t)
<1>1. /\ DOMAIN u = 1..(a + Len(s)) /\ DOMAIN s = 1..Len(s) /\ DOMAIN t = 1..a
      /\ Len(s) \in Nat /\ a \in Nat
      /\ \A i \in 1..a : u[i] = t[i]
  OBVIOUS
<1>2. \A i \in 1..Len(s) : u[a + i] = s[i]
  BY BehindTheFirst
<1> HIDE DEF u, a
<1>3. \A i \in DOMAIN u : i \notin 1..a => i - a \in 1..Len(s) /\ u[i] = s[i - a]
  <2> SUFFICES ASSUME NEW i \in DOMAIN u, i \notin 1..a
               PROVE  i - a \in 1..Len(s) /\ u[i] = s[i - a]
    OBVIOUS
  <2>1. i - a \in 1..Len(s) /\ a + (i - a) = i
    BY <1>1
  <2> QED
    BY <1>2, <2>1
<1>4. \A i \in DOMAIN u : u[i].kind = "request" => i \notin 1..a
  BY <1>1
<1>5. \A i \in DOMAIN u : Fits(q, u[i], ks, ns, st)
  <2> SUFFICES ASSUME NEW i \in DOMAIN u PROVE Fits(q, u[i], ks, ns, st)
    OBVIOUS
  <2>1. CASE i \in 1..a
    BY <1>1, <2>1
  <2>2. CASE i \notin 1..a
    BY <1>1, <1>3, <2>2 DEF Sound
  <2> QED
    BY <2>1, <2>2
<1>6. ASSUME NEW i \in DOMAIN u, NEW j \in DOMAIN u,
             u[i].kind = "request", u[j].kind = "request", u[i].n = u[j].n
      PROVE  i = j
  <2>1. /\ i - a \in DOMAIN s /\ u[i] = s[i - a]
        /\ j - a \in DOMAIN s /\ u[j] = s[j - a]
    BY <1>1, <1>3, <1>4, <1>6
  <2>2. i - a = j - a
    BY <1>6, <2>1 DEF Sound
  <2> QED
    BY <1>1, <2>2
<1>7. ASSUME NEW i \in DOMAIN u, u[i].kind = "request", NEW n \in ks[u[i].n].behind
      PROVE  ns[n].done \/ \E j \in 1..(i - 1) : IsCast(u[j], n)
  <2>1. i - a \in DOMAIN s /\ u[i] = s[i - a]
    BY <1>1, <1>3, <1>4, <1>7
  <2>2. ns[n].done \/ \E j \in 1..((i - a) - 1) : IsCast(s[j], n)
    BY <1>7, <2>1 DEF Sound
  <2>3. \A j \in 1..((i - a) - 1) : j \in 1..Len(s) /\ a + j \in 1..(i - 1)
    BY <1>1, <2>1
  <2> QED
    BY <1>2, <2>2, <2>3
<1> QED
  BY <1>5, <1>6, <1>7 DEF Sound, u

\* What is left when a message is taken that is no cast, or a cast that is done.
LEMMA SoundWithout ==
    ASSUME NEW q, NEW s \in Seq(Msgs), NEW x \in DOMAIN s, NEW ks, NEW ns, NEW st,
           Sound(q, s, ks, ns, st),
           s[x].kind = "cast" => ns[s[x].n].done
    PROVE  Sound(q, RemoveAt(s, x), ks, ns, st)
<1> DEFINE t == RemoveAt(s, x)
           at(j) == IF j < x THEN j ELSE j + 1
<1>1. /\ DOMAIN t = 1..(Len(s) - 1) /\ DOMAIN s = 1..Len(s) /\ Len(s) \in Nat
      /\ \A j \in DOMAIN t : t[j] = IF j < x THEN s[j] ELSE s[j + 1]
  <2>1. RemoveAt(s, x) \in Seq(Msgs) /\ Len(RemoveAt(s, x)) = Len(s) - 1
    BY RemoveAtLeaves
  <2>2. \A j \in 1..(Len(s) - 1) : t[j] = IF j < x THEN s[j] ELSE s[j + 1]
    BY RemoveAtLeaves
  <2>3. DOMAIN t = 1..(Len(s) - 1)
    BY <2>1
  <2> QED
    BY <2>2, <2>3
<1> HIDE DEF t
<1>2. \A j \in DOMAIN t : at(j) \in DOMAIN s /\ t[j] = s[at(j)]
  BY <1>1
<1>3. \A i, j \in DOMAIN t : at(i) = at(j) => i = j
  BY <1>1
<1>4. \A i \in DOMAIN t : \A k \in 1..(at(i) - 1) :
          k # x => \E j \in 1..(i - 1) : at(j) = k /\ j \in DOMAIN t
  <2> SUFFICES ASSUME NEW i \in DOMAIN t, NEW k \in 1..(at(i) - 1), k # x
               PROVE  \E j \in 1..(i - 1) : at(j) = k /\ j \in DOMAIN t
    OBVIOUS
  <2>1. CASE k < x
    <3>1. k \in 1..(i - 1) /\ at(k) = k /\ k \in DOMAIN t
      BY <1>1, <2>1
    <3> QED
      BY <3>1
  <2>2. CASE k > x
    <3>1. k - 1 \in 1..(i - 1) /\ at(k - 1) = k /\ k - 1 \in DOMAIN t
      BY <1>1, <2>2
    <3> QED
      BY <3>1
  <2> QED
    BY <1>1, <2>1, <2>2
<1>5. \A i \in DOMAIN t : at(i) \in Nat
  BY <1>1
<1> HIDE DEF at
<1>6. \A i \in DOMAIN t : Fits(q, t[i], ks, ns, st)
  BY <1>2 DEF Sound
<1>7. ASSUME NEW i \in DOMAIN t, NEW j \in DOMAIN t,
             t[i].kind = "request", t[j].kind = "request", t[i].n = t[j].n
      PROVE  i = j
  BY <1>2, <1>3, <1>7 DEF Sound
<1>8. ASSUME NEW i \in DOMAIN t, t[i].kind = "request", NEW n \in ks[t[i].n].behind
      PROVE  ns[n].done \/ \E j \in 1..(i - 1) : IsCast(t[j], n)
  <2>1. ns[n].done \/ \E k \in 1..(at(i) - 1) : IsCast(s[k], n)
    BY <1>2, <1>8 DEF Sound
  <2>2. ASSUME NEW k \in 1..(at(i) - 1), IsCast(s[k], n)
        PROVE  ns[n].done \/ \E j \in 1..(i - 1) : IsCast(t[j], n)
    <3>1. CASE k = x
      BY <2>2, <3>1 DEF IsCast
    <3>2. CASE k # x
      BY <1>2, <1>4, <2>2, <3>2
    <3> QED
      BY <3>1, <3>2
  <2> QED
    BY <2>1, <2>2
<1> QED
  BY <1>6, <1>7, <1>8 DEF Sound, t

LEMMA SoundTail ==
    ASSUME NEW q, NEW s \in Seq(Msgs), s # <<>>, NEW ks, NEW ns, NEW st,
           Sound(q, s, ks, ns, st),
           Head(s).kind = "cast" => ns[Head(s).n].done
    PROVE  Sound(q, Tail(s), ks, ns, st)
<1>1. 1 \in DOMAIN s /\ Head(s) = s[1] /\ Tail(s) = RemoveAt(s, 1)
  BY TailIsRemoveFirst
<1> QED
  BY <1>1, SoundWithout

-----------------------------------------------------------------------------
(* What changes of a call and a cast *)

WithResult(ks, k, x) == [ks EXCEPT ![k].result = x]
WithServed(ks, k) == [ks EXCEPT ![k].served = @ + 1]
WithDone(ks, k) == [ks EXCEPT ![k].done = TRUE]

LEMMA ServedOnceMore ==
    ASSUME NEW ks \in Seq(CallRecs), NEW k \in DOMAIN ks
    PROVE  /\ WithServed(ks, k) \in Seq(CallRecs)
           /\ Len(WithServed(ks, k)) = Len(ks) /\ DOMAIN WithServed(ks, k) = DOMAIN ks
           /\ \A l \in DOMAIN ks :
                 /\ WithServed(ks, k)[l].by = ks[l].by
                 /\ WithServed(ks, k)[l].to = ks[l].to
                 /\ WithServed(ks, k)[l].op = ks[l].op
                 /\ WithServed(ks, k)[l].ref = ks[l].ref
                 /\ WithServed(ks, k)[l].behind = ks[l].behind
                 /\ WithServed(ks, k)[l].timed = ks[l].timed
                 /\ WithServed(ks, k)[l].result = ks[l].result
                 /\ WithServed(ks, k)[l].served =
                       IF l = k THEN ks[l].served + 1 ELSE ks[l].served
<1> DEFINE js == WithServed(ks, k)
<1>1. PICK r \in CallRecs : r = ks[k]
  OBVIOUS
<1>2. js = [ks EXCEPT ![k] = [r EXCEPT !.served = @ + 1]]
  BY <1>1 DEF WithServed
<1> HIDE DEF js
<1>3. PICK t \in CallRecs : t = [r EXCEPT !.served = @ + 1]
  <2>1. r.served + 1 \in Nat
    BY <1>1 DEF CallRecs
  <2> QED
    BY <1>1, <2>1 DEF CallRecs
<1>4. /\ t.by = r.by /\ t.to = r.to /\ t.op = r.op /\ t.ref = r.ref /\ t.behind = r.behind
      /\ t.timed = r.timed /\ t.result = r.result /\ t.served = r.served + 1
  BY <1>3 DEF CallRecs
<1>5. js = [ks EXCEPT ![k] = t]
  BY <1>2, <1>3
<1>6. t \in CallRecs /\ k \in 1..Len(ks) /\ DOMAIN ks = 1..Len(ks)
  BY <1>3
<1>7. /\ js \in Seq(CallRecs) /\ Len(js) = Len(ks)
      /\ \A l \in DOMAIN ks : js[l] = IF l = k THEN t ELSE ks[l]
  BY <1>5, <1>6, ExceptSeq
<1>8. DOMAIN js = DOMAIN ks
  BY <1>6, <1>7
<1> QED
  BY <1>1, <1>4, <1>7, <1>8 DEF js

LEMMA ResultSet ==
    ASSUME NEW ks \in Seq(CallRecs), NEW k \in DOMAIN ks,
           NEW x \in Results
    PROVE  /\ WithResult(ks, k, x) \in Seq(CallRecs)
           /\ Len(WithResult(ks, k, x)) = Len(ks) /\ DOMAIN WithResult(ks, k, x) = DOMAIN ks
           /\ \A l \in DOMAIN ks :
                 /\ WithResult(ks, k, x)[l].by = ks[l].by
                 /\ WithResult(ks, k, x)[l].to = ks[l].to
                 /\ WithResult(ks, k, x)[l].op = ks[l].op
                 /\ WithResult(ks, k, x)[l].ref = ks[l].ref
                 /\ WithResult(ks, k, x)[l].behind = ks[l].behind
                 /\ WithResult(ks, k, x)[l].timed = ks[l].timed
                 /\ WithResult(ks, k, x)[l].served = ks[l].served
                 /\ WithResult(ks, k, x)[l].result = IF l = k THEN x ELSE ks[l].result
<1> DEFINE js == WithResult(ks, k, x)
<1>1. PICK r \in CallRecs : r = ks[k]
  OBVIOUS
<1>2. js = [ks EXCEPT ![k] = [r EXCEPT !.result = x]]
  BY <1>1 DEF WithResult
<1> HIDE DEF js
<1>3. PICK t \in CallRecs : t = [r EXCEPT !.result = x]
  BY DEF CallRecs
<1>4. /\ t.by = r.by /\ t.to = r.to /\ t.op = r.op /\ t.ref = r.ref /\ t.behind = r.behind
      /\ t.timed = r.timed /\ t.served = r.served /\ t.result = x
  BY <1>3 DEF CallRecs
<1>5. js = [ks EXCEPT ![k] = t]
  BY <1>2, <1>3
<1>6. t \in CallRecs /\ k \in 1..Len(ks) /\ DOMAIN ks = 1..Len(ks)
  BY <1>3
<1>7. /\ js \in Seq(CallRecs) /\ Len(js) = Len(ks)
      /\ \A l \in DOMAIN ks : js[l] = IF l = k THEN t ELSE ks[l]
  BY <1>5, <1>6, ExceptSeq
<1>8. DOMAIN js = DOMAIN ks
  BY <1>6, <1>7
<1> QED
  BY <1>1, <1>4, <1>7, <1>8 DEF js

LEMMA CastDone ==
    ASSUME NEW ks \in Seq(CastRecs), NEW k \in DOMAIN ks
    PROVE  /\ WithDone(ks, k) \in Seq(CastRecs)
           /\ Len(WithDone(ks, k)) = Len(ks) /\ DOMAIN WithDone(ks, k) = DOMAIN ks
           /\ WithDone(ks, k)[k].done
           /\ \A l \in DOMAIN ks :
                 /\ WithDone(ks, k)[l].by = ks[l].by
                 /\ WithDone(ks, k)[l].to = ks[l].to
                 /\ WithDone(ks, k)[l].stop = ks[l].stop
                 /\ ks[l].done => WithDone(ks, k)[l].done
<1> DEFINE js == WithDone(ks, k)
<1>1. PICK r \in CastRecs : r = ks[k]
  OBVIOUS
<1>2. js = [ks EXCEPT ![k] = [r EXCEPT !.done = TRUE]]
  BY <1>1 DEF WithDone
<1> HIDE DEF js
<1>3. PICK t \in CastRecs : t = [r EXCEPT !.done = TRUE]
  BY DEF CastRecs
<1>4. t.by = r.by /\ t.to = r.to /\ t.stop = r.stop /\ t.done
  BY <1>3 DEF CastRecs
<1>5. js = [ks EXCEPT ![k] = t]
  BY <1>2, <1>3
<1>6. t \in CastRecs /\ k \in 1..Len(ks) /\ DOMAIN ks = 1..Len(ks)
  BY <1>3
<1>7. /\ js \in Seq(CastRecs) /\ Len(js) = Len(ks)
      /\ \A l \in DOMAIN ks : js[l] = IF l = k THEN t ELSE ks[l]
  <2> DEFINE us == [ks EXCEPT ![k] = t]
  <2>1. us \in Seq(CastRecs) /\ Len(us) = Len(ks)
    BY <1>6, ExceptSeq
  <2>2. \A l \in 1..Len(ks) : us[l] = IF l = k THEN t ELSE ks[l]
    BY <1>6, ExceptSeq
  <2>3. js = us
    BY <1>5
  <2> HIDE DEF us
  <2> QED
    BY <1>6, <2>1, <2>2, <2>3
<1>8. DOMAIN js = DOMAIN ks
  BY <1>6, <1>7
<1>9. js[k] = t /\ \A l \in DOMAIN ks : l # k => js[l] = ks[l]
  BY <1>7
<1>10. js[k].done
  BY <1>4, <1>9
<1>11. \A l \in DOMAIN ks : ks[l].done => js[l].done
  BY <1>9, <1>10
<1> QED
  BY <1>1, <1>4, <1>7, <1>8, <1>9, <1>10, <1>11 DEF js

LEMMA CallAdded ==
    ASSUME NEW ks \in Seq(CallRecs), NEW r \in CallRecs
    PROVE  /\ Append(ks, r) \in Seq(CallRecs) /\ Len(Append(ks, r)) = Len(ks) + 1
           /\ DOMAIN ks = 1..Len(ks) /\ Len(ks) \in Nat
           /\ DOMAIN Append(ks, r) = DOMAIN ks \cup {Len(ks) + 1}
           /\ Append(ks, r)[Len(ks) + 1] = r
           /\ \A l \in DOMAIN ks : Append(ks, r)[l] = ks[l]
OBVIOUS

LEMMA CastAdded ==
    ASSUME NEW ks \in Seq(CastRecs), NEW r \in CastRecs
    PROVE  /\ Append(ks, r) \in Seq(CastRecs) /\ Len(Append(ks, r)) = Len(ks) + 1
           /\ DOMAIN ks = 1..Len(ks) /\ Len(ks) \in Nat
           /\ DOMAIN Append(ks, r) = DOMAIN ks \cup {Len(ks) + 1}
           /\ Append(ks, r)[Len(ks) + 1] = r
           /\ \A l \in DOMAIN ks : Append(ks, r)[l] = ks[l]
OBVIOUS

\* A mailbox that a step leaves alone.
LEMMA MailLeft ==
    ASSUME Talk, Mailboxes, RefsOnce, Later(calls, casts, state, calls', casts', state'),
           NEW q \in Particles, mail'[q] = mail[q],
           \A i \in DOMAIN mail[q] :
               mail[q][i].kind = "request" => calls'[mail[q][i].n].served = 0
    PROVE  Sound(q, mail'[q], calls', casts', state')
<1>1. Sound(q, mail[q], calls, casts, state)
  BY DEF Mailboxes
<1>2. \A k \in DOMAIN calls : calls[k].behind \subseteq DOMAIN casts
  BY DEF RefsOnce
<1>3. Sound(q, mail[q], calls', casts', state')
  BY <1>1, <1>2, SoundLater
<1> QED
  BY <1>3

\* A mailbox a step leaves alone while no call is served.
LEMMA MailLeftUnserved ==
    ASSUME Talk, Mailboxes, RefsOnce, Later(calls, casts, state, calls', casts', state'),
           \A k \in DOMAIN calls : calls'[k].served = calls[k].served,
           NEW q \in Particles, mail'[q] = mail[q]
    PROVE  Sound(q, mail'[q], calls', casts', state')
<1>1. \A i \in DOMAIN mail[q] :
          mail[q][i].kind = "request" => calls'[mail[q][i].n].served = 0
  BY DEF Mailboxes, Sound, Fits
<1> QED
  BY <1>1, MailLeft

-----------------------------------------------------------------------------
(* Calls and casts keep what makes a call return its own reply *)

LEMMA ParticleFacts ==
    /\ Callers \subseteq Particles /\ Servers \subseteq Particles /\ Pool \in Particles
    /\ Pool \notin Callers /\ Clients \cap Servers = {} /\ Far \subseteq Clients
    /\ Clients \subseteq Callers /\ Servers \subseteq Callers /\ Pool \notin Servers
  BY CallsAssumption DEF Callers, Particles

LEMMA CallFields ==
    ASSUME Talk, NEW k \in DOMAIN calls
    PROVE  /\ calls[k].by \in Callers /\ calls[k].to \in Servers \cup {Pool}
           /\ calls[k].op \in Ops \cup {NoOp} /\ calls[k].timed \in BOOLEAN
           /\ calls[k].ref \in Nat /\ calls[k].behind \in SUBSET Nat /\ calls[k].served \in Nat
           /\ k \in 1..Len(calls) /\ k \in Nat \ {0}
<1>1. PICK c \in CallRecs : c = calls[k]
  BY DEF Talk
<1>2. k \in 1..Len(calls) /\ Len(calls) \in Nat
  BY DEF Talk
<1> QED
  BY <1>1, <1>2 DEF CallRecs

LEMMA CastFields ==
    ASSUME Talk
    PROVE  \A n \in DOMAIN casts :
               casts[n].by \in Callers /\ casts[n].to \in Servers /\ n \in Nat
<1> SUFFICES ASSUME NEW n \in DOMAIN casts
             PROVE  casts[n].by \in Callers /\ casts[n].to \in Servers /\ n \in Nat
  OBVIOUS
<1>1. PICK c \in CastRecs : c = casts[n]
  BY DEF Talk
<1> QED
  BY <1>1 DEF CastRecs, Talk

\* A request that stands nowhere yet, behind all casts to its server.
LEMMA MakeCallKeeps ==
    ASSUME Talk, Answering, UNCHANGED state, NEW p \in Callers,
           NEW q \in Servers \cup {Pool}, NEW op \in Ops \cup {NoOp}, NEW timed \in BOOLEAN,
           q = Pool => op \in Ops, MakeCall(p, q, op, timed)
    PROVE  Talk' /\ Answering'
<1> DEFINE K == Len(calls) + 1
           r == [by |-> p, to |-> q, op |-> op, timed |-> timed, ref |-> nextRef[p],
                 behind |-> CastsBefore(p, q), served |-> 0, result |-> "open"]
           m == [kind |-> "request", ref |-> nextRef[p], n |-> K]
<1>1. p \in Particles /\ q \in Particles /\ nextRef[p] \in Nat /\ Len(calls) \in Nat /\ K \in Nat
  BY ParticleFacts DEF Talk
<1>2. CastsBefore(p, q) \subseteq DOMAIN casts /\ DOMAIN casts \subseteq Nat
  BY DEF CastsBefore, Talk
<1>3. r \in CallRecs
  BY <1>1, <1>2 DEF CallRecs, Results
<1>4. calls' = Append(calls, r)
  BY DEF MakeCall
<1>5. /\ r.by = p /\ r.to = q /\ r.op = op /\ r.ref = nextRef[p]
      /\ r.behind = CastsBefore(p, q) /\ r.served = 0 /\ r.result = "open"
  OBVIOUS
<1> HIDE DEF r
<1>6. /\ calls' \in Seq(CallRecs) /\ Len(calls') = Len(calls) + 1
      /\ DOMAIN calls = 1..Len(calls)
      /\ DOMAIN calls' = DOMAIN calls \cup {K} /\ K \notin DOMAIN calls
      /\ calls'[K] = r
      /\ \A l \in DOMAIN calls : calls'[l] = calls[l]
  BY <1>1, <1>3, <1>4, CallAdded DEF Talk
<1>7. Later(calls, casts, state, calls', casts', state')
  BY <1>6 DEF Later, MakeCall
<1>8. m \in Msgs /\ m.kind = "request" /\ m.n = K
  BY <1>1 DEF Msgs, Words
<1>9. mail' = IF q \in up THEN [mail EXCEPT ![q] = Append(@, m)] ELSE mail
  BY <1>5, <1>6 DEF MakeCall, Send, Request
<1> HIDE DEF m, K
<1>10. mail' \in [Particles -> Seq(Msgs)]
  BY <1>1, <1>8, <1>9 DEF Talk
<1>11. \A k \in DOMAIN calls : calls'[k].served = calls[k].served
  BY <1>6
<1>12. Mailboxes'
  <2> SUFFICES ASSUME NEW a \in Particles
               PROVE  Sound(a, mail'[a], calls', casts', state')
    BY DEF Mailboxes
  <2>1. CASE mail'[a] = mail[a]
    BY <1>7, <1>11, <2>1, MailLeftUnserved DEF Answering
  <2>2. CASE mail'[a] # mail[a]
    <3>1. a = q /\ q \in up /\ mail'[q] = Append(mail[q], m)
      BY <1>1, <1>9, <2>2 DEF Talk
    <3>2. Sound(q, mail[q], calls', casts', state')
      <4>1. Sound(q, mail[q], calls, casts, state)
        BY <1>1 DEF Answering, Mailboxes
      <4>2. \A k \in DOMAIN calls : calls[k].behind \subseteq DOMAIN casts
        BY DEF Answering, RefsOnce
      <4>3. \A i \in DOMAIN mail[q] :
                mail[q][i].kind = "request" => calls'[mail[q][i].n].served = 0
        BY <1>6, <4>1 DEF Sound, Fits
      <4> QED
        BY <1>7, <4>1, <4>2, <4>3, SoundLater
    <3>3. Fits(q, m, calls', casts', state')
      BY <1>5, <1>6, <1>8 DEF Fits
    <3>4. \A i \in DOMAIN mail[q] : mail[q][i].kind = "request" => mail[q][i].n # K
      BY <1>1, <1>6 DEF Answering, Mailboxes, Sound, Fits
    <3>5. ASSUME NEW n \in calls'[K].behind
          PROVE  casts'[n].done \/ \E j \in DOMAIN mail[q] : IsCast(mail[q][j], n)
      <4>1. n \in DOMAIN casts /\ casts[n].to = q /\ casts' = casts
        BY <1>5, <1>6, <3>5 DEF CastsBefore, MakeCall
      <4> QED
        BY <3>1, <4>1 DEF Answering, CastsKept
    <3>6. mail[q] \in Seq(Msgs)
      BY <1>1 DEF Talk
    <3> QED
      BY <1>8, <3>1, <3>2, <3>3, <3>4, <3>5, <3>6, SoundAppend
  <2> QED
    BY <2>1, <2>2
<1>13. waits' = [waits EXCEPT ![p] = K] /\ handling' = handling /\ up' = up /\ casts' = casts
       /\ plan' = plan
  BY DEF MakeCall, K
<1>14. WaitsOwn'
  BY <1>1, <1>5, <1>6, <1>13 DEF Answering, WaitsOwn, Talk
<1>15. HandlesOwn'
  BY <1>6, <1>13 DEF Answering, HandlesOwn
<1>16. nextRef' = [nextRef EXCEPT ![p] = @ + 1]
  BY DEF MakeCall, TakeRef
<1>17. RefsOnce'
  <2>1. \A k \in DOMAIN calls' : calls'[k].ref < nextRef'[calls'[k].by]
    <3> SUFFICES ASSUME NEW k \in DOMAIN calls'
                 PROVE  calls'[k].ref < nextRef'[calls'[k].by]
      OBVIOUS
    <3>1. CASE k = K
      BY <1>1, <1>5, <1>6, <1>16, <3>1 DEF Talk
    <3>2. CASE k \in DOMAIN calls
      <4>1. PICK c \in CallRecs : c = calls[k]
        BY <3>2 DEF Talk
      <4>2. c.by \in Particles /\ c.ref \in Nat
        BY <4>1, ParticleFacts DEF CallRecs
      <4>3. c.ref < nextRef[c.by] /\ nextRef[c.by] \in Nat
        BY <3>2, <4>1, <4>2 DEF Answering, RefsOnce, Talk
      <4>4. nextRef'[c.by] = nextRef[c.by] \/ nextRef'[c.by] = nextRef[c.by] + 1
        BY <1>16, <4>2 DEF Talk
      <4> QED
        BY <1>6, <3>2, <4>1, <4>2, <4>3, <4>4
    <3> QED
      BY <1>6, <3>1, <3>2
  <2>2. \A k \in DOMAIN calls' : /\ calls'[k].behind \subseteq DOMAIN casts'
                                 /\ calls'[k].to = Pool => calls'[k].op \in Ops
    BY <1>2, <1>5, <1>6, <1>13 DEF Answering, RefsOnce
  <2>3. ASSUME NEW k \in DOMAIN calls', NEW l \in DOMAIN calls',
               calls'[l].by = calls'[k].by, calls'[l].ref = calls'[k].ref
        PROVE  k = l
    <3>1. \A j \in DOMAIN calls : calls[j].by = p => calls[j].ref # nextRef[p]
      <4> SUFFICES ASSUME NEW j \in DOMAIN calls, calls[j].by = p
                   PROVE  calls[j].ref # nextRef[p]
        OBVIOUS
      <4>1. calls[j].ref < nextRef[p]
        BY DEF Answering, RefsOnce
      <4> QED
        BY <1>1, <4>1
    <3>2. CASE k = K \/ l = K
      BY <1>5, <1>6, <2>3, <3>1, <3>2
    <3>3. CASE k # K /\ l # K
      BY <1>6, <2>3, <3>3 DEF Answering, RefsOnce
    <3> QED
      BY <3>2, <3>3
  <2> QED
    BY <2>1, <2>2, <2>3 DEF RefsOnce
<1>18. CastsKept'
  <2>1. \A a \in Particles : \A j \in DOMAIN mail[a] :
            j \in DOMAIN mail'[a] /\ mail'[a][j] = mail[a][j]
    BY <1>8, <1>9 DEF Talk
  <2>2. \A n \in DOMAIN casts : casts[n].to \in Particles
    BY CastFields, ParticleFacts
  <2> QED
    BY <1>13, <2>1, <2>2 DEF Answering, CastsKept
<1>19. ServedInOrder'
  BY <1>5, <1>6, <1>13 DEF Answering, ServedInOrder
<1>20. Talk'
  <2>1. nextRef' \in [Particles -> Nat] /\ waits' \in [Particles -> Nat]
    BY <1>1, <1>13, <1>16 DEF Talk, K
  <2>2. Len(calls') <= plan.calls
    BY <1>1, <1>6 DEF MakeCall, Talk
  <2> QED
    BY <1>6, <1>10, <1>13, <2>1, <2>2 DEF Talk
<1> QED
  BY <1>12, <1>14, <1>15, <1>17, <1>18, <1>19, <1>20 DEF Answering

\* What is behind a removed message stays in the mailbox.
LEMMA OthersStay ==
    ASSUME NEW s \in Seq(Msgs), NEW x \in DOMAIN s, NEW i \in DOMAIN s, i # x
    PROVE  \E j \in DOMAIN RemoveAt(s, x) : RemoveAt(s, x)[j] = s[i]
<1>1. /\ DOMAIN RemoveAt(s, x) = 1..(Len(s) - 1) /\ i \in 1..Len(s) /\ x \in 1..Len(s)
      /\ Len(s) \in Nat
  <2>1. RemoveAt(s, x) \in Seq(Msgs) /\ Len(RemoveAt(s, x)) = Len(s) - 1
    BY RemoveAtLeaves
  <2> QED
    BY <2>1
<1>2. \A j \in 1..(Len(s) - 1) : RemoveAt(s, x)[j] = IF j < x THEN s[j] ELSE s[j + 1]
  BY RemoveAtLeaves
<1>3. CASE i < x
  <2>1. i \in 1..(Len(s) - 1)
    BY <1>1, <1>3
  <2> QED
    BY <1>1, <1>2, <1>3, <2>1
<1>4. CASE i > x
  <2>1. i - 1 \in 1..(Len(s) - 1) /\ ~(i - 1 < x) /\ (i - 1) + 1 = i
    BY <1>1, <1>4
  <2> QED
    BY <1>1, <1>2, <2>1
<1> QED
  BY <1>1, <1>3, <1>4

\* ... and nothing else is there.
LEMMA NothingNew ==
    ASSUME NEW s \in Seq(Msgs), NEW x \in DOMAIN s, NEW j \in DOMAIN RemoveAt(s, x)
    PROVE  \E i \in DOMAIN s : i # x /\ RemoveAt(s, x)[j] = s[i]
<1>1. j \in 1..(Len(s) - 1) /\ x \in 1..Len(s) /\ Len(s) \in Nat /\ DOMAIN s = 1..Len(s)
  <2>1. RemoveAt(s, x) \in Seq(Msgs) /\ Len(RemoveAt(s, x)) = Len(s) - 1
    BY RemoveAtLeaves
  <2> QED
    BY <2>1
<1>2. RemoveAt(s, x)[j] = IF j < x THEN s[j] ELSE s[j + 1]
  BY <1>1, RemoveAtLeaves
<1>3. IF j < x THEN j \in DOMAIN s /\ j # x ELSE j + 1 \in DOMAIN s /\ j + 1 # x
  BY <1>1
<1> QED
  BY <1>2, <1>3

\* What is left of a mailbox when a message is taken: one that is no cast or a
\* cast that is done, and no request or the only one that is served by the step.
LEMMA TakenSound ==
    ASSUME Talk, Answering, Later(calls, casts, state, calls', casts', state'),
           DOMAIN casts' = DOMAIN casts,
           NEW q \in Particles, NEW x \in DOMAIN mail[q],
           mail[q][x].kind = "cast" => casts'[mail[q][x].n].done,
           \A k \in DOMAIN calls : calls'[k].served # calls[k].served =>
               mail[q][x].kind = "request" /\ mail[q][x].n = k
    PROVE  /\ mail[q] \in Seq(Msgs) /\ RemoveAt(mail[q], x) \in Seq(Msgs)
           /\ Sound(q, RemoveAt(mail[q], x), calls', casts', state')
<1> DEFINE s == mail[q]
           t == RemoveAt(s, x)
<1>1. s \in Seq(Msgs)
  BY DEF Talk
<1>2. t \in Seq(Msgs)
  BY <1>1, RemoveAtLeaves
<1>4. Sound(q, s, calls, casts, state)
  BY DEF Answering, Mailboxes
<1>5. \A k \in DOMAIN calls : calls[k].behind \subseteq DOMAIN casts
  BY DEF Answering, RefsOnce
<1> HIDE DEF t
<1>6. Sound(q, t, calls', casts', state')
  <2>1. Later(calls, casts, state, calls, casts', state')
    BY DEF Later
  <2>2. Later(calls, casts', state', calls', casts', state')
    BY DEF Later
  <2>3. \A i \in DOMAIN s : s[i].kind = "request" => calls[s[i].n].served = 0
    BY <1>4 DEF Sound, Fits
  <2>4. Sound(q, s, calls, casts', state')
    BY <1>4, <1>5, <2>1, <2>3, SoundLater
  <2>5. Sound(q, t, calls, casts', state')
    BY <1>1, <2>4, SoundWithout DEF t
  <2>6. ASSUME NEW j \in DOMAIN t, t[j].kind = "request"
        PROVE  calls'[t[j].n].served = 0
    <3>1. PICK i \in DOMAIN s : i # x /\ t[j] = s[i]
      BY <1>1, NothingNew DEF t
    <3>2. s[i].n \in DOMAIN calls /\ calls[s[i].n].served = 0
      BY <1>4, <2>6, <3>1 DEF Sound, Fits
    <3>3. ~(s[x].kind = "request" /\ s[x].n = s[i].n)
      BY <1>4, <2>6, <3>1 DEF Sound
    <3> QED
      BY <3>1, <3>2, <3>3
  <2> QED
    BY <1>5, <2>2, <2>5, <2>6, SoundLater
<1> QED
  BY <1>1, <1>2, <1>6 DEF t

\* The other mailboxes, when the message was taken from q's.
LEMMA OthersSound ==
    ASSUME Talk, Answering, Later(calls, casts, state, calls', casts', state'),
           NEW q \in Particles, NEW x \in DOMAIN mail[q],
           \A k \in DOMAIN calls : calls'[k].served # calls[k].served =>
               mail[q][x].kind = "request" /\ mail[q][x].n = k,
           NEW a \in Particles, a # q
    PROVE  Sound(a, mail[a], calls', casts', state')
<1>1. Sound(q, mail[q], calls, casts, state) /\ Sound(a, mail[a], calls, casts, state)
  BY DEF Answering, Mailboxes
<1>2. \A k \in DOMAIN calls : calls[k].behind \subseteq DOMAIN casts
  BY DEF Answering, RefsOnce
<1>3. ASSUME NEW i \in DOMAIN mail[a], mail[a][i].kind = "request"
      PROVE  calls'[mail[a][i].n].served = 0
  <2>1. /\ mail[a][i].n \in DOMAIN calls /\ calls[mail[a][i].n].to = a
        /\ calls[mail[a][i].n].served = 0
    BY <1>1, <1>3 DEF Sound, Fits
  <2>2. mail[q][x].kind = "request" => calls[mail[q][x].n].to = q
    BY <1>1 DEF Sound, Fits
  <2> QED
    BY <2>1, <2>2
<1> QED
  BY <1>1, <1>2, <1>3, SoundLater

LEMMA TakingKeeps ==
    ASSUME Talk, Answering, Later(calls, casts, state, calls', casts', state'),
           DOMAIN casts' = DOMAIN casts, up' \subseteq up,
           NEW q \in Particles, NEW x \in DOMAIN mail[q],
           mail' = [mail EXCEPT ![q] = RemoveAt(@, x)],
           mail[q][x].kind = "cast" => casts'[mail[q][x].n].done,
           \A k \in DOMAIN calls : calls'[k].served # calls[k].served =>
               mail[q][x].kind = "request" /\ mail[q][x].n = k
    PROVE  mail' \in [Particles -> Seq(Msgs)] /\ Mailboxes' /\ CastsKept'
<1> DEFINE s == mail[q]
           t == RemoveAt(s, x)
<1>1. s \in Seq(Msgs) /\ mail'[q] = t /\ \A a \in Particles : a # q => mail'[a] = mail[a]
  BY DEF Talk
<1>2. t \in Seq(Msgs) /\ Sound(q, t, calls', casts', state')
  BY TakenSound
<1>3. mail' \in [Particles -> Seq(Msgs)]
  BY <1>2 DEF Talk
<1> HIDE DEF t
<1>7. ASSUME NEW a \in Particles, a # q
      PROVE  Sound(a, mail'[a], calls', casts', state')
  BY <1>1, <1>7, OthersSound
<1>8. Mailboxes'
  BY <1>1, <1>2, <1>7 DEF Mailboxes
<1>9. CastsKept'
  <2> SUFFICES ASSUME NEW n \in DOMAIN casts, casts[n].to \in up', ~casts'[n].done
               PROVE  \E i \in DOMAIN mail'[casts[n].to] : IsCast(mail'[casts[n].to][i], n)
    BY DEF CastsKept, Later
  <2>1. PICK a \in Particles : a = casts[n].to
    BY CastFields, ParticleFacts
  <2>2. ~casts[n].done /\ a \in up
    BY <2>1 DEF Later
  <2>3. PICK i \in DOMAIN mail[a] : IsCast(mail[a][i], n)
    BY <2>1, <2>2 DEF Answering, CastsKept
  <2>4. CASE a # q
    BY <1>1, <2>1, <2>3, <2>4
  <2>5. CASE a = q
    <3>1. i # x
      BY <2>3, <2>5 DEF IsCast
    <3>2. \E j \in DOMAIN t : t[j] = s[i]
      BY <1>1, <2>3, <2>5, <3>1, OthersStay DEF t
    <3> QED
      BY <1>1, <2>1, <2>3, <2>5, <3>2
  <2> QED
    BY <2>4, <2>5
<1> QED
  BY <1>3, <1>8, <1>9

\* A particle is gone with its mailbox.
LEMMA LeavingKeeps ==
    ASSUME Talk, Answering, Later(calls, casts, state, calls', casts', state'),
           DOMAIN casts' = DOMAIN casts, UNCHANGED calls,
           NEW p \in Particles, up' = up \ {p}, mail' = [mail EXCEPT ![p] = <<>>]
    PROVE  mail' \in [Particles -> Seq(Msgs)] /\ Mailboxes' /\ CastsKept'
<1>1. mail'[p] = <<>> /\ \A a \in Particles : a # p => mail'[a] = mail[a]
  BY DEF Talk
<1>2. mail' \in [Particles -> Seq(Msgs)]
  <2>1. <<>> \in Seq(Msgs)
    OBVIOUS
  <2> QED
    BY <2>1 DEF Talk
<1>3. ASSUME NEW a \in Particles
      PROVE  Sound(a, mail'[a], calls', casts', state')
  <2>1. CASE a = p
    BY <1>1, <2>1, SoundEmpty
  <2>2. CASE a # p
    BY <1>1, <2>2, MailLeftUnserved DEF Answering
  <2> QED
    BY <2>1, <2>2
<1>4. CastsKept'
  <2> SUFFICES ASSUME NEW n \in DOMAIN casts, casts[n].to \in up', ~casts'[n].done
               PROVE  \E i \in DOMAIN mail'[casts[n].to] : IsCast(mail'[casts[n].to][i], n)
    BY DEF CastsKept, Later
  <2>1. ~casts[n].done /\ casts[n].to \in up /\ casts[n].to # p /\ casts[n].to \in Particles
    BY CastFields, ParticleFacts DEF Later
  <2> QED
    BY <1>1, <2>1 DEF Answering, CastsKept
<1> QED
  BY <1>2, <1>3, <1>4 DEF Mailboxes

\* What a step leaves to be shown that keeps every call's ref and makes none.
LEMMA CallsKept ==
    ASSUME Talk, Answering, calls' \in Seq(CallRecs), DOMAIN calls' = DOMAIN calls,
           \A k \in DOMAIN calls : calls'[k].op = calls[k].op,
           Later(calls, casts, state, calls', casts', state'), UNCHANGED <<nextRef, plan>>
    PROVE  /\ RefsOnce'
           /\ Len(calls') <= plan'.calls
<1>1. RefsOnce'
  BY DEF Answering, RefsOnce, Later
<1>2. Len(calls') = Len(calls)
  BY DEF Talk
<1> QED
  BY <1>1, <1>2 DEF Talk

LEMMA CallReturnsKeeps ==
    ASSUME Talk, Answering, UNCHANGED state, NEW p \in Callers, CallReturns(p)
    PROVE  Talk' /\ Answering'
<1> DEFINE i == Min(Matching(p))
           k == waits[p]
           x == IF mail[p][i].kind = "reply" /\ mail[p][i].n = k THEN "ok" ELSE "foreign"
<1>1. /\ p \in Particles /\ k \in DOMAIN calls /\ calls[k].by = p
  BY ParticleFacts DEF Answering, WaitsOwn, CallReturns
<1>2. i \in Matching(p)
  <2>1. DOMAIN mail[p] \subseteq Nat
    BY <1>1 DEF Talk
  <2>2. Matching(p) \in SUBSET Nat /\ Matching(p) # {}
    BY <2>1 DEF Matching, CallReturns
  <2> QED
    BY <2>2, LeastMember
<1>3. i \in DOMAIN mail[p] /\ Tagged(mail[p][i]) /\ mail[p][i].ref = calls[k].ref
  BY <1>2 DEF Matching
<1>4. mail' = [mail EXCEPT ![p] = RemoveAt(@, i)] /\ calls' = [calls EXCEPT ![k].result = x]
      /\ waits' = [waits EXCEPT ![p] = NoCall]
      /\ UNCHANGED <<plan, up, nextRef, handling, casts, deaths>>
  BY DEF CallReturns
<1>5. x \in Results
  BY DEF Results
<1>6. Fits(p, mail[p][i], calls, casts, state)
  BY <1>1, <1>3 DEF Answering, Mailboxes, Sound
<1>7. x = "ok" => calls[k].served = 1
  BY <1>6 DEF Fits
<1>8. p \in Clients => x = "ok"
  <2>1. mail[p][i].kind = "request" => p \in Servers \cup {Pool}
    BY <1>6, CallFields DEF Fits
  <2>2. p \in Clients => mail[p][i].kind = "reply"
    BY <1>3, <2>1, ParticleFacts DEF Tagged
  <2>3. mail[p][i].kind = "reply" => mail[p][i].n = k
    BY <1>1, <1>3, <1>6 DEF Fits, Answering, RefsOnce
  <2> QED
    BY <2>2, <2>3
<1> HIDE DEF i, k, x
<1>9. /\ calls' \in Seq(CallRecs) /\ DOMAIN calls' = DOMAIN calls
      /\ \A l \in DOMAIN calls :
            /\ calls'[l].by = calls[l].by /\ calls'[l].to = calls[l].to
            /\ calls'[l].op = calls[l].op /\ calls'[l].ref = calls[l].ref
            /\ calls'[l].behind = calls[l].behind /\ calls'[l].served = calls[l].served
            /\ calls'[l].result = IF l = k THEN x ELSE calls[l].result
  <2>1. calls \in Seq(CallRecs) /\ k \in DOMAIN calls
    BY <1>1 DEF Talk
  <2> DEFINE js == WithResult(calls, k, x)
  <2>2. /\ js \in Seq(CallRecs) /\ DOMAIN js = DOMAIN calls
        /\ \A l \in DOMAIN calls :
              /\ js[l].by = calls[l].by /\ js[l].to = calls[l].to
              /\ js[l].op = calls[l].op /\ js[l].ref = calls[l].ref
              /\ js[l].behind = calls[l].behind /\ js[l].served = calls[l].served
              /\ js[l].result = IF l = k THEN x ELSE calls[l].result
    BY <1>5, <2>1, ResultSet
  <2>3. calls' = js
    BY <1>4 DEF WithResult
  <2> HIDE DEF js
  <2> QED
    BY <2>2, <2>3
<1>10. Later(calls, casts, state, calls', casts', state')
  BY <1>4, <1>9 DEF Later
<1>11. mail' \in [Particles -> Seq(Msgs)] /\ Mailboxes' /\ CastsKept'
  <2>1. mail[p][i].kind # "cast"
    BY <1>3 DEF Tagged
  <2> QED
    BY <1>1, <1>3, <1>4, <1>9, <1>10, <2>1, TakingKeeps
<1>12. RefsOnce' /\ Len(calls') <= plan'.calls
  BY <1>4, <1>9, <1>10, CallsKept
<1>13. WaitsOwn' /\ HandlesOwn'
  BY <1>4, <1>9 DEF Answering, WaitsOwn, HandlesOwn, Talk
<1>14. ServedInOrder'
  BY <1>4, <1>7, <1>8, <1>9, <1>1 DEF Answering, ServedInOrder
<1>15. Talk'
  <2>1. waits' \in [Particles -> Nat]
    BY <1>4 DEF Talk, NoCall
  <2> QED
    BY <1>4, <1>9, <1>11, <1>12, <2>1 DEF Talk
<1> QED
  BY <1>11, <1>12, <1>13, <1>14, <1>15 DEF Answering

LEMMA CallTimesOutKeeps ==
    ASSUME Talk, Answering, UNCHANGED state, NEW p \in Callers, CallTimesOut(p)
    PROVE  Talk' /\ Answering'
<1> DEFINE k == waits[p]
<1>1. /\ p \in Particles /\ k \in DOMAIN calls
  BY ParticleFacts DEF Answering, WaitsOwn, CallTimesOut
<1>2. calls' = [calls EXCEPT ![k].result = "timeout"]
      /\ waits' = [waits EXCEPT ![p] = NoCall]
      /\ UNCHANGED <<plan, up, mail, nextRef, handling, casts, deaths>>
  BY DEF CallTimesOut
<1> HIDE DEF k
<1>3. /\ calls' \in Seq(CallRecs) /\ DOMAIN calls' = DOMAIN calls
      /\ \A l \in DOMAIN calls :
            /\ calls'[l].by = calls[l].by /\ calls'[l].to = calls[l].to
            /\ calls'[l].op = calls[l].op /\ calls'[l].ref = calls[l].ref
            /\ calls'[l].behind = calls[l].behind /\ calls'[l].served = calls[l].served
            /\ calls'[l].result = IF l = k THEN "timeout" ELSE calls[l].result
  <2>1. calls \in Seq(CallRecs) /\ "timeout" \in Results
    BY DEF Talk, Results
  <2> DEFINE js == WithResult(calls, k, "timeout")
  <2>2. /\ js \in Seq(CallRecs) /\ DOMAIN js = DOMAIN calls
        /\ \A l \in DOMAIN calls :
              /\ js[l].by = calls[l].by /\ js[l].to = calls[l].to
              /\ js[l].op = calls[l].op /\ js[l].ref = calls[l].ref
              /\ js[l].behind = calls[l].behind /\ js[l].served = calls[l].served
              /\ js[l].result = IF l = k THEN "timeout" ELSE calls[l].result
    BY <1>1, <2>1, ResultSet
  <2>3. calls' = js
    BY <1>2 DEF WithResult
  <2> HIDE DEF js
  <2> QED
    BY <2>2, <2>3
<1>4. Later(calls, casts, state, calls', casts', state')
  BY <1>2, <1>3 DEF Later
<1>5. Mailboxes'
  BY <1>2, <1>3, <1>4, MailLeftUnserved DEF Mailboxes, Answering
<1>6. RefsOnce' /\ Len(calls') <= plan'.calls
  BY <1>2, <1>3, <1>4, CallsKept
<1>7. WaitsOwn' /\ HandlesOwn' /\ CastsKept'
  BY <1>2, <1>3 DEF Answering, WaitsOwn, HandlesOwn, CastsKept, Talk
<1>8. ServedInOrder'
  BY <1>2, <1>3 DEF Answering, ServedInOrder
<1>9. Talk'
  <2>1. waits' \in [Particles -> Nat]
    BY <1>2 DEF Talk, NoCall
  <2> QED
    BY <1>2, <1>3, <1>6, <2>1 DEF Talk
<1> QED
  BY <1>5, <1>6, <1>7, <1>8, <1>9 DEF Answering

LEMMA ServeStrayKeeps ==
    ASSUME Talk, Answering, UNCHANGED state, NEW q \in Servers, ServeStray(q)
    PROVE  Talk' /\ Answering'
<1>1. q \in Particles /\ mail[q] \in Seq(Msgs) /\ mail[q] # <<>>
  BY ParticleFacts DEF Talk, ServeStray, Receives
<1>2. 1 \in DOMAIN mail[q] /\ Head(mail[q]) = mail[q][1] /\ Tail(mail[q]) = RemoveAt(mail[q], 1)
  BY <1>1, TailIsRemoveFirst
<1>3. mail' = [mail EXCEPT ![q] = RemoveAt(@, 1)] /\ mail[q][1].kind = "reply"
      /\ UNCHANGED <<plan, up, nextRef, waits, handling, calls, casts, deaths>>
  BY <1>2 DEF ServeStray, Taken
<1>4. Later(calls, casts, state, calls', casts', state')
  BY <1>3 DEF Later
<1>5. mail' \in [Particles -> Seq(Msgs)] /\ Mailboxes' /\ CastsKept'
  BY <1>1, <1>2, <1>3, <1>4, TakingKeeps
<1>6. RefsOnce' /\ WaitsOwn' /\ HandlesOwn' /\ ServedInOrder'
  BY <1>3 DEF Answering, RefsOnce, WaitsOwn, HandlesOwn, ServedInOrder
<1> QED
  BY <1>3, <1>5, <1>6 DEF Answering, Talk

LEMMA ServeRequestKeeps ==
    ASSUME Talk, Answering, UNCHANGED state, NEW q \in Servers, ServeRequest(q)
    PROVE  Talk' /\ Answering'
<1> DEFINE k == Head(mail[q]).n
<1>1. q \in Particles /\ mail[q] \in Seq(Msgs) /\ mail[q] # <<>>
  BY ParticleFacts DEF Talk, ServeRequest, Receives
<1>2. 1 \in DOMAIN mail[q] /\ Head(mail[q]) = mail[q][1] /\ Tail(mail[q]) = RemoveAt(mail[q], 1)
  BY <1>1, TailIsRemoveFirst
<1>3. /\ mail[q][1].kind = "request" /\ mail[q][1].n = k
      /\ mail' = [mail EXCEPT ![q] = RemoveAt(@, 1)]
      /\ handling' = [handling EXCEPT ![q] = k]
      /\ calls' = [calls EXCEPT ![k].served = @ + 1]
      /\ UNCHANGED <<plan, up, nextRef, waits, casts, deaths>>
  BY <1>2 DEF ServeRequest, Taken
<1>4. /\ k \in DOMAIN calls /\ calls[k].to = q /\ calls[k].served = 0
      /\ \A n \in calls[k].behind : casts[n].done
  <2>1. Sound(q, mail[q], calls, casts, state)
    BY <1>1 DEF Answering, Mailboxes
  <2>2. k \in DOMAIN calls /\ calls[k].to = q /\ calls[k].served = 0
    BY <1>2, <1>3, <2>1 DEF Sound, Fits
  <2>3. ASSUME NEW n \in calls[k].behind
        PROVE  casts[n].done
    <3>1. casts[n].done \/ \E j \in 1..(1 - 1) : IsCast(mail[q][j], n)
      BY <1>2, <1>3, <2>1, <2>3 DEF Sound
    <3> QED
      BY <3>1
  <2> QED
    BY <2>2, <2>3
<1> HIDE DEF k
<1>5. /\ calls' \in Seq(CallRecs) /\ DOMAIN calls' = DOMAIN calls
      /\ \A l \in DOMAIN calls :
            /\ calls'[l].by = calls[l].by /\ calls'[l].to = calls[l].to
            /\ calls'[l].op = calls[l].op /\ calls'[l].ref = calls[l].ref
            /\ calls'[l].behind = calls[l].behind /\ calls'[l].result = calls[l].result
            /\ calls'[l].served = IF l = k THEN calls[l].served + 1 ELSE calls[l].served
  <2>1. calls \in Seq(CallRecs) /\ k \in DOMAIN calls
    BY <1>4 DEF Talk
  <2> DEFINE js == WithServed(calls, k)
  <2>2. /\ js \in Seq(CallRecs) /\ DOMAIN js = DOMAIN calls
        /\ \A l \in DOMAIN calls :
              /\ js[l].by = calls[l].by /\ js[l].to = calls[l].to
              /\ js[l].op = calls[l].op /\ js[l].ref = calls[l].ref
              /\ js[l].behind = calls[l].behind /\ js[l].result = calls[l].result
              /\ js[l].served = IF l = k THEN calls[l].served + 1 ELSE calls[l].served
    BY <2>1, ServedOnceMore
  <2>3. calls' = js
    BY <1>3 DEF WithServed
  <2> HIDE DEF js
  <2> QED
    BY <2>2, <2>3
<1>6. \A l \in DOMAIN calls : calls[l].served = 1 => calls'[l].served = 1
  BY <1>4, <1>5
<1>7. Later(calls, casts, state, calls', casts', state')
  BY <1>3, <1>5, <1>6 DEF Later
<1>8. mail' \in [Particles -> Seq(Msgs)] /\ Mailboxes' /\ CastsKept'
  BY <1>1, <1>2, <1>3, <1>5, <1>7, TakingKeeps, ZenonT(40)
<1>9. RefsOnce' /\ Len(calls') <= plan'.calls
  BY <1>3, <1>5, <1>7, CallsKept
<1>10. WaitsOwn'
  BY <1>3, <1>5 DEF Answering, WaitsOwn
<1>11. calls'[k].served = 1 /\ calls'[k].to = q
  BY <1>4, <1>5
<1>12. HandlesOwn'
  BY <1>1, <1>3, <1>4, <1>5, <1>6, <1>11 DEF Answering, HandlesOwn, Talk
<1>13. ServedInOrder'
  BY <1>3, <1>4, <1>5, <1>11 DEF Answering, ServedInOrder
<1>14. Talk'
  <2>1. handling' \in [Particles -> Nat]
    BY <1>3, <1>4, CallFields DEF Talk
  <2> QED
    BY <1>3, <1>5, <1>8, <1>9, <2>1 DEF Talk
<1> QED
  BY <1>8, <1>9, <1>10, <1>12, <1>13, <1>14 DEF Answering

\* A message is added to q's mailbox that is no request.
LEMMA AddingKeeps ==
    ASSUME Talk, Answering, Later(calls, casts, state, calls', casts', state'),
           UNCHANGED <<calls, up>>, NEW q \in Particles, NEW m \in Msgs,
           m.kind # "request", Fits(q, m, calls', casts', state'),
           mail' = [mail EXCEPT ![q] = Append(@, m)]
    PROVE  /\ mail' \in [Particles -> Seq(Msgs)] /\ Mailboxes'
           /\ mail'[q][Len(mail'[q])] = m /\ Len(mail'[q]) \in DOMAIN mail'[q]
           /\ \A a \in Particles : \A i \in DOMAIN mail[a] :
                 i \in DOMAIN mail'[a] /\ mail'[a][i] = mail[a][i]
<1>1. /\ mail[q] \in Seq(Msgs) /\ mail'[q] = Append(mail[q], m)
      /\ \A a \in Particles : a # q => mail'[a] = mail[a]
  BY DEF Talk
<1>2. /\ mail'[q] \in Seq(Msgs) /\ Len(mail'[q]) = Len(mail[q]) + 1
      /\ Len(mail'[q]) \in DOMAIN mail'[q]
      /\ mail'[q][Len(mail'[q])] = m
      /\ \A i \in DOMAIN mail[q] : i \in DOMAIN mail'[q] /\ mail'[q][i] = mail[q][i]
  BY <1>1
<1>3. mail' \in [Particles -> Seq(Msgs)]
  BY <1>1, <1>2 DEF Talk
<1>4. ASSUME NEW a \in Particles
      PROVE  Sound(a, mail'[a], calls', casts', state')
  <2>1. CASE a # q
    BY <1>1, <2>1, MailLeftUnserved DEF Answering
  <2>2. CASE a = q
    <3>1. Sound(q, mail[q], calls, casts, state)
      BY DEF Answering, Mailboxes
    <3>2. \A k \in DOMAIN calls : calls[k].behind \subseteq DOMAIN casts
      BY DEF Answering, RefsOnce
    <3>3. \A i \in DOMAIN mail[q] :
              mail[q][i].kind = "request" => calls'[mail[q][i].n].served = 0
      BY <3>1 DEF Sound, Fits
    <3>4. Sound(q, mail[q], calls', casts', state')
      BY <3>1, <3>2, <3>3, SoundLater
    <3> QED
      BY <1>1, <2>2, <3>4, SoundAppend
  <2> QED
    BY <2>1, <2>2
<1> QED
  BY <1>1, <1>2, <1>3, <1>4 DEF Mailboxes

LEMMA AnswerKeeps ==
    ASSUME Talk, Answering, UNCHANGED state, NEW q \in Servers, Answer(q)
    PROVE  Talk' /\ Answering'
<1> DEFINE k == handling[q]
           b == calls[k].by
           m == [kind |-> "reply", ref |-> calls[k].ref, n |-> k]
<1>1. /\ q \in Particles /\ k \in DOMAIN calls /\ calls[k].served = 1
  BY ParticleFacts DEF Answering, HandlesOwn, Answer
<1>2. b \in Particles /\ calls[k].ref \in Nat /\ k \in Nat
  BY <1>1, CallFields, ParticleFacts
<1>3. /\ mail' = mail \/ mail' = [mail EXCEPT ![b] = Append(@, m)]
      /\ handling' = [handling EXCEPT ![q] = NoCall]
      /\ UNCHANGED <<plan, up, nextRef, waits, calls, casts, deaths>>
  BY DEF Answer, SendReply, Send, Reply
<1>4. Later(calls, casts, state, calls', casts', state')
  BY <1>3 DEF Later
<1>5. m \in Msgs /\ m.kind = "reply" /\ m.n = k /\ m.ref = calls[k].ref
  BY <1>2 DEF Msgs, Words
<1>6. Fits(b, m, calls', casts', state')
  BY <1>1, <1>3, <1>5 DEF Fits
<1> HIDE DEF m
<1>7. mail' \in [Particles -> Seq(Msgs)] /\ Mailboxes' /\ CastsKept'
  <2>1. CASE mail' = mail
    BY <1>3, <2>1 DEF Answering, Mailboxes, CastsKept, Talk
  <2>2. CASE mail' = [mail EXCEPT ![b] = Append(@, m)]
    <3>1. m.kind # "request"
      BY <1>5
    <3>2. /\ mail' \in [Particles -> Seq(Msgs)] /\ Mailboxes'
          /\ \A a \in Particles : \A i \in DOMAIN mail[a] :
                i \in DOMAIN mail'[a] /\ mail'[a][i] = mail[a][i]
      BY <1>2, <1>3, <1>4, <1>5, <1>6, <2>2, <3>1, AddingKeeps
    <3>3. \A n \in DOMAIN casts : casts[n].to \in Particles
      BY CastFields, ParticleFacts
    <3>4. CastsKept'
      BY <1>3, <3>2, <3>3 DEF Answering, CastsKept
    <3> QED
      BY <3>2, <3>4
  <2> QED
    BY <1>3, <2>1, <2>2
<1>8. RefsOnce' /\ WaitsOwn' /\ ServedInOrder'
  BY <1>3 DEF Answering, RefsOnce, WaitsOwn, ServedInOrder
<1>9. HandlesOwn'
  BY <1>3 DEF Answering, HandlesOwn, Talk
<1>10. handling' \in [Particles -> Nat]
  BY <1>3 DEF Talk, NoCall
<1> QED
  BY <1>3, <1>7, <1>8, <1>9, <1>10 DEF Answering, Talk

LEMMA MakeCastKeeps ==
    ASSUME Talk, Answering, UNCHANGED state, NEW p \in Callers, NEW q \in Servers,
           NEW stop \in BOOLEAN, MakeCast(p, q, stop)
    PROVE  Talk' /\ Answering'
<1> DEFINE N == Len(casts) + 1
           r == [by |-> p, to |-> q, stop |-> stop, done |-> FALSE]
           m == [kind |-> "cast", ref |-> 0, n |-> N]
<1>1. q \in Particles /\ Len(casts) \in Nat /\ N \in Nat
  BY ParticleFacts DEF Talk
<1>2. r \in CastRecs /\ r.to = q
  BY DEF CastRecs
<1>3. casts' = Append(casts, r) /\ UNCHANGED <<plan, up, nextRef, waits, handling, calls, deaths>>
  BY DEF MakeCast
<1>4. mail' = IF q \in up THEN [mail EXCEPT ![q] = Append(@, m)] ELSE mail
  BY DEF MakeCast, Send, CastMsg
<1> HIDE DEF r
<1>5. /\ casts' \in Seq(CastRecs)
      /\ DOMAIN casts' = DOMAIN casts \cup {N}
      /\ casts'[N] = r
      /\ \A l \in DOMAIN casts : casts'[l] = casts[l]
  BY <1>2, <1>3, CastAdded DEF Talk
<1>6. m \in Msgs /\ m.kind = "cast" /\ m.n = N
  BY <1>1 DEF Msgs, Words
<1>7. Later(calls, casts, state, calls', casts', state')
  BY <1>3, <1>5 DEF Later
<1>8. Fits(q, m, calls', casts', state')
  BY <1>2, <1>5, <1>6 DEF Fits
<1> HIDE DEF m, N
<1>9. /\ mail' \in [Particles -> Seq(Msgs)] /\ Mailboxes'
      /\ q \in up => \E i \in DOMAIN mail'[q] : IsCast(mail'[q][i], N)
      /\ \A a \in Particles : \A i \in DOMAIN mail[a] :
            i \in DOMAIN mail'[a] /\ mail'[a][i] = mail[a][i]
  <2>1. CASE q \in up
    <3>1. m.kind # "request" /\ mail' = [mail EXCEPT ![q] = Append(@, m)]
      BY <1>4, <1>6, <2>1
    <3>2. /\ mail' \in [Particles -> Seq(Msgs)] /\ Mailboxes'
          /\ mail'[q][Len(mail'[q])] = m /\ Len(mail'[q]) \in DOMAIN mail'[q]
          /\ \A a \in Particles : \A i \in DOMAIN mail[a] :
                i \in DOMAIN mail'[a] /\ mail'[a][i] = mail[a][i]
      BY <1>1, <1>3, <1>6, <1>7, <1>8, <3>1, AddingKeeps
    <3> QED
      BY <1>6, <3>2 DEF IsCast
  <2>2. CASE q \notin up
    <3>1. mail' = mail
      BY <1>4, <2>2
    <3>2. ASSUME NEW a \in Particles
          PROVE  Sound(a, mail'[a], calls', casts', state')
      BY <1>3, <1>7, <3>1, MailLeftUnserved DEF Answering
    <3> QED
      BY <2>2, <3>1, <3>2 DEF Mailboxes, Talk
  <2> QED
    BY <2>1, <2>2
<1>10. CastsKept'
  <2>1. \A n \in DOMAIN casts : casts[n].to \in Particles
    BY CastFields, ParticleFacts
  <2>2. ASSUME NEW n \in DOMAIN casts'
        PROVE  \/ casts'[n].to \notin up' \/ casts'[n].done
               \/ \E i \in DOMAIN mail'[casts'[n].to] : IsCast(mail'[casts'[n].to][i], n)
    <3>1. CASE n = N
      BY <1>2, <1>3, <1>5, <1>9, <3>1
    <3>2. CASE n \in DOMAIN casts
      BY <1>3, <1>5, <1>9, <2>1, <3>2 DEF Answering, CastsKept
    <3> QED
      BY <1>5, <3>1, <3>2
  <2> QED
    BY <2>2 DEF CastsKept
<1>11. RefsOnce'
  BY <1>3, <1>5 DEF Answering, RefsOnce
<1>12. WaitsOwn' /\ HandlesOwn'
  BY <1>3 DEF Answering, WaitsOwn, HandlesOwn
<1>13. ServedInOrder'
  BY <1>3, <1>5 DEF Answering, ServedInOrder, RefsOnce
<1> QED
  BY <1>3, <1>5, <1>9, <1>10, <1>11, <1>12, <1>13 DEF Answering, Talk

\* A particle is gone, perhaps after its last cast was handled.
LEMMA GoneKeeps ==
    ASSUME Talk, Answering, UNCHANGED <<state, plan, nextRef, calls>>, NEW p \in Particles, Gone(p),
           casts' \in Seq(CastRecs), DOMAIN casts' = DOMAIN casts,
           Later(calls, casts, state, calls', casts', state')
    PROVE  Talk' /\ Answering'
<1>1. /\ up' = up \ {p} /\ mail' = [mail EXCEPT ![p] = <<>>]
      /\ waits' = [waits EXCEPT ![p] = NoCall] /\ handling' = [handling EXCEPT ![p] = NoCall]
  BY DEF Gone
<1>2. mail' \in [Particles -> Seq(Msgs)] /\ Mailboxes' /\ CastsKept'
  BY <1>1, LeavingKeeps
<1>3. RefsOnce'
  BY DEF Answering, RefsOnce
<1>4. WaitsOwn' /\ HandlesOwn'
  BY <1>1 DEF Answering, WaitsOwn, HandlesOwn, Talk
<1>5. ServedInOrder'
  BY DEF Answering, ServedInOrder, RefsOnce, Later
<1>6. waits' \in [Particles -> Nat] /\ handling' \in [Particles -> Nat] /\ up' \subseteq Particles
  BY <1>1 DEF Talk, NoCall
<1> QED
  BY <1>2, <1>3, <1>4, <1>5, <1>6 DEF Answering, Talk

LEMMA DiesKeeps ==
    ASSUME Talk, Answering, UNCHANGED state, NEW p \in Callers, Dies(p)
    PROVE  Talk' /\ Answering'
<1>1. p \in Particles
  BY ParticleFacts
<1>2. UNCHANGED <<plan, nextRef, calls, casts>> /\ Gone(p)
  BY DEF Dies
<1>3. Later(calls, casts, state, calls', casts', state')
  BY <1>2 DEF Later
<1>4. casts' \in Seq(CastRecs) /\ DOMAIN casts' = DOMAIN casts
  BY <1>2 DEF Talk
<1> QED
  BY <1>1, <1>2, <1>3, <1>4, GoneKeeps

LEMMA ServeCastKeeps ==
    ASSUME Talk, Answering, UNCHANGED state, NEW q \in Servers, ServeCast(q)
    PROVE  Talk' /\ Answering'
<1> DEFINE n == Head(mail[q]).n
<1>1. q \in Particles /\ mail[q] \in Seq(Msgs) /\ mail[q] # <<>>
  BY ParticleFacts DEF Talk, ServeCast, Receives
<1>2. 1 \in DOMAIN mail[q] /\ Head(mail[q]) = mail[q][1] /\ Tail(mail[q]) = RemoveAt(mail[q], 1)
  BY <1>1, TailIsRemoveFirst
<1>3. /\ mail[q][1].kind = "cast" /\ mail[q][1].n = n
      /\ casts' = [casts EXCEPT ![n].done = TRUE]
      /\ \/ Taken(q) /\ UNCHANGED <<up, waits, handling>>
         \/ Gone(q)
      /\ UNCHANGED <<plan, nextRef, calls, deaths>>
  BY <1>2 DEF ServeCast
<1>4. n \in DOMAIN casts
  BY <1>1, <1>2, <1>3 DEF Answering, Mailboxes, Sound, Fits
<1> HIDE DEF n
<1>5. /\ casts' \in Seq(CastRecs) /\ DOMAIN casts' = DOMAIN casts /\ casts'[n].done
      /\ \A l \in DOMAIN casts : casts'[l].to = casts[l].to /\ (casts[l].done => casts'[l].done)
  <2>1. casts \in Seq(CastRecs)
    BY DEF Talk
  <2> DEFINE js == WithDone(casts, n)
  <2>2. /\ js \in Seq(CastRecs) /\ DOMAIN js = DOMAIN casts /\ js[n].done
        /\ \A l \in DOMAIN casts : js[l].to = casts[l].to /\ (casts[l].done => js[l].done)
    BY <1>4, <2>1, CastDone
  <2>3. casts' = js
    BY <1>3 DEF WithDone
  <2> HIDE DEF js
  <2> QED
    BY <2>2, <2>3
<1>6. Later(calls, casts, state, calls', casts', state')
  BY <1>3, <1>5 DEF Later
<1>7. CASE Gone(q)
  BY <1>1, <1>3, <1>5, <1>6, <1>7, GoneKeeps
<1>8. CASE Taken(q) /\ UNCHANGED <<up, waits, handling>>
  <2>1. mail' = [mail EXCEPT ![q] = RemoveAt(@, 1)] /\ up' \subseteq up
    BY <1>2, <1>8 DEF Taken
  <2>2. mail[q][1].kind = "cast" => casts'[mail[q][1].n].done
    BY <1>3, <1>5
  <2>3. mail' \in [Particles -> Seq(Msgs)] /\ Mailboxes' /\ CastsKept'
    BY <1>1, <1>2, <1>3, <1>5, <1>6, <2>1, <2>2, TakingKeeps
  <2>4. RefsOnce' /\ WaitsOwn' /\ HandlesOwn'
    BY <1>3, <1>5, <1>8 DEF Answering, RefsOnce, WaitsOwn, HandlesOwn
  <2>5. ServedInOrder'
    BY <1>3, <1>5 DEF Answering, ServedInOrder, RefsOnce
  <2> QED
    BY <1>3, <1>5, <1>8, <2>3, <2>4, <2>5 DEF Answering, Talk
<1> QED
  BY <1>3, <1>7, <1>8

\* Whatever the particles do among themselves.
LEMMA TalkKeeps ==
    ASSUME Talk, Answering, CallsNext, UNCHANGED state
    PROVE  Talk' /\ Answering'
<1>1. ASSUME NEW p \in Callers, Caller(p)
      PROVE  Talk' /\ Answering'
  <2>1. ASSUME NEW q \in Servers, NEW timed \in BOOLEAN, MakeCall(p, q, NoOp, timed)
        PROVE  Talk' /\ Answering'
    <3>1. q # Pool
      BY ParticleFacts
    <3> QED
      BY <2>1, <3>1, MakeCallKeeps
  <2>2. ASSUME NEW op \in Ops, NEW timed \in BOOLEAN, MakeCall(p, Pool, op, timed)
        PROVE  Talk' /\ Answering'
    BY <2>2, MakeCallKeeps
  <2>3. ASSUME NEW q \in Servers, NEW stop \in BOOLEAN, MakeCast(p, q, stop)
        PROVE  Talk' /\ Answering'
    BY <2>3, MakeCastKeeps
  <2> QED
    BY <1>1, <2>1, <2>2, <2>3 DEF Caller
<1>2. ASSUME NEW p \in Callers, Waiter(p)
      PROVE  Talk' /\ Answering'
  BY <1>2, CallReturnsKeeps, CallTimesOutKeeps DEF Waiter
<1>3. ASSUME NEW q \in Servers, Server(q)
      PROVE  Talk' /\ Answering'
  BY <1>3, ServeRequestKeeps, AnswerKeeps, ServeStrayKeeps, ServeCastKeeps DEF Server
<1> QED
  BY <1>1, <1>2, <1>3, DiesKeeps DEF CallsNext, Callers

-----------------------------------------------------------------------------
(* The pool keeps what makes a call return its own reply *)

\* Casts go to generic servers: the pool's mailbox may change as it likes.
LEMMA CastsElsewhere ==
    ASSUME Talk, Answering, UNCHANGED casts, up' \subseteq up,
           \A a \in Servers : \A i \in DOMAIN mail[a] :
               i \in DOMAIN mail'[a] /\ mail'[a][i] = mail[a][i]
    PROVE  CastsKept'
<1>1. \A n \in DOMAIN casts : casts[n].to \in Servers
  BY CastFields
<1> QED
  BY <1>1 DEF Answering, CastsKept

\* Nothing is said and no instance is restarted.
LEMMA SilenceKeeps ==
    ASSUME Talk, Answering, UNCHANGED callsVars, \A i \in Insts : state[i] = "dead" => state'[i] = "dead"
    PROVE  Talk' /\ Answering'
<1>1. UNCHANGED <<plan, up, mail, nextRef, waits, handling, calls, casts, deaths>>
  BY DEF callsVars, talkVars
<1>2. Later(calls, casts, state, calls', casts', state')
  BY <1>1 DEF Later
<1>3. Mailboxes'
  BY <1>1, <1>2, MailLeftUnserved DEF Mailboxes, Answering
<1>4. CastsKept'
  BY <1>1, CastsElsewhere
<1> QED
  BY <1>1, <1>3, <1>4
     DEF Talk, Answering, RefsOnce, WaitsOwn, HandlesOwn, ServedInOrder

\* Instances die, and the pool has their exits.
LEMMA ExitsKeep ==
    ASSUME Talk, Answering, UNCHANGED notTalk, \A i \in Insts : state[i] = "dead" => state'[i] = "dead",
           NEW t \in Seq(Exits), mail' = [mail EXCEPT ![Pool] = t \o @],
           \A j \in DOMAIN t : state'[t[j].n] = "dead"
    PROVE  Talk' /\ Answering'
<1>1. UNCHANGED <<plan, up, nextRef, waits, handling, calls, casts, deaths>>
  BY DEF notTalk
<1>2. Later(calls, casts, state, calls', casts', state')
  BY <1>1 DEF Later
<1>3. /\ mail[Pool] \in Seq(Msgs) /\ Pool \in Particles /\ mail'[Pool] = t \o mail[Pool]
      /\ \A a \in Particles : a # Pool => mail'[a] = mail[a]
  BY ParticleFacts DEF Talk
<1>4. t \in Seq(Msgs) /\ t \o mail[Pool] \in Seq(Msgs)
  BY <1>3 DEF Msgs
<1>5. mail' \in [Particles -> Seq(Msgs)]
  BY <1>3, <1>4 DEF Talk
<1>6. \A j \in DOMAIN t : t[j].kind = "exit" /\ Fits(Pool, t[j], calls', casts', state')
  <2> SUFFICES ASSUME NEW j \in DOMAIN t
               PROVE  t[j].kind = "exit" /\ Fits(Pool, t[j], calls', casts', state')
    OBVIOUS
  <2>1. t[j] \in Exits
    OBVIOUS
  <2>2. t[j].kind = "exit" /\ t[j].n \in Insts
    BY <2>1 DEF Exits
  <2> QED
    BY <2>2 DEF Fits
<1>7. ASSUME NEW a \in Particles
      PROVE  Sound(a, mail'[a], calls', casts', state')
  <2>1. CASE a # Pool
    BY <1>1, <1>2, <1>3, <2>1, MailLeftUnserved DEF Answering
  <2>2. CASE a = Pool
    <3>1. Sound(Pool, mail[Pool], calls, casts, state)
      BY <1>3 DEF Answering, Mailboxes
    <3>2. \A k \in DOMAIN calls : calls[k].behind \subseteq DOMAIN casts
      BY DEF Answering, RefsOnce
    <3>3. \A i \in DOMAIN mail[Pool] :
              mail[Pool][i].kind = "request" => calls'[mail[Pool][i].n].served = 0
      BY <1>1, <3>1 DEF Sound, Fits
    <3>4. Sound(Pool, mail[Pool], calls', casts', state')
      BY <1>2, <3>1, <3>2, <3>3, SoundLater
    <3> QED
      BY <1>3, <1>4, <1>6, <2>2, <3>4, SoundPrepend
  <2> QED
    BY <2>1, <2>2
<1>8. CastsKept'
  BY <1>1, <1>3, ParticleFacts, CastsElsewhere
<1> QED
  BY <1>1, <1>5, <1>7, <1>8
     DEF Talk, Answering, Mailboxes, RefsOnce, WaitsOwn, HandlesOwn, ServedInOrder

\* The pool takes an exit.
LEMMA TakeExitKeeps ==
    ASSUME Talk, Answering, UNCHANGED notTalk, UNCHANGED state,
           mail[Pool] # <<>>, Head(mail[Pool]).kind = "exit", Taken(Pool)
    PROVE  Talk' /\ Answering'
<1>1. UNCHANGED <<plan, up, nextRef, waits, handling, calls, casts, deaths>>
  BY DEF notTalk
<1>2. Later(calls, casts, state, calls', casts', state')
  BY <1>1 DEF Later
<1>3. Pool \in Particles /\ mail[Pool] \in Seq(Msgs)
  BY ParticleFacts DEF Talk
<1>4. /\ 1 \in DOMAIN mail[Pool] /\ mail[Pool][1].kind = "exit"
      /\ mail' = [mail EXCEPT ![Pool] = RemoveAt(@, 1)]
  BY <1>3, TailIsRemoveFirst DEF Taken
<1>5. mail' \in [Particles -> Seq(Msgs)] /\ Mailboxes' /\ CastsKept'
  BY <1>1, <1>2, <1>3, <1>4, TakingKeeps
<1> QED
  BY <1>1, <1>5 DEF Talk, Answering, RefsOnce, WaitsOwn, HandlesOwn, ServedInOrder

\* The pool is gone with its mailbox.
LEMMA PoolGoneKeeps ==
    ASSUME Talk, Answering, NEW how, PoolGone(how)
    PROVE  Talk' /\ Answering'
<1>1. /\ UNCHANGED <<plan, nextRef, waits, handling, calls, casts>>
      /\ up' = up \ {Pool} /\ mail' = [mail EXCEPT ![Pool] = <<>>]
  BY DEF PoolGone
<1>2. Later(calls, casts, state, calls', casts', state')
  BY <1>1 DEF Later, PoolGone
<1>3. mail' \in [Particles -> Seq(Msgs)] /\ Mailboxes' /\ CastsKept'
  BY <1>1, <1>2, ParticleFacts, LeavingKeeps
<1> QED
  BY <1>1, <1>3 DEF Talk, Answering, RefsOnce, WaitsOwn, HandlesOwn, ServedInOrder

\* The pool carries a request out and answers it.
LEMMA RequestKeeps ==
    ASSUME Talk, Answering, UNCHANGED <<state, plan, up, nextRef, waits, handling, casts, deaths>>,
           mail[Pool] # <<>>, Head(mail[Pool]).kind = "request",
           calls' = WithServed(calls, Head(mail[Pool]).n), ReplyAfter(Head(mail[Pool]).n)
    PROVE  /\ Talk' /\ Answering'
           /\ Head(mail[Pool]).n \in DOMAIN calls
           /\ calls[Head(mail[Pool]).n].to = Pool /\ calls[Head(mail[Pool]).n].served = 0
           /\ mail'[Pool] = Tail(mail[Pool])
           /\ DOMAIN calls' = DOMAIN calls
           /\ \A l \in DOMAIN calls :
                 /\ calls'[l].to = calls[l].to
                 /\ calls'[l].served =
                       IF l = Head(mail[Pool]).n THEN calls[l].served + 1 ELSE calls[l].served
<1> DEFINE k == Head(mail[Pool]).n
           b == calls[k].by
           m == [kind |-> "reply", ref |-> calls[k].ref, n |-> k]
<1>1. Pool \in Particles /\ mail[Pool] \in Seq(Msgs)
  BY ParticleFacts DEF Talk
<1>2. /\ 1 \in DOMAIN mail[Pool] /\ Head(mail[Pool]) = mail[Pool][1]
      /\ Tail(mail[Pool]) = RemoveAt(mail[Pool], 1)
  BY <1>1, TailIsRemoveFirst
<1>3. /\ k \in DOMAIN calls /\ calls[k].to = Pool /\ calls[k].served = 0
      /\ \A n \in calls[k].behind : casts[n].done
  <2>1. Sound(Pool, mail[Pool], calls, casts, state)
    BY <1>1 DEF Answering, Mailboxes
  <2>2. k \in DOMAIN calls /\ calls[k].to = Pool /\ calls[k].served = 0
    BY <1>2, <2>1 DEF Sound, Fits
  <2>3. ASSUME NEW n \in calls[k].behind
        PROVE  casts[n].done
    <3>1. casts[n].done \/ \E j \in 1..(1 - 1) : IsCast(mail[Pool][j], n)
      BY <1>2, <2>1, <2>3 DEF Sound
    <3> QED
      BY <3>1
  <2> QED
    BY <2>2, <2>3
<1>4. b \in Callers /\ b \in Particles /\ b # Pool /\ calls[k].ref \in Nat /\ k \in Nat
  BY <1>3, CallFields, ParticleFacts
<1>5. m \in Msgs /\ m.kind = "reply" /\ m.n = k /\ m.ref = calls[k].ref
  BY <1>4 DEF Msgs, Words
<1>6. /\ mail'[Pool] = RemoveAt(mail[Pool], 1)
      /\ mail'[b] = mail[b] \/ mail'[b] = Append(mail[b], m)
      /\ \A a \in Particles : a # Pool /\ a # b => mail'[a] = mail[a]
      /\ mail' \in [Particles -> Seq(Msgs)]
  <2>1. Tail(mail[Pool]) \in Seq(Msgs)
    BY <1>1, RangeHeadTail
  <2> DEFINE rest == [mail EXCEPT ![Pool] = Tail(@)]
  <2>2. rest \in [Particles -> Seq(Msgs)] /\ rest[Pool] = Tail(mail[Pool])
        /\ \A a \in Particles : a # Pool => rest[a] = mail[a]
    BY <1>1, <2>1 DEF Talk
  <2>3. mail' = rest \/ mail' = [rest EXCEPT ![b] = Append(@, m)]
    BY DEF ReplyAfter, Reply
  <2> HIDE DEF rest, m, b
  <2>4. Append(rest[b], m) \in Seq(Msgs)
    BY <1>4, <1>5, <2>2
  <2> QED
    BY <1>1, <1>2, <1>4, <2>2, <2>3, <2>4
<1> DEFINE js == WithServed(calls, k)
<1>7. /\ js \in Seq(CallRecs) /\ DOMAIN js = DOMAIN calls
      /\ \A l \in DOMAIN calls :
            /\ js[l].by = calls[l].by /\ js[l].to = calls[l].to
            /\ js[l].op = calls[l].op /\ js[l].ref = calls[l].ref
            /\ js[l].behind = calls[l].behind /\ js[l].result = calls[l].result
            /\ js[l].served = IF l = k THEN calls[l].served + 1 ELSE calls[l].served
  <2>1. calls \in Seq(CallRecs)
    BY DEF Talk
  <2> HIDE DEF k
  <2> QED
    BY <1>3, <2>1, ServedOnceMore
<1>8. calls' = js
  OBVIOUS
<1> HIDE DEF js, m, b, k
<1>9. /\ calls' \in Seq(CallRecs) /\ DOMAIN calls' = DOMAIN calls
      /\ \A l \in DOMAIN calls :
            /\ calls'[l].by = calls[l].by /\ calls'[l].to = calls[l].to
            /\ calls'[l].op = calls[l].op /\ calls'[l].ref = calls[l].ref
            /\ calls'[l].behind = calls[l].behind /\ calls'[l].result = calls[l].result
            /\ calls'[l].served = IF l = k THEN calls[l].served + 1 ELSE calls[l].served
  BY <1>7, <1>8
<1>10. \A l \in DOMAIN calls : calls[l].served = 1 => calls'[l].served = 1
  BY <1>3, <1>9
<1>11. Later(calls, casts, state, calls', casts', state')
  BY <1>9, <1>10 DEF Later
<1>12. \A l \in DOMAIN calls : calls'[l].served # calls[l].served =>
           mail[Pool][1].kind = "request" /\ mail[Pool][1].n = l
  BY <1>2, <1>9 DEF k
<1>13. mail[Pool][1].kind # "cast"
  BY <1>2
<1>14. Sound(Pool, mail'[Pool], calls', casts', state')
  BY <1>1, <1>2, <1>6, <1>11, <1>12, <1>13, TakenSound
<1>15. ASSUME NEW a \in Particles, a # Pool
       PROVE  Sound(a, mail[a], calls', casts', state')
  BY <1>1, <1>2, <1>11, <1>12, <1>15, OthersSound
<1>16. Fits(b, m, calls', casts', state')
  BY <1>3, <1>5, <1>9 DEF Fits, b
<1>17. Mailboxes'
  <2> SUFFICES ASSUME NEW a \in Particles
               PROVE  Sound(a, mail'[a], calls', casts', state')
    BY DEF Mailboxes
  <2>1. CASE a = Pool
    BY <1>14, <2>1
  <2>2. CASE a # Pool /\ mail'[a] = mail[a]
    BY <1>15, <2>2
  <2>3. CASE a # Pool /\ mail'[a] # mail[a]
    <3>1. a = b /\ mail'[b] = Append(mail[b], m)
      BY <1>6, <2>3
    <3>2. Sound(b, mail[b], calls', casts', state') /\ mail[b] \in Seq(Msgs) /\ m.kind # "request"
      BY <1>4, <1>5, <1>15 DEF Talk
    <3> QED
      BY <1>5, <1>16, <3>1, <3>2, SoundAppend
  <2> QED
    BY <2>1, <2>2, <2>3
<1>18. CastsKept'
  <2>1. ASSUME NEW a \in Servers, NEW i \in DOMAIN mail[a]
        PROVE  i \in DOMAIN mail'[a] /\ mail'[a][i] = mail[a][i]
    <3>1. a \in Particles /\ a # Pool /\ mail[a] \in Seq(Msgs)
      BY ParticleFacts DEF Talk
    <3>2. mail'[a] = mail[a] \/ mail'[a] = Append(mail[a], m)
      BY <1>6, <3>1
    <3>3. DOMAIN mail[a] = 1..Len(mail[a]) /\ Len(mail[a]) \in Nat
      BY <3>1
    <3> QED
      BY <1>5, <3>1, <3>2, <3>3
  <2> QED
    BY <2>1, CastsElsewhere
<1>19. RefsOnce' /\ Len(calls') <= plan'.calls
  BY <1>9, <1>11, CallsKept
<1>20. WaitsOwn' /\ HandlesOwn'
  BY <1>9, <1>10 DEF Answering, WaitsOwn, HandlesOwn
<1>21. calls'[k].served = 1
  BY <1>3, <1>9
<1>22. ServedInOrder'
  BY <1>3, <1>9, <1>21 DEF Answering, ServedInOrder
<1>23. Talk'
  BY <1>6, <1>9, <1>19 DEF Talk
<1>24. Head(mail[Pool]).n = k
  BY DEF k
<1> QED
  BY <1>2, <1>3, <1>6, <1>9, <1>17, <1>18, <1>19, <1>20, <1>22, <1>23, <1>24, SMTT(30) DEF Answering

-----------------------------------------------------------------------------
(* What the particles do among themselves leaves the pool's children alone *)

\* What was in the pool's mailbox is still where it was.
PoolMailStays ==
    \A j \in DOMAIN mail[Pool] : j \in DOMAIN mail'[Pool] /\ mail'[Pool][j] = mail[Pool][j]

LEMMA TalkLeavesPool ==
    ASSUME Talk, Answering, CallsNext
    PROVE  (Alive' <=> Alive) /\ PoolMailStays /\ Requested \subseteq Requested'
<1> DEFINE Left == (Alive' <=> Alive) /\ PoolMailStays /\ Requested \subseteq Requested'
<1>1. Pool \in Particles /\ mail[Pool] \in Seq(Msgs)
  BY ParticleFacts DEF Talk
<1>2. ASSUME NEW p \in Callers, Gone(p), UNCHANGED calls
      PROVE  Left
  <2>1. p # Pool /\ p \in Particles
    BY ParticleFacts
  <2>2. mail'[Pool] = mail[Pool] /\ (Alive' <=> Alive)
    BY <1>1, <1>2, <2>1 DEF Gone, Talk, Alive
  <2> QED
    BY <1>2, <2>2 DEF PoolMailStays, Requested
<1>3. ASSUME NEW p \in Particles, NEW q \in Particles, NEW m, Send(q, m), UNCHANGED up
      PROVE  (Alive' <=> Alive) /\ PoolMailStays
  <2>1. mail'[Pool] = mail[Pool] \/ mail'[Pool] = Append(mail[Pool], m)
    BY <1>1, <1>3 DEF Send, Talk
  <2>2. \A j \in DOMAIN mail[Pool] :
            j \in DOMAIN Append(mail[Pool], m) /\ Append(mail[Pool], m)[j] = mail[Pool][j]
    BY <1>1
  <2> QED
    BY <1>3, <2>1, <2>2 DEF PoolMailStays, Alive
<1>4. ASSUME NEW p \in Callers, NEW q \in Servers \cup {Pool}, NEW op, NEW timed,
             MakeCall(p, q, op, timed)
      PROVE  Left
  <2>1. p \in Particles /\ q \in Particles
    BY ParticleFacts
  <2>2. Send(q, Request(Len(calls) + 1)) /\ UNCHANGED up
    BY <1>4 DEF MakeCall
  <2>3. (Alive' <=> Alive) /\ PoolMailStays
    BY <1>3, <2>1, <2>2
  <2>4. PICK r : calls' = Append(calls, r)
    BY <1>4 DEF MakeCall
  <2>5. \A k \in DOMAIN calls : k \in DOMAIN calls' /\ calls'[k] = calls[k]
    BY <2>4 DEF Talk
  <2> QED
    BY <2>3, <2>5 DEF Requested
<1>5. ASSUME NEW p \in Callers, NEW q \in Servers, NEW stop, MakeCast(p, q, stop)
      PROVE  Left
  <2>1. p \in Particles /\ q \in Particles
    BY ParticleFacts
  <2>2. Send(q, CastMsg(Len(casts) + 1)) /\ UNCHANGED <<up, calls>>
    BY <1>5 DEF MakeCast
  <2>3. (Alive' <=> Alive) /\ PoolMailStays
    BY <1>3, <2>1, <2>2
  <2> QED
    BY <2>2, <2>3 DEF Requested
<1>6. ASSUME NEW p \in Callers, NEW x \in Results, waits[p] \in DOMAIN calls, UNCHANGED up,
             mail'[Pool] = mail[Pool], calls' = [calls EXCEPT ![waits[p]].result = x]
      PROVE  Left
  <2>1. calls \in Seq(CallRecs)
    BY DEF Talk
  <2> DEFINE js == WithResult(calls, waits[p], x)
  <2>2. DOMAIN js = DOMAIN calls
        /\ \A l \in DOMAIN calls : js[l].to = calls[l].to /\ js[l].served = calls[l].served
    BY <1>6, <2>1, ResultSet
  <2>3. calls' = js
    BY <1>6 DEF WithResult
  <2> HIDE DEF js
  <2> QED
    BY <1>6, <2>2, <2>3 DEF Requested, PoolMailStays, Alive
<1>7. ASSUME NEW p \in Callers, Waiter(p)
      PROVE  Left
  <2>1. waits[p] \in DOMAIN calls /\ p \in Particles /\ p # Pool
    BY <1>7, ParticleFacts DEF Waiter, CallReturns, CallTimesOut, Answering, WaitsOwn
  <2>2. mail'[Pool] = mail[Pool] /\ UNCHANGED up
    BY <1>1, <1>7, <2>1 DEF Waiter, CallReturns, CallTimesOut, Talk
  <2>3. \E x \in Results : calls' = [calls EXCEPT ![waits[p]].result = x]
    BY <1>7 DEF Waiter, CallReturns, CallTimesOut, Results
  <2> QED
    BY <1>6, <2>1, <2>2, <2>3
<1>8. ASSUME NEW q \in Servers, ServeRequest(q)
      PROVE  Left
  <2>1. q \in Particles /\ q # Pool /\ mail[q] \in Seq(Msgs) /\ mail[q] # <<>>
    BY <1>8, ParticleFacts DEF Talk, ServeRequest, Receives
  <2>2. mail'[Pool] = mail[Pool] /\ UNCHANGED up
    BY <1>1, <1>8, <2>1 DEF ServeRequest, Taken, Talk
  <2> DEFINE k == Head(mail[q]).n
             js == WithServed(calls, k)
  <2>3. 1 \in DOMAIN mail[q] /\ Head(mail[q]) = mail[q][1]
    BY <2>1, TailIsRemoveFirst
  <2>4. k \in DOMAIN calls /\ calls[k].to = q
    BY <1>8, <2>1, <2>3 DEF ServeRequest, Answering, Mailboxes, Sound, Fits
  <2>5. calls' = js
    BY <1>8 DEF ServeRequest, WithServed
  <2>6. calls \in Seq(CallRecs)
    BY DEF Talk
  <2> HIDE DEF k
  <2>7. DOMAIN js = DOMAIN calls
        /\ \A l \in DOMAIN calls : /\ js[l].to = calls[l].to
                                   /\ l # k => js[l].served = calls[l].served
    BY <2>4, <2>6, ServedOnceMore
  <2> HIDE DEF js
  <2> QED
    BY <2>1, <2>2, <2>4, <2>5, <2>7 DEF Requested, PoolMailStays, Alive
<1>9. ASSUME NEW q \in Servers, Answer(q)
      PROVE  Left
  <2>1. q \in Particles /\ handling[q] \in DOMAIN calls
    BY <1>9, ParticleFacts DEF Answer, Answering, HandlesOwn
  <2>2. calls[handling[q]].by \in Particles
    BY <2>1, CallFields, ParticleFacts
  <2>3. UNCHANGED <<up, calls>>
        /\ (UNCHANGED mail \/ Send(calls[handling[q]].by, Reply(handling[q])))
    BY <1>9 DEF Answer, SendReply
  <2>4. (Alive' <=> Alive) /\ PoolMailStays
    BY <1>3, <2>1, <2>2, <2>3 DEF Alive, PoolMailStays
  <2> QED
    BY <2>3, <2>4 DEF Requested
<1>10. ASSUME NEW q \in Servers, ServeStray(q) \/ ServeCast(q)
       PROVE  Left
  <2>1. q \in Particles /\ q # Pool /\ q \in Callers
    BY ParticleFacts
  <2>2. UNCHANGED calls /\ ((Taken(q) /\ UNCHANGED up) \/ Gone(q))
    BY <1>10 DEF ServeStray, ServeCast
  <2>3. CASE Taken(q) /\ UNCHANGED up
    <3>1. mail'[Pool] = mail[Pool]
      BY <1>1, <2>1, <2>3 DEF Taken, Talk
    <3> QED
      BY <2>2, <2>3, <3>1 DEF Requested, PoolMailStays, Alive
  <2> QED
    BY <1>2, <2>1, <2>2, <2>3
<1>11. ASSUME NEW p \in Callers, Caller(p)
       PROVE  Left
  BY <1>4, <1>5, <1>11 DEF Caller
<1>12. ASSUME NEW p \in Callers, Dies(p)
       PROVE  Left
  BY <1>2, <1>12 DEF Dies
<1>13. ASSUME NEW q \in Servers, Server(q)
       PROVE  Left
  BY <1>8, <1>9, <1>10, <1>13 DEF Server
<1> HIDE DEF Left
<1>14. Left
  BY <1>7, <1>11, <1>12, <1>13 DEF CallsNext, Callers
<1> QED
  BY <1>14 DEF Left

-----------------------------------------------------------------------------
(* The queue, and how many instances there can be *)

LEMMA Smaller ==
    ASSUME NEW A, NEW B, IsFiniteSet(B), A \subseteq B
    PROVE  IsFiniteSet(A) /\ Cardinality(A) \in Nat /\ Cardinality(B) \in Nat
           /\ Cardinality(A) <= Cardinality(B)
  BY FS_Subset, FS_CardinalityType

LEMMA OneMore ==
    ASSUME NEW A, NEW B, NEW x, IsFiniteSet(B), A \subseteq B \cup {x}
    PROVE  IsFiniteSet(A) /\ Cardinality(A) \in Nat /\ Cardinality(B) \in Nat
           /\ Cardinality(A) <= Cardinality(B) + 1
<1>1. IsFiniteSet(B \cup {x}) /\ Cardinality(B) \in Nat
      /\ (Cardinality(B \cup {x}) = Cardinality(B) \/ Cardinality(B \cup {x}) = Cardinality(B) + 1)
  BY FS_AddElement, FS_CardinalityType
<1>2. /\ IsFiniteSet(A) /\ Cardinality(A) \in Nat
      /\ Cardinality(A) <= Cardinality(B \cup {x})
  BY <1>1, Smaller
<1> QED
  BY <1>1, <1>2

\* One exit more makes room for one instance more.
LEMMA RoomGrows ==
    ASSUME NEW b \in Nat, NEW r \in Nat, NEW l \in Nat, NEW q \in Nat, NEW e \in Nat,
           NEW s \in Nat, b + r + l <= q + e, s <= r + 1
    PROVE  b + s + l <= q + (e + 1)
OBVIOUS

LEMMA OneLess ==
    ASSUME NEW A, NEW B, NEW x \in B, IsFiniteSet(B), A \subseteq B \ {x}
    PROVE  Cardinality(A) \in Nat /\ Cardinality(B) \in Nat
           /\ Cardinality(A) + 1 <= Cardinality(B)
<1>1. IsFiniteSet(B \ {x}) /\ Cardinality(B) \in Nat
      /\ Cardinality(B \ {x}) = Cardinality(B) - 1
  BY FS_RemoveElement, FS_CardinalityType
<1>2. Cardinality(A) \in Nat /\ Cardinality(A) <= Cardinality(B \ {x})
  BY <1>1, Smaller
<1> QED
  BY <1>1, <1>2

LEMMA Sizes ==
    ASSUME Talk
    PROVE  /\ IsFiniteSet(Insts) /\ Cardinality(Insts) = MaxCalls + MaxExits
           /\ IsFiniteSet(Begun) /\ Cardinality(Begun) \in Nat
           /\ IsFiniteSet(Restartable) /\ Cardinality(Restartable) \in Nat
           /\ IsFiniteSet(Requested) /\ Cardinality(Requested) \in Nat
           /\ Cardinality(Requested) <= MaxCalls
           /\ MaxCalls \in Nat /\ MaxExits \in Nat
<1>1. MaxCalls \in Nat /\ MaxExits \in Nat
  BY CallsAssumption, PoolAssumption
<1>2. MaxCalls + MaxExits \in Nat
  BY <1>1
<1>3. IsFiniteSet(Insts) /\ Cardinality(Insts) = MaxCalls + MaxExits
  BY <1>2, FS_Interval DEF Insts
<1>4. Begun \subseteq Insts /\ Restartable \subseteq Insts
  BY DEF Begun, Restartable
<1>5. Len(calls) \in Nat /\ Requested \subseteq 1..Len(calls) /\ Len(calls) <= MaxCalls
  <2>1. calls \in Seq(CallRecs) /\ plan.calls \in 0..MaxCalls /\ Len(calls) <= plan.calls
    BY DEF Talk
  <2>2. Len(calls) \in Nat /\ DOMAIN calls = 1..Len(calls)
    BY <2>1
  <2> QED
    BY <1>1, <2>1, <2>2 DEF Requested
<1>6. IsFiniteSet(1..Len(calls)) /\ Cardinality(1..Len(calls)) = Len(calls)
  BY <1>5, FS_Interval
<1>7. /\ IsFiniteSet(Requested) /\ Cardinality(Requested) \in Nat
      /\ Cardinality(Requested) <= Cardinality(1..Len(calls))
  BY <1>5, <1>6, Smaller
<1> QED
  BY <1>1, <1>3, <1>4, <1>5, <1>6, <1>7, Smaller

LEMMA ExitsSpent ==
    ASSUME Children
    PROVE  spent.exits \in 0..MaxExits /\ spent.exits \in Nat /\ spent.exits <= MaxExits
<1>1. PICK r \in [exits : 0..MaxExits, fails : Nat] : r = spent
  BY DEF Children
<1>2. r.exits \in 0..MaxExits /\ MaxExits \in Nat
  BY PoolAssumption
<1> QED
  BY <1>1, <1>2

LEMMA ActFields ==
    ASSUME NEW s \in Seq(Acts), NEW j \in DOMAIN s
    PROVE  /\ s[j].op \in {"start", "stop", "give_up"}
           /\ s[j].op \in {"start", "stop"} => s[j].id \in Ids /\ s[j].kind \in Kinds
<1>1. PICK a \in Acts : a = s[j]
  OBVIOUS
<1>2. CASE a \in [op : {"start", "stop"}, id : Ids, kind : Kinds]
  BY <1>1, <1>2
<1>3. CASE a \in [op : {"give_up"}]
  <2>1. a.op = "give_up"
    BY <1>3
  <2> QED
    BY <1>1, <2>1
<1> QED
  BY <1>1, <1>2, <1>3 DEF Acts

LEMMA EmptyQueue ==
    /\ \A id : ~StartsNext(<<>>, id) /\ ~Stops(<<>>, id)
    /\ ~GivesUp(<<>>) /\ Len(<<>>) = 0
BY DEF StartsNext, Stops, GivesUp

LEMMA HeadAct ==
    ASSUME Children, NEW op, Draining(op)
    PROVE  /\ Alive /\ phase = "drain" /\ queue \in Seq(Acts)
           /\ Len(queue) \in Nat \ {0} /\ DOMAIN queue = 1..Len(queue)
           /\ 1 \in DOMAIN queue /\ Head(queue) = queue[1] /\ queue[1].op = op
           /\ op \in {"start", "stop"} => queue[1].id \in Ids /\ queue[1].kind \in Kinds
           /\ Tail(queue) \in Seq(Acts) /\ Len(Tail(queue)) = Len(queue) - 1
           /\ DOMAIN Tail(queue) = 1..(Len(queue) - 1)
           /\ \A j \in 1..(Len(queue) - 1) : Tail(queue)[j] = queue[j + 1]
<1>1. queue \in Seq(Acts) /\ queue # <<>> /\ Head(queue).op = op /\ Alive /\ phase = "drain"
  BY DEF Children, Draining, Alive
<1>2. /\ Len(queue) \in Nat \ {0} /\ DOMAIN queue = 1..Len(queue)
      /\ 1 \in DOMAIN queue /\ Head(queue) = queue[1]
      /\ Tail(queue) \in Seq(Acts) /\ Len(Tail(queue)) = Len(queue) - 1
      /\ DOMAIN Tail(queue) = 1..(Len(queue) - 1)
  BY <1>1
<1>3. \A j \in 1..(Len(queue) - 1) : Tail(queue)[j] = queue[j + 1]
  BY <1>1
<1>4. op \in {"start", "stop"} => queue[1].id \in Ids /\ queue[1].kind \in Kinds
  BY <1>1, <1>2, ActFields
<1> QED
  BY <1>1, <1>2, <1>3, <1>4

\* A start is alone in the queue.
LEMMA StartAlone ==
    ASSUME Children, QueueShape, Draining("start")
    PROVE  /\ Tail(queue) = <<>> /\ Len(queue) = 1 /\ IsChild(queue[1].id)
           /\ StartsNext(queue, queue[1].id)
           /\ \A x \in Ids : (x # queue[1].id => ~StartsNext(queue, x)) /\ ~Stops(queue, x)
           /\ ~GivesUp(queue)
<1>1. /\ queue[1].op = "start" /\ 1 \in DOMAIN queue /\ queue[1].id \in Ids
      /\ DOMAIN queue = 1..Len(queue) /\ Tail(queue) \in Seq(Acts)
      /\ Len(Tail(queue)) = Len(queue) - 1
  BY HeadAct
<1>2. StartsNext(queue, queue[1].id)
  BY <1>1 DEF StartsNext
<1>3. Len(queue) = 1 /\ IsChild(queue[1].id)
  BY <1>1, <1>2 DEF QueueShape
<1>4. \A j \in DOMAIN queue : j = 1
  BY <1>1, <1>3
<1>5. Tail(queue) = <<>>
  <2>1. Len(Tail(queue)) = 0
    BY <1>1, <1>3
  <2> QED
    BY <1>1, <2>1, EmptySeq
<1>6. \A x \in Ids : (x # queue[1].id => ~StartsNext(queue, x)) /\ ~Stops(queue, x)
  BY <1>1, <1>4 DEF StartsNext, Stops
<1>7. ~GivesUp(queue)
  BY <1>1, <1>4 DEF GivesUp
<1> QED
  BY <1>2, <1>3, <1>5, <1>6, <1>7

\* A stop is taken from the front of what is nothing but stops and the end.
LEMMA StopTaken ==
    ASSUME Children, QueueShape, Draining("stop"), queue' = Tail(queue)
    PROVE  /\ ~IsChild(queue[1].id)
           /\ \A x \in Ids : /\ ~StartsNext(queue, x) /\ ~StartsNext(queue', x)
                             /\ Stops(queue', x) => Stops(queue, x)
                             /\ Stops(queue, x) /\ x # queue[1].id => Stops(queue', x)
           /\ GivesUp(queue') <=> GivesUp(queue)
           /\ \A j \in DOMAIN queue' : queue'[j].op = "give_up" <=> j = Len(queue') /\ GivesUp(queue')
           /\ ~GivesUp(queue') => Len(queue') <= 1
           /\ Len(queue') \in Nat /\ Len(queue) = Len(queue') + 1
           /\ queue' \in Seq(Acts)
<1>1. /\ queue[1].op = "stop" /\ 1 \in DOMAIN queue /\ queue[1].id \in Ids
      /\ DOMAIN queue = 1..Len(queue) /\ Len(queue) \in Nat \ {0}
      /\ queue' \in Seq(Acts) /\ Len(queue') = Len(queue) - 1
      /\ DOMAIN queue' = 1..(Len(queue) - 1)
      /\ \A j \in 1..(Len(queue) - 1) : queue'[j] = queue[j + 1]
  BY HeadAct
<1>2. Stops(queue, queue[1].id)
  BY <1>1 DEF Stops
<1>3. ASSUME NEW x \in Ids
      PROVE  ~StartsNext(queue, x)
  <2>1. Len(queue) = 1 => DOMAIN queue = {1}
    BY <1>1
  <2>2. Len(queue) = 1 => ~StartsNext(queue, x)
    BY <1>1, <2>1 DEF StartsNext
  <2> QED
    BY <2>2 DEF QueueShape
<1>4. \A j \in DOMAIN queue' : j + 1 \in DOMAIN queue /\ queue'[j] = queue[j + 1]
  BY <1>1
<1>5. \A j \in DOMAIN queue : j # 1 => j - 1 \in DOMAIN queue' /\ queue'[j - 1] = queue[j]
  BY <1>1
<1>6. ASSUME NEW x \in Ids
      PROVE  /\ ~StartsNext(queue', x) /\ (Stops(queue', x) => Stops(queue, x))
             /\ Stops(queue, x) /\ x # queue[1].id => Stops(queue', x)
  <2>1. ~StartsNext(queue', x)
    BY <1>3, <1>4 DEF StartsNext
  <2>2. Stops(queue', x) => Stops(queue, x)
    BY <1>4 DEF Stops
  <2>3. ASSUME Stops(queue, x), x # queue[1].id
        PROVE  Stops(queue', x)
    <3>1. PICK j \in DOMAIN queue : queue[j].op = "stop" /\ queue[j].id = x
      BY <2>3 DEF Stops
    <3>2. j - 1 \in DOMAIN queue' /\ queue'[j - 1] = queue[j]
      BY <1>5, <2>3, <3>1
    <3> QED
      BY <3>1, <3>2 DEF Stops
  <2> QED
    BY <2>1, <2>2, <2>3
<1>7. GivesUp(queue') <=> GivesUp(queue)
  <2>1. GivesUp(queue') => GivesUp(queue)
    BY <1>4 DEF GivesUp
  <2>2. ASSUME GivesUp(queue)
        PROVE  GivesUp(queue')
    <3>1. PICK j \in DOMAIN queue : queue[j].op = "give_up"
      BY <2>2 DEF GivesUp
    <3>2. j - 1 \in DOMAIN queue' /\ queue'[j - 1] = queue[j]
      BY <1>1, <1>5, <3>1
    <3> QED
      BY <3>1, <3>2 DEF GivesUp
  <2> QED
    BY <2>1, <2>2
<1>8. ASSUME NEW j \in DOMAIN queue'
      PROVE  queue'[j].op = "give_up" <=> j = Len(queue') /\ GivesUp(queue')
  <2>1. queue[j + 1].op = "give_up" <=> j + 1 = Len(queue) /\ GivesUp(queue)
    BY <1>4, <1>8 DEF QueueShape
  <2>2. j + 1 = Len(queue) <=> j = Len(queue')
    BY <1>1
  <2> QED
    BY <1>4, <1>7, <2>1, <2>2
<1>9. ~GivesUp(queue') => Len(queue') <= 1
  BY <1>1, <1>7 DEF QueueShape
<1>10. ~IsChild(queue[1].id)
  BY <1>1, <1>2 DEF QueueShape
<1> QED
  BY <1>1, <1>3, <1>6, <1>7, <1>8, <1>9, <1>10

\* There is an instance left for every start.
LEMMA FreshIs ==
    ASSUME Typed, QueueShape, RoomLeft, Draining("start")
    PROVE  Fresh \in Insts /\ state[Fresh] = "unborn"
<1> DEFINE U == {i \in Insts : state[i] = "unborn"}
<1>1. Alive /\ ~GivesUp(queue) /\ Len(queue) = 1
  BY HeadAct, StartAlone DEF Typed
<1>2. Cardinality(Begun) + Cardinality(Restartable) + 1 <= Cardinality(Requested) + spent.exits
  BY <1>1 DEF RoomLeft
<1>3. spent.exits \in Nat /\ spent.exits <= MaxExits
  BY ExitsSpent DEF Typed
<1>4. Cardinality(Begun) < Cardinality(Insts)
  BY <1>2, <1>3, Sizes DEF Typed
<1>5. Begun # Insts
  BY <1>4, Sizes DEF Typed
<1>6. U # {}
  BY <1>5 DEF Begun
<1>7. U \in SUBSET Nat
  <2>1. Insts \subseteq Nat
    BY Sizes DEF Typed, Insts
  <2> QED
    BY <2>1
<1>8. Min(U) \in U
  BY <1>6, <1>7, LeastMember
<1> QED
  BY <1>8 DEF Fresh

LEMMA EmptiedQueue ==
    ASSUME queue' = <<>>, phase' \in {"gave_up", "killed"} => ~Alive'
    PROVE  QueueShape'
BY DEF StartsNext, Stops, GivesUp, QueueShape

\* An exit that is on its way stays there until it is taken.
LEMMA ExitStays ==
    ASSUME NEW s \in Seq(Msgs), NEW i, HasExit(s, i)
    PROVE  /\ \A t \in Seq(Msgs) : HasExit(t \o s, i)
           /\ s # <<>> /\ (Head(s).kind # "exit" \/ Head(s).n # i) => HasExit(Tail(s), i)
<1>1. PICK j \in DOMAIN s : s[j].kind = "exit" /\ s[j].n = i
  BY DEF HasExit
<1>2. DOMAIN s = 1..Len(s) /\ Len(s) \in Nat
  OBVIOUS
<1>3. ASSUME NEW t \in Seq(Msgs)
      PROVE  HasExit(t \o s, i)
  <2>1. Len(t) + j \in 1..Len(t \o s) /\ (t \o s)[Len(t) + j] = s[j]
    BY <1>2, BehindTheFirst
  <2>2. DOMAIN (t \o s) = 1..Len(t \o s)
    OBVIOUS
  <2> QED
    BY <1>1, <2>1, <2>2 DEF HasExit
<1>4. ASSUME s # <<>>, Head(s).kind # "exit" \/ Head(s).n # i
      PROVE  HasExit(Tail(s), i)
  <2>1. 1 \in DOMAIN s /\ Head(s) = s[1] /\ Tail(s) = RemoveAt(s, 1)
    BY <1>4, TailIsRemoveFirst
  <2>2. j # 1
    BY <1>1, <1>4, <2>1
  <2>3. \E l \in DOMAIN Tail(s) : Tail(s)[l] = s[j]
    BY <2>1, <2>2, OthersStay
  <2> QED
    BY <1>1, <2>3 DEF HasExit
<1> QED
  BY <1>3, <1>4

LEMMA RequestedFinite ==
    ASSUME Talk'
    PROVE  IsFiniteSet(Requested') /\ Cardinality(Requested') \in Nat
<1>1. calls' \in Seq(CallRecs)
  BY DEF Talk
<1>2. Len(calls') \in Nat /\ Requested' \subseteq 1..Len(calls')
  BY <1>1 DEF Requested
<1>3. IsFiniteSet(1..Len(calls'))
  BY <1>2, FS_Interval
<1> QED
  BY <1>2, <1>3, Smaller

\* What changes nothing of the children but lets more requests be served.
LEMMA ChildrenLeft ==
    ASSUME Talk, Talk', Children, LiveBorn, Kept, Heard, RoomLeft,
           UNCHANGED <<children, live, pending, queue, state, born, asked, spoiled, spent>>,
           Alive' => Alive, PoolMailStays, Requested \subseteq Requested'
    PROVE  LiveBorn' /\ Kept' /\ Heard' /\ RoomLeft'
<1>1. Begun' = Begun /\ Restartable' = Restartable
  BY DEF Begun, Restartable, Unasked, Up
<1>2. LiveBorn'
  BY <1>1 DEF LiveBorn
<1>3. Kept'
  BY <1>1 DEF Kept, Unasked, Up, IsChild
<1>4. \A i : HasExit(mail[Pool], i) => HasExit(mail'[Pool], i)
  BY DEF HasExit, PoolMailStays
<1>5. Heard'
  BY <1>4 DEF Heard, IsChild, Up
<1>6. RoomLeft'
  <2> SUFFICES ASSUME Alive, ~GivesUp(queue)
               PROVE  Cardinality(Begun) + Cardinality(Restartable) + Len(queue)
                          <= Cardinality(Requested') + spent.exits
    BY <1>1 DEF RoomLeft
  <2>1. Cardinality(Begun) + Cardinality(Restartable) + Len(queue)
            <= Cardinality(Requested) + spent.exits
    BY DEF RoomLeft
  <2>2. /\ Cardinality(Requested) <= Cardinality(Requested')
        /\ Cardinality(Requested) \in Nat /\ Cardinality(Requested') \in Nat
    BY RequestedFinite, Smaller
  <2>3. /\ Cardinality(Begun) \in Nat /\ Cardinality(Restartable) \in Nat
        /\ spent.exits \in Nat /\ Len(queue) \in Nat
    BY Sizes, ExitsSpent DEF Children
  <2> QED
    BY <2>1, <2>2, <2>3
<1> QED
  BY <1>2, <1>3, <1>5, <1>6

-----------------------------------------------------------------------------
(* Every step of the pool keeps its children what it takes for them *)

LEMMA DoStartKeeps ==
    ASSUME IInv, DoStart
    PROVE  IInv'
<1> DEFINE id == queue[1].id
           f == Fresh
<1>1. Typed /\ Talk /\ Children /\ Answering /\ QueueShape /\ LiveBorn /\ Kept /\ Heard
      /\ RoomLeft /\ PoolLeavesNothing
  BY DEF IInv, Minding, Typed
<1>2. Draining("start") /\ Head(queue) = queue[1]
  BY <1>1, HeadAct DEF DoStart
<1>3. /\ id \in Ids /\ queue[1].kind \in Kinds /\ Alive /\ phase = "drain"
      /\ f \in Insts /\ state[f] = "unborn"
      /\ IsChild(id) /\ StartsNext(queue, id) /\ Len(queue) = 1 /\ ~GivesUp(queue)
      /\ \A x \in Ids : (x # id => ~StartsNext(queue, x)) /\ ~Stops(queue, x)
  BY <1>1, <1>2, HeadAct, StartAlone, FreshIs
<1>4. /\ live' = [live EXCEPT ![id] = f]
      /\ state' = [state EXCEPT ![f] = "up"]
      /\ born' = [born EXCEPT ![f] = [id |-> id, kind |-> queue[1].kind]]
      /\ spoiled' = IF id \in pending THEN spoiled \cup {id} ELSE spoiled
      /\ UNCHANGED <<mail, plan, up, nextRef, waits, handling, calls, casts, deaths, children,
                     recent, pending, phase, asked, spent>>
  BY <1>2 DEF DoStart, notTalk, coreVars
<1>5. queue' = <<>>
  BY <1>1, <1>2, StartAlone DEF DoStart
<1> HIDE DEF f
<1>6. Talk' /\ Answering'
  <2>1. UNCHANGED callsVars
    BY <1>4 DEF callsVars, talkVars
  <2>2. \A i \in Insts : state[i] = "dead" => state'[i] = "dead"
    BY <1>1, <1>3, <1>4 DEF Children
  <2> QED
    BY <1>1, <2>1, <2>2, SilenceKeeps
<1>7. /\ live'[id] = f /\ state'[f] = "up" /\ f \notin Begun /\ f \notin asked
      /\ born'[f] = [id |-> id, kind |-> queue[1].kind] /\ born'[f].id = id
      /\ Begun' = Begun \cup {f}
      /\ \A i \in Begun : i # f /\ state'[i] = state[i] /\ born'[i] = born[i]
      /\ \A x \in Ids : x # id => live'[x] = live[x]
  BY <1>1, <1>3, <1>4 DEF Children, Begun, LiveBorn
<1>8. Children'
  <2>1. live' \in [Ids -> Insts \cup {NoInst}] /\ state' \in [Insts -> {"unborn", "up", "dead"}]
    BY <1>1, <1>3, <1>4 DEF Children
  <2>2. born' \in [Insts -> [id : Ids, kind : Kinds] \cup {NoKind}]
    BY <1>1, <1>3, <1>4 DEF Children
  <2>3. spoiled' \subseteq Ids /\ queue' \in Seq(Acts)
    BY <1>1, <1>3, <1>4, <1>5 DEF Children
  <2> QED
    BY <1>1, <1>4, <2>1, <2>2, <2>3 DEF Children
<1>9. /\ \A x \in Ids : ~StartsNext(queue', x) /\ ~Stops(queue', x)
      /\ Len(queue') = 0 /\ QueueShape'
  BY <1>1, <1>4, <1>5, EmptyQueue, EmptiedQueue DEF QueueShape, Alive
<1>10. LiveBorn'
  BY <1>1, <1>3, <1>4, <1>7 DEF LiveBorn
<1>11. Kept'
  <2> SUFFICES ASSUME NEW i \in Begun', (state'[i] = "up" /\ i \notin asked')
               PROVE  live'[born'[i].id] = i /\ children'[born'[i].id] # NoKind /\ ~StartsNext(queue', born'[i].id)
    BY DEF Kept, Unasked, Up, IsChild
  <2>1. CASE i = f
    BY <1>3, <1>4, <1>7, <1>9, <2>1 DEF IsChild
  <2>2. CASE i \in Begun
    <3>1. born[i].id \in Ids /\ born'[i] = born[i]
      BY <1>1, <1>7, <2>2 DEF LiveBorn
    <3>2. Unasked(i)
      BY <1>4, <1>7, <2>2 DEF Unasked, Up
    <3>3. live[born[i].id] = i /\ ~StartsNext(queue, born[i].id)
          /\ (IsChild(born[i].id) \/ Stops(queue, born[i].id))
      BY <1>1, <1>3, <2>2, <3>2 DEF Kept
    <3>4. born[i].id # id /\ IsChild(born[i].id)
      BY <1>3, <3>1, <3>3
    <3> QED
      BY <1>4, <1>7, <1>9, <3>1, <3>3, <3>4 DEF IsChild
  <2> QED
    BY <1>7, <2>1, <2>2
<1>12. Heard'
  <2> SUFFICES ASSUME NEW x \in Ids, x \notin spoiled', children'[x] # NoKind
               PROVE  /\ live'[x] # NoInst /\ x \notin pending'
                      /\ state'[live'[x]] = "up" \/ HasExit(mail'[Pool], live'[x])
    BY DEF Heard, IsChild, Up
  <2>1. CASE x = id
    <3>1. f # NoInst
      BY <1>3 DEF Insts, NoInst
    <3> QED
      BY <1>4, <1>7, <2>1, <3>1 DEF Up
  <2>2. CASE x # id
    <3>1. x \notin spoiled /\ IsChild(x) /\ ~StartsNext(queue, x)
      BY <1>3, <1>4, <2>2 DEF IsChild
    <3>2. /\ live[x] # NoInst /\ x \notin pending
          /\ Up(live[x]) \/ HasExit(mail[Pool], live[x])
      BY <1>1, <1>3, <3>1 DEF Heard
    <3>3. live'[x] = live[x] /\ live[x] \in Begun
      BY <1>1, <1>7, <2>2, <3>2 DEF LiveBorn
    <3> QED
      BY <1>4, <1>7, <3>2, <3>3 DEF Up
  <2> QED
    BY <2>1, <2>2
<1>13. RoomLeft'
  <2>1. Requested' = Requested
    BY <1>4 DEF Requested
  <2>2. Restartable' \subseteq Restartable
    <3> SUFFICES ASSUME NEW i \in Restartable' PROVE i \in Restartable
      OBVIOUS
    <3>1. i \in Begun' /\ ~(state'[i] = "up" /\ i \notin asked') /\ live'[born'[i].id] = i
      BY DEF Restartable, Unasked, Up
    <3>2. i # f
      BY <1>4, <1>7, <3>1
    <3>3. i \in Begun /\ born[i].id \in Ids /\ born'[i] = born[i]
      BY <1>1, <1>7, <3>1, <3>2 DEF LiveBorn
    <3>4. ~Unasked(i)
      BY <1>4, <1>7, <3>1, <3>3 DEF Unasked, Up
    <3>5. live[born[i].id] = i
      BY <1>7, <3>1, <3>2, <3>3
    <3> QED
      BY <3>3, <3>4, <3>5 DEF Restartable
  <2>3. /\ Cardinality(Begun') \in Nat /\ Cardinality(Begun) \in Nat
        /\ Cardinality(Begun') <= Cardinality(Begun) + 1
    BY <1>1, <1>7, OneMore, Sizes
  <2>4. /\ Cardinality(Restartable') \in Nat /\ Cardinality(Restartable) \in Nat
        /\ Cardinality(Restartable') <= Cardinality(Restartable)
    BY <1>1, <2>2, Smaller, Sizes
  <2>5. Cardinality(Begun) + Cardinality(Restartable) + 1 <= Cardinality(Requested) + spent.exits
    BY <1>1, <1>3 DEF RoomLeft
  <2>6. spent.exits \in Nat /\ Cardinality(Requested) \in Nat
    BY <1>1, ExitsSpent, Sizes
  <2>7. Cardinality(Begun') + Cardinality(Restartable') + 0 <= Cardinality(Requested) + spent.exits
    BY <2>3, <2>4, <2>5, <2>6
  <2> QED
    BY <1>4, <1>9, <2>1, <2>7 DEF RoomLeft
<1>14. PoolLeavesNothing'
  BY <1>3, <1>4 DEF PoolLeavesNothing
<1> QED
  BY <1>6, <1>8, <1>9, <1>10, <1>11, <1>12, <1>13, <1>14 DEF IInv, Typed, Minding

LEMMA CallsStepKeeps ==
    ASSUME IInv, CallsNext, UNCHANGED poolVars
    PROVE  IInv'
<1>1. Talk /\ Children /\ Answering /\ QueueShape /\ LiveBorn /\ Kept /\ Heard
      /\ RoomLeft /\ PoolLeavesNothing
  BY DEF IInv, Minding, Typed
<1>2. UNCHANGED <<children, recent, live, pending, queue, phase, state, born, asked, spoiled, spent>>
  BY DEF poolVars, coreVars, loopVars, instVars
<1>3. Talk' /\ Answering'
  BY <1>1, <1>2, TalkKeeps
<1>4. (Alive' <=> Alive) /\ PoolMailStays /\ Requested \subseteq Requested'
  BY <1>1, TalkLeavesPool
<1>5. LiveBorn' /\ Kept' /\ Heard' /\ RoomLeft'
  BY <1>1, <1>2, <1>3, <1>4, ChildrenLeft
<1>6. QueueShape'
  BY <1>1, <1>2, <1>4 DEF QueueShape, IsChild
<1>7. PoolLeavesNothing' /\ Children'
  BY <1>1, <1>2 DEF PoolLeavesNothing, Children, Up
<1> QED
  BY <1>3, <1>5, <1>6, <1>7 DEF IInv, Typed, Minding

\* recv finds nothing, or a restart leaves the window.
LEMMA WaitKeeps ==
    ASSUME IInv, RecvWait \/ WindowMoves
    PROVE  IInv'
<1>1. Talk /\ Children /\ Answering /\ QueueShape /\ LiveBorn /\ Kept /\ Heard
      /\ RoomLeft /\ PoolLeavesNothing
  BY DEF IInv, Minding, Typed
<1>2. UNCHANGED <<children, live, pending, queue, state, born, asked, spoiled, spent>>
      /\ UNCHANGED callsVars
  BY DEF RecvWait, WindowMoves, coreVars, loopVars, instVars
<1>3. Talk' /\ Answering'
  BY <1>1, <1>2, SilenceKeeps
<1>4. UNCHANGED <<mail, up, calls>>
  BY <1>2 DEF callsVars, talkVars
<1>5. (Alive' <=> Alive) /\ PoolMailStays /\ Requested \subseteq Requested'
  BY <1>4 DEF Alive, PoolMailStays, Requested
<1>6. LiveBorn' /\ Kept' /\ Heard' /\ RoomLeft'
  BY <1>1, <1>2, <1>3, <1>5, ChildrenLeft
<1>7. (phase' = phase) \/ (phase' = "wait" /\ queue = <<>> /\ phase = "drain")
  BY DEF RecvWait, WindowMoves, loopVars
<1>8. QueueShape'
  BY <1>1, <1>2, <1>5, <1>7 DEF QueueShape, IsChild
<1>9. recent' \in Nat /\ phase' \in {"drain", "wait", "gave_up", "killed"}
  <2>1. recent' = recent \/ (recent > 0 /\ recent' = recent - 1)
    BY DEF RecvWait, WindowMoves, coreVars
  <2>2. recent \in Nat
    BY <1>1 DEF Children
  <2>3. recent' \in Nat
    BY <2>1, <2>2
  <2> QED
    BY <1>1, <1>7, <2>3 DEF Children
<1>10. PoolLeavesNothing' /\ Children'
  BY <1>1, <1>2, <1>7, <1>9 DEF PoolLeavesNothing, Children, Up
<1> QED
  BY <1>3, <1>6, <1>8, <1>10 DEF IInv, Typed, Minding

LEMMA StartFailsKeeps ==
    ASSUME IInv, StartFails
    PROVE  IInv'
<1> DEFINE id == queue[1].id
<1>1. Talk /\ Children /\ Answering /\ QueueShape /\ LiveBorn /\ Kept /\ Heard
      /\ RoomLeft /\ PoolLeavesNothing
  BY DEF IInv, Minding, Typed
<1>2. Draining("start") /\ Head(queue) = queue[1]
  BY <1>1, HeadAct DEF StartFails
<1>3. /\ id \in Ids /\ Alive /\ phase = "drain" /\ Len(queue) = 1 /\ ~GivesUp(queue)
      /\ \A x \in Ids : (x # id => ~StartsNext(queue, x)) /\ ~Stops(queue, x)
  BY <1>1, <1>2, HeadAct, StartAlone
<1>4. /\ queue' = <<>>
      /\ spoiled' = spoiled \cup {id}
      /\ UNCHANGED <<mail, up, calls, children, recent, live, pending, phase, state, born, asked>>
      /\ UNCHANGED callsVars
      /\ spent' = [spent EXCEPT !.fails = @ + 1]
  BY <1>1, <1>2, StartAlone DEF StartFails, callsVars, talkVars, coreVars, instVars
<1>5. Talk' /\ Answering'
  BY <1>1, <1>4, SilenceKeeps
<1>6. spent' \in [exits : 0..MaxExits, fails : Nat] /\ spent'.exits = spent.exits
  BY <1>1, <1>4 DEF Children
<1>7. Children'
  BY <1>1, <1>3, <1>4, <1>6 DEF Children
<1>8. QueueShape'
  BY <1>1, <1>4, EmptiedQueue DEF QueueShape, Alive
<1>9. Begun' = Begun /\ Restartable' = Restartable /\ Requested' = Requested
  BY <1>4 DEF Begun, Restartable, Unasked, Up, Requested
<1>10. LiveBorn'
  BY <1>1, <1>4, <1>9 DEF LiveBorn
<1>11. \A x : ~StartsNext(queue', x)
  BY <1>4, EmptyQueue
<1>12. Kept'
  <2> SUFFICES ASSUME NEW i \in Begun, state[i] = "up", i \notin asked
               PROVE  live[born[i].id] = i /\ children[born[i].id] # NoKind
    BY <1>4, <1>9, <1>11 DEF Kept, Unasked, Up, IsChild
  <2>1. born[i].id \in Ids
    BY <1>1 DEF LiveBorn
  <2> QED
    BY <1>1, <1>3, <2>1 DEF Kept, Unasked, Up, IsChild
<1>13. Heard'
  BY <1>1, <1>3, <1>4 DEF Heard, IsChild, Up
<1>14. RoomLeft'
  <2>1. Cardinality(Begun) + Cardinality(Restartable) + 1 <= Cardinality(Requested) + spent.exits
    BY <1>1, <1>3 DEF RoomLeft
  <2>2. /\ Cardinality(Begun) \in Nat /\ Cardinality(Restartable) \in Nat
        /\ Cardinality(Requested) \in Nat /\ spent.exits \in Nat
    BY <1>1, Sizes, ExitsSpent
  <2>3. Cardinality(Begun) + Cardinality(Restartable) + 0 <= Cardinality(Requested) + spent.exits
    BY <2>1, <2>2
  <2>4. Len(queue') = 0
    BY <1>4, EmptyQueue
  <2> QED
    BY <1>6, <1>9, <2>3, <2>4 DEF RoomLeft
<1>15. PoolLeavesNothing'
  BY <1>3, <1>4 DEF PoolLeavesNothing
<1> QED
  BY <1>5, <1>7, <1>8, <1>10, <1>12, <1>13, <1>14, <1>15 DEF IInv, Typed, Minding

LEMMA StopUnknownKeeps ==
    ASSUME IInv, StopUnknown
    PROVE  IInv'
<1> DEFINE id == queue[1].id
<1>1. Talk /\ Children /\ Answering /\ QueueShape /\ LiveBorn /\ Kept /\ Heard
      /\ RoomLeft /\ PoolLeavesNothing
  BY DEF IInv, Minding, Typed
<1>2. Draining("stop") /\ Head(queue) = queue[1]
  BY <1>1, HeadAct DEF StopUnknown
<1>3. /\ queue' = Tail(queue) /\ live[id] = NoInst
      /\ UNCHANGED <<mail, up, calls, children, recent, live, pending, phase, state, born, asked,
                     spoiled, spent>>
      /\ UNCHANGED callsVars
  BY <1>2 DEF StopUnknown, callsVars, talkVars, coreVars, instVars
<1>4. /\ \A x \in Ids : /\ ~StartsNext(queue, x) /\ ~StartsNext(queue', x)
                        /\ Stops(queue', x) => Stops(queue, x)
                        /\ Stops(queue, x) /\ x # id => Stops(queue', x)
      /\ GivesUp(queue') <=> GivesUp(queue)
      /\ \A j \in DOMAIN queue' : queue'[j].op = "give_up" <=> j = Len(queue') /\ GivesUp(queue')
      /\ ~GivesUp(queue') => Len(queue') <= 1
      /\ Len(queue') \in Nat /\ Len(queue) = Len(queue') + 1
      /\ queue' \in Seq(Acts)
  BY <1>1, <1>2, <1>3, StopTaken
<1>5. Alive /\ phase = "drain" /\ id \in Ids
  BY <1>1, <1>2, HeadAct
<1> HIDE DEF id
<1>6. Talk' /\ Answering'
  BY <1>1, <1>3, SilenceKeeps
<1>7. Children'
  BY <1>1, <1>3, <1>4 DEF Children
<1>8. QueueShape'
  <2>1. \A x \in Ids : ~StartsNext(queue', x) /\ (Stops(queue', x) => children[x] = NoKind)
    BY <1>1, <1>4 DEF QueueShape, IsChild
  <2>2. GivesUp(queue') => \A x \in Ids : children[x] = NoKind
    BY <1>1, <1>4 DEF QueueShape, IsChild
  <2> QED
    BY <1>3, <1>4, <1>5, <2>1, <2>2 DEF QueueShape, IsChild, Alive
<1>9. Begun' = Begun /\ Restartable' = Restartable /\ Requested' = Requested
  BY <1>3 DEF Begun, Restartable, Unasked, Up, Requested
<1>10. LiveBorn'
  BY <1>1, <1>3, <1>9 DEF LiveBorn
<1>11. Kept'
  <2> SUFFICES ASSUME NEW i \in Begun, state[i] = "up", i \notin asked
               PROVE  /\ live[born[i].id] = i
                      /\ children[born[i].id] # NoKind \/ Stops(queue', born[i].id)
                      /\ ~StartsNext(queue', born[i].id)
    BY <1>3, <1>9 DEF Kept, Unasked, Up, IsChild
  <2>1. born[i].id \in Ids
    BY <1>1 DEF LiveBorn
  <2>2. live[born[i].id] = i /\ (children[born[i].id] # NoKind \/ Stops(queue, born[i].id))
    BY <1>1, <1>5 DEF Kept, Unasked, Up, IsChild
  <2>3. i # NoInst
    BY DEF Begun, Insts, NoInst
  <2>4. born[i].id # id
    BY <1>3, <2>2, <2>3
  <2> QED
    BY <1>4, <2>1, <2>2, <2>4
<1>12. Heard'
  <2>1. \A x \in Ids : ~StartsNext(queue, x)
    BY <1>4
  <2> QED
    BY <1>1, <1>3, <1>5, <2>1 DEF Heard, IsChild, Up
<1>13. RoomLeft'
  <2> SUFFICES ASSUME ~GivesUp(queue')
               PROVE  Cardinality(Begun) + Cardinality(Restartable) + Len(queue')
                          <= Cardinality(Requested) + spent.exits
    BY <1>3, <1>9 DEF RoomLeft
  <2>1. Cardinality(Begun) + Cardinality(Restartable) + Len(queue)
            <= Cardinality(Requested) + spent.exits
    BY <1>1, <1>4, <1>5 DEF RoomLeft
  <2>2. /\ Cardinality(Begun) \in Nat /\ Cardinality(Restartable) \in Nat
        /\ Cardinality(Requested) \in Nat /\ spent.exits \in Nat
    BY <1>1, Sizes, ExitsSpent
  <2> QED
    BY <1>4, <2>1, <2>2
<1>14. PoolLeavesNothing'
  BY <1>3, <1>5 DEF PoolLeavesNothing
<1> QED
  BY <1>6, <1>7, <1>8, <1>10, <1>11, <1>12, <1>13, <1>14 DEF IInv, Typed, Minding

\* An instance that is up dies: one that was asked to, or one exit more.
LEMMA DeathKeeps ==
    ASSUME IInv, Alive, NEW d \in Insts, Up(d), NEW r \in Reasons, InstDies(d, r),
           UNCHANGED <<plan, up, nextRef, waits, handling, calls, casts, deaths, children, recent,
                       live, pending, queue, phase, born, asked, spoiled>>,
           spent' \in [exits : 0..MaxExits, fails : Nat],
           \/ d \in asked /\ spent' = spent
           \/ spent'.exits = spent.exits + 1
    PROVE  IInv'
<1>1. Talk /\ Children /\ Answering /\ QueueShape /\ LiveBorn /\ Kept /\ Heard
      /\ RoomLeft /\ PoolLeavesNothing
  BY DEF IInv, Minding, Typed
<1> DEFINE t == <<ExitMsg(d, r)>>
<1>2. /\ t \in Seq(Exits) /\ \A j \in DOMAIN t : t[j] = ExitMsg(d, r)
      /\ 1 \in DOMAIN t
  BY DEF ExitMsg, Exits
<1>3. ExitMsg(d, r).n = d /\ ExitMsg(d, r).kind = "exit"
  BY DEF ExitMsg
<1>4. /\ state' = [state EXCEPT ![d] = "dead"] /\ mail' = [mail EXCEPT ![Pool] = t \o @]
  BY DEF InstDies
<1> HIDE DEF t
<1>5. /\ state'[d] = "dead" /\ d \in Begun /\ Begun' = Begun
      /\ \A i \in Insts : i # d => state'[i] = state[i]
  BY <1>1, <1>4 DEF Children, Begun, Up
<1>6. Talk' /\ Answering'
  <2>1. UNCHANGED notTalk
    BY DEF notTalk
  <2>2. \A j \in DOMAIN t : state'[t[j].n] = "dead"
    BY <1>2, <1>3, <1>5
  <2>3. \A i \in Insts : state[i] = "dead" => state'[i] = "dead"
    BY <1>5
  <2> QED
    BY <1>1, <1>2, <1>4, <2>1, <2>2, <2>3, ExitsKeep
<1>7. Children'
  <2>1. state' \in [Insts -> {"unborn", "up", "dead"}]
    BY <1>1, <1>4 DEF Children
  <2> QED
    BY <1>1, <2>1 DEF Children
<1>8. QueueShape'
  BY <1>1 DEF QueueShape, IsChild, Alive
<1>9. LiveBorn'
  BY <1>1, <1>5 DEF LiveBorn
<1>10. Kept'
  <2> SUFFICES ASSUME NEW i \in Begun, state'[i] = "up", i \notin asked
               PROVE  /\ live[born[i].id] = i
                      /\ children[born[i].id] # NoKind \/ Stops(queue, born[i].id)
                      /\ ~StartsNext(queue, born[i].id)
    BY <1>5 DEF Kept, Unasked, Up, IsChild
  <2>1. state[i] = "up"
    BY <1>5 DEF Begun
  <2> QED
    BY <1>1, <2>1 DEF Kept, Unasked, Up, IsChild
<1>11. Heard'
  <2> SUFFICES ASSUME NEW x \in Ids, x \notin spoiled, children[x] # NoKind, ~StartsNext(queue, x)
               PROVE  /\ live[x] # NoInst /\ x \notin pending
                      /\ state'[live[x]] = "up" \/ HasExit(mail'[Pool], live[x])
    BY DEF Heard, IsChild, Up
  <2>1. /\ live[x] # NoInst /\ x \notin pending
        /\ state[live[x]] = "up" \/ HasExit(mail[Pool], live[x])
    BY <1>1 DEF Heard, IsChild, Up
  <2>2. live[x] \in Begun /\ live[x] \in Insts
    BY <1>1, <2>1 DEF LiveBorn, Begun
  <2>3. mail[Pool] \in Seq(Msgs) /\ mail'[Pool] = t \o mail[Pool] /\ t \in Seq(Msgs)
    BY <1>1, <1>2, <1>4, ParticleFacts, SMTT(30) DEF Talk, Msgs
  <2>4. CASE live[x] = d
    <3>1. 1 \in DOMAIN mail'[Pool] /\ mail'[Pool][1] = t[1]
      BY <1>2, <2>3
    <3>2. HasExit(mail'[Pool], d)
      BY <1>2, <1>3, <3>1 DEF HasExit
    <3> QED
      BY <2>1, <2>4, <3>2
  <2>5. CASE live[x] # d
    BY <1>5, <2>1, <2>2, <2>3, <2>5, ExitStays
  <2> QED
    BY <2>4, <2>5
<1>12. RoomLeft'
  <2>1. Requested' = Requested
    BY DEF Requested
  <2>2. \A i \in Begun : i # d => (i \in Restartable' <=> i \in Restartable)
    BY <1>5 DEF Restartable, Unasked, Up, Begun
  <2>3. d \in asked => (d \in Restartable' <=> d \in Restartable)
    BY <1>5 DEF Restartable, Unasked, Up, Begun
  <2>4. Restartable' \subseteq Begun /\ Restartable \subseteq Begun
    BY <1>5 DEF Restartable
  <2>5. /\ Cardinality(Begun) \in Nat /\ Cardinality(Restartable) \in Nat
        /\ Cardinality(Requested) \in Nat /\ spent.exits \in Nat /\ Len(queue) \in Nat
        /\ IsFiniteSet(Restartable)
    BY <1>1, Sizes, ExitsSpent DEF Children
  <2> SUFFICES ASSUME ~GivesUp(queue)
               PROVE  Cardinality(Begun) + Cardinality(Restartable') + Len(queue)
                          <= Cardinality(Requested) + spent'.exits
    BY <1>5, <2>1 DEF RoomLeft
  <2>6. Cardinality(Begun) + Cardinality(Restartable) + Len(queue)
            <= Cardinality(Requested) + spent.exits
    BY <1>1 DEF RoomLeft
  <2>7. CASE d \in asked /\ spent' = spent
    <3>1. Restartable' = Restartable
      BY <2>2, <2>3, <2>4, <2>7
    <3> QED
      BY <2>6, <2>7, <3>1
  <2>8. CASE spent'.exits = spent.exits + 1
    <3>1. Restartable' \subseteq Restartable \cup {d}
      BY <2>2, <2>4
    <3>2. Cardinality(Restartable') \in Nat
          /\ Cardinality(Restartable') <= Cardinality(Restartable) + 1
      BY <2>5, <3>1, OneMore
    <3>3. Cardinality(Begun) + Cardinality(Restartable') + Len(queue)
              <= Cardinality(Requested) + (spent.exits + 1)
      BY <2>5, <2>6, <3>2, RoomGrows
    <3> QED
      BY <2>8, <3>3
  <2> QED
    BY <2>7, <2>8
<1>13. PoolLeavesNothing'
  BY <1>1 DEF PoolLeavesNothing, QueueShape
<1> QED
  BY <1>6, <1>7, <1>8, <1>9, <1>10, <1>11, <1>12, <1>13 DEF IInv, Typed, Minding

LEMMA ChildStepKeeps ==
    ASSUME IInv, NEW i \in Insts,
           ChildObeys(i) \/ \E r \in {"normal", "exception"} : ChildExits(i, r)
    PROVE  IInv'
<1>1. CASE ChildObeys(i)
  <2>1. "shutdown" \in Reasons
    BY DEF Reasons
  <2>2. /\ Alive /\ Up(i) /\ i \in asked /\ InstDies(i, "shutdown")
        /\ UNCHANGED <<plan, up, nextRef, waits, handling, calls, casts, deaths, children, recent,
                       live, pending, queue, phase, born, asked, spoiled>>
        /\ spent' = spent
    BY <1>1 DEF ChildObeys, coreVars, loopVars, Alive
  <2>3. spent' \in [exits : 0..MaxExits, fails : Nat]
    BY <2>2 DEF IInv, Typed, Children
  <2> QED
    BY <2>1, <2>2, <2>3, DeathKeeps
<1>2. ASSUME NEW r \in {"normal", "exception"}, ChildExits(i, r)
      PROVE  IInv'
  <2>1. r \in Reasons
    BY DEF Reasons
  <2>2. /\ Alive /\ Up(i) /\ InstDies(i, r)
        /\ UNCHANGED <<plan, up, nextRef, waits, handling, calls, casts, deaths, children, recent,
                       live, pending, queue, phase, born, asked, spoiled>>
        /\ spent' = [spent EXCEPT !.exits = @ + 1] /\ spent.exits < MaxExits
    BY <1>2 DEF ChildExits, coreVars, loopVars, Alive
  <2>3. spent \in [exits : 0..MaxExits, fails : Nat] /\ spent.exits + 1 \in 0..MaxExits
    BY <2>2, ExitsSpent, Sizes DEF IInv, Typed, Children
  <2>4. spent' \in [exits : 0..MaxExits, fails : Nat] /\ spent'.exits = spent.exits + 1
    BY <2>2, <2>3
  <2> QED
    BY <2>1, <2>2, <2>4, DeathKeeps
<1> QED
  BY <1>1, <1>2

LEMMA PoolEndKeeps ==
    ASSUME IInv, DoGiveUp \/ PoolKilled
    PROVE  IInv'
<1>1. Talk /\ Children /\ Answering /\ QueueShape /\ LiveBorn /\ Kept /\ Heard
      /\ RoomLeft /\ PoolLeavesNothing
  BY DEF IInv, Minding, Typed
<1>2. PICK how \in {"gave_up", "killed"} : PoolGone(how) /\ (how = "gave_up" => DoGiveUp)
  BY DEF DoGiveUp, PoolKilled
<1>3. /\ up' = up \ {Pool} /\ ~Alive' /\ phase' = how /\ queue' = <<>>
      /\ state' = [i \in Insts |-> IF Obeys(i, "shutdown") THEN "dead" ELSE state[i]]
      /\ UNCHANGED <<children, recent, live, pending, born, asked, spoiled, spent>>
  BY <1>2 DEF PoolGone, coreVars, Alive
<1>4. Talk' /\ Answering'
  BY <1>1, <1>2, PoolGoneKeeps
<1>5. state' \in [Insts -> {"unborn", "up", "dead"}]
  BY <1>1, <1>3 DEF Children
<1>6. Children'
  BY <1>1, <1>3, <1>5 DEF Children
<1>7. QueueShape'
  BY <1>3, EmptiedQueue
<1>8. LiveBorn'
  <2>1. Begun' = Begun
    BY <1>1, <1>3 DEF Begun, Obeys, Up
  <2> QED
    BY <1>1, <1>3, <2>1 DEF LiveBorn
<1>9. Kept' /\ Heard' /\ RoomLeft'
  BY <1>3 DEF Kept, Heard, RoomLeft
<1>10. PoolLeavesNothing'
  <2> SUFFICES ASSUME how = "gave_up", NEW i \in Insts, state'[i] = "up"
               PROVE  born[i].kind.traps /\ i \in asked
    BY <1>3 DEF PoolLeavesNothing, Up
  <2>1. state[i] = "up" /\ ~Obeys(i, "shutdown") /\ i \in Begun
    BY <1>3 DEF Begun
  <2>2. born[i].kind.traps
    BY <2>1 DEF Obeys, Up
  <2>3. Draining("give_up")
    BY <1>2 DEF DoGiveUp
  <2>4. /\ Alive /\ 1 \in DOMAIN queue /\ queue[1].op = "give_up" /\ DOMAIN queue = 1..Len(queue)
    BY <1>1, <2>3, HeadAct
  <2>5. GivesUp(queue) /\ Len(queue) = 1
    BY <1>1, <2>4 DEF QueueShape, GivesUp
  <2>6. \A x : ~Stops(queue, x)
    <3>1. \A j \in DOMAIN queue : j = 1
      BY <2>4, <2>5
    <3> QED
      BY <2>4, <3>1 DEF Stops
  <2>7. \A x \in Ids : ~IsChild(x)
    BY <1>1, <2>5 DEF QueueShape
  <2>8. born[i].id \in Ids
    BY <1>1, <2>1 DEF LiveBorn
  <2>9. i \in asked
    BY <1>1, <2>1, <2>4, <2>6, <2>7, <2>8 DEF Kept, Unasked, Up
  <2> QED
    BY <2>2, <2>9
<1> QED
  BY <1>4, <1>6, <1>7, <1>8, <1>9, <1>10 DEF IInv, Typed, Minding

LEMMA DoStopKeeps ==
    ASSUME IInv, DoStop
    PROVE  IInv'
<1> DEFINE id == queue[1].id
           how == queue[1].kind.shutdown
           e == live[id]
           r == IF how = "brutal_kill" THEN "killed" ELSE "shutdown"
<1>1. Talk /\ Children /\ Answering /\ QueueShape /\ LiveBorn /\ Kept /\ Heard
      /\ RoomLeft /\ PoolLeavesNothing
  BY DEF IInv, Minding, Typed
<1>2. Draining("stop") /\ Head(queue) = queue[1]
  BY <1>1, HeadAct DEF DoStop
<1>3. /\ queue' = Tail(queue) /\ e # NoInst /\ Signal(e, r)
      /\ live' = [live EXCEPT ![id] = NoInst] \/ live' = live
      /\ pending' = pending \cup {id} \/ pending' = pending
      /\ UNCHANGED <<plan, up, nextRef, waits, handling, calls, casts, deaths, children, recent,
                     phase, born, spoiled, spent>>
  BY <1>2 DEF DoStop, notTalk, coreVars
<1>4. /\ \A x \in Ids : /\ ~StartsNext(queue, x) /\ ~StartsNext(queue', x)
                        /\ Stops(queue', x) => Stops(queue, x)
                        /\ Stops(queue, x) /\ x # id => Stops(queue', x)
      /\ GivesUp(queue') <=> GivesUp(queue)
      /\ \A j \in DOMAIN queue' : queue'[j].op = "give_up" <=> j = Len(queue') /\ GivesUp(queue')
      /\ ~GivesUp(queue') => Len(queue') <= 1
      /\ Len(queue') \in Nat /\ Len(queue) = Len(queue') + 1
      /\ queue' \in Seq(Acts)
      /\ ~IsChild(id)
  BY <1>1, <1>2, <1>3, StopTaken
<1>5. Alive /\ phase = "drain" /\ id \in Ids
  BY <1>1, <1>2, HeadAct
<1>6. e \in Begun /\ e \in Insts /\ born[e].id = id
  BY <1>1, <1>3, <1>5 DEF LiveBorn, Begun
<1>7. \A x \in Ids : x # id => live'[x] = live[x]
  BY <1>1, <1>3, <1>5 DEF Children
<1>8. live'[id] \in {e, NoInst}
  BY <1>1, <1>3, <1>5 DEF Children
<1>9. r \in Reasons
  BY DEF Reasons
<1> HIDE DEF id, e, r
<1>10. asked' = asked \cup {e} /\ (InstDies(e, r) \/ UNCHANGED <<state, mail>>)
  BY <1>3 DEF Signal
<1> DEFINE t == <<ExitMsg(e, r)>>
<1>11. /\ t \in Seq(Exits) /\ \A j \in DOMAIN t : t[j].n = e
       /\ InstDies(e, r) => /\ state' = [state EXCEPT ![e] = "dead"]
                            /\ mail' = [mail EXCEPT ![Pool] = t \o @]
  BY <1>6, <1>9 DEF ExitMsg, Exits, InstDies
<1> HIDE DEF t
<1>12. /\ \A i \in Insts : i # e => state'[i] = state[i]
       /\ state'[e] = state[e] \/ state'[e] = "dead"
       /\ state' \in [Insts -> {"unborn", "up", "dead"}]
       /\ Begun' = Begun
  BY <1>1, <1>6, <1>10, <1>11 DEF Children, Begun
<1>13. Talk' /\ Answering'
  <2>1. \A i \in Insts : state[i] = "dead" => state'[i] = "dead"
    BY <1>6, <1>12
  <2>2. CASE InstDies(e, r)
    <3>1. UNCHANGED notTalk
      BY <1>3 DEF notTalk
    <3>2. state'[e] = "dead"
      BY <1>1, <1>6, <1>11, <2>2 DEF Children
    <3>3. mail' = [mail EXCEPT ![Pool] = t \o @] /\ t \in Seq(Exits)
      BY <1>11, <2>2
    <3>4. \A j \in DOMAIN t : state'[t[j].n] = "dead"
      BY <1>11, <3>2
    <3> QED
      BY <1>1, <2>1, <3>1, <3>3, <3>4, ExitsKeep
  <2>3. CASE UNCHANGED <<state, mail>>
    <3>1. UNCHANGED callsVars
      BY <1>3, <2>3 DEF callsVars, talkVars
    <3> QED
      BY <1>1, <2>1, <3>1, SilenceKeeps
  <2> QED
    BY <1>10, <2>2, <2>3
<1>14. Children'
  <2>1. live' \in [Ids -> Insts \cup {NoInst}] /\ pending' \subseteq Ids /\ asked' \subseteq Insts
    BY <1>1, <1>3, <1>5, <1>6, <1>10 DEF Children
  <2> QED
    BY <1>1, <1>3, <1>4, <1>12, <2>1 DEF Children
<1>15. QueueShape'
  <2>1. \A x \in Ids : ~StartsNext(queue', x) /\ (Stops(queue', x) => children[x] = NoKind)
    BY <1>1, <1>4 DEF QueueShape, IsChild
  <2>2. GivesUp(queue') => \A x \in Ids : children[x] = NoKind
    BY <1>1, <1>4 DEF QueueShape, IsChild
  <2> QED
    BY <1>3, <1>4, <1>5, <2>1, <2>2 DEF QueueShape, IsChild, Alive
<1>16. LiveBorn'
  <2>1. ASSUME NEW x \in Ids, live'[x] # NoInst
        PROVE  live'[x] \in Begun /\ born[live'[x]].id = x
    BY <1>1, <1>6, <1>7, <1>8, <2>1 DEF LiveBorn
  <2>2. asked' \subseteq Begun
    BY <1>1, <1>6, <1>10 DEF LiveBorn
  <2> QED
    BY <1>1, <1>3, <1>12, <2>1, <2>2 DEF LiveBorn
<1>17. Kept'
  <2> SUFFICES ASSUME NEW i \in Begun, state'[i] = "up", i \notin asked'
               PROVE  /\ live'[born[i].id] = i
                      /\ children[born[i].id] # NoKind \/ Stops(queue', born[i].id)
                      /\ ~StartsNext(queue', born[i].id)
    BY <1>3, <1>12 DEF Kept, Unasked, Up, IsChild
  <2>1. i # e /\ i \notin asked /\ state[i] = "up"
    BY <1>10, <1>12 DEF Begun
  <2>2. live[born[i].id] = i /\ (children[born[i].id] # NoKind \/ Stops(queue, born[i].id))
    BY <1>1, <1>5, <2>1 DEF Kept, Unasked, Up, IsChild
  <2>3. born[i].id \in Ids /\ born[i].id # id
    BY <1>1, <2>1, <2>2 DEF LiveBorn, e
  <2> QED
    BY <1>4, <1>7, <2>2, <2>3
<1>18. Heard'
  <2> SUFFICES ASSUME NEW x \in Ids, x \notin spoiled, children[x] # NoKind
               PROVE  /\ live'[x] # NoInst /\ x \notin pending'
                      /\ state'[live'[x]] = "up" \/ HasExit(mail'[Pool], live'[x])
    BY <1>3 DEF Heard, IsChild, Up
  <2>1. x # id /\ ~StartsNext(queue, x)
    BY <1>4 DEF IsChild
  <2>2. /\ live[x] # NoInst /\ x \notin pending
        /\ state[live[x]] = "up" \/ HasExit(mail[Pool], live[x])
    BY <1>1, <1>5, <2>1 DEF Heard, IsChild, Up
  <2>3. live[x] \in Insts /\ live[x] # e
    BY <1>1, <1>6, <2>1, <2>2 DEF LiveBorn, Begun
  <2>4. HasExit(mail[Pool], live[x]) => HasExit(mail'[Pool], live[x])
    <3>1. /\ mail[Pool] \in Seq(Msgs) /\ t \in Seq(Msgs)
          /\ mail'[Pool] = mail[Pool] \/ mail'[Pool] = t \o mail[Pool]
      BY <1>1, <1>10, <1>11, ParticleFacts DEF Talk, Msgs
    <3> QED
      BY <3>1, ExitStays
  <2> QED
    BY <1>3, <1>7, <1>12, <2>1, <2>2, <2>3, <2>4
<1>19. RoomLeft'
  <2>1. Requested' = Requested
    BY <1>3 DEF Requested
  <2>2. Restartable' \subseteq Restartable \cup {e}
    <3> SUFFICES ASSUME NEW i \in Begun, ~(state'[i] = "up" /\ i \notin asked'),
                        live'[born[i].id] = i, i # e
                 PROVE  i \in Restartable
      BY <1>3, <1>12 DEF Restartable, Unasked, Up
    <3>1. ~(state[i] = "up" /\ i \notin asked)
      BY <1>10, <1>12 DEF Begun
    <3>2. born[i].id \in Ids /\ i # NoInst
      BY <1>1 DEF LiveBorn, Begun, Insts, NoInst
    <3>3. live[born[i].id] = i
      BY <1>7, <1>8, <3>2
    <3> QED
      BY <3>1, <3>3 DEF Restartable, Unasked, Up
  <2>3. /\ Cardinality(Begun) \in Nat /\ Cardinality(Restartable) \in Nat
        /\ Cardinality(Requested) \in Nat /\ spent.exits \in Nat /\ IsFiniteSet(Restartable)
    BY <1>1, Sizes, ExitsSpent
  <2>4. /\ Cardinality(Restartable') \in Nat
        /\ Cardinality(Restartable') <= Cardinality(Restartable) + 1
    BY <2>2, <2>3, OneMore
  <2> SUFFICES ASSUME ~GivesUp(queue')
               PROVE  Cardinality(Begun) + Cardinality(Restartable') + Len(queue')
                          <= Cardinality(Requested) + spent.exits
    BY <1>3, <1>12, <2>1 DEF RoomLeft
  <2>5. Cardinality(Begun) + Cardinality(Restartable) + Len(queue)
            <= Cardinality(Requested) + spent.exits
    BY <1>1, <1>4, <1>5 DEF RoomLeft
  <2> QED
    BY <1>4, <2>3, <2>4, <2>5
<1>20. PoolLeavesNothing'
  BY <1>3, <1>5 DEF PoolLeavesNothing
<1> QED
  BY <1>13, <1>14, <1>15, <1>16, <1>17, <1>18, <1>19, <1>20 DEF IInv, Typed, Minding

\* What the loop queues: one start, one stop, or the stops of all and the end.
LEMMA OneStart ==
    ASSUME NEW id \in Ids, NEW kind \in Kinds
    PROVE  LET q == <<StartAct(id, kind)>> IN
           /\ q \in Seq(Acts) /\ Len(q) = 1 /\ StartsNext(q, id)
           /\ \A x : (x # id => ~StartsNext(q, x)) /\ ~Stops(q, x)
           /\ ~GivesUp(q) /\ \A j \in DOMAIN q : q[j].op # "give_up"
<1> DEFINE q == <<StartAct(id, kind)>>
<1>1. StartAct(id, kind) \in Acts /\ StartAct(id, kind).op = "start" /\ StartAct(id, kind).id = id
  BY DEF StartAct, Acts
<1>2. q \in Seq(Acts) /\ Len(q) = 1 /\ DOMAIN q = {1} /\ q[1] = StartAct(id, kind)
  BY <1>1
<1> HIDE DEF q
<1>3. q[1].op = "start" /\ q[1].id = id
  BY <1>1, <1>2
<1>4. StartsNext(q, id) /\ \A x : (x # id => ~StartsNext(q, x)) /\ ~Stops(q, x)
  BY <1>2, <1>3 DEF StartsNext, Stops
<1>5. ~GivesUp(q) /\ \A j \in DOMAIN q : q[j].op # "give_up"
  BY <1>2, <1>3 DEF GivesUp
<1> QED
  BY <1>2, <1>4, <1>5 DEF q

LEMMA OneStop ==
    ASSUME NEW id \in Ids, NEW kind \in Kinds
    PROVE  LET q == <<StopAct(id, kind)>> IN
           /\ q \in Seq(Acts) /\ Len(q) = 1 /\ Stops(q, id)
           /\ \A x : (x # id => ~Stops(q, x)) /\ ~StartsNext(q, x)
           /\ ~GivesUp(q) /\ \A j \in DOMAIN q : q[j].op # "give_up"
<1> DEFINE q == <<StopAct(id, kind)>>
<1>1. StopAct(id, kind) \in Acts /\ StopAct(id, kind).op = "stop" /\ StopAct(id, kind).id = id
  BY DEF StopAct, Acts
<1>2. q \in Seq(Acts) /\ Len(q) = 1 /\ DOMAIN q = {1} /\ q[1] = StopAct(id, kind)
  BY <1>1
<1> HIDE DEF q
<1>3. q[1].op = "stop" /\ q[1].id = id
  BY <1>1, <1>2
<1>4. Stops(q, id) /\ \A x : (x # id => ~Stops(q, x)) /\ ~StartsNext(q, x)
  BY <1>2, <1>3 DEF StartsNext, Stops
<1>5. ~GivesUp(q) /\ \A j \in DOMAIN q : q[j].op # "give_up"
  BY <1>2, <1>3 DEF GivesUp
<1> QED
  BY <1>2, <1>4, <1>5 DEF q

LEMMA AllStops ==
    ASSUME Children
    PROVE  LET q == ShutdownAndGiveUp IN
           /\ q \in Seq(Acts) /\ GivesUp(q)
           /\ \A x \in Ids : ~StartsNext(q, x) /\ (IsChild(x) => Stops(q, x))
           /\ \A j \in DOMAIN q : q[j].op = "give_up" <=> j = Len(q)
<1> DEFINE C == {id \in Ids : IsChild(id)}
           ids == SetToSeq(C)
           s == [k \in DOMAIN ids |-> StopAct(ids[k], children[ids[k]])]
           g == [op |-> "give_up"]
           q == Append(s, g)
<1>1. IsFiniteSet(C)
  BY PoolAssumption, FS_Subset
<1>2. ids \in Seq(C) /\ Range(ids) = C
  BY <1>1, SetToSeqFacts
<1>3. \A x \in C : x \in Ids /\ children[x] \in Kinds
  BY DEF Children, IsChild
<1> HIDE DEF C, ids
<1>4. /\ DOMAIN ids = 1..Len(ids) /\ Len(ids) \in Nat
      /\ \A k \in DOMAIN ids : ids[k] \in C
  BY <1>2
<1>5. \A k \in DOMAIN ids : StopAct(ids[k], children[ids[k]]) \in Acts
  BY <1>3, <1>4 DEF StopAct, Acts
<1>6. s \in Seq(Acts) /\ DOMAIN s = 1..Len(s) /\ Len(s) = Len(ids) /\ Len(s) \in Nat
  BY <1>4, <1>5
<1>7. \A k \in DOMAIN s : s[k].op = "stop" /\ s[k].id = ids[k]
  BY <1>4, <1>6 DEF StopAct
<1>8. g \in Acts /\ g.op = "give_up"
  BY DEF Acts
<1>9. ShutdownAndGiveUp = s \o <<g>>
  BY DEF ShutdownAndGiveUp, GiveUpAct, ids, C
<1> HIDE DEF s, g
<1>10. s \o <<g>> = q
  BY <1>6, <1>8
<1>11. /\ q \in Seq(Acts) /\ Len(q) = Len(s) + 1 /\ DOMAIN q = 1..(Len(s) + 1)
       /\ q[Len(s) + 1] = g /\ \A j \in 1..Len(s) : q[j] = s[j]
  BY <1>6, <1>8
<1> HIDE DEF q
<1>12. \A j \in DOMAIN q : j \in 1..Len(s) \/ j = Len(s) + 1
  BY <1>6, <1>11
<1>13. \A j \in DOMAIN q :
           (j = Len(q) => q[j].op = "give_up") /\ (j # Len(q) => q[j].op = "stop")
  BY <1>6, <1>7, <1>8, <1>11, <1>12
<1>14. Len(q) \in DOMAIN q
  BY <1>6, <1>11
<1>15. GivesUp(q)
  BY <1>13, <1>14 DEF GivesUp
<1>16. \A x : ~StartsNext(q, x)
  BY <1>13 DEF StartsNext
<1>17. ASSUME NEW x \in Ids, IsChild(x)
       PROVE  Stops(q, x)
  <2>1. x \in Range(ids)
    BY <1>2, <1>17 DEF C
  <2>2. PICK k \in 1..Len(ids) : ids[k] = x
    BY <1>2, <2>1, RangeMember
  <2>3. k \in DOMAIN q /\ q[k] = s[k] /\ k \in DOMAIN s
    BY <1>6, <1>11, <2>2
  <2> QED
    BY <1>7, <2>2, <2>3 DEF Stops
<1> QED
  BY <1>9, <1>10, <1>11, <1>13, <1>15, <1>16, <1>17

\* What the pool finds when it takes an exit.
LEMMA ExitTaken ==
    ASSUME IInv, RecvExit
    PROVE  LET d == Head(mail[Pool]).n IN
           /\ Talk' /\ Answering'
           /\ Alive /\ Alive' /\ queue = <<>> /\ phase' = "drain"
           /\ d \in Insts /\ state[d] = "dead" /\ d \in Begun
           /\ \A i : i # d /\ HasExit(mail[Pool], i) => HasExit(mail'[Pool], i)
           /\ UNCHANGED <<calls, state, born, asked, spoiled, spent>>
<1> DEFINE m == Head(mail[Pool])
<1>1. Talk /\ Children /\ Answering
  BY DEF IInv, Typed
<1>2. /\ Alive /\ queue = <<>> /\ mail[Pool] # <<>> /\ m.kind = "exit" /\ phase' = "drain"
      /\ Taken(Pool) /\ UNCHANGED notTalk
      /\ UNCHANGED <<up, calls, state, born, asked, spoiled, spent>>
  BY DEF RecvExit, Recv, notTalk, instVars, Alive
<1>3. Talk' /\ Answering'
  BY <1>1, <1>2, TakeExitKeeps
<1>4. Pool \in Particles /\ mail[Pool] \in Seq(Msgs)
  BY <1>1, ParticleFacts DEF Talk
<1>5. 1 \in DOMAIN mail[Pool] /\ m = mail[Pool][1] /\ Tail(mail[Pool]) = RemoveAt(mail[Pool], 1)
  BY <1>2, <1>4, TailIsRemoveFirst
<1>6. Fits(Pool, m, calls, casts, state)
  BY <1>1, <1>4, <1>5 DEF Answering, Mailboxes, Sound
<1>7. m.n \in Insts /\ state[m.n] = "dead"
  BY <1>2, <1>6 DEF Fits
<1>8. mail'[Pool] = Tail(mail[Pool])
  BY <1>1, <1>2, <1>4 DEF Taken, Talk
<1>9. \A i : i # m.n /\ HasExit(mail[Pool], i) => HasExit(mail'[Pool], i)
  BY <1>2, <1>4, <1>8, ExitStays
<1> QED
  BY <1>2, <1>3, <1>7, <1>9 DEF Begun, Alive

\* An exit of what is not live for any id any more.
LEMMA ExitUnknownKeeps ==
    ASSUME IInv, RecvExit, \A id \in Ids : live[id] # Head(mail[Pool]).n
    PROVE  IInv'
<1> DEFINE d == Head(mail[Pool]).n
<1>1. Talk /\ Children /\ Answering /\ QueueShape /\ LiveBorn /\ Kept /\ Heard
      /\ RoomLeft /\ PoolLeavesNothing
  BY DEF IInv, Minding, Typed
<1>2. /\ Talk' /\ Answering'
      /\ Alive /\ Alive' /\ queue = <<>> /\ phase' = "drain"
      /\ \A i : i # d /\ HasExit(mail[Pool], i) => HasExit(mail'[Pool], i)
      /\ UNCHANGED <<calls, state, born, asked, spoiled, spent>>
  BY ExitTaken
<1>3. UNCHANGED <<children, recent, live, pending, queue>>
  BY DEF RecvExit, coreVars
<1>4. \A x \in Ids : live[x] # d
  OBVIOUS
<1> HIDE DEF d
<1>5. Children'
  BY <1>1, <1>2, <1>3 DEF Children
<1>6. QueueShape'
  BY <1>2, <1>3, EmptiedQueue
<1>7. Begun' = Begun /\ Restartable' = Restartable /\ Requested' = Requested
  BY <1>2, <1>3 DEF Begun, Restartable, Unasked, Up, Requested
<1>8. LiveBorn'
  BY <1>1, <1>2, <1>3, <1>7 DEF LiveBorn
<1>9. Kept'
  BY <1>1, <1>2, <1>3, <1>7 DEF Kept, Unasked, Up, IsChild
<1>10. Heard'
  BY <1>1, <1>2, <1>3, <1>4 DEF Heard, IsChild, Up
<1>11. RoomLeft'
  BY <1>1, <1>2, <1>3, <1>7 DEF RoomLeft
<1>12. PoolLeavesNothing'
  BY <1>2 DEF PoolLeavesNothing
<1> QED
  BY <1>2, <1>5, <1>6, <1>8, <1>9, <1>10, <1>11, <1>12 DEF IInv, Typed, Minding

\* An exit of what is live for an id: the id is free, starts again, or all end.
LEMMA ExitChildKeeps ==
    ASSUME IInv, RecvExit, NEW id \in Ids, live[id] = Head(mail[Pool]).n,
           live' = [live EXCEPT ![id] = NoInst], pending' = pending \ {id},
           OnChildExit(id, Head(mail[Pool]).reason)
    PROVE  IInv'
<1> DEFINE d == Head(mail[Pool]).n
           FreeNow == queue' = <<>> /\ children'[id] = NoKind
           Again == queue' = <<StartAct(id, children[id])>> /\ children' = children
                    /\ children[id] \in Kinds
           AllEnd == queue' = ShutdownAndGiveUp /\ children' = [c \in Ids |-> NoKind]
<1>1. Talk /\ Children /\ Answering /\ QueueShape /\ LiveBorn /\ Kept /\ Heard
      /\ RoomLeft /\ PoolLeavesNothing
  BY DEF IInv, Minding, Typed
<1>2. /\ Talk' /\ Answering'
      /\ Alive /\ Alive' /\ queue = <<>> /\ phase' = "drain"
      /\ d \in Insts /\ state[d] = "dead" /\ d \in Begun
      /\ \A i : i # d /\ HasExit(mail[Pool], i) => HasExit(mail'[Pool], i)
      /\ UNCHANGED <<calls, state, born, asked, spoiled, spent>>
  BY ExitTaken
<1>3. /\ \A x : ~StartsNext(queue, x) /\ ~Stops(queue, x)
      /\ ~GivesUp(queue) /\ Len(queue) = 0
  BY <1>2, EmptyQueue
<1>4. live[id] = d
  OBVIOUS
<1>5. FreeNow \/ Again \/ AllEnd
  <2>1. children[id] \in Kinds \cup {NoKind}
    BY <1>1 DEF Children
  <2>2. IsChild(id) => children[id] \in Kinds
    BY <2>1 DEF IsChild
  <2> QED
    BY <1>1, <1>2, <2>2 DEF OnChildExit, IsChild, coreVars, Children
<1>6. /\ recent' \in Nat /\ children' \in [Ids -> Kinds \cup {NoKind}]
      /\ FreeNow => \A x \in Ids : x # id => children'[x] = children[x]
  <2>1. recent' = recent \/ recent' = recent + 1
    BY DEF OnChildExit, coreVars
  <2>2. \/ children' = children \/ children' = [children EXCEPT ![id] = NoKind]
        \/ children' = [c \in Ids |-> NoKind]
    BY DEF OnChildExit, coreVars
  <2>3. recent' \in Nat
    BY <1>1, <2>1 DEF Children
  <2>4. children' \in [Ids -> Kinds \cup {NoKind}]
    BY <1>1, <2>2 DEF Children
  <2>5. FreeNow => children' = children \/ children' = [children EXCEPT ![id] = NoKind]
    <3>1. ASSUME queue' = ShutdownAndGiveUp
          PROVE  queue' # <<>>
      BY <1>1, <3>1, AllStops, EmptyQueue
    <3> QED
      BY <1>1, <3>1 DEF OnChildExit, coreVars, Children
  <2> QED
    BY <1>1, <2>3, <2>4, <2>5 DEF Children
<1> HIDE DEF d
<1>7. /\ live'[id] = NoInst /\ \A x \in Ids : x # id => live'[x] = live[x]
      /\ live' \in [Ids -> Insts \cup {NoInst}] /\ pending' \subseteq Ids
  BY <1>1 DEF Children
<1>8. born[d].id = id /\ d # NoInst /\ \A x \in Ids : live[x] = d => x = id
  BY <1>1, <1>2, <1>4 DEF LiveBorn, Insts, NoInst
<1>9. queue' \in Seq(Acts)
  <2>1. CASE Again
    BY <2>1, OneStart
  <2>2. CASE AllEnd
    BY <1>1, <2>2, AllStops
  <2>3. CASE FreeNow
    BY <2>3
  <2> QED
    BY <1>5, <2>1, <2>2, <2>3
<1>10. Children'
  BY <1>1, <1>2, <1>6, <1>7, <1>9 DEF Children
<1>11. QueueShape'
  <2>1. CASE Again
    <3>1. children'[id] # NoKind
      BY <2>1, PoolAssumption
    <3> QED
      BY <1>2, <2>1, <3>1, OneStart DEF QueueShape, IsChild
  <2>2. CASE AllEnd
    <3>1. \A x \in Ids : children'[x] = NoKind
      BY <2>2
    <3> QED
      BY <1>1, <1>2, <2>2, <3>1, AllStops DEF QueueShape, IsChild
  <2>3. CASE FreeNow
    BY <1>2, <2>3, EmptiedQueue
  <2> QED
    BY <1>5, <2>1, <2>2, <2>3
<1>12. Begun' = Begun /\ Requested' = Requested
  BY <1>2 DEF Begun, Requested
<1>13. LiveBorn'
  BY <1>1, <1>2, <1>7, <1>12 DEF LiveBorn
<1>14. Kept'
  <2> SUFFICES ASSUME NEW i \in Begun, state[i] = "up", i \notin asked
               PROVE  /\ live'[born[i].id] = i
                      /\ children'[born[i].id] # NoKind \/ Stops(queue', born[i].id)
                      /\ ~StartsNext(queue', born[i].id)
    BY <1>2, <1>12 DEF Kept, Unasked, Up, IsChild
  <2>1. live[born[i].id] = i /\ children[born[i].id] # NoKind /\ born[i].id \in Ids
    BY <1>1, <1>2, <1>3 DEF Kept, Unasked, Up, IsChild, LiveBorn
  <2>2. born[i].id # id
    BY <1>2, <1>4, <2>1
  <2>3. CASE Again
    BY <1>7, <2>1, <2>2, <2>3, OneStart
  <2>4. CASE AllEnd
    BY <1>1, <1>7, <2>1, <2>2, <2>4, AllStops DEF IsChild
  <2>5. CASE FreeNow
    BY <1>6, <1>7, <2>1, <2>2, <2>5, EmptyQueue
  <2> QED
    BY <1>5, <2>3, <2>4, <2>5
<1>15. Heard'
  <2> SUFFICES ASSUME NEW x \in Ids, x \notin spoiled, children'[x] # NoKind,
                      ~StartsNext(queue', x)
               PROVE  /\ live'[x] # NoInst /\ x \notin pending'
                      /\ state[live'[x]] = "up" \/ HasExit(mail'[Pool], live'[x])
    BY <1>2 DEF Heard, IsChild, Up
  <2>1. x # id /\ children[x] # NoKind
    <3>1. CASE Again
      BY <3>1, OneStart
    <3>2. CASE AllEnd
      BY <3>2
    <3>3. CASE FreeNow
      BY <1>6, <3>3
    <3> QED
      BY <1>5, <3>1, <3>2, <3>3
  <2>2. /\ live[x] # NoInst /\ x \notin pending
        /\ state[live[x]] = "up" \/ HasExit(mail[Pool], live[x])
    BY <1>1, <1>2, <1>3, <2>1 DEF Heard, IsChild, Up
  <2>3. live[x] # d
    BY <1>8, <2>1
  <2> QED
    BY <1>2, <1>7, <2>1, <2>2, <2>3
<1>16. RoomLeft'
  <2> SUFFICES ASSUME ~GivesUp(queue')
               PROVE  Cardinality(Begun) + Cardinality(Restartable') + Len(queue')
                          <= Cardinality(Requested) + spent.exits
    BY <1>2, <1>12 DEF RoomLeft
  <2>1. Len(queue') \in Nat /\ Len(queue') <= 1
    <3>1. CASE Again
      <4>1. Len(queue') = 1
        BY <3>1, OneStart
      <4> QED
        BY <4>1
    <3>2. CASE FreeNow
      <4>1. Len(queue') = 0
        BY <3>2, EmptyQueue
      <4> QED
        BY <4>1
    <3>3. CASE AllEnd
      BY <1>1, <3>3, AllStops
    <3> QED
      BY <1>5, <3>1, <3>2, <3>3
  <2>2. d \in Restartable
    BY <1>2, <1>4, <1>8 DEF Restartable, Unasked, Up
  <2>3. Restartable' \subseteq Restartable \ {d}
    <3> SUFFICES ASSUME NEW i \in Begun, ~(state[i] = "up" /\ i \notin asked),
                        live'[born[i].id] = i
                 PROVE  i \in Restartable /\ i # d
      BY <1>2, <1>12 DEF Restartable, Unasked, Up
    <3>1. born[i].id \in Ids /\ i # NoInst
      BY <1>1 DEF LiveBorn, Begun, Insts, NoInst
    <3>2. born[i].id # id /\ live[born[i].id] = i
      BY <1>7, <3>1
    <3> QED
      BY <1>8, <3>2 DEF Restartable, Unasked, Up
  <2>4. /\ Cardinality(Begun) \in Nat /\ Cardinality(Requested) \in Nat
        /\ spent.exits \in Nat /\ IsFiniteSet(Restartable)
    BY <1>1, Sizes, ExitsSpent
  <2>5. /\ Cardinality(Restartable') \in Nat /\ Cardinality(Restartable) \in Nat
        /\ Cardinality(Restartable') + 1 <= Cardinality(Restartable)
    BY <2>2, <2>3, <2>4, OneLess
  <2>6. Cardinality(Begun) + Cardinality(Restartable) + 0 <= Cardinality(Requested) + spent.exits
    BY <1>1, <1>2, <1>3 DEF RoomLeft
  <2> QED
    BY <2>1, <2>4, <2>5, <2>6
<1>17. PoolLeavesNothing'
  BY <1>2 DEF PoolLeavesNothing
<1> QED
  BY <1>2, <1>10, <1>11, <1>13, <1>14, <1>15, <1>16, <1>17 DEF IInv, Typed, Minding

LEMMA RecvExitKeeps ==
    ASSUME IInv, RecvExit
    PROVE  IInv'
<1>1. CASE \A id \in Ids : live[id] # Head(mail[Pool]).n
  BY <1>1, ExitUnknownKeeps
<1>2. CASE \E id \in Ids : live[id] = Head(mail[Pool]).n
  <2>1. PICK id \in Ids :
            /\ live[id] = Head(mail[Pool]).n
            /\ live' = [live EXCEPT ![id] = NoInst] /\ pending' = pending \ {id}
            /\ OnChildExit(id, Head(mail[Pool]).reason)
    BY <1>2 DEF RecvExit
  <2> QED
    BY <2>1, ExitChildKeeps
<1> QED
  BY <1>1, <1>2

LEMMA RecvRequestKeeps ==
    ASSUME IInv, RecvRequest
    PROVE  IInv'
<1> DEFINE k == Head(mail[Pool]).n
           op == calls[k].op
           id == op.id
           Same == children' = children /\ queue' = <<>>
           Starts1 == /\ children[id] = NoKind /\ op.kind \in Kinds
                      /\ children' = [children EXCEPT ![id] = op.kind]
                      /\ queue' = <<StartAct(id, op.kind)>>
           Stops1 == /\ children[id] \in Kinds
                     /\ children' = [children EXCEPT ![id] = NoKind]
                     /\ queue' = <<StopAct(id, children[id])>>
<1>1. Talk /\ Children /\ Answering /\ QueueShape /\ LiveBorn /\ Kept /\ Heard
      /\ RoomLeft /\ PoolLeavesNothing
  BY DEF IInv, Minding, Typed
<1>2. /\ Alive /\ queue = <<>> /\ mail[Pool] # <<>> /\ Head(mail[Pool]).kind = "request"
      /\ phase' = "drain" /\ calls' = WithServed(calls, k) /\ ReplyAfter(k)
      /\ UNCHANGED <<plan, up, nextRef, waits, handling, casts, deaths, recent, live, pending,
                     state, born, asked, spoiled, spent>>
  BY DEF RecvRequest, Recv, instVars, Alive, WithServed
<1>3. /\ Talk' /\ Answering'
      /\ k \in DOMAIN calls /\ calls[k].to = Pool /\ calls[k].served = 0
      /\ mail'[Pool] = Tail(mail[Pool]) /\ DOMAIN calls' = DOMAIN calls
      /\ \A l \in DOMAIN calls :
            /\ calls'[l].to = calls[l].to
            /\ calls'[l].served = IF l = k THEN calls[l].served + 1 ELSE calls[l].served
  BY <1>1, <1>2, RequestKeeps
<1>4. op \in Ops
  BY <1>1, <1>3 DEF Answering, RefsOnce
<1>5. id \in Ids /\ op.kind \in Kinds
  BY <1>4, PoolAssumption
<1>6. Same \/ Starts1 \/ Stops1
  <2>1. children[id] \in Kinds \cup {NoKind}
    BY <1>1, <1>5 DEF Children
  <2>2. IF op.op = "start" THEN StartChild(id, op.kind) ELSE TerminateChild(id)
    BY DEF RecvRequest
  <2> HIDE DEF k, op, id
  <2>3. CASE StartChild(id, op.kind)
    BY <1>2, <1>5, <2>1, <2>3 DEF StartChild, IsChild
  <2>4. CASE TerminateChild(id)
    BY <1>2, <1>5, <2>1, <2>4 DEF TerminateChild, IsChild
  <2> QED
    BY <2>2, <2>3, <2>4
<1> DEFINE kind == op.kind
<1> HIDE DEF id, kind
<1>7. /\ \A x : ~StartsNext(queue, x) /\ ~Stops(queue, x)
      /\ ~GivesUp(queue) /\ Len(queue) = 0
  BY <1>2, EmptyQueue
<1>8. /\ children' \in [Ids -> Kinds \cup {NoKind}]
      /\ \A x \in Ids : x # id => children'[x] = children[x]
      /\ Starts1 => children'[id] # NoKind
      /\ Stops1 => children'[id] = NoKind
  BY <1>1, <1>5, <1>6, PoolAssumption DEF Children
<1>9. /\ queue' \in Seq(Acts) /\ Len(queue') \in {0, 1} /\ ~GivesUp(queue')
      /\ \A j \in DOMAIN queue' : queue'[j].op # "give_up"
      /\ \A x : StartsNext(queue', x) => x = id /\ Starts1
      /\ \A x : Stops(queue', x) => x = id /\ Stops1
      /\ Starts1 => StartsNext(queue', id)
      /\ Stops1 => Stops(queue', id)
  <2>1. CASE Same
    <3>1. DOMAIN queue' = {} /\ queue' \in Seq(Acts)
      BY <2>1
    <3>2. queue' # <<StartAct(id, op.kind)>> /\ queue' # <<StopAct(id, children[id])>>
      BY <2>1
    <3> QED
      BY <2>1, <3>1, <3>2, EmptyQueue
  <2>2. CASE Starts1
    <3>1. queue' = <<StartAct(id, op.kind)>> /\ op.kind \in Kinds /\ Starts1
      BY <2>2
    <3>4. ASSUME NEW kd \in Kinds, queue' = <<StartAct(id, kd)>>
          PROVE  /\ queue' \in Seq(Acts) /\ Len(queue') = 1 /\ StartsNext(queue', id)
                 /\ \A x : (x # id => ~StartsNext(queue', x)) /\ ~Stops(queue', x)
                 /\ ~GivesUp(queue') /\ \A j \in DOMAIN queue' : queue'[j].op # "give_up"
      BY <1>5, <3>4, OneStart
    <3>2. /\ queue' \in Seq(Acts) /\ Len(queue') = 1 /\ StartsNext(queue', id)
          /\ \A x : (x # id => ~StartsNext(queue', x)) /\ ~Stops(queue', x)
          /\ ~GivesUp(queue') /\ \A j \in DOMAIN queue' : queue'[j].op # "give_up"
      BY <3>1, <3>4
    <3>3. ~Stops1
      BY <3>1, PoolAssumption
    <3> HIDE DEF Starts1, Stops1
    <3> QED
      BY <3>1, <3>2, <3>3
  <2>3. CASE Stops1
    <3>1. queue' = <<StopAct(id, children[id])>> /\ children[id] \in Kinds /\ Stops1
      BY <2>3
    <3>2. /\ queue' \in Seq(Acts) /\ Len(queue') = 1 /\ Stops(queue', id)
          /\ \A x : (x # id => ~Stops(queue', x)) /\ ~StartsNext(queue', x)
          /\ ~GivesUp(queue') /\ \A j \in DOMAIN queue' : queue'[j].op # "give_up"
      BY <1>5, <3>1, OneStop
    <3>3. ~Starts1
      BY <3>1, PoolAssumption
    <3> HIDE DEF Starts1, Stops1
    <3> QED
      BY <3>1, <3>2, <3>3
  <2> QED
    BY <1>6, <2>1, <2>2, <2>3
<1>10. Stops1 \/ Starts1 \/ children' = children
  BY <1>6
<1>11. Starts1 => children[id] = NoKind
  OBVIOUS
<1> HIDE DEF Same, Starts1, Stops1
<1>12. Children'
  BY <1>1, <1>2, <1>8, <1>9 DEF Children
<1>13. QueueShape'
  <2>1. \A x \in Ids :
            /\ StartsNext(queue', x) => Len(queue') = 1 /\ children'[x] # NoKind
            /\ Stops(queue', x) => children'[x] = NoKind
    <3>1. \A x : StartsNext(queue', x) => Len(queue') = 1
      <4>1. Len(queue') = 0 => DOMAIN queue' = {}
        BY <1>9
      <4> QED
        BY <1>9, <4>1 DEF StartsNext
    <3> QED
      BY <1>8, <1>9, <3>1
  <2>2. Len(queue') <= 1
    BY <1>9
  <2>3. Alive' /\ phase' = "drain"
    BY <1>2 DEF Alive
  <2> QED
    BY <1>9, <2>1, <2>2, <2>3 DEF QueueShape, IsChild
<1>14. Begun' = Begun /\ Restartable' = Restartable
  BY <1>2 DEF Begun, Restartable, Unasked, Up
<1>15. LiveBorn'
  BY <1>1, <1>2, <1>14 DEF LiveBorn
<1>16. Kept'
  <2> SUFFICES ASSUME NEW i \in Begun, state[i] = "up", i \notin asked
               PROVE  /\ live[born[i].id] = i
                      /\ children'[born[i].id] # NoKind \/ Stops(queue', born[i].id)
                      /\ ~StartsNext(queue', born[i].id)
    BY <1>2, <1>14 DEF Kept, Unasked, Up, IsChild
  <2>1. live[born[i].id] = i /\ children[born[i].id] # NoKind /\ born[i].id \in Ids
    BY <1>1, <1>2, <1>7 DEF Kept, Unasked, Up, IsChild, LiveBorn
  <2> QED
    BY <1>8, <1>9, <1>10, <1>11, <2>1
<1>17. Heard'
  <2> SUFFICES ASSUME NEW x \in Ids, x \notin spoiled, children'[x] # NoKind,
                      ~StartsNext(queue', x)
               PROVE  /\ live[x] # NoInst /\ x \notin pending
                      /\ state[live[x]] = "up" \/ HasExit(mail'[Pool], live[x])
    BY <1>2 DEF Heard, IsChild, Up
  <2>1. children[x] # NoKind
    BY <1>8, <1>9, <1>10
  <2>2. /\ live[x] # NoInst /\ x \notin pending
        /\ state[live[x]] = "up" \/ HasExit(mail[Pool], live[x])
    BY <1>1, <1>2, <1>7, <2>1 DEF Heard, IsChild, Up
  <2>3. mail[Pool] \in Seq(Msgs) /\ Head(mail[Pool]).kind # "exit"
    BY <1>1, <1>2, ParticleFacts DEF Talk
  <2>4. HasExit(mail[Pool], live[x]) => HasExit(mail'[Pool], live[x])
    BY <1>2, <1>3, <2>3, ExitStays
  <2> QED
    BY <2>2, <2>4
<1>18. RoomLeft'
  <2> SUFFICES Cardinality(Begun) + Cardinality(Restartable) + Len(queue')
                   <= Cardinality(Requested') + spent.exits
    BY <1>2, <1>14 DEF RoomLeft
  <2>1. k \in Requested' /\ Requested \subseteq Requested' \ {k}
    BY <1>3 DEF Requested
  <2>2. IsFiniteSet(Requested')
    BY <1>3, RequestedFinite
  <2>3. /\ Cardinality(Requested) \in Nat /\ Cardinality(Requested') \in Nat
        /\ Cardinality(Requested) + 1 <= Cardinality(Requested')
    BY <2>1, <2>2, OneLess
  <2>4. Cardinality(Begun) + Cardinality(Restartable) + 0 <= Cardinality(Requested) + spent.exits
    BY <1>1, <1>2, <1>7 DEF RoomLeft
  <2>5. /\ Cardinality(Begun) \in Nat /\ Cardinality(Restartable) \in Nat
        /\ spent.exits \in Nat
    BY <1>1, Sizes, ExitsSpent
  <2>6. Len(queue') \in Nat /\ Len(queue') <= 1
    BY <1>9, SMTT(30)
  <2> QED
    BY <2>3, <2>4, <2>5, <2>6
<1>19. PoolLeavesNothing'
  BY <1>2 DEF PoolLeavesNothing
<1> QED
  BY <1>3, <1>12, <1>13, <1>15, <1>16, <1>17, <1>18, <1>19 DEF IInv, Typed, Minding

\* Deadlines are over: what is live for their ids is killed and forgotten.
LEMMA RecvTimeoutKeeps ==
    ASSUME IInv, RecvTimeout
    PROVE  IInv'
<1>1. Talk /\ Children /\ Answering /\ QueueShape /\ LiveBorn /\ Kept /\ Heard
      /\ RoomLeft /\ PoolLeavesNothing
  BY DEF IInv, Minding, Typed
<1>2. PICK overdue \in SUBSET pending :
          LET killed == {live[id] : id \in overdue} \cap {i \in Insts : Up(i)}
          IN  /\ state' = [i \in Insts |-> IF i \in killed THEN "dead" ELSE state[i]]
              /\ mail' = [mail EXCEPT ![Pool] =
                    SetToSeq({ExitMsg(i, "killed") : i \in killed}) \o @]
              /\ asked' = asked \cup killed
              /\ live' = [id \in Ids |-> IF id \in overdue THEN NoInst ELSE live[id]]
              /\ pending' = pending \ overdue
  BY DEF RecvTimeout
<1> DEFINE killed == {live[id] : id \in overdue} \cap {i \in Insts : Up(i)}
           gone == {ExitMsg(i, "killed") : i \in killed}
           t == SetToSeq(gone)
<1>3. /\ state' = [i \in Insts |-> IF i \in killed THEN "dead" ELSE state[i]]
      /\ mail' = [mail EXCEPT ![Pool] = t \o @]
      /\ asked' = asked \cup killed
      /\ live' = [id \in Ids |-> IF id \in overdue THEN NoInst ELSE live[id]]
      /\ pending' = pending \ overdue
  BY <1>2
<1>4. /\ Alive /\ Alive' /\ phase = "wait" /\ phase' = "drain"
      /\ UNCHANGED notTalk
      /\ UNCHANGED <<up, calls, children, recent, queue, born, spoiled, spent>>
  BY DEF RecvTimeout, notTalk, coreVars, Alive
<1>5. killed \subseteq Insts /\ overdue \subseteq pending /\ overdue \subseteq Ids
  BY <1>1, <1>2 DEF Children
<1>6. \A i \in killed : state[i] = "up" /\ \E x \in overdue : live[x] = i
  BY DEF Up
<1>7. t \in Seq(Exits) /\ \A j \in DOMAIN t : t[j].n \in killed
  <2>1. IsFiniteSet(killed)
    BY <1>1, <1>5, Sizes, FS_Subset
  <2>2. [i \in killed |-> ExitMsg(i, "killed")] \in Surjection(killed, gone)
    BY DEF Surjection
  <2>3. IsFiniteSet(gone)
    BY <2>1, <2>2, FS_Surjection
  <2>4. t \in Seq(gone)
    BY <2>3, SetToSeqFacts
  <2>5. \A e \in gone : e \in Exits /\ e.n \in killed
    <3> SUFFICES ASSUME NEW i \in killed
                 PROVE  ExitMsg(i, "killed") \in Exits /\ ExitMsg(i, "killed").n \in killed
      OBVIOUS
    <3>1. i \in Insts /\ "killed" \in Reasons
      BY <1>5 DEF Reasons
    <3> QED
      BY <3>1 DEF ExitMsg, Exits
  <2> HIDE DEF t, gone
  <2> QED
    BY <2>4, <2>5
<1> HIDE DEF killed, t
<1>8. /\ \A i \in Insts : state'[i] = IF i \in killed THEN "dead" ELSE state[i]
      /\ state' \in [Insts -> {"unborn", "up", "dead"}]
      /\ \A x \in Ids : live'[x] = IF x \in overdue THEN NoInst ELSE live[x]
      /\ live' \in [Ids -> Insts \cup {NoInst}]
  BY <1>1, <1>3 DEF Children
<1>9. Talk' /\ Answering'
  <2>1. \A i \in Insts : state[i] = "dead" => state'[i] = "dead"
    BY <1>8
  <2>2. \A j \in DOMAIN t : state'[t[j].n] = "dead"
    BY <1>5, <1>7, <1>8
  <2> QED
    BY <1>1, <1>3, <1>4, <1>7, <2>1, <2>2, ExitsKeep
<1>10. Children'
  BY <1>1, <1>3, <1>4, <1>5, <1>8 DEF Children
<1>11. queue = <<>> /\ queue' = <<>>
  BY <1>1, <1>4 DEF QueueShape
<1>12. QueueShape'
  BY <1>4, <1>11, EmptiedQueue
<1>13. Begun' = Begun /\ Requested' = Requested /\ killed \subseteq Begun
  BY <1>4, <1>5, <1>6, <1>8 DEF Begun, Requested
<1>14. \A i \in Begun : i \in Insts /\ i # NoInst /\ born[i].id \in Ids
  BY <1>1 DEF LiveBorn, Begun, Insts, NoInst
<1>15. \A i \in killed : live[born[i].id] = i /\ born[i].id \in overdue
  BY <1>1, <1>5, <1>6, <1>13, <1>14 DEF LiveBorn
<1>16. LiveBorn'
  BY <1>1, <1>3, <1>4, <1>8, <1>13 DEF LiveBorn
<1>17. Kept'
  <2> SUFFICES ASSUME NEW i \in Begun, state'[i] = "up", i \notin asked'
               PROVE  /\ live'[born[i].id] = i
                      /\ children[born[i].id] # NoKind \/ Stops(queue, born[i].id)
                      /\ ~StartsNext(queue, born[i].id)
    BY <1>4, <1>13 DEF Kept, Unasked, Up, IsChild
  <2>1. state[i] = "up" /\ i \notin asked /\ i \notin killed
    BY <1>3, <1>8, <1>14
  <2>2. /\ live[born[i].id] = i
        /\ children[born[i].id] # NoKind \/ Stops(queue, born[i].id)
        /\ ~StartsNext(queue, born[i].id)
    BY <1>1, <1>4, <2>1 DEF Kept, Unasked, Up, IsChild
  <2>3. born[i].id \notin overdue
    BY <1>14, <2>1, <2>2 DEF killed, Up
  <2> QED
    BY <1>8, <1>14, <2>2, <2>3
<1>18. Heard'
  <2> SUFFICES ASSUME NEW x \in Ids, x \notin spoiled, children[x] # NoKind,
                      ~StartsNext(queue, x)
               PROVE  /\ live'[x] # NoInst /\ x \notin pending'
                      /\ state'[live'[x]] = "up" \/ HasExit(mail'[Pool], live'[x])
    BY <1>4 DEF Heard, IsChild, Up
  <2>1. /\ live[x] # NoInst /\ x \notin pending
        /\ state[live[x]] = "up" \/ HasExit(mail[Pool], live[x])
    BY <1>1, <1>4 DEF Heard, IsChild, Up
  <2>2. live'[x] = live[x] /\ x \notin pending' /\ x \notin overdue
    BY <1>3, <1>5, <1>8, <2>1
  <2>3. live[x] \in Insts /\ live[x] \notin killed
    BY <1>1, <1>13, <1>15, <2>1, <2>2 DEF LiveBorn, Begun
  <2>4. mail[Pool] \in Seq(Msgs) /\ mail'[Pool] = t \o mail[Pool] /\ t \in Seq(Msgs)
    BY <1>1, <1>3, <1>7, ParticleFacts DEF Talk, Msgs
  <2>5. HasExit(mail[Pool], live[x]) => HasExit(mail'[Pool], live[x])
    BY <2>4, ExitStays
  <2> QED
    BY <1>8, <2>1, <2>2, <2>3, <2>5
<1>19. RoomLeft'
  <2>1. Restartable' \subseteq Restartable
    <3> SUFFICES ASSUME NEW i \in Begun, ~(state'[i] = "up" /\ i \notin asked'),
                        live'[born[i].id] = i
                 PROVE  i \in Restartable
      BY <1>4, <1>13 DEF Restartable, Unasked, Up
    <3>1. born[i].id \notin overdue /\ live[born[i].id] = i
      BY <1>8, <1>14
    <3>2. i \notin killed
      BY <1>15, <3>1
    <3> QED
      BY <1>3, <1>8, <1>14, <3>1, <3>2 DEF Restartable, Unasked, Up
  <2>2. /\ Cardinality(Begun) \in Nat /\ Cardinality(Requested) \in Nat
        /\ spent.exits \in Nat /\ IsFiniteSet(Restartable)
    BY <1>1, Sizes, ExitsSpent
  <2>3. /\ Cardinality(Restartable') \in Nat /\ Cardinality(Restartable) \in Nat
        /\ Cardinality(Restartable') <= Cardinality(Restartable)
    BY <2>1, <2>2, Smaller
  <2>4. ~GivesUp(queue) /\ Len(queue) = 0
    BY <1>11, EmptyQueue
  <2>5. Cardinality(Begun) + Cardinality(Restartable) + 0 <= Cardinality(Requested) + spent.exits
    BY <1>1, <1>4, <2>4 DEF RoomLeft
  <2>6. Cardinality(Begun) + Cardinality(Restartable') + 0 <= Cardinality(Requested) + spent.exits
    BY <2>2, <2>3, <2>5
  <2> QED
    BY <1>4, <1>13, <2>4, <2>6 DEF RoomLeft
<1>20. PoolLeavesNothing'
  BY <1>4 DEF PoolLeavesNothing
<1> QED
  BY <1>9, <1>10, <1>12, <1>16, <1>17, <1>18, <1>19, <1>20 DEF IInv, Typed, Minding

-----------------------------------------------------------------------------
(* The specification *)

LEMMA InitKeeps ==
    ASSUME Init
    PROVE  IInv
<1>1. PICK s \in Starts : up = s.up /\ plan = s.plan /\ deaths = s.deaths
  BY DEF Init
<1>2. s.up \subseteq Particles /\ s.plan.calls \in 0..MaxCalls
  BY ApplicationAssumption
<1>3. /\ mail = [p \in Particles |-> <<>>]
      /\ nextRef = [p \in Particles |-> 1]
      /\ waits = [p \in Particles |-> NoCall]
      /\ handling = [p \in Particles |-> NoCall]
      /\ calls = <<>> /\ casts = <<>>
  BY DEF Init, CallsInit
<1>4. /\ children = [id \in Ids |-> NoKind] /\ recent = 0
      /\ live = [id \in Ids |-> NoInst] /\ pending = {}
      /\ queue = <<>> /\ phase = "drain"
      /\ state = [i \in Insts |-> "unborn"] /\ born = [i \in Insts |-> NoKind]
      /\ asked = {} /\ spoiled = {} /\ spent = [exits |-> 0, fails |-> 0]
  BY DEF Init, PoolInit
<1>5. MaxCalls \in Nat /\ MaxExits \in Nat
  BY CallsAssumption, PoolAssumption
<1>6. Talk
  <2>1. Len(calls) = 0 /\ 0 <= s.plan.calls /\ calls \in Seq(CallRecs) /\ casts \in Seq(CastRecs)
    BY <1>2, <1>3, <1>5
  <2>2. mail \in [Particles -> Seq(Msgs)]
    BY <1>3
  <2> QED
    BY <1>1, <1>2, <1>3, <2>1, <2>2 DEF Talk, NoCall
<1>7. Children
  BY <1>4, <1>5 DEF Children, NoInst
<1>8. DOMAIN calls = {} /\ DOMAIN casts = {}
  BY <1>3
<1>9. Answering
  <2>1. \A q \in Particles : mail[q] = <<>>
    BY <1>3
  <2>2. Mailboxes
    BY <2>1, SoundEmpty DEF Mailboxes
  <2> QED
    BY <1>3, <1>8, <2>2 DEF Answering, WaitsOwn, HandlesOwn, RefsOnce, CastsKept, ServedInOrder
<1>10. /\ \A x : ~StartsNext(queue, x) /\ ~Stops(queue, x)
       /\ ~GivesUp(queue) /\ Len(queue) = 0 /\ DOMAIN queue = {}
  BY <1>4, EmptyQueue
<1>11. QueueShape
  BY <1>4, <1>10 DEF QueueShape
<1>12. Begun = {} /\ Restartable = {} /\ Requested = {}
  BY <1>4, <1>8 DEF Begun, Restartable, Requested
<1>13. LiveBorn /\ Kept
  BY <1>4, <1>12 DEF LiveBorn, Kept
<1>14. Heard
  BY <1>4 DEF Heard, IsChild
<1>15. RoomLeft
  <2>1. spent.exits = 0 /\ Cardinality({}) = 0
    BY <1>4, FS_EmptySet
  <2> QED
    BY <1>10, <1>12, <2>1 DEF RoomLeft
<1>16. PoolLeavesNothing
  BY <1>4 DEF PoolLeavesNothing
<1> QED
  BY <1>6, <1>7, <1>9, <1>11, <1>13, <1>14, <1>15, <1>16 DEF IInv, Typed, Minding

\* What is about the root alone leaves everything as it is.
LEMMA StillKeeps ==
    ASSUME IInv, UNCHANGED poolSpecVars
    PROVE  IInv'
<1>1. /\ UNCHANGED <<plan, up, mail, nextRef, waits, handling, calls, casts, deaths>>
      /\ UNCHANGED <<children, recent, live, pending, queue, phase>>
      /\ UNCHANGED <<state, born, asked, spoiled, spent>>
  BY DEF poolSpecVars, callsVars, talkVars, poolVars, coreVars, loopVars, instVars
<1>2. Typed'
  BY <1>1 DEF IInv, Typed, Talk, Children
<1>3. Answering'
  BY <1>1 DEF IInv, Answering, Mailboxes, WaitsOwn, HandlesOwn, RefsOnce, CastsKept,
              ServedInOrder
<1>4. Begun' = Begun /\ Restartable' = Restartable /\ Requested' = Requested
  BY <1>1 DEF Begun, Restartable, Requested, Unasked, Up
<1>5. QueueShape' /\ LiveBorn' /\ Kept'
  BY <1>1, <1>4 DEF IInv, Minding, QueueShape, LiveBorn, Kept, Alive, IsChild, Unasked, Up
<1>6. Heard' /\ RoomLeft' /\ PoolLeavesNothing'
  BY <1>1, <1>4 DEF IInv, Minding, Heard, RoomLeft, PoolLeavesNothing, Alive, IsChild, Up
<1> QED
  BY <1>2, <1>3, <1>5, <1>6 DEF IInv, Minding

LEMMA NextKeeps ==
    ASSUME IInv, [Next]_vars
    PROVE  IInv'
<1>1. CASE CallsNext /\ UNCHANGED poolVars
  BY <1>1, CallsStepKeeps
<1>2. CASE DoStart
  BY <1>2, DoStartKeeps
<1>3. CASE StartFails
  BY <1>3, StartFailsKeeps
<1>4. CASE StopUnknown
  BY <1>4, StopUnknownKeeps
<1>5. CASE DoStop
  BY <1>5, DoStopKeeps
<1>6. CASE DoGiveUp \/ PoolKilled
  BY <1>6, PoolEndKeeps
<1>7. CASE RecvWait \/ WindowMoves
  BY <1>7, WaitKeeps
<1>8. CASE RecvExit
  BY <1>8, RecvExitKeeps
<1>9. CASE RecvRequest
  BY <1>9, RecvRequestKeeps
<1>10. CASE RecvTimeout
  BY <1>10, RecvTimeoutKeeps
<1>11. CASE \E i \in Insts : ChildObeys(i) \/ \E r \in {"normal", "exception"} : ChildExits(i, r)
  BY <1>11, ChildStepKeeps
<1>12. CASE UNCHANGED poolSpecVars
  BY <1>12, StillKeeps
<1>13. (CallsNext /\ UNCHANGED poolVars) \/ PoolNext \/ UNCHANGED poolSpecVars
  BY DEF Next, NodeSteps, Subscribe, Watch, vars
<1> QED
  BY <1>1, <1>2, <1>3, <1>4, <1>5, <1>6, <1>7, <1>8, <1>9, <1>10, <1>11, <1>12, <1>13
     DEF PoolNext, PoolLoop

LEMMA Invariance == Spec => []IInv
<1>1. Init => IInv
  BY InitKeeps
<1>2. IInv /\ [Next]_vars => IInv'
  BY NextKeeps
<1> QED
  BY <1>1, <1>2, PTL DEF Spec

\* Every message in a mailbox, every call and every cast is what a program of
\* this kind can send or make, and so are the pool's loop and its instances.
THEOREM ApplicationTypes == Spec => []Typed
<1>1. IInv => Typed
  BY DEF IInv
<1> QED
  BY <1>1, Invariance, PTL

\* call and recv_ref: a client's call returns no reply but its own, whatever it
\* gave up waiting for before, and by then its request has been handled once,
\* behind all that the client had cast to the server.
THEOREM RepliesAreTheCallsOwn == Spec => []CallsAreAnswered
<1>1. IInv => CallsAreAnswered
  BY DEF IInv, Answering, ServedInOrder, CallsAreAnswered
<1> QED
  BY <1>1, Invariance, PTL

\* run_dynamic_supervisor!: when its loop is quiet, what the pool takes for its
\* children are its children, and nothing runs that it has forgotten, whatever
\* requests, exits, restarts and deadlines went before.
THEOREM PoolKnowsItsChildren == Spec => []PoolMatchesWorld
<1>1. ASSUME IInv
      PROVE  PoolMatchesWorld
  <2> SUFFICES ASSUME Quiet
               PROVE  /\ \A id \in Ids \ spoiled :
                            IsChild(id) => live[id] # NoInst /\ Up(live[id])
                      /\ \A i \in Insts : Up(i) /\ i \notin asked =>
                            IsChild(born[i].id) /\ live[born[i].id] = i
    BY DEF PoolMatchesWorld
  <2>1. Alive /\ QueueShape /\ LiveBorn /\ Kept /\ Heard /\ phase = "wait" /\ mail[Pool] = <<>>
    BY <1>1 DEF Quiet, Alive, IInv, Minding
  <2>2. queue = <<>>
    BY <2>1 DEF QueueShape
  <2>3. \A x : ~StartsNext(queue, x) /\ ~Stops(queue, x)
    BY <2>2, EmptyQueue
  <2>4. \A i : ~HasExit(mail[Pool], i)
    BY <2>1 DEF HasExit
  <2>5. \A i \in Insts : Up(i) => i \in Begun
    BY DEF Up, Begun
  <2>6. \A id \in Ids \ spoiled : IsChild(id) => live[id] # NoInst /\ Up(live[id])
    BY <2>1, <2>3, <2>4 DEF Heard
  <2>7. \A i \in Insts : Up(i) /\ i \notin asked =>
            IsChild(born[i].id) /\ live[born[i].id] = i
    BY <2>1, <2>3, <2>5 DEF Kept, Unasked
  <2> QED
    BY <2>6, <2>7
<1> QED
  BY <1>1, Invariance, PTL

\* GiveUp: a pool that gives up leaves nothing up that it has not asked to stop,
\* and of that only what traps exits.
THEOREM GivingUpStopsAll == Spec => []PoolLeavesNothing
<1>1. IInv => PoolLeavesNothing
  BY DEF IInv, Minding
<1> QED
  BY <1>1, Invariance, PTL
=============================================================================
