--------------------------- MODULE ClusterProofs ---------------------------
(***************************************************************************)
(* Proofs about Cluster for any number of nodes: its types, and that what  *)
(* a node drops on purpose never becomes a report of a loss.               *)
(***************************************************************************)
EXTENDS Cluster, SequenceFacts

-----------------------------------------------------------------------------
(* The inductive invariant of the types.  That no node is its own member     *)
(* rests on what it may be told: nobody connects to itself, so no loss and   *)
(* no report is of its own node, and only m asks to be removed over m's      *)
(* streams.                                                                  *)

FramesOf(n) ==
    [kind : {"announce"}, from : Nodes, nodes : SUBSET Nodes]
    \cup {f \in [kind : {"lost"}, from : Nodes, lost : Nodes, op : Nat] : f.from # f.lost}
    \cup [kind : {"remove"}, from : {n}]
    \cup {DeliverFrame}

Ups(n, m) == IF n = m THEN {FALSE} ELSE BOOLEAN

Stream(n, m) == [up : Ups(n, m), frames : Seq(FramesOf(n))]

Shaped(w) ==
    /\ w = [n \in Nodes |-> [m \in Nodes |-> w[n][m]]]
    /\ \A n, m \in Nodes : w[n][m] \in Seq(Stream(n, m))

Rosters ==
    /\ members \in [Nodes -> SUBSET Nodes]
    /\ quarantined \in [Nodes -> SUBSET Nodes]
    /\ \A n \in Nodes : n \notin members[n] /\ n \notin quarantined[n]

Peers ==
    /\ known \in [Nodes -> SUBSET Nodes]
    /\ linked \in [Nodes -> SUBSET Nodes]
    /\ lingering \in [Nodes -> SUBSET Nodes]
    /\ \A n \in Nodes : n \notin lingering[n]

Events ==
    /\ leaving \in [Nodes -> Seq(Nodes)]
    /\ losses \in [Nodes -> Seq(Nodes)]
    /\ \A n \in Nodes : losses[n] \in Seq(Nodes \ {n})

Counts ==
    /\ nextOp \in [Nodes -> Nat]
    /\ seen \in [Nodes -> [Nodes \X Nodes -> Nat]]
    /\ ended \in [Nodes -> Nat]

Net ==
    /\ broken \in SUBSET SUBSET Nodes
    /\ down \subseteq Nodes

Typed == Shaped(wire) /\ Rosters /\ Peers /\ Events /\ Counts /\ Net

-----------------------------------------------------------------------------
(* Streams *)

LEMMA FramesOfAreFrames == \A n \in Nodes : FramesOf(n) \subseteq Frames
  BY DEF FramesOf, Frames

\* What is sent goes to the end of the last stream, or on one of its own.
LEMMA EnqueueTyped ==
    ASSUME NEW U, FALSE \in U, NEW F, NEW open \in BOOLEAN, NEW fs \in Seq(F),
           NEW streams \in Seq([up : U, frames : Seq(F)])
    PROVE  Enqueue(streams, open, fs) \in Seq([up : U, frames : Seq(F)])
<1> DEFINE R == [up : U, frames : Seq(F)]
<1>1. CASE fs = <<>>
  BY <1>1 DEF Enqueue
<1>2. CASE fs # <<>> /\ ~open
  <2>1. Fresh(fs) \in R
    BY DEF Fresh
  <2> QED
    BY <1>2, <2>1 DEF Enqueue
<1>3. CASE fs # <<>> /\ open
  <2> DEFINE k == Len(streams)
             e == [streams EXCEPT ![k].frames = @ \o fs]
  <2>1. Enqueue(streams, open, fs) = e
    BY <1>3 DEF Enqueue
  <2>2. CASE k \notin DOMAIN streams
    <3>1. e = streams
      BY <2>2
    <3> QED
      BY <2>1, <3>1
  <2>3. CASE k \in DOMAIN streams
    <3>1. PICK j \in 1..Len(streams) : j = k
      BY <2>3
    <3>2. PICK r \in R : r = streams[j]
      <4>1. streams[j] \in R
        BY ElementOfSeq
      <4> QED
        BY <4>1
    <3>3. r.frames \o fs \in Seq(F)
      OBVIOUS
    <3>4. PICK g \in Seq(F) : g = r.frames \o fs
      BY <3>3
    <3>5. PICK q \in R : q = [r EXCEPT !.frames = g]
      <4>1. [r EXCEPT !.frames = g] \in R
        OBVIOUS
      <4> QED
        BY <4>1
    <3>6. e = [streams EXCEPT ![j] = q]
      BY <3>1, <3>2, <3>4, <3>5
    <3> HIDE DEF R
    <3>7. [streams EXCEPT ![j] = q] \in Seq(R)
      <4>1. streams \in Seq(R)
        BY DEF R
      <4> QED
        BY <4>1, ExceptSeq
    <3> QED
      BY <2>1, <3>6, <3>7 DEF R
  <2> QED
    BY <2>2, <2>3
<1> QED
  BY <1>1, <1>2, <1>3

LEMMA SendsShaped ==
    ASSUME NEW w, Shaped(w), NEW n \in Nodes, NEW out,
           \A m \in Nodes : out[m] \in Seq(FramesOf(n))
    PROVE  Shaped(Sends(w, n, out))
<1> DEFINE v == Sends(w, n, out)
<1>1. v = [w EXCEPT ![n] = [m \in Nodes |-> Enqueue(w[n][m], m \in linked[n], out[m])]]
  BY DEF Sends
<1>2. ASSUME NEW m \in Nodes
      PROVE  Enqueue(w[n][m], m \in linked[n], out[m]) \in Seq(Stream(n, m))
  <2>1. FALSE \in Ups(n, m)
    BY DEF Ups
  <2>2. /\ w[n][m] \in Seq([up : Ups(n, m), frames : Seq(FramesOf(n))])
        /\ out[m] \in Seq(FramesOf(n))
    BY DEF Shaped, Stream
  <2>3. (m \in linked[n]) \in BOOLEAN
    OBVIOUS
  <2>4. PICK open \in BOOLEAN : open = (m \in linked[n])
    BY <2>3
  <2>5. Enqueue(w[n][m], open, out[m]) \in Seq([up : Ups(n, m), frames : Seq(FramesOf(n))])
    BY <2>1, <2>2, EnqueueTyped
  <2> QED
    BY <2>4, <2>5 DEF Stream
<1>3. w = [a \in Nodes |-> [m \in Nodes |-> w[a][m]]]
  BY DEF Shaped
<1>4. v[n] = [m \in Nodes |-> Enqueue(w[n][m], m \in linked[n], out[m])]
  BY <1>1, <1>3
<1>5. \A a \in Nodes : a # n => v[a] = w[a]
  BY <1>1, <1>3
<1>6. v = [a \in Nodes |-> [m \in Nodes |-> v[a][m]]]
  BY <1>1, <1>3, <1>4, <1>5
<1>7. \A a, m \in Nodes : v[a][m] \in Seq(Stream(a, m))
  BY <1>2, <1>4, <1>5, ZenonT(40) DEF Shaped
<1> QED
  BY <1>6, <1>7 DEF Shaped

\* The frames of an announcement are the sender's, and so are its other messages.
LEMMA AnnouncesTyped ==
    ASSUME NEW n \in Nodes, NEW to, NEW mem \in SUBSET Nodes, NEW kn \in SUBSET Nodes
    PROVE  \A m \in Nodes : Announces(n, to, mem, kn)[m] \in Seq(FramesOf(n))
<1>1. ASSUME NEW m \in Nodes
      PROVE  RosterFor(n, m, mem, kn) \in FramesOf(n)
  BY DEF RosterFor, AnnounceFrame, FramesOf
<1> QED
  BY <1>1 DEF Announces

LEMMA RemoveAtTyped ==
    ASSUME NEW R, NEW s \in Seq(R), NEW k \in DOMAIN s
    PROVE  RemoveAt(s, k) \in Seq(R)
<1>1. k \in 1..Len(s)
  OBVIOUS
<1>2. SubSeq(s, 1, k - 1) \in Seq(R)
  BY <1>1
<1>3. SubSeq(s, k + 1, Len(s)) \in Seq(R)
  BY <1>1
<1> QED
  BY <1>2, <1>3 DEF RemoveAt

LEMMA RestShaped ==
    ASSUME Shaped(wire), NEW n \in Nodes, NEW m \in Nodes, NEW k \in DOMAIN wire[n][m],
           NEW s \in Stream(n, m)
    PROVE  Shaped(Rest(n, m, k, s))
<1>1. PICK t : t = wire[n][m]
  OBVIOUS
<1>2. t \in Seq(Stream(n, m)) /\ k \in DOMAIN t
  BY <1>1 DEF Shaped
<1>3. wire = [a \in Nodes |-> [b \in Nodes |-> wire[a][b]]]
  BY DEF Shaped
<1>4. PICK u \in Seq(Stream(n, m)) : Rest(n, m, k, s) = [wire EXCEPT ![n][m] = u]
  <2>1. RemoveAt(t, k) \in Seq(Stream(n, m))
    BY <1>2, RemoveAtTyped
  <2>2. [t EXCEPT ![k] = s] \in Seq(Stream(n, m))
    BY <1>2, ExceptSeq
  <2>3. \/ Rest(n, m, k, s) = [wire EXCEPT ![n][m] = RemoveAt(t, k)]
        \/ Rest(n, m, k, s) = [wire EXCEPT ![n][m] = [t EXCEPT ![k] = s]]
    BY <1>1, <1>3 DEF Rest
  <2> QED
    BY <2>1, <2>2, <2>3
<1> DEFINE v == Rest(n, m, k, s)
<1>5. v[n][m] = u /\ \A a, b \in Nodes : ~(a = n /\ b = m) => v[a][b] = wire[a][b]
  BY <1>3, <1>4
<1>6. v = [a \in Nodes |-> [b \in Nodes |-> v[a][b]]]
  BY <1>3, <1>4
<1>7. \A a, b \in Nodes : v[a][b] \in Seq(Stream(a, b))
  BY <1>4, <1>5 DEF Shaped
<1> QED
  BY <1>6, <1>7 DEF Shaped

\* The stream that a step is about, and the next frame of one that is up.
LEMMA StreamTyped ==
    ASSUME Shaped(wire), NEW n \in Nodes, NEW m \in Nodes, NEW k \in DOMAIN wire[n][m]
    PROVE  /\ wire[n][m][k] \in Stream(n, m)
           /\ wire[n][m][k].frames \in Seq(FramesOf(n))
           /\ wire[n][m][k].up => n # m
<1>1. wire[n][m] \in Seq(Stream(n, m))
  BY DEF Shaped
<1>2. wire[n][m][k] \in Stream(n, m)
  BY <1>1
<1> QED
  BY <1>2 DEF Stream, Ups

LEMMA ArrivedTyped ==
    ASSUME Shaped(wire), NEW n \in Nodes, NEW m \in Nodes, NEW k, Arrived(n, m, k)
    PROVE  /\ n # m
           /\ Frame(n, m, k) \in FramesOf(m)
           /\ Shaped(Taken(n, m, k))
<1>1. k \in DOMAIN wire[m][n] /\ wire[m][n][k].up /\ wire[m][n][k].frames # <<>>
  BY DEF Arrived
<1>2. PICK s : s = wire[m][n][k]
  OBVIOUS
<1>3. s \in Stream(m, n) /\ s.frames \in Seq(FramesOf(m)) /\ m # n /\ s.frames # <<>>
  BY <1>1, <1>2, StreamTyped
<1>4. Head(s.frames) \in FramesOf(m) /\ Tail(s.frames) \in Seq(FramesOf(m))
  BY <1>3
<1>5. [s EXCEPT !.frames = Tail(@)] \in Stream(m, n)
  BY <1>3, <1>4 DEF Stream
<1>6. Shaped(Rest(m, n, k, [s EXCEPT !.frames = Tail(@)]))
  BY <1>1, <1>5, RestShaped
<1> QED
  BY <1>2, <1>3, <1>4, <1>6 DEF Frame, Taken


-----------------------------------------------------------------------------
(* The parts of a step *)

LEMMA AnnounceLostTyped ==
    ASSUME Events, NEW n \in Nodes, NEW m \in Nodes \ {n}, AnnounceLost(n, m)
    PROVE  Events'
<1>1. Append(leaving[n], m) \in Seq(Nodes) /\ Append(losses[n], m) \in Seq(Nodes)
  BY DEF Events
<1>2. Append(losses[n], m) \in Seq(Nodes \ {n})
  BY DEF Events
<1>3. /\ leaving' = [leaving EXCEPT ![n] = Append(leaving[n], m)]
      /\ losses' = [losses EXCEPT ![n] = Append(losses[n], m)]
  BY DEF AnnounceLost
<1> QED
  BY <1>1, <1>2, <1>3 DEF Events

LEMMA LingersTyped ==
    ASSUME Peers, NEW n \in Nodes, NEW m \in Nodes, n # m, NEW k,
           lingering' = Lingers(n, m, k), UNCHANGED known, linked' \in [Nodes -> SUBSET Nodes]
    PROVE  Peers'
  BY DEF Peers, Lingers

\* Whom a node learns of is another one that it does not keep out.
LEMMA LearnedTyped ==
    ASSUME NEW n \in Nodes, NEW ns \in SUBSET Nodes
    PROVE  /\ Learned(n, ns) \in SUBSET Nodes
           /\ n \notin Learned(n, ns)
  BY DEF Learned

LEMMA DisconnectTyped ==
    ASSUME Typed, NEW n \in Nodes, NEW m \in Nodes, NEW k, Arrived(n, m, k),
           NEW t \in Nodes \ {n}, NEW out \in [Nodes -> Seq(FramesOf(n))],
           Disconnect(n, t, m, k, out), lingering' = Lingers(n, m, k),
           UNCHANGED <<known, nextOp, netVars, ended>>,
           seen' \in [Nodes -> [Nodes \X Nodes -> Nat]]
    PROVE  Typed'
<1>1. n # m /\ Shaped(Taken(n, m, k))
  BY ArrivedTyped DEF Typed
<1>2. Shaped(wire')
  <2>1. <<RemoveFrame(n)>> \in Seq(FramesOf(n))
    BY DEF RemoveFrame, FramesOf
  <2>2. out[t] \o <<RemoveFrame(n)>> \in Seq(FramesOf(n))
    BY <2>1
  <2>3. PICK o \in [Nodes -> Seq(FramesOf(n))] :
            o = [out EXCEPT ![t] = @ \o <<RemoveFrame(n)>>]
    <3>1. [out EXCEPT ![t] = @ \o <<RemoveFrame(n)>>] \in [Nodes -> Seq(FramesOf(n))]
      BY <2>2
    <3> QED
      BY <3>1
  <2>4. Shaped(Sends(Taken(n, m, k), n, o))
    BY <1>1, SendsShaped
  <2> QED
    BY <2>3, <2>4 DEF Disconnect
<1>3. Rosters'
  BY DEF Typed, Rosters, Disconnect
<1>4. linked' \in [Nodes -> SUBSET Nodes]
  <2>1. Targets(out) \in SUBSET Nodes
    BY DEF Targets
  <2> QED
    BY <2>1 DEF Typed, Peers, Disconnect
<1>5. Peers'
  BY <1>1, <1>4, LingersTyped DEF Typed
<1>6. Events'
  BY AnnounceLostTyped DEF Typed, Disconnect
<1>7. Counts' /\ Net'
  BY DEF Typed, Counts, Net, netVars
<1> QED
  BY <1>2, <1>3, <1>5, <1>6, <1>7 DEF Typed

-----------------------------------------------------------------------------
(* The types *)

LEMMA TypedImpliesTypeOK == Typed => TypeOK
<1> SUFFICES ASSUME Typed PROVE TypeOK
  OBVIOUS
<1>1. wire \in [Nodes -> [Nodes -> Seq([up : BOOLEAN, frames : Seq(Frames)])]]
  <2>1. ASSUME NEW n \in Nodes, NEW m \in Nodes
        PROVE  wire[n][m] \in Seq([up : BOOLEAN, frames : Seq(Frames)])
    <3>1. Stream(n, m) \subseteq [up : BOOLEAN, frames : Seq(Frames)]
      <4>1. Seq(FramesOf(n)) \subseteq Seq(Frames)
        BY FramesOfAreFrames
      <4> QED
        BY <4>1 DEF Stream, Ups
    <3>2. wire[n][m] \in Seq(Stream(n, m))
      BY DEF Typed, Shaped
    <3> QED
      BY <3>1, <3>2, SeqMonotonic
  <2>2. wire = [n \in Nodes |-> [m \in Nodes |-> wire[n][m]]]
    BY DEF Typed, Shaped
  <2> QED
    BY <2>1, <2>2
<1> QED
  BY <1>1 DEF Typed, TypeOK, Rosters, Peers, Events, Counts, Net

\* Where the model may start: some nodes absent, some that have met.
Start == \E mesh, absent \in SUBSET Nodes : Meshed(mesh) /\ Untroubled(absent)

LEMMA StartTyped == Start => Typed
<1> SUFFICES ASSUME NEW mesh \in SUBSET Nodes, NEW absent \in SUBSET Nodes,
                    Meshed(mesh), Untroubled(absent)
             PROVE  Typed
  BY DEF Start
<1> DEFINE met(n) == IF n \in mesh THEN mesh \ {n} ELSE {}
<1>1. Shaped(wire)
  <2>1. wire = [n \in Nodes |-> [m \in Nodes |->
              IF m \in met(n) THEN <<[up |-> TRUE, frames |-> <<>>]>> ELSE <<>>]]
    BY DEF Meshed
  <2>2. ASSUME NEW n \in Nodes, NEW m \in Nodes
        PROVE  wire[n][m] \in Seq(Stream(n, m))
    <3>1. CASE m \in met(n)
      <4>1. [up |-> TRUE, frames |-> <<>>] \in Stream(n, m)
        <5>1. n # m /\ <<>> \in Seq(FramesOf(n))
          BY <3>1
        <5>2. TRUE \in Ups(n, m)
          BY <5>1 DEF Ups
        <5> QED
          BY <5>1, <5>2 DEF Stream
      <4> QED
        BY <2>1, <3>1, <4>1
    <3>2. CASE m \notin met(n)
      BY <2>1, <3>2
    <3> QED
      BY <3>1, <3>2
  <2>3. wire = [n \in Nodes |-> [m \in Nodes |-> wire[n][m]]]
    BY <2>1
  <2> QED
    BY <2>2, <2>3 DEF Shaped
<1>2. Rosters
  BY DEF Rosters, Meshed, Untroubled
<1>3. Peers
  BY DEF Peers, Meshed, Untroubled
<1>4. Events /\ Counts /\ Net
  BY DEF Events, Counts, Net, Untroubled
<1> QED
  BY <1>1, <1>2, <1>3, <1>4 DEF Typed

LEMMA InitStarts == Init => Start
  BY DEF Init, Start


\* Messages of their own: to join, to a particle, to a node that connects.
LEMMA SendersTyped ==
    ASSUME Typed, NEW n \in Nodes, NEW m \in Nodes,
           \/ \E byAddr \in BOOLEAN : Join(n, m, byAddr)
           \/ SendDeliver(n, m)
           \/ \E k \in DOMAIN wire[n][m] : Dial(n, m, k)
    PROVE  Typed'
<1>1. ASSUME NEW byAddr \in BOOLEAN, Join(n, m, byAddr)
      PROVE  Typed'
  <2>1. PICK kn \in SUBSET Nodes :
            kn = IF byAddr THEN known[n] \cup {m} ELSE known[n]
    BY DEF Typed, Peers
  <2>2. Learned(n, {m}) \in SUBSET Nodes /\ n \notin Learned(n, {m})
    BY LearnedTyped
  <2>3. members[n] \in SUBSET Nodes /\ n \notin members[n]
    BY DEF Typed, Rosters
  <2>4. PICK mem \in SUBSET (Nodes \ {n}) : mem = members[n] \cup Learned(n, {m})
    BY <2>2, <2>3
  <2>5. /\ known' = [known EXCEPT ![n] = kn]
        /\ members' = [members EXCEPT ![n] = mem]
        /\ wire' = Sends(wire, n, Announces(n, {m}, mem, kn))
        /\ linked' = [linked EXCEPT ![n] = @ \cup {m}]
        /\ UNCHANGED <<quarantined, lingering, eventVars, reportVars, netVars, ended>>
    BY <1>1, <2>1, <2>4 DEF Join
  <2>6. Shaped(wire')
    <3>1. mem \in SUBSET Nodes
      OBVIOUS
    <3>2. PICK out : out = Announces(n, {m}, mem, kn)
      OBVIOUS
    <3>3. \A x \in Nodes : out[x] \in Seq(FramesOf(n))
      BY <3>1, <3>2, AnnouncesTyped
    <3>4. Shaped(Sends(wire, n, out))
      BY <3>3, SendsShaped DEF Typed
    <3> QED
      BY <2>5, <3>2, <3>4
  <2>7. Rosters' /\ Peers'
    BY <2>5 DEF Typed, Rosters, Peers
  <2>8. Events' /\ Counts' /\ Net'
    BY <2>5 DEF Typed, Events, Counts, Net, eventVars, reportVars, netVars
  <2> QED
    BY <2>6, <2>7, <2>8 DEF Typed
<1>2. ASSUME SendDeliver(n, m)
      PROVE  Typed'
  <2>1. PICK out : out = [Nothing EXCEPT ![m] = <<DeliverFrame>>]
    OBVIOUS
  <2>2. \A x \in Nodes : out[x] \in Seq(FramesOf(n))
    <3>1. DeliverFrame \in FramesOf(n)
      BY DEF FramesOf
    <3>2. \A x \in Nodes : out[x] = IF x = m THEN <<DeliverFrame>> ELSE <<>>
      BY <2>1 DEF Nothing
    <3>3. <<DeliverFrame>> \in Seq(FramesOf(n)) /\ <<>> \in Seq(FramesOf(n))
      BY <3>1
    <3> QED
      BY <3>2, <3>3
  <2>3. Shaped(Sends(wire, n, out))
    BY <2>2, SendsShaped DEF Typed
  <2>4. Shaped(wire')
    BY <1>2, <2>1, <2>3 DEF SendDeliver
  <2>5. Rosters' /\ Peers'
    BY <1>2 DEF SendDeliver, Typed, Rosters, Peers, rosterVars
  <2>6. Events' /\ Counts' /\ Net'
    BY <1>2 DEF SendDeliver, Typed, Events, Counts, Net, eventVars, reportVars, netVars
  <2> QED
    BY <2>4, <2>5, <2>6 DEF Typed
<1>3. ASSUME NEW k \in DOMAIN wire[n][m], Dial(n, m, k)
      PROVE  Typed'
  <2>1. n # m
    BY <1>3 DEF Dial, Path
  <2>2. PICK dialled : dialled = [wire EXCEPT ![n][m][k].up = TRUE]
    OBVIOUS
  <2>3. Shaped(dialled)
    <3>1. PICK s \in Seq(Stream(n, m)) : s = wire[n][m]
      BY DEF Typed, Shaped
    <3>2. PICK i \in 1..Len(s) : i = k
      BY <3>1
    <3>3. PICK r \in Stream(n, m) : r = s[i]
      <4>1. s[i] \in Stream(n, m)
        BY ElementOfSeq
      <4> QED
        BY <4>1
    <3>4. PICK q \in Stream(n, m) : q = [r EXCEPT !.up = TRUE]
      <4>1. [r EXCEPT !.up = TRUE] \in Stream(n, m)
        BY <2>1 DEF Stream, Ups
      <4> QED
        BY <4>1
    <3>5. PICK u \in Seq(Stream(n, m)) : u = [s EXCEPT ![i] = q]
      <4>1. [s EXCEPT ![i] = q] \in Seq(Stream(n, m))
        BY ExceptSeq
      <4> QED
        BY <4>1
    <3>6. wire = [a \in Nodes |-> [b \in Nodes |-> wire[a][b]]]
      BY DEF Typed, Shaped
    <3>7. dialled = [wire EXCEPT ![n][m] = u]
      BY <2>2, <3>1, <3>2, <3>3, <3>4, <3>5, <3>6
    <3>8. dialled[n][m] = u /\ \A a, b \in Nodes : ~(a = n /\ b = m) => dialled[a][b] = wire[a][b]
      BY <3>6, <3>7
    <3>9. dialled = [a \in Nodes |-> [b \in Nodes |-> dialled[a][b]]]
      BY <3>6, <3>7
    <3> QED
      BY <3>8, <3>9 DEF Typed, Shaped
  <2>4. PICK new \in SUBSET (Nodes \ {m}) : new = Learned(m, {n})
    <3>1. Learned(m, {n}) \in SUBSET Nodes /\ m \notin Learned(m, {n})
      BY LearnedTyped
    <3> QED
      BY <3>1
  <2>5. members[m] \in SUBSET Nodes /\ m \notin members[m] /\ known[m] \in SUBSET Nodes
    BY DEF Typed, Rosters, Peers
  <2>6. PICK mem \in SUBSET (Nodes \ {m}) : mem = members[m] \cup new
    BY <2>5
  <2>7. PICK out : out = Announces(m, new, mem, known[m])
    OBVIOUS
  <2>8. /\ members' = [members EXCEPT ![m] = mem]
        /\ wire' = Sends(dialled, m, out)
        /\ linked' = [linked EXCEPT ![m] = @ \cup new]
        /\ UNCHANGED <<quarantined, known, lingering, eventVars, reportVars, netVars, ended>>
    BY <1>3, <2>2, <2>4, <2>6, <2>7 DEF Dial
  <2>9. Shaped(wire')
    <3>1. mem \in SUBSET Nodes
      OBVIOUS
    <3>2. \A x \in Nodes : out[x] \in Seq(FramesOf(m))
      BY <2>5, <2>7, <3>1, AnnouncesTyped
    <3>3. Shaped(Sends(dialled, m, out))
      BY <2>3, <3>2, SendsShaped
    <3> QED
      BY <2>8, <3>3
  <2>10. Rosters' /\ Peers'
    BY <2>8 DEF Typed, Rosters, Peers
  <2>11. Events' /\ Counts' /\ Net'
    BY <2>8 DEF Typed, Events, Counts, Net, eventVars, reportVars, netVars
  <2> QED
    BY <2>9, <2>10, <2>11 DEF Typed
<1> QED
  BY <1>1, <1>2, <1>3

\* Connections that fail or end.
LEMMA EndsTyped ==
    ASSUME Typed, NEW n \in Nodes, NEW m \in Nodes,
           \/ \E k \in DOMAIN wire[n][m] : DialFails(n, m, k)
           \/ \E k \in DOMAIN wire[n][m] :
                 \E i \in 0..Len(wire[n][m][k].frames) : ConnectionEnds(n, m, k, i)
           \/ LingeringEnds(n, m)
    PROVE  Typed'
<1>1. ASSUME NEW k \in DOMAIN wire[n][m], NEW fs \in Seq(FramesOf(n))
      PROVE  Shaped(Rest(n, m, k, Fresh(fs)))
  <2>1. Fresh(fs) \in Stream(n, m)
    BY DEF Fresh, Stream, Ups
  <2> QED
    BY <2>1, RestShaped DEF Typed
<1>2. ASSUME NEW k \in DOMAIN wire[n][m], DialFails(n, m, k)
      PROVE  Typed'
  <2>1. wire[n][m][k].frames \in Seq(FramesOf(n)) /\ wire[n][m][k].frames # <<>>
    BY <1>2, StreamTyped DEF DialFails, Typed
  <2>2. PICK g \in Seq(FramesOf(n)) : g = wire[n][m][k].frames
    BY <2>1
  <2>3. Tail(g) \in Seq(FramesOf(n))
    BY <2>1, <2>2
  <2>4. wire' = Rest(n, m, k, Fresh(Tail(g)))
    BY <1>2, <2>2 DEF DialFails
  <2>5. Shaped(wire')
    BY <1>1, <2>3, <2>4
  <2>6. UNCHANGED <<rosterVars, known, linked, lingering, eventVars, reportVars, netVars, ended>>
    BY <1>2 DEF DialFails
  <2> QED
    BY <2>5, <2>6 DEF Typed, Rosters, Peers, Events, Counts, Net, rosterVars, eventVars,
                      reportVars, netVars
<1>3. ASSUME NEW k \in DOMAIN wire[n][m], NEW i \in 0..Len(wire[n][m][k].frames),
             ConnectionEnds(n, m, k, i)
      PROVE  Typed'
  <2>1. PICK g : g = wire[n][m][k].frames
    OBVIOUS
  <2>2. g \in Seq(FramesOf(n)) /\ n # m
    BY <1>3, <2>1, StreamTyped DEF ConnectionEnds, Typed
  <2>3. SubSeq(g, i + 1, Len(g)) \in Seq(FramesOf(n))
    BY <2>1, <2>2
  <2>4. PICK fs \in Seq(FramesOf(n)) : fs = SubSeq(g, i + 1, Len(g))
    BY <2>3
  <2>5. Shaped(wire')
    <3>1. wire' = Rest(n, m, k, Fresh(fs))
      BY <1>3, <2>1, <2>4 DEF ConnectionEnds
    <3> QED
      BY <1>1, <3>1
  <2>6. Events'
    <3>1. AnnounceLost(n, m) /\ m \in Nodes \ {n}
      BY <1>3, <2>2 DEF ConnectionEnds
    <3> QED
      BY <3>1, AnnounceLostTyped DEF Typed
  <2>7. /\ ended' = [ended EXCEPT ![n] = @ + 1]
        /\ UNCHANGED <<rosterVars, known, linked, lingering, reportVars, netVars>>
    BY <1>3 DEF ConnectionEnds
  <2>8. Rosters' /\ Peers'
    BY <2>7 DEF Typed, Rosters, Peers, rosterVars
  <2>9. Counts' /\ Net'
    BY <2>7 DEF Typed, Counts, Net, reportVars, netVars
  <2> QED
    BY <2>5, <2>6, <2>8, <2>9 DEF Typed
<1>4. ASSUME LingeringEnds(n, m)
      PROVE  Typed'
  <2>1. AnnounceLost(n, m) /\ m \in Nodes \ {n}
    BY <1>4 DEF LingeringEnds, Typed, Peers
  <2>2. Events'
    BY <2>1, AnnounceLostTyped DEF Typed
  <2>3. /\ lingering' = [lingering EXCEPT ![n] = @ \ {m}]
        /\ ended' = [ended EXCEPT ![n] = @ + 1]
        /\ UNCHANGED <<rosterVars, known, linked, wire, reportVars, netVars>>
    BY <1>4 DEF LingeringEnds
  <2>4. Rosters' /\ Peers' /\ Shaped(wire')
    BY <2>3 DEF Typed, Rosters, Peers, rosterVars
  <2>5. Counts' /\ Net'
    BY <2>3 DEF Typed, Counts, Net, reportVars, netVars
  <2> QED
    BY <2>2, <2>4, <2>5 DEF Typed
<1> QED
  BY <1>2, <1>3, <1>4


\* The two reactors, and the end of a quarantine.
LEMMA ReactorsTyped ==
    ASSUME Typed, NEW n \in Nodes, NEW l \in Nodes,
           Forget(n, l) \/ Report(n, l) \/ Expire(n, l)
    PROVE  Typed'
<1>1. ASSUME Forget(n, l)
      PROVE  Typed'
  <2>1. leaving[n] \in Seq(Nodes) /\ leaving[n] # <<>>
    BY <1>1 DEF Forget, Typed, Events
  <2>2. Tail(leaving[n]) \in Seq(Nodes)
    BY <2>1
  <2>3. /\ members' = [members EXCEPT ![n] = @ \ {l}]
        /\ leaving' = [leaving EXCEPT ![n] = Tail(leaving[n])]
        /\ UNCHANGED <<quarantined, linkVars, losses, reportVars, netVars, ended>>
    BY <1>1 DEF Forget
  <2>4. Rosters' /\ Events'
    BY <2>2, <2>3 DEF Typed, Rosters, Events
  <2>5. Shaped(wire') /\ Peers' /\ Counts' /\ Net'
    BY <2>3 DEF Typed, Peers, Counts, Net, linkVars, reportVars, netVars
  <2> QED
    BY <2>4, <2>5 DEF Typed
<1>2. ASSUME Report(n, l)
      PROVE  Typed'
  <2>1. PICK s \in Seq(Nodes \ {n}) : s = losses[n]
    BY DEF Typed, Events
  <2>2. s # <<>> /\ l = Head(s) /\ losses' = [losses EXCEPT ![n] = Tail(s)]
    BY <1>2, <2>1 DEF Report
  <2>3. l \in Nodes \ {n} /\ Tail(s) \in Seq(Nodes \ {n}) /\ Tail(s) \in Seq(Nodes)
    BY <2>2
  <2>4. PICK told \in SUBSET Nodes : told = members[n] \ {l}
    BY DEF Typed, Rosters
  <2>5. UNCHANGED <<rosterVars, known, lingering, leaving, seen, netVars, ended>>
    BY <1>2 DEF Report
  <2>6. /\ Shaped(wire')
        /\ linked' \in [Nodes -> SUBSET Nodes]
        /\ nextOp' \in [Nodes -> Nat]
    <3>1. CASE l \in quarantined[n]
      BY <1>2, <3>1 DEF Report, Typed, Peers, Counts
    <3>2. CASE l \notin quarantined[n]
      <4>1. PICK f \in FramesOf(n) : f = LostFrame(n, l, nextOp[n])
        <5>1. nextOp[n] \in Nat
          BY DEF Typed, Counts
        <5>2. LostFrame(n, l, nextOp[n]) \in FramesOf(n)
          BY <2>3, <5>1 DEF LostFrame, FramesOf
        <5> QED
          BY <5>2
      <4>2. PICK out : out = [m \in Nodes |-> IF m \in told THEN <<f>> ELSE <<>>]
        OBVIOUS
      <4>3. <<f>> \in Seq(FramesOf(n)) /\ <<>> \in Seq(FramesOf(n))
        OBVIOUS
      <4>4. \A m \in Nodes : out[m] \in Seq(FramesOf(n))
        BY <4>2, <4>3
      <4>5. Shaped(Sends(wire, n, out))
        BY <4>4, SendsShaped DEF Typed
      <4>6. /\ nextOp' = [nextOp EXCEPT ![n] = @ + 1]
            /\ wire' = Sends(wire, n, out)
            /\ linked' = [linked EXCEPT ![n] = @ \cup told]
        BY <1>2, <2>4, <3>2, <4>1, <4>2 DEF Report
      <4> QED
        BY <4>5, <4>6 DEF Typed, Peers, Counts
    <3> QED
      BY <3>1, <3>2
  <2>7. Events'
    BY <2>2, <2>3, <2>5 DEF Typed, Events
  <2>8. Rosters' /\ Peers'
    BY <2>5, <2>6 DEF Typed, Rosters, Peers, rosterVars
  <2>9. Counts' /\ Net'
    BY <2>5, <2>6 DEF Typed, Counts, Net, netVars
  <2> QED
    BY <2>6, <2>7, <2>8, <2>9 DEF Typed
<1>3. ASSUME Expire(n, l)
      PROVE  Typed'
  <2>1. /\ quarantined' = [quarantined EXCEPT ![n] = @ \ {l}]
        /\ UNCHANGED <<members, linkVars, eventVars, reportVars, netVars, ended>>
    BY <1>3 DEF Expire
  <2>2. Rosters'
    BY <2>1 DEF Typed, Rosters
  <2> QED
    BY <2>1, <2>2 DEF Typed, Peers, Events, Counts, Net, linkVars, eventVars, reportVars, netVars
<1> QED
  BY <1>1, <1>2, <1>3

\* The handlers of frames.
LEMMA HandlersTyped ==
    ASSUME Typed, NEW n \in Nodes, NEW m \in Nodes, NEW k \in DOMAIN wire[m][n],
           \/ HandleDeliver(n, m, k) \/ HandleAnnounce(n, m, k)
           \/ HandleLostAgain(n, m, k) \/ HandleLost(n, m, k) \/ HandleRemove(n, m, k)
    PROVE  Typed'
<1>1. Arrived(n, m, k) /\ lingering' = Lingers(n, m, k)
  BY DEF HandleDeliver, HandleAnnounce, HandleLostAgain, HandleLost, HandleRemove
<1>2. n # m /\ Frame(n, m, k) \in FramesOf(m) /\ Shaped(Taken(n, m, k))
  BY <1>1, ArrivedTyped DEF Typed
<1>3. PICK f \in FramesOf(m) : f = Frame(n, m, k)
  BY <1>2
<1>4. CASE HandleDeliver(n, m, k) \/ HandleLostAgain(n, m, k)
  <2>1. /\ wire' = Taken(n, m, k)
        /\ UNCHANGED <<rosterVars, known, linked, eventVars, reportVars, netVars, ended>>
    BY <1>4 DEF HandleDeliver, HandleLostAgain
  <2>2. Peers'
    <3>1. linked' \in [Nodes -> SUBSET Nodes]
      BY <2>1 DEF Typed, Peers
    <3> QED
      BY <1>1, <1>2, <2>1, <3>1, LingersTyped DEF Typed
  <2> QED
    BY <1>2, <2>1, <2>2 DEF Typed, Rosters, Events, Counts, Net, rosterVars, eventVars,
                            reportVars, netVars
<1>5. CASE HandleAnnounce(n, m, k)
  <2>1. f.kind = "announce"
    BY <1>3, <1>5 DEF HandleAnnounce
  <2>2. f.from \in Nodes /\ f.nodes \in SUBSET Nodes
    BY <2>1 DEF FramesOf, DeliverFrame
  <2>3. PICK named \in SUBSET Nodes : named = f.nodes \cup {f.from}
    BY <2>2
  <2>4. PICK kn \in SUBSET Nodes : kn = known[n] \cup named
    BY DEF Typed, Peers
  <2>5. PICK new \in SUBSET (Nodes \ {n}) : new = Learned(n, named)
    <3>1. Learned(n, named) \in SUBSET Nodes /\ n \notin Learned(n, named)
      BY LearnedTyped
    <3> QED
      BY <3>1
  <2>6. members[n] \in SUBSET Nodes /\ n \notin members[n]
    BY DEF Typed, Rosters
  <2>7. PICK mem \in SUBSET (Nodes \ {n}) : mem = members[n] \cup new
    BY <2>6
  <2>8. PICK back \in SUBSET Nodes : back = IF mem \ named # {} THEN {f.from} ELSE {}
    BY <2>2
  <2>9. PICK out : out = [x \in Nodes |-> Announces(n, new, mem, kn)[x]
                                          \o Announces(n, back, mem, kn)[x]]
    OBVIOUS
  <2>10. /\ known' = [known EXCEPT ![n] = kn]
         /\ members' = [members EXCEPT ![n] = mem]
         /\ wire' = Sends(Taken(n, m, k), n, out)
         /\ linked' = [linked EXCEPT ![n] = @ \cup new \cup back]
         /\ UNCHANGED <<quarantined, eventVars, reportVars, netVars, ended>>
    BY <1>3, <1>5, <2>3, <2>4, <2>5, <2>7, <2>8, <2>9 DEF HandleAnnounce
  <2>11. Shaped(wire')
    <3>1. mem \in SUBSET Nodes
      OBVIOUS
    <3>2. ASSUME NEW x \in Nodes
          PROVE  out[x] \in Seq(FramesOf(n))
      <4>1. /\ Announces(n, new, mem, kn)[x] \in Seq(FramesOf(n))
            /\ Announces(n, back, mem, kn)[x] \in Seq(FramesOf(n))
        BY <3>1, AnnouncesTyped
      <4>2. PICK a \in Seq(FramesOf(n)), b \in Seq(FramesOf(n)) :
                a = Announces(n, new, mem, kn)[x] /\ b = Announces(n, back, mem, kn)[x]
        BY <4>1
      <4>3. out[x] = a \o b
        BY <2>9, <4>2
      <4> QED
        BY <4>3
    <3>3. Shaped(Sends(Taken(n, m, k), n, out))
      BY <1>2, <3>2, SendsShaped
    <3> QED
      BY <2>10, <3>3
  <2>12. Rosters' /\ Peers'
    BY <1>1, <1>2, <2>10 DEF Typed, Rosters, Peers, Lingers
  <2>13. Events' /\ Counts' /\ Net'
    BY <2>10 DEF Typed, Events, Counts, Net, eventVars, reportVars, netVars
  <2> QED
    BY <2>11, <2>12, <2>13 DEF Typed
<1>6. CASE HandleLost(n, m, k)
  <2>1. f.kind = "lost"
    BY <1>3, <1>6 DEF HandleLost
  <2>2. f \in {g \in [kind : {"lost"}, from : Nodes, lost : Nodes, op : Nat] : g.from # g.lost}
    BY <2>1 DEF FramesOf, DeliverFrame
  <2>3. f.from \in Nodes /\ f.lost \in Nodes /\ f.op \in Nat /\ f.from # f.lost
    BY <2>2
  <2>4. PICK t \in Nodes \ {n} : t = Drops(n, f)
    BY <2>3 DEF Drops
  <2>5. PICK told \in SUBSET Nodes : told = members[n] \ {f.from, f.lost}
    BY DEF Typed, Rosters
  <2>6. PICK out \in [Nodes -> Seq(FramesOf(n))] :
            out = [x \in Nodes |-> IF x \in told THEN <<f>> ELSE <<>>]
    <3>1. f \in FramesOf(n)
      BY <2>2 DEF FramesOf
    <3>2. <<f>> \in Seq(FramesOf(n)) /\ <<>> \in Seq(FramesOf(n))
      BY <3>1
    <3>3. [x \in Nodes |-> IF x \in told THEN <<f>> ELSE <<>>] \in [Nodes -> Seq(FramesOf(n))]
      BY <3>2
    <3> QED
      BY <3>3
  <2>7. /\ seen' = [seen EXCEPT ![n][<<f.from, f.lost>>] = f.op]
        /\ Disconnect(n, t, m, k, out)
        /\ UNCHANGED <<known, nextOp, netVars, ended>>
    BY <1>3, <1>6, <2>4, <2>5, <2>6 DEF HandleLost
  <2>8. seen' \in [Nodes -> [Nodes \X Nodes -> Nat]]
    BY <2>3, <2>7 DEF Typed, Counts
  <2> QED
    BY <1>1, <2>7, <2>8, DisconnectTyped
<1>7. CASE HandleRemove(n, m, k)
  <2>1. f.kind = "remove"
    BY <1>3, <1>7 DEF HandleRemove
  <2>2. f.from = m
    BY <2>1 DEF FramesOf, DeliverFrame
  <2>3. PICK out \in [Nodes -> Seq(FramesOf(n))] : out = Nothing
    <3>1. <<>> \in Seq(FramesOf(n))
      OBVIOUS
    <3>2. Nothing \in [Nodes -> Seq(FramesOf(n))]
      BY <3>1 DEF Nothing
    <3> QED
      BY <3>2
  <2>4. /\ Disconnect(n, m, m, k, out)
        /\ UNCHANGED <<known, reportVars, netVars, ended>>
    BY <1>3, <1>7, <2>2, <2>3 DEF HandleRemove
  <2>5. seen' \in [Nodes -> [Nodes \X Nodes -> Nat]] /\ UNCHANGED <<known, nextOp, netVars, ended>>
    BY <2>4 DEF Typed, Counts, reportVars
  <2>6. m \in Nodes \ {n}
    BY <1>2
  <2> QED
    BY <1>1, <2>4, <2>5, <2>6, DisconnectTyped
<1> QED
  BY <1>4, <1>5, <1>6, <1>7

\* What the network does, and what is no step.
LEMMA NetworkTyped ==
    ASSUME Typed,
           \/ \E n, m \in Nodes : PathBreaks(n, m)
           \/ \E n, m \in Nodes : PathHeals(n, m)
           \/ \E n \in Nodes : Crash(n)
           \/ UNCHANGED vars
    PROVE  Typed'
<1>1. UNCHANGED <<rosterVars, linkVars, eventVars, reportVars, ended>>
  BY DEF PathBreaks, PathHeals, Crash, vars
<1>2. Net'
  BY DEF PathBreaks, PathHeals, Crash, vars, Typed, Net, netVars
<1> QED
  BY <1>1, <1>2 DEF Typed, Rosters, Peers, Events, Counts, rosterVars, linkVars, eventVars, reportVars


LEMMA NextTyped == Typed /\ [Next]_vars => Typed'
<1> SUFFICES ASSUME Typed, [Next]_vars
             PROVE  Typed'
  OBVIOUS
<1>0. Alive \subseteq Nodes
  BY DEF Alive
<1>1. ASSUME NEW n \in Nodes, NEW m \in Nodes, NEW k \in DOMAIN wire[n][m], Writer(n, m, k)
      PROVE  Typed'
  BY <1>1, SendersTyped, EndsTyped DEF Writer
<1>2. ASSUME NEW n \in Nodes, NEW m \in Nodes, NEW k \in DOMAIN wire[m][n], Handler(n, m, k)
      PROVE  Typed'
  BY <1>2, HandlersTyped DEF Handler
<1>3. ASSUME NEW n \in Nodes, NEW m \in Nodes, Reactor(n, m)
      PROVE  Typed'
  BY <1>3, ReactorsTyped, EndsTyped DEF Reactor
<1>4. CASE Goes
  BY <1>1, <1>2, <1>3, <1>4 DEF Goes
<1>5. CASE Joins
  BY <1>0, <1>5, SendersTyped DEF Joins
<1>6. CASE Delivers
  BY <1>0, <1>6, SendersTyped DEF Delivers
<1>7. CASE Expires
  BY <1>0, <1>7, ReactorsTyped DEF Expires
<1>8. CASE Breaks \/ Heals \/ Crashes \/ UNCHANGED vars
  BY <1>8, NetworkTyped DEF Breaks, Heals, Crashes
<1> QED
  BY <1>4, <1>5, <1>6, <1>7, <1>8 DEF Next

\* However many nodes there are and whatever they are told, the variables keep
\* their types and no node becomes its own member or keeps itself out
\* (Cluster::learn, disconnect_deliberately and both handlers of src/partitions.rs).
THEOREM ClusterTypes == Spec => []TypeOK
<1>1. Init => Typed
  BY InitStarts, StartTyped
<1> QED
  BY <1>1, NextTyped, TypedImpliesTypeOK, PTL DEF Spec

\* The same from every state in which some nodes are absent and some have met.
THEOREM MeshedClusterTypes == Start /\ [][Next]_vars => []TypeOK
  BY StartTyped, NextTyped, TypedImpliesTypeOK, PTL

-----------------------------------------------------------------------------
(* No echo.  The losses the reporter has not got to and would report: for    *)
(* each of them, and for each that was reported, a connection has ended.     *)

\* Of losses s, those of nodes that are not kept out (q).
Open(s, q) == {i \in DOMAIN s : s[i] \notin q}

Reportable(n) == Open(losses[n], quarantined[n])

Accounted == \A n \in Nodes : Cardinality(Reportable(n)) + nextOp[n] <= ended[n] + 1

LEMMA OpenFinite ==
    ASSUME NEW S, NEW s \in Seq(S), NEW q
    PROVE  IsFiniteSet(Open(s, q)) /\ Cardinality(Open(s, q)) \in Nat
<1>1. IsFiniteSet(1..Len(s))
  BY FS_Interval
<1>2. Open(s, q) \in SUBSET (1..Len(s))
  BY DEF Open
<1> QED
  BY <1>1, <1>2, FS_Subset, FS_CardinalityType

\* A loss that is announced is one more to report, or none if it is kept quiet.
LEMMA OpenAppend ==
    ASSUME NEW S, NEW s \in Seq(S), NEW e \in S, NEW q
    PROVE  /\ Cardinality(Open(Append(s, e), q)) <= Cardinality(Open(s, q)) + 1
           /\ Cardinality(Open(Append(s, e), q \cup {e})) <= Cardinality(Open(s, q))
<1>1. IsFiniteSet(Open(s, q)) /\ Cardinality(Open(s, q)) \in Nat
  BY OpenFinite
<1>2. Append(s, e) \in Seq(S)
  OBVIOUS
<1>3. Open(Append(s, e), q) \subseteq Open(s, q) \cup {Len(s) + 1}
  BY DEF Open
<1>4. Open(Append(s, e), q \cup {e}) \subseteq Open(s, q)
  BY DEF Open
<1>5. /\ IsFiniteSet(Open(s, q) \cup {Len(s) + 1})
      /\ Cardinality(Open(s, q) \cup {Len(s) + 1}) <= Cardinality(Open(s, q)) + 1
  <2>1. PICK A : A = Open(s, q)
    OBVIOUS
  <2>2. IsFiniteSet(A) /\ Cardinality(A) \in Nat
    BY <1>1, <2>1
  <2>3. /\ IsFiniteSet(A \cup {Len(s) + 1})
        /\ Cardinality(A \cup {Len(s) + 1})
             = IF Len(s) + 1 \in A THEN Cardinality(A) ELSE Cardinality(A) + 1
    BY <2>2, FS_AddElement
  <2> QED
    BY <2>1, <2>2, <2>3
<1>6. Cardinality(Open(Append(s, e), q)) <= Cardinality(Open(s, q) \cup {Len(s) + 1})
  BY <1>3, <1>5, FS_Subset
<1>7. /\ Cardinality(Open(Append(s, e), q)) \in Nat
      /\ Cardinality(Open(s, q) \cup {Len(s) + 1}) \in Nat
  BY <1>2, <1>5, OpenFinite, FS_CardinalityType
<1>8. Cardinality(Open(Append(s, e), q)) <= Cardinality(Open(s, q)) + 1
  BY <1>1, <1>5, <1>6, <1>7
<1>9. Cardinality(Open(Append(s, e), q \cup {e})) <= Cardinality(Open(s, q))
  BY <1>1, <1>4, FS_Subset
<1> QED
  BY <1>8, <1>9

\* Taking the first loss leaves one less to report, if it was to be reported.
LEMMA OpenTail ==
    ASSUME NEW S, NEW s \in Seq(S), s # <<>>, NEW q
    PROVE  /\ Cardinality(Open(Tail(s), q)) <= Cardinality(Open(s, q))
           /\ Head(s) \notin q => Cardinality(Open(Tail(s), q)) + 1 <= Cardinality(Open(s, q))
<1>1. IsFiniteSet(Open(s, q)) /\ Cardinality(Open(s, q)) \in Nat
  BY OpenFinite
<1>2. Tail(s) \in Seq(S) /\ Len(Tail(s)) = Len(s) - 1 /\ Len(s) \in Nat \ {0} /\ Head(s) = s[1]
  OBVIOUS
<1>3. \A i \in 1..(Len(s) - 1) : Tail(s)[i] = s[i + 1]
  OBVIOUS
<1> DEFINE T == Open(s, q) \ {1}
           g == [i \in Open(Tail(s), q) |-> i + 1]
<1>4. /\ IsFiniteSet(T)
      /\ Cardinality(T) = IF 1 \in Open(s, q) THEN Cardinality(Open(s, q)) - 1
                          ELSE Cardinality(Open(s, q))
  BY <1>1, FS_RemoveElement
<1>5. g \in Injection(Open(Tail(s), q), T)
  <2>1. Open(Tail(s), q) = {i \in 1..(Len(s) - 1) : s[i + 1] \notin q}
    BY <1>2, <1>3 DEF Open
  <2>2. Open(s, q) = {i \in 1..Len(s) : s[i] \notin q}
    BY DEF Open
  <2>3. \A i \in Open(Tail(s), q) : i + 1 \in T
    BY <2>1, <2>2, <1>2
  <2>4. \A i, j \in Open(Tail(s), q) : i + 1 = j + 1 => i = j
    BY <2>1
  <2> QED
    BY <2>3, <2>4 DEF Injection, IsInjective
<1>6. Cardinality(Open(Tail(s), q)) <= Cardinality(T)
  BY <1>4, <1>5, FS_Injection
<1>7. Cardinality(Open(Tail(s), q)) \in Nat
  BY <1>2, OpenFinite
<1>8. Head(s) \notin q => 1 \in Open(s, q)
  BY <1>2 DEF Open
<1> QED
  BY <1>1, <1>4, <1>6, <1>7, <1>8


\* A step that announces m's loss by n: one that ended, or one n keeps quiet about.
LEMMA AnnounceAccounted ==
    ASSUME Typed, Accounted, NEW n \in Nodes, NEW m \in Nodes, AnnounceLost(n, m),
           UNCHANGED nextOp,
           \/ /\ UNCHANGED quarantined
              /\ ended' = [ended EXCEPT ![n] = @ + 1]
           \/ /\ quarantined' = [quarantined EXCEPT ![n] = @ \cup {m}]
              /\ UNCHANGED ended
    PROVE  Accounted'
<1> SUFFICES ASSUME NEW a \in Nodes
             PROVE  Cardinality(Open(losses'[a], quarantined'[a])) + nextOp'[a] <= ended'[a] + 1
  BY DEF Accounted, Reportable
<1>1. PICK s \in Seq(Nodes), q \in SUBSET Nodes : s = losses[a] /\ q = quarantined[a]
  BY DEF Typed, Events, Rosters
<1>2. /\ Cardinality(Open(s, q)) \in Nat /\ nextOp[a] \in Nat /\ ended[a] \in Nat
      /\ Cardinality(Open(s, q)) + nextOp[a] <= ended[a] + 1
  <2>1. Cardinality(Open(s, q)) \in Nat
    BY OpenFinite
  <2>2. Cardinality(Open(s, q)) + nextOp[a] <= ended[a] + 1
    BY <1>1 DEF Accounted, Reportable
  <2> QED
    BY <2>1, <2>2 DEF Typed, Counts
<1>3. /\ losses \in [Nodes -> Seq(Nodes)] /\ quarantined \in [Nodes -> SUBSET Nodes]
      /\ ended \in [Nodes -> Nat]
  BY DEF Typed, Events, Rosters, Counts
<1>4. CASE a # n
  <2>1. losses'[a] = s /\ quarantined'[a] = q /\ ended'[a] = ended[a]
    BY <1>1, <1>3, <1>4 DEF AnnounceLost
  <2> QED
    BY <1>2, <2>1
<1>5. CASE a = n
  <2>1. losses'[a] = Append(s, m)
    BY <1>1, <1>3, <1>5 DEF AnnounceLost
  <2>2. Append(s, m) \in Seq(Nodes)
    OBVIOUS
  <2>3. CASE quarantined' = quarantined /\ ended' = [ended EXCEPT ![n] = @ + 1]
    <3>1. Cardinality(Open(Append(s, m), q)) <= Cardinality(Open(s, q)) + 1
      BY OpenAppend
    <3>2. Cardinality(Open(Append(s, m), q)) \in Nat
      BY <2>2, OpenFinite
    <3>3. quarantined'[a] = q /\ ended'[a] = ended[a] + 1
      BY <1>1, <1>3, <1>5, <2>3
    <3> QED
      BY <1>2, <2>1, <3>1, <3>2, <3>3
  <2>4. CASE quarantined' = [quarantined EXCEPT ![n] = @ \cup {m}] /\ UNCHANGED ended
    <3>1. Cardinality(Open(Append(s, m), q \cup {m})) <= Cardinality(Open(s, q))
      BY OpenAppend
    <3>2. Cardinality(Open(Append(s, m), q \cup {m})) \in Nat
      BY <2>2, OpenFinite
    <3>3. quarantined'[a] = q \cup {m} /\ ended'[a] = ended[a]
      BY <1>1, <1>3, <1>5, <2>4
    <3> QED
      BY <1>2, <2>1, <3>1, <3>2, <3>3
  <2> QED
    BY <2>3, <2>4
<1> QED
  BY <1>4, <1>5

LEMMA ReportAccounted ==
    ASSUME Typed, Accounted, NEW n \in Nodes, NEW l \in Nodes, Report(n, l)
    PROVE  Accounted'
<1> SUFFICES ASSUME NEW a \in Nodes
             PROVE  Cardinality(Open(losses'[a], quarantined'[a])) + nextOp'[a] <= ended'[a] + 1
  BY DEF Accounted, Reportable
<1>1. PICK s \in Seq(Nodes), q \in SUBSET Nodes : s = losses[a] /\ q = quarantined[a]
  BY DEF Typed, Events, Rosters
<1>2. /\ Cardinality(Open(s, q)) \in Nat /\ nextOp[a] \in Nat /\ ended[a] \in Nat
      /\ Cardinality(Open(s, q)) + nextOp[a] <= ended[a] + 1
  <2>1. Cardinality(Open(s, q)) \in Nat
    BY OpenFinite
  <2>2. Cardinality(Open(s, q)) + nextOp[a] <= ended[a] + 1
    BY <1>1 DEF Accounted, Reportable
  <2> QED
    BY <2>1, <2>2 DEF Typed, Counts
<1>3. losses \in [Nodes -> Seq(Nodes)] /\ nextOp \in [Nodes -> Nat]
  BY DEF Typed, Events, Counts
<1>4. /\ losses' = [losses EXCEPT ![n] = Tail(@)]
      /\ UNCHANGED <<quarantined, ended>>
      /\ losses[n] # <<>> /\ l = Head(losses[n])
      /\ \/ l \in quarantined[n] /\ UNCHANGED nextOp
         \/ l \notin quarantined[n] /\ nextOp' = [nextOp EXCEPT ![n] = @ + 1]
  BY DEF Report, rosterVars
<1>5. CASE a # n
  BY <1>1, <1>2, <1>3, <1>4, <1>5
<1>6. CASE a = n
  <2>1. s # <<>> /\ losses'[a] = Tail(s) /\ quarantined'[a] = q /\ ended'[a] = ended[a]
    BY <1>1, <1>3, <1>4, <1>6
  <2>2. Cardinality(Open(Tail(s), q)) \in Nat
    <3>1. Tail(s) \in Seq(Nodes)
      BY <2>1
    <3> QED
      BY <3>1, OpenFinite
  <2>3. /\ Cardinality(Open(Tail(s), q)) <= Cardinality(Open(s, q))
        /\ Head(s) \notin q => Cardinality(Open(Tail(s), q)) + 1 <= Cardinality(Open(s, q))
    BY <2>1, OpenTail
  <2>4. \/ nextOp'[a] = nextOp[a]
        \/ Head(s) \notin q /\ nextOp'[a] = nextOp[a] + 1
    BY <1>1, <1>3, <1>4, <1>6
  <2> QED
    BY <1>2, <2>1, <2>2, <2>3, <2>4
<1> QED
  BY <1>5, <1>6

LEMMA ExpireAccounted ==
    ASSUME Typed, Accounted, NEW n \in Nodes, NEW m \in Nodes, Expire(n, m)
    PROVE  Accounted'
<1>1. /\ m \notin Range(losses[n])
      /\ quarantined' = [quarantined EXCEPT ![n] = @ \ {m}]
      /\ UNCHANGED <<losses, nextOp, ended>>
  BY DEF Expire, eventVars, reportVars
<1>2. losses[n] \in Seq(Nodes) /\ quarantined \in [Nodes -> SUBSET Nodes]
  BY DEF Typed, Events, Rosters
<1>3. \A i \in DOMAIN losses[n] : losses[n][i] # m
  BY <1>1 DEF Range
<1>4. \A a \in Nodes : Reportable(a)' = Reportable(a)
  BY <1>1, <1>2, <1>3 DEF Reportable, Open
<1> QED
  BY <1>1, <1>4 DEF Accounted

LEMMA NextAccounted == Typed /\ Accounted /\ [Next]_vars => Accounted'
<1> SUFFICES ASSUME Typed, Accounted, [Next]_vars
             PROVE  Accounted'
  OBVIOUS
<1>0. Alive \subseteq Nodes
  BY DEF Alive
<1>1. ASSUME UNCHANGED <<losses, quarantined, nextOp, ended>>
      PROVE  Accounted'
  BY <1>1 DEF Accounted, Reportable
<1>2. ASSUME NEW n \in Nodes, NEW m \in Nodes, NEW k \in DOMAIN wire[n][m], Writer(n, m, k)
      PROVE  Accounted'
  <2>1. CASE Dial(n, m, k) \/ DialFails(n, m, k)
    BY <1>1, <2>1 DEF Dial, DialFails, rosterVars, eventVars, reportVars
  <2>2. ASSUME NEW i, ConnectionEnds(n, m, k, i)
        PROVE  Accounted'
    <3>1. /\ AnnounceLost(n, m) /\ UNCHANGED <<nextOp, quarantined>>
          /\ ended' = [ended EXCEPT ![n] = @ + 1]
      BY <2>2 DEF ConnectionEnds, rosterVars, reportVars
    <3> QED
      BY <3>1, AnnounceAccounted
  <2> QED
    BY <1>2, <2>1, <2>2 DEF Writer
<1>3. ASSUME NEW n \in Nodes, NEW m \in Nodes, NEW k \in DOMAIN wire[m][n], Handler(n, m, k)
      PROVE  Accounted'
  <2>1. CASE HandleDeliver(n, m, k) \/ HandleAnnounce(n, m, k) \/ HandleLostAgain(n, m, k)
    BY <1>1, <2>1 DEF HandleDeliver, HandleAnnounce, HandleLostAgain, rosterVars, eventVars,
                      reportVars
  <2>2. CASE HandleLost(n, m, k) \/ HandleRemove(n, m, k)
    <3>1. Arrived(n, m, k)
      BY <2>2 DEF HandleLost, HandleRemove
    <3>2. n # m /\ Frame(n, m, k) \in FramesOf(m)
      BY <3>1, ArrivedTyped DEF Typed
    <3>3. PICK f \in FramesOf(m) : f = Frame(n, m, k)
      BY <3>2
    <3>4. PICK t \in Nodes : \E out : Disconnect(n, t, m, k, out)
      <4>1. CASE HandleLost(n, m, k)
        <5>1. f.kind = "lost"
          BY <3>3, <4>1 DEF HandleLost
        <5>2. f.from \in Nodes /\ f.lost \in Nodes
          BY <5>1 DEF FramesOf, DeliverFrame
        <5>3. Drops(n, f) \in Nodes
          BY <5>2 DEF Drops
        <5> QED
          BY <3>3, <4>1, <5>3 DEF HandleLost
      <4>2. CASE HandleRemove(n, m, k)
        <5>1. f.kind = "remove"
          BY <3>3, <4>2 DEF HandleRemove
        <5>2. f.from \in Nodes
          BY <5>1 DEF FramesOf, DeliverFrame
        <5> QED
          BY <3>3, <4>2, <5>2 DEF HandleRemove
      <4> QED
        BY <2>2, <4>1, <4>2
    <3>5. AnnounceLost(n, t) /\ quarantined' = [quarantined EXCEPT ![n] = @ \cup {t}]
      BY <3>4 DEF Disconnect
    <3>6. UNCHANGED <<nextOp, ended>>
      BY <2>2 DEF HandleLost, HandleRemove, reportVars
    <3> QED
      BY <3>5, <3>6, AnnounceAccounted
  <2> QED
    BY <1>3, <2>1, <2>2 DEF Handler
<1>4. ASSUME NEW n \in Nodes, NEW m \in Nodes, Reactor(n, m)
      PROVE  Accounted'
  <2>1. CASE Forget(n, m)
    BY <1>1, <2>1 DEF Forget, reportVars
  <2>2. CASE Report(n, m)
    BY <2>2, ReportAccounted
  <2>3. CASE LingeringEnds(n, m)
    <3>1. /\ AnnounceLost(n, m) /\ UNCHANGED <<nextOp, quarantined>>
          /\ ended' = [ended EXCEPT ![n] = @ + 1]
      BY <2>3 DEF LingeringEnds, rosterVars, reportVars
    <3> QED
      BY <3>1, AnnounceAccounted
  <2> QED
    BY <1>4, <2>1, <2>2, <2>3 DEF Reactor
<1>5. CASE Goes
  BY <1>2, <1>3, <1>4, <1>5 DEF Goes
<1>6. CASE Joins
  BY <1>1, <1>6 DEF Joins, Join, eventVars, reportVars
<1>7. CASE Delivers
  BY <1>1, <1>7 DEF Delivers, SendDeliver, rosterVars, eventVars, reportVars
<1>8. CASE Expires
  BY <1>0, <1>8, ExpireAccounted DEF Expires
<1>9. CASE Breaks \/ Heals \/ Crashes \/ UNCHANGED vars
  BY <1>1, <1>9 DEF Breaks, Heals, Crashes, PathBreaks, PathHeals, Crash, vars, rosterVars,
                    eventVars, reportVars
<1> QED
  BY <1>5, <1>6, <1>7, <1>8, <1>9 DEF Next

LEMMA StartAccounted == Start => Accounted
<1> SUFFICES ASSUME NEW absent \in SUBSET Nodes, Untroubled(absent)
             PROVE  Accounted
  BY DEF Start
<1>1. \A n \in Nodes : Reportable(n) = {} /\ nextOp[n] = 1 /\ ended[n] = 0
  BY DEF Untroubled, Reportable, Open
<1>2. Cardinality({}) = 0
  BY FS_EmptySet
<1> QED
  BY <1>1, <1>2 DEF Accounted

LEMMA AccountedNoEcho == Typed /\ Accounted => NoEcho
<1> SUFFICES ASSUME Typed, Accounted, NEW n \in Nodes
             PROVE  nextOp[n] - 1 <= ended[n]
  BY DEF NoEcho
<1>1. losses[n] \in Seq(Nodes)
  BY DEF Typed, Events
<1>2. Cardinality(Reportable(n)) \in Nat
  BY <1>1, OpenFinite DEF Reportable
<1> QED
  BY <1>2 DEF Typed, Counts, Accounted

\* In no cluster does a deliberate disconnect come back as a report: a node
\* reports at most as many losses as connections of its own have ended (the
\* quarantine check of spawn_loss_reporter, src/partitions.rs).
THEOREM DisconnectsDoNotEcho == Spec => []NoEcho
<1>1. Init => Typed /\ Accounted
  BY InitStarts, StartTyped, StartAccounted
<1> QED
  BY <1>1, NextTyped, NextAccounted, AccountedNoEcho, PTL DEF Spec

\* The same from every state in which some nodes are absent and some have met.
THEOREM MeshedDisconnectsDoNotEcho == Start /\ [][Next]_vars => []NoEcho
  BY StartTyped, StartAccounted, NextTyped, NextAccounted, AccountedNoEcho, PTL
=============================================================================
