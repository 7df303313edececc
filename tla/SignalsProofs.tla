--------------------------- MODULE SignalsProofs ---------------------------
(***************************************************************************)
(* Proofs about Signals for any number of nodes, particles and faults: its *)
(* types, that signals tell the truth, and that links and monitors fire.   *)
(***************************************************************************)
EXTENDS Signals, SequenceFacts

-----------------------------------------------------------------------------
(* The inductive invariants *)

\* A frame that tells of a death tells the truth of it, or answers its receiver;
\* one that carries an exit-signal carries what its sender asked for.
TrueFrame(f) ==
    /\ f.kind \in {"exit", "down"} =>
          \/ f.from \notin alive /\ f.reason = reason[f.from]
          \/ f.reason = "noproc" /\ f.from = f.to
    /\ f.kind = "signal" => Asked(f.from, f.to, f.reason) \in called

TrueDeath(d) == d.pid \notin alive /\ d.reason = reason[d.pid]

\* What stands behind the truth of the signals: that of the frames, of the deaths
\* they come from and of what the reactor fires, and that nothing is lost before
\* the first fault.
FramesAreTrue == \A n, m \in Nodes : \A f \in Range(wire[n][m]) : TrueFrame(f)
DeathsAreTrue == \A n \in Nodes : \A d \in Range(deaths[n]) : TrueDeath(d)
LossesAreTrue ==
    \A n \in Nodes :
        /\ \A m \in Range(lost[n]) : <<n, m>> \in losses
        /\ \A x \in firing[n].todo : Home[x.who] = n /\ <<n, Home[x.about]>> \in losses
FaultsAreKnown ==
    faultless =>
        /\ down = {} /\ broken = {}
        /\ \A n \in Nodes : lost[n] = <<>> /\ firing[n] = NotFiring

\* Monitors have refs, which is what tells them from links.
MonitorsHaveRefs ==
    /\ \A x \in monitoredBy : x.ref # 0
    /\ \A n, m \in Nodes : \A f \in Range(wire[n][m]) : f.kind = "monitor" => f.ref # 0

\* The frame, and before it the death, that tells x.
Tells(f, x) ==
    /\ f.from = x.about /\ f.to = x.who /\ f.ref = x.ref
    /\ IF x.ref = 0 THEN f.kind = "exit" /\ IsAbnormal(f.reason) ELSE f.kind = "down"

Names(d, x) ==
    /\ d.pid = x.about
    /\ IF x.ref = 0 THEN x.who \in d.links /\ IsAbnormal(d.reason) ELSE x \in d.watchers

Coming(x) ==
    \/ \E f \in Range(wire[Home[x.about]][Home[x.who]]) : Tells(f, x)
    \/ \E d \in Range(deaths[Home[x.about]]) : Names(d, x)

\* The half is there, and its node will see the loss of the other, or the path
\* is whole and word is on its way.
Watched(x) ==
    /\ Holds(x)
    /\ firing[Home[x.who]].node # Home[x.about]
    /\ \/ Home[x.about] \in Range(lost[Home[x.who]])
       \/ /\ Home[x.about] \in conn[Home[x.who]]
          /\ ~Path(Home[x.who], Home[x.about]) \/ Coming(x)

\* What is owed has been told, is being fired, is on its way with nothing to stop
\* it, or is watched by its own node.
Due(x) ==
    \/ Told(x)
    \/ x \in firing[Home[x.who]].todo
    \/ faultless /\ Coming(x)
    \/ Watched(x)

OwedIsDue == \A x \in owed : Due(x)

\* Whether q will hold p once the frames s are handled, when it does now or not:
\* its last word from p is a link, or there is none and it does.
IsFrame(f, kind, p, q) == f.kind = kind /\ f.from = p /\ f.to = q

EndsLinked(s, p, q, now) ==
    \/ \E i \in 1..Len(s) :
          IsFrame(s[i], "link", p, q) /\ \A j \in (i + 1)..Len(s) : ~IsFrame(s[j], "unlink", p, q)
    \/ now /\ \A j \in 1..Len(s) : ~IsFrame(s[j], "unlink", p, q)

WillHold(p, q) == EndsLinked(wire[Home[p]][Home[q]], p, q, p \in links[q])

\* Links and unlinks travel between the nodes of their two ends.
FramesAreRouted ==
    \A n, m \in Nodes : \A f \in Range(wire[n][m]) :
        f.kind \in {"link", "unlink"} => Home[f.from] = n /\ Home[f.to] = m

\* Calls of a pair that is not loose have not crossed, and its two halves are
\* about to agree.
HalvesAgree ==
    faultless =>
        \A p, q \in alive : {p, q} \notin loose =>
            /\ ~(InFlight("link", p, q) /\ InFlight("unlink", q, p))
            /\ WillHold(p, q) <=> WillHold(q, p)

-----------------------------------------------------------------------------
(* The data: frames, and what a step puts on the wire *)

LEMMA FrameTypes ==
    ASSUME NEW p \in Pids, NEW q \in Pids, NEW r \in 0..MaxRef, NEW why \in Reasons,
           NEW named \in BOOLEAN
    PROVE  /\ LinkFrame(p, q, named) \in Frames
           /\ UnlinkFrame(p, q, named) \in Frames
           /\ MonitorFrame(p, q, r, named) \in Frames
           /\ SignalFrame(p, q, why, named) \in Frames
           /\ ExitFrame(p, q, why) \in Frames
           /\ DownFrame(p, q, r, why) \in Frames
<1>1. 0 \in 0..MaxRef /\ "none" \in Reasons
  BY SignalsAssumption DEF Reasons, ExitReasons
<1> QED
  BY <1>1 DEF LinkFrame, UnlinkFrame, MonitorFrame, SignalFrame, ExitFrame, DownFrame, Frames

LEMMA FrameFields ==
    ASSUME NEW p, NEW q, NEW r, NEW why, NEW named
    PROVE  /\ LinkFrame(p, q, named).kind = "link"
           /\ LinkFrame(p, q, named).from = p
           /\ LinkFrame(p, q, named).to = q
           /\ UnlinkFrame(p, q, named).kind = "unlink"
           /\ UnlinkFrame(p, q, named).from = p
           /\ UnlinkFrame(p, q, named).to = q
           /\ MonitorFrame(p, q, r, named).kind = "monitor"
           /\ MonitorFrame(p, q, r, named).from = p
           /\ MonitorFrame(p, q, r, named).to = q
           /\ MonitorFrame(p, q, r, named).ref = r
           /\ SignalFrame(p, q, why, named).kind = "signal"
           /\ SignalFrame(p, q, why, named).from = p
           /\ SignalFrame(p, q, why, named).to = q
           /\ SignalFrame(p, q, why, named).reason = why
           /\ ExitFrame(p, q, why).kind = "exit"
           /\ ExitFrame(p, q, why).from = p
           /\ ExitFrame(p, q, why).to = q
           /\ ExitFrame(p, q, why).ref = 0
           /\ ExitFrame(p, q, why).reason = why
           /\ DownFrame(p, q, r, why).kind = "down"
           /\ DownFrame(p, q, r, why).from = p
           /\ DownFrame(p, q, r, why).to = q
           /\ DownFrame(p, q, r, why).ref = r
           /\ DownFrame(p, q, r, why).reason = why
  BY DEF LinkFrame, UnlinkFrame, MonitorFrame, SignalFrame, ExitFrame, DownFrame

LEMMA ZeroRef == 0 \in 0..MaxRef
  BY SignalsAssumption

LEMMA SignalFacts ==
    ASSUME NEW p \in Pids, NEW r \in 0..MaxRef, NEW why \in Reasons
    PROVE  Signal(p, r, why) \in Mail /\ Signal(p, 0, why) \in Mail /\ Sent(p, why) \in Mail
  BY ZeroRef DEF Signal, Sent, Mail

LEMMA GivenReasons ==
    ASSUME NEW why \in Given
    PROVE  why \in Reasons
  BY SignalsAssumption DEF Reasons

LEMMA SignalFrameType ==
    ASSUME NEW p \in Pids, NEW q \in Pids, NEW why \in Given, NEW named \in BOOLEAN
    PROVE  SignalFrame(p, q, why, named) \in Frames
  BY GivenReasons, ZeroRef, FrameTypes

LEMMA RelationFields ==
    ASSUME NEW x \in Relations
    PROVE  /\ x.who \in Pids /\ x.about \in Pids /\ x.ref \in 0..MaxRef
           /\ Home[x.who] \in Nodes /\ Home[x.about] \in Nodes
           /\ x = [who |-> x.who, about |-> x.about, ref |-> x.ref]
  BY SignalsAssumption DEF Relations

LEMMA RelationsFinite == IsFiniteSet(Relations)
<1> DEFINE D == (Pids \X Pids) \X (0..MaxRef)
           g == [t \in D |-> [who |-> t[1][1], about |-> t[1][2], ref |-> t[2]]]
<1>1. IsFiniteSet(Pids \X Pids)
  BY SignalsAssumption, FS_Product
<1>2. IsFiniteSet(0..MaxRef)
  BY SignalsAssumption, FS_Interval
<1>3. IsFiniteSet(D)
  BY <1>1, <1>2, FS_Product
<1>4. g \in [D -> Relations]
  BY DEF Relations
<1>5. ASSUME NEW x \in Relations PROVE \E t \in D : g[t] = x
  <2>1. <<<<x.who, x.about>>, x.ref>> \in D
    BY RelationFields
  <2>2. g[<<<<x.who, x.about>>, x.ref>>] = x
    BY <2>1, RelationFields
  <2> QED
    BY <2>1, <2>2
<1>6. g \in Surjection(D, Relations)
  BY <1>4, <1>5 DEF Surjection
<1> QED
  BY <1>3, <1>6, FS_Surjection

\* The frames of a death: those of its links and those of its watchers.
ExitsOf(d) == {ExitFrame(d.pid, q, d.reason) : q \in d.links}
DownsOf(d) == {DownFrame(d.pid, x.who, x.ref, d.reason) : x \in d.watchers}

LEMMA DeathFrames ==
    ASSUME NEW d \in Deaths
    PROVE  /\ ExitsOf(d) \in SUBSET Frames /\ IsFiniteSet(ExitsOf(d))
           /\ DownsOf(d) \in SUBSET Frames /\ IsFiniteSet(DownsOf(d))
<1>0. /\ d.pid \in Pids /\ d.reason \in Reasons
      /\ d.links \in SUBSET Pids /\ d.watchers \in SUBSET Relations
  BY DEF Deaths
<1>1. IsFiniteSet(d.links) /\ IsFiniteSet(d.watchers)
  BY <1>0, SignalsAssumption, RelationsFinite, FS_Subset
<1>2. [q \in d.links |-> ExitFrame(d.pid, q, d.reason)] \in Surjection(d.links, ExitsOf(d))
  BY DEF Surjection, ExitsOf
<1>3. [x \in d.watchers |-> DownFrame(d.pid, x.who, x.ref, d.reason)]
          \in Surjection(d.watchers, DownsOf(d))
  BY DEF Surjection, DownsOf
<1>4. IsFiniteSet(ExitsOf(d)) /\ IsFiniteSet(DownsOf(d))
  BY <1>1, <1>2, <1>3, FS_Surjection
<1>5. \A q \in d.links : ExitFrame(d.pid, q, d.reason) \in Frames
  <2>1. 0 \in 0..MaxRef /\ TRUE \in BOOLEAN
    BY SignalsAssumption
  <2> QED
    BY <1>0, <2>1, FrameTypes
<1>6. \A x \in d.watchers : DownFrame(d.pid, x.who, x.ref, d.reason) \in Frames
  <2>1. TRUE \in BOOLEAN
    OBVIOUS
  <2> QED
    BY <1>0, <2>1, RelationFields, FrameTypes
<1> QED
  BY <1>4, <1>5, <1>6 DEF ExitsOf, DownsOf

Wires == [Nodes -> [Nodes -> Seq(Frames)]]

\* The frames of fs, or the one frame, sent by n, that go from a to b; and a queue
\* that has grown.
For(fs, n, a, b) == {f \in fs : a = n /\ Home[f.to] = b}
One(f, n, a, b) == IF a = n /\ Home[f.to] = b THEN {f} ELSE {}
Grows(u, s, fs) == \E t \in Seq(Frames) : u = s \o t /\ Range(t) = fs

LEMMA GrowsFacts ==
    ASSUME NEW s \in Seq(Frames), NEW u, NEW fs, Grows(u, s, fs)
    PROVE  u \in Seq(Frames) /\ Range(u) = Range(s) \cup fs
  BY RangeConcat DEF Grows

LEMMA SendFacts ==
    ASSUME NEW w \in Wires, NEW n \in Nodes, NEW f \in Frames
    PROVE  /\ Send(w, n, f) \in Wires
           /\ \A a, b \in Nodes :
                 Send(w, n, f)[a][b] = IF a = n /\ b = Home[f.to] THEN Append(w[a][b], f)
                                       ELSE w[a][b]
           /\ \A a, b \in Nodes :
                 Range(Send(w, n, f)[a][b]) = Range(w[a][b]) \cup One(f, n, a, b)
<1>1. f.to \in Pids /\ Home[f.to] \in Nodes
  BY SignalsAssumption DEF Frames
<1>2. \A a, b \in Nodes : w[a][b] \in Seq(Frames)
  BY DEF Wires
<1>3. \A a, b \in Nodes : /\ Append(w[a][b], f) \in Seq(Frames)
                          /\ Range(Append(w[a][b], f)) = Range(w[a][b]) \cup {f}
  BY <1>2, RangeAppend
<1>4. Send(w, n, f) \in Wires
  BY <1>1, <1>3 DEF Send, Wires
<1>5. \A a, b \in Nodes :
         Send(w, n, f)[a][b] = IF a = n /\ b = Home[f.to] THEN Append(w[a][b], f) ELSE w[a][b]
  BY <1>1 DEF Send, Wires
<1>6. \A a, b \in Nodes : One(f, n, a, b) = IF a = n /\ b = Home[f.to] THEN {f} ELSE {}
  BY DEF One
<1>7. ASSUME NEW a \in Nodes, NEW b \in Nodes
      PROVE  Range(Send(w, n, f)[a][b]) = Range(w[a][b]) \cup One(f, n, a, b)
  <2>1. CASE a = n /\ b = Home[f.to]
    BY <2>1, <1>3, <1>5, <1>6
  <2>2. CASE ~(a = n /\ b = Home[f.to])
    BY <2>2, <1>5, <1>6
  <2> QED
    BY <2>1, <2>2
<1> QED
  BY <1>4, <1>5, <1>7

\* SendAll appends to the queues of n a list of the frames for each of them.
LEMMA SendAllFacts ==
    ASSUME NEW w \in Wires, NEW n \in Nodes, NEW fs, fs \subseteq Frames, IsFiniteSet(fs)
    PROVE  /\ SendAll(w, n, fs) \in Wires
           /\ \A a, b \in Nodes : Grows(SendAll(w, n, fs)[a][b], w[a][b], For(fs, n, a, b))
<1> DEFINE G(m) == {f \in fs : Home[f.to] = m}
           T(m) == SetToSeq(G(m))
<1>1. \A m : IsFiniteSet(G(m))
  <2> SUFFICES ASSUME NEW m PROVE IsFiniteSet(G(m))
    OBVIOUS
  <2>1. G(m) \in SUBSET fs
    OBVIOUS
  <2> QED
    BY <2>1, FS_Subset
<1>2. \A m : T(m) \in Seq(G(m)) /\ Range(T(m)) = G(m)
  BY <1>1, SetToSeqFacts
<1>3. \A m : T(m) \in Seq(Frames) /\ Range(T(m)) = G(m)
  <2> SUFFICES ASSUME NEW m PROVE T(m) \in Seq(Frames)
    BY <1>2
  <2>1. G(m) \subseteq Frames
    OBVIOUS
  <2>2. T(m) \in Seq(G(m))
    BY <1>2
  <2> HIDE DEF G, T
  <2> QED
    BY <2>1, <2>2
<1>4. \A a, b \in Nodes : w[a][b] \in Seq(Frames)
  BY DEF Wires
<1>5. SendAll(w, n, fs) = [w EXCEPT ![n] = [m \in Nodes |-> w[n][m] \o T(m)]]
  BY DEF SendAll
<1> HIDE DEF T
<1>6. \A a, b \in Nodes : w[a][b] \o T(b) \in Seq(Frames)
  BY <1>3, <1>4
<1>7. SendAll(w, n, fs) \in Wires
  BY <1>5, <1>6 DEF Wires
<1>8. \A a, b \in Nodes :
         SendAll(w, n, fs)[a][b] = IF a = n THEN w[a][b] \o T(b) ELSE w[a][b]
  BY <1>5 DEF Wires
<1>9. ASSUME NEW a \in Nodes, NEW b \in Nodes
      PROVE  Grows(SendAll(w, n, fs)[a][b], w[a][b], For(fs, n, a, b))
  <2>1. CASE a = n
    <3>1. T(b) \in Seq(Frames) /\ Range(T(b)) = For(fs, n, a, b)
      BY <2>1, <1>3 DEF For
    <3>2. SendAll(w, n, fs)[a][b] = w[a][b] \o T(b)
      BY <2>1, <1>8
    <3> QED
      BY <3>1, <3>2 DEF Grows
  <2>2. CASE a # n
    <3>1. <<>> \in Seq(Frames) /\ Range(<<>>) = {}
      BY DEF Range
    <3>2. w[a][b] \o <<>> = w[a][b]
      BY <1>4
    <3>3. For(fs, n, a, b) = {}
      BY <2>2 DEF For
    <3> QED
      BY <2>2, <3>1, <3>2, <3>3, <1>8 DEF Grows
  <2> QED
    BY <2>1, <2>2
<1> QED
  BY <1>7, <1>9

LEMMA TellFacts ==
    ASSUME NEW w \in Wires, NEW n \in Nodes, NEW d \in Deaths
    PROVE  /\ Tell(w, n, d) \in Wires
           /\ \A a, b \in Nodes :
                 Grows(Tell(w, n, d)[a][b], w[a][b], For(ExitsOf(d) \cup DownsOf(d), n, a, b))
<1> DEFINE v == SendAll(w, n, ExitsOf(d))
<1>0. Tell(w, n, d) = SendAll(v, n, DownsOf(d))
  BY DEF Tell, ExitsOf, DownsOf
<1>1. /\ v \in Wires
      /\ \A a, b \in Nodes : Grows(v[a][b], w[a][b], For(ExitsOf(d), n, a, b))
  BY DeathFrames, SendAllFacts
<1> HIDE DEF v
<1>2. /\ SendAll(v, n, DownsOf(d)) \in Wires
      /\ \A a, b \in Nodes :
            Grows(SendAll(v, n, DownsOf(d))[a][b], v[a][b], For(DownsOf(d), n, a, b))
  BY <1>1, DeathFrames, SendAllFacts
<1>3. ASSUME NEW a \in Nodes, NEW b \in Nodes
      PROVE  Grows(Tell(w, n, d)[a][b], w[a][b], For(ExitsOf(d) \cup DownsOf(d), n, a, b))
  <2> DEFINE s == w[a][b]
  <2>1. PICK t \in Seq(Frames) : v[a][b] = s \o t /\ Range(t) = For(ExitsOf(d), n, a, b)
    BY <1>1 DEF Grows
  <2>2. PICK u \in Seq(Frames) : /\ SendAll(v, n, DownsOf(d))[a][b] = v[a][b] \o u
                                 /\ Range(u) = For(DownsOf(d), n, a, b)
    BY <1>2 DEF Grows
  <2>3. t \o u \in Seq(Frames) /\ Range(t \o u) = Range(t) \cup Range(u)
    BY RangeConcat
  <2>4. s \in Seq(Frames)
    BY DEF Wires
  <2>5. Range(t \o u) = For(ExitsOf(d) \cup DownsOf(d), n, a, b)
    BY <2>1, <2>2, <2>3 DEF For
  <2> HIDE DEF s
  <2>6. (s \o t) \o u = s \o (t \o u)
    BY <2>4, ConcatThree
  <2> QED
    BY <2>1, <2>2, <2>3, <2>5, <2>6, <1>0 DEF Grows, s
<1> QED
  BY <1>0, <1>2, <1>3

-----------------------------------------------------------------------------
(* Types *)

LEMMA InitTypeOK == Init => TypeOK
<1> SUFFICES ASSUME Init PROVE TypeOK
  OBVIOUS
<1>1. /\ alive \subseteq Pids /\ running \subseteq Pids
      /\ reason \in [Pids -> Reasons] /\ nextRef \in [Pids -> Nat]
  BY DEF Init, Reasons, ExitReasons
<1>2. /\ links \in [Pids -> SUBSET Pids] /\ monitors \subseteq Relations
      /\ monitoredBy \subseteq Relations /\ inbox \in [Pids -> SUBSET Mail]
  BY DEF Init
<1>3. /\ deaths \in [Nodes -> Seq(Deaths)] /\ lost \in [Nodes -> Seq(Nodes)]
      /\ wire \in [Nodes -> [Nodes -> Seq(Frames)]]
  BY DEF Init
<1>4. firing \in [Nodes -> [node : Nodes \cup {"none"}, todo : SUBSET Relations]]
  BY DEF Init, NotFiring
<1>5. conn \in [Nodes -> SUBSET Nodes]
  BY DEF Init
<1>6. /\ down \subseteq Nodes /\ broken \subseteq SUBSET Nodes /\ faultless \in BOOLEAN
      /\ loose \subseteq SUBSET Pids /\ owed \subseteq Relations
      /\ called = {} /\ losses = {}
  BY DEF Init
<1> QED
  BY <1>1, <1>2, <1>3, <1>4, <1>5, <1>6 DEF TypeOK, Mail

\* What a death and an inherited exit do to the types of what they change.
LEMMA DiesTypes ==
    ASSUME TypeOK, NEW p \in Pids, NEW r \in Reasons, Dies(p, r)
    PROVE  /\ alive' \subseteq alive
           /\ reason' \in [Pids -> Reasons]
           /\ deaths' \in [Nodes -> Seq(Deaths)]
           /\ links' \in [Pids -> SUBSET Pids]
           /\ monitors' \subseteq monitors
           /\ monitoredBy' \subseteq monitoredBy
           /\ owed' \subseteq Relations
<1>1. CASE p \notin alive
  BY <1>1 DEF Dies, TypeOK
<1>2. CASE p \in alive
  <2> DEFINE d == [pid |-> p, reason |-> r, links |-> RemoteLinks(p, r),
                   watchers |-> {x \in monitoredBy : x.about = p}]
  <2>1. d \in Deaths
    BY DEF TypeOK, Deaths, RemoteLinks
  <2>2. deaths' = [deaths EXCEPT ![Home[p]] = Append(@, d)]
    BY <1>2 DEF Dies
  <2> HIDE DEF d
  <2>3. deaths' \in [Nodes -> Seq(Deaths)]
    BY <2>1, <2>2, SignalsAssumption DEF TypeOK
  <2>4. OwedAtDeath(p, r) \subseteq Relations
    <3>1. \A q \in links[p] : LinkOf(q, p) \in Relations
      BY SignalsAssumption DEF TypeOK, LinkOf, Relations
    <3> QED
      BY <3>1 DEF OwedAtDeath, TypeOK
  <2>5. alive' \subseteq alive /\ owed' \subseteq Relations
    BY <1>2, <2>4 DEF Dies, TypeOK
  <2>6. reason' \in [Pids -> Reasons] /\ links' \in [Pids -> SUBSET Pids]
    <3>1. reason' = [reason EXCEPT ![p] = r] /\ links' = [links EXCEPT ![p] = {}]
      BY <1>2 DEF Dies
    <3>2. reason \in [Pids -> Reasons] /\ links \in [Pids -> SUBSET Pids]
      BY DEF TypeOK
    <3> QED
      BY <3>1, <3>2
  <2>7. monitors' \subseteq monitors /\ monitoredBy' \subseteq monitoredBy
    BY <1>2 DEF Dies
  <2> QED
    BY <2>3, <2>5, <2>6, <2>7
<1> QED
  BY <1>1, <1>2

LEMMA InheritsTypes ==
    ASSUME TypeOK, NEW p \in Pids, NEW x \in Mail, Inherits(p, x)
    PROVE  /\ alive' \subseteq alive
           /\ reason' \in [Pids -> Reasons]
           /\ deaths' \in [Nodes -> Seq(Deaths)]
           /\ links' \in [Pids -> SUBSET Pids]
           /\ monitors' \subseteq monitors
           /\ monitoredBy' \subseteq monitoredBy
           /\ owed' \subseteq Relations
           /\ inbox' \in [Pids -> SUBSET Mail]
<1>0. inbox \in [Pids -> SUBSET Mail]
  BY DEF TypeOK, Mail
<1>1. x.reason \in Reasons
  BY DEF Mail
<1>2. CASE p \in Traps
  <2>1. UNCHANGED <<alive, reason, deaths, links, monitors, monitoredBy, owed>>
    BY <1>2 DEF Inherits
  <2>2. inbox' \in [Pids -> SUBSET Mail]
    BY <1>0, <1>2 DEF Inherits
  <2> QED
    BY <2>1, <2>2 DEF TypeOK
<1>3. CASE p \notin Traps
  <2>1. inbox' \in [Pids -> SUBSET Mail]
    BY <1>0, <1>3 DEF Inherits
  <2>2. CASE IsAbnormal(x.reason)
    <3>1. Dies(p, x.reason)
      BY <1>3, <2>2 DEF Inherits
    <3> QED
      BY <1>1, <2>1, <3>1, DiesTypes
  <2>3. CASE ~IsAbnormal(x.reason)
    <3>1. UNCHANGED <<alive, reason, deaths, links, monitors, monitoredBy, owed>>
      BY <1>3, <2>3 DEF Inherits
    <3> QED
      BY <2>1, <3>1 DEF TypeOK
  <2> QED
    BY <2>2, <2>3
<1> QED
  BY <1>2, <1>3

LEMMA GuestTypeOK ==
    ASSUME TypeOK, NEW p \in Pids, Guest(p)
    PROVE  TypeOK'
<1>0. wire \in Wires /\ Home[p] \in Nodes
  BY SignalsAssumption DEF TypeOK, Wires
<1>1. ASSUME NEW q \in Pids, NEW named \in BOOLEAN, Link(p, q, named)
      PROVE  TypeOK'
  <2>1. LinkFrame(p, q, named) \in Frames
    BY SignalsAssumption DEF LinkFrame, Frames, Reasons, ExitReasons
  <2>2. wire' \in Wires
    BY <1>0, <1>1, <2>1, SendFacts DEF Link
  <2>3. links' \in [Pids -> SUBSET Pids]
    BY <1>1 DEF Link, TypeOK
  <2>4. loose' \subseteq SUBSET Pids
    <3>1. loose' = loose \/ loose' = loose \cup {{p, q}}
      BY <1>1 DEF Link
    <3>2. {p, q} \in SUBSET Pids /\ loose \subseteq SUBSET Pids
      BY DEF TypeOK
    <3> QED
      BY <3>1, <3>2
  <2> QED
    BY <1>1, <2>2, <2>3, <2>4
       DEF Link, TypeOK, Wires, lifeVars, reactorVars, faultVars, histVars
<1>2. ASSUME NEW q \in Pids, NEW named \in BOOLEAN, Unlink(p, q, named)
      PROVE  TypeOK'
  <2>1. UnlinkFrame(p, q, named) \in Frames
    BY SignalsAssumption DEF LinkFrame, UnlinkFrame, Frames, Reasons, ExitReasons
  <2>2. wire' \in Wires
    BY <1>0, <1>2, <2>1, SendFacts DEF Unlink
  <2>3. links' \in [Pids -> SUBSET Pids]
    BY <1>2 DEF Unlink, TypeOK
  <2>4. loose' \subseteq SUBSET Pids
    <3>1. loose' = loose \/ loose' = loose \cup {{p, q}}
      BY <1>2 DEF Unlink
    <3>2. {p, q} \in SUBSET Pids /\ loose \subseteq SUBSET Pids
      BY DEF TypeOK
    <3> QED
      BY <3>1, <3>2
  <2> QED
    BY <1>2, <2>2, <2>3, <2>4
       DEF Unlink, TypeOK, Wires, lifeVars, reactorVars, faultVars, histVars
<1>3. ASSUME NEW q \in Pids, NEW named \in BOOLEAN, Monitor(p, q, named)
      PROVE  TypeOK'
  <2>1. nextRef[p] \in 0..MaxRef
    BY <1>3 DEF Monitor, Refs
  <2>2. MonitorFrame(p, q, nextRef[p], named) \in Frames
    BY <2>1, SignalsAssumption DEF LinkFrame, MonitorFrame, Frames, Reasons, ExitReasons
  <2>3. wire' \in Wires
    BY <1>0, <1>3, <2>2, SendFacts DEF Monitor
  <2>4. monitors' \subseteq Relations
    BY <1>3, <2>1 DEF Monitor, TypeOK, MonitorOf, Relations
  <2>5. nextRef' \in [Pids -> Nat]
    BY <1>3 DEF Monitor, TypeOK
  <2> QED
    BY <1>3, <2>3, <2>4, <2>5
       DEF Monitor, TypeOK, Wires, lifeVars, reactorVars, faultVars, histVars
<1>4. ASSUME NEW q \in Pids, NEW why \in Given, NEW named \in BOOLEAN,
             ExitSignal(p, q, why, named)
      PROVE  TypeOK'
  <2>1. SignalFrame(p, q, why, named) \in Frames
    BY SignalFrameType
  <2>2. wire' \in Wires
    BY <1>0, <1>4, <2>1, SendFacts DEF ExitSignal
  <2>3. called' \subseteq [from : Pids, to : Pids, reason : Given]
    BY <1>4 DEF ExitSignal, TypeOK, Asked
  <2> QED
    BY <1>4, <2>2, <2>3
       DEF ExitSignal, TypeOK, Wires, lifeVars, relVars, reactorVars, faultVars
<1>5. ASSUME NEW r \in Refs, Demonitor(p, r)
      PROVE  TypeOK'
  BY <1>5 DEF Demonitor, TypeOK, lifeVars, reactorVars, faultVars, histVars
<1> QED
  BY <1>1, <1>2, <1>3, <1>4, <1>5 DEF Guest

LEMMA ReturnTypeOK ==
    ASSUME TypeOK, NEW p \in Pids, NEW r \in Given, GuestReturn(p, r)
    PROVE  TypeOK'
<1>1. r \in Reasons /\ Dies(p, r)
  BY GivenReasons DEF GuestReturn
<1> QED
  BY <1>1, DiesTypes DEF GuestReturn, TypeOK, reactorVars, faultVars, histVars

LEMMA ForwardTypeOK ==
    ASSUME TypeOK, NEW n \in Nodes, Forward(n)
    PROVE  TypeOK'
<1>1. deaths[n] \in Seq(Deaths) /\ deaths[n] # <<>>
  BY DEF Forward, TypeOK
<1>2. Head(deaths[n]) \in Deaths /\ Tail(deaths[n]) \in Seq(Deaths)
  BY <1>1, RangeHeadTail
<1>3. wire' \in Wires
  BY <1>2, TellFacts DEF Forward, TypeOK, Wires
<1>4. deaths' \in [Nodes -> Seq(Deaths)]
  BY <1>2 DEF Forward, TypeOK
<1> QED
  BY <1>3, <1>4 DEF Forward, TypeOK, Wires, lifeVars, relVars, reactorVars, faultVars, histVars

Firings == [node : Nodes \cup {"none"}, todo : SUBSET Relations]

LEMMA ReactTypeOK ==
    ASSUME TypeOK, NEW n \in Nodes, React(n)
    PROVE  TypeOK'
<1>0. firing \in [Nodes -> Firings]
  BY DEF TypeOK, Firings
<1>1. CASE LossSeen(n)
  <2>1. lost[n] \in Seq(Nodes) /\ lost[n] # <<>>
    BY <1>1 DEF LossSeen, TypeOK
  <2>2. Head(lost[n]) \in Nodes /\ Tail(lost[n]) \in Seq(Nodes)
    BY <2>1, RangeHeadTail
  <2>3. lost' \in [Nodes -> Seq(Nodes)]
    BY <1>1, <2>2 DEF LossSeen, TypeOK
  <2>4. [node |-> Head(lost[n]), todo |-> Crossing(n, Head(lost[n]))] \in Firings
    BY <2>2 DEF Firings, Crossing
  <2>5. firing' \in [Nodes -> Firings]
    BY <1>0, <1>1, <2>4 DEF LossSeen
  <2> QED
    BY <1>1, <2>3, <2>5 DEF LossSeen, TypeOK, Firings, lifeVars, relVars, faultVars, histVars
<1>2. ASSUME NEW x \in firing[n].todo, FireLink(n, x)
      PROVE  TypeOK'
  <2>1. x \in Relations
    BY <1>0 DEF Firings
  <2>2. x.who \in Pids /\ x.about \in Pids /\ "noconnection" \in Reasons
    BY <2>1, RelationFields DEF Reasons, ExitReasons
  <2>3. firing' \in [Nodes -> Firings]
    BY <1>0, <1>2 DEF FireLink, Firings
  <2>4. /\ Inherits(x.who, Signal(x.about, 0, "noconnection"))
        /\ Signal(x.about, 0, "noconnection") \in Mail
    BY <1>2, <2>2, SignalFacts, ZeroRef DEF FireLink
  <2>5. /\ alive' \subseteq alive /\ reason' \in [Pids -> Reasons]
        /\ deaths' \in [Nodes -> Seq(Deaths)] /\ links' \in [Pids -> SUBSET Pids]
        /\ monitors' \subseteq monitors /\ monitoredBy' \subseteq monitoredBy
        /\ owed' \subseteq Relations /\ inbox' \in [Pids -> SUBSET Mail]
    BY <2>2, <2>4, InheritsTypes
  <2> QED
    BY <1>2, <2>3, <2>5 DEF FireLink, TypeOK, Firings, Mail, faultVars, histVars
<1>3. ASSUME NEW x \in firing[n].todo, FireMonitor(n, x)
      PROVE  TypeOK'
  <2>1. x \in Relations
    BY <1>0 DEF Firings
  <2>2. Signal(x.about, x.ref, "noconnection") \in Mail
    BY <2>1, RelationFields, SignalFacts DEF Reasons, ExitReasons
  <2>3. firing' \in [Nodes -> Firings]
    BY <1>0, <1>3 DEF FireMonitor, Firings
  <2>4. inbox' \in [Pids -> SUBSET Mail]
    BY <1>3, <2>2 DEF FireMonitor, TypeOK, Mail
  <2> QED
    BY <1>3, <2>3, <2>4
       DEF FireMonitor, TypeOK, Firings, Mail, lifeVars, relVars, faultVars, histVars
<1>4. CASE Forget(n)
  <2>1. links' \in [Pids -> SUBSET Pids]
    BY <1>4 DEF Forget, TypeOK
  <2>2. monitors' \subseteq Relations /\ monitoredBy' \subseteq Relations
    BY <1>4 DEF Forget, TypeOK
  <2>3. firing' \in [Nodes -> Firings]
    BY <1>0, <1>4 DEF Forget, Firings, NotFiring
  <2> QED
    BY <1>4, <2>1, <2>2, <2>3 DEF Forget, TypeOK, Firings, lifeVars, faultVars, histVars
<1> QED
  BY <1>1, <1>2, <1>3, <1>4 DEF React

LEMMA AnswerTypes ==
    ASSUME NEW f \in Frames
    PROVE  Answer(f) \subseteq Frames /\ IsFiniteSet(Answer(f))
<1>1. f.from \in Pids /\ f.ref \in 0..MaxRef /\ "noproc" \in Reasons
  BY DEF Frames, Reasons, ExitReasons
<1>2. /\ ExitFrame(f.from, f.from, "noproc") \in Frames
      /\ DownFrame(f.from, f.from, f.ref, "noproc") \in Frames
  <2>1. TRUE \in BOOLEAN
    OBVIOUS
  <2> QED
    BY <1>1, <2>1, FrameTypes
<1>3. \/ Answer(f) = {}
      \/ Answer(f) = {ExitFrame(f.from, f.from, "noproc")}
      \/ Answer(f) = {DownFrame(f.from, f.from, f.ref, "noproc")}
  BY DEF Answer
<1>4. IsFiniteSet(Answer(f))
  BY <1>3, FS_EmptySet, FS_Singleton
<1> QED
  BY <1>2, <1>3, <1>4

\* The handling of a frame.
Handles(f) ==
    OnLink(f) \/ OnUnlink(f) \/ OnMonitor(f) \/ OnExit(f) \/ OnSignal(f) \/ OnDown(f)

LEMMA HandlesTypes ==
    ASSUME TypeOK, NEW f \in Frames, Handles(f)
    PROVE  /\ alive' \subseteq alive
           /\ reason' \in [Pids -> Reasons]
           /\ deaths' \in [Nodes -> Seq(Deaths)]
           /\ links' \in [Pids -> SUBSET Pids]
           /\ monitors' \subseteq monitors
           /\ monitoredBy' \subseteq Relations
           /\ owed' \subseteq Relations
           /\ inbox' \in [Pids -> SUBSET Mail]
<1>0. /\ f.from \in Pids /\ f.to \in Pids /\ f.ref \in 0..MaxRef /\ f.reason \in Reasons
      /\ "killed" \in Reasons
  BY DEF Frames, Reasons, ExitReasons
<1>1. CASE OnLink(f)
  BY <1>0, <1>1 DEF OnLink, TypeOK, Mail
<1>2. CASE OnUnlink(f)
  BY <1>0, <1>2 DEF OnUnlink, TypeOK, Mail
<1>3. CASE OnMonitor(f)
  BY <1>0, <1>3 DEF OnMonitor, MonitorOf, Relations, TypeOK, Mail
<1>4. CASE OnExit(f)
  <2>1. /\ Inherits(f.to, Signal(f.from, 0, f.reason))
        /\ Signal(f.from, 0, f.reason) \in Mail
    BY <1>0, <1>4, SignalFacts, ZeroRef DEF OnExit
  <2>2. monitoredBy \subseteq Relations
    BY DEF TypeOK
  <2> QED
    BY <1>0, <2>1, <2>2, InheritsTypes
<1>5. CASE OnSignal(f)
  <2>1. monitoredBy \subseteq Relations /\ inbox \in [Pids -> SUBSET Mail]
    BY DEF TypeOK
  <2>2. CASE Dies(f.to, "killed") /\ inbox' = inbox
    BY <1>0, <2>1, <2>2, DiesTypes
  <2>3. CASE Inherits(f.to, Sent(f.from, f.reason))
    <3>1. Sent(f.from, f.reason) \in Mail
      BY <1>0, SignalFacts, ZeroRef
    <3> QED
      BY <1>0, <2>1, <2>3, <3>1, InheritsTypes
  <2> QED
    BY <1>5, <2>2, <2>3 DEF OnSignal
<1>6. CASE OnDown(f)
  <2>1. Signal(f.from, f.ref, f.reason) \in Mail
    BY <1>0 DEF Signal, Mail
  <2>2. inbox' \in [Pids -> SUBSET Mail]
    BY <1>0, <1>6, <2>1 DEF OnDown, TypeOK, Mail
  <2> QED
    BY <1>6, <2>2 DEF OnDown, TypeOK
<1> QED
  BY <1>1, <1>2, <1>3, <1>4, <1>5, <1>6 DEF Handles

\* What Receive does with the frame at the head of its queue.
LEMMA ReceiveFacts ==
    ASSUME TypeOK, NEW n \in Nodes, NEW m \in Nodes, Receive(n, m)
    PROVE  \E f \in Frames, w \in Wires :
               /\ f = Head(wire[n][m])
               /\ Handles(f)
               /\ Range(wire[n][m]) = {f} \cup Range(w[n][m])
               /\ w[n][m] = Tail(wire[n][m])
               /\ \A a, b \in Nodes : <<a, b>> # <<n, m>> => w[a][b] = wire[a][b]
               /\ wire' \in Wires
               /\ \A a, b \in Nodes : Grows(wire'[a][b], w[a][b], For(Answer(f), m, a, b))
<1> DEFINE f == Head(wire[n][m])
           w == [wire EXCEPT ![n][m] = Tail(@)]
<1>1. wire \in Wires /\ wire[n][m] \in Seq(Frames) /\ wire[n][m] # <<>>
  BY DEF Receive, TypeOK, Wires
<1>2. /\ f \in Frames /\ Tail(wire[n][m]) \in Seq(Frames)
      /\ Range(wire[n][m]) = {f} \cup Range(Tail(wire[n][m]))
  BY <1>1, RangeHeadTail
<1>3. /\ w \in Wires /\ w[n][m] = Tail(wire[n][m])
      /\ \A a, b \in Nodes : <<a, b>> # <<n, m>> => w[a][b] = wire[a][b]
  BY <1>1, <1>2 DEF Wires
<1>4. Handles(f) /\ wire' = SendAll(w, m, Answer(f))
  BY DEF Receive, Handles
<1> HIDE DEF f, w
<1>5. wire' \in Wires /\ \A a, b \in Nodes : Grows(wire'[a][b], w[a][b], For(Answer(f), m, a, b))
  BY <1>2, <1>3, <1>4, AnswerTypes, SendAllFacts
<1> QED
  <2>1. f = Head(wire[n][m])
    BY DEF f
  <2> QED
    BY <1>2, <1>3, <1>4, <1>5, <2>1

\* The queues after the others of the transport's steps and after a crash.
LEMMA CutFacts ==
    ASSUME TypeOK, NEW n \in Nodes, NEW m \in Nodes,
           DialFails(n, m) \/ \E k \in 0..Len(wire[n][m]) : ConnEnds(n, m, k)
    PROVE  /\ wire' \in Wires
           /\ Range(wire'[n][m]) \subseteq Range(wire[n][m])
           /\ \A a, b \in Nodes : <<a, b>> # <<n, m>> => wire'[a][b] = wire[a][b]
<1>1. wire \in Wires /\ wire[n][m] \in Seq(Frames)
  BY DEF TypeOK, Wires
<1>2. ASSUME NEW s \in Seq(Frames), Range(s) \subseteq Range(wire[n][m]),
             wire' = [wire EXCEPT ![n][m] = s]
      PROVE  /\ wire' \in Wires
             /\ Range(wire'[n][m]) \subseteq Range(wire[n][m])
             /\ \A a, b \in Nodes : <<a, b>> # <<n, m>> => wire'[a][b] = wire[a][b]
  <2>1. wire' \in Wires /\ wire'[n][m] = s
    BY <1>1, <1>2 DEF Wires
  <2> QED
    BY <1>1, <1>2, <2>1 DEF Wires
<1>3. CASE DialFails(n, m)
  <2>1. wire[n][m] # <<>> /\ wire' = [wire EXCEPT ![n][m] = Tail(wire[n][m])]
    BY <1>3 DEF DialFails
  <2>2. Tail(wire[n][m]) \in Seq(Frames) /\ Range(Tail(wire[n][m])) \subseteq Range(wire[n][m])
    BY <1>1, <2>1, RangeHeadTail
  <2> QED
    BY <1>2, <2>1, <2>2
<1>4. ASSUME NEW k \in 0..Len(wire[n][m]), ConnEnds(n, m, k)
      PROVE  /\ wire' \in Wires
             /\ Range(wire'[n][m]) \subseteq Range(wire[n][m])
             /\ \A a, b \in Nodes : <<a, b>> # <<n, m>> => wire'[a][b] = wire[a][b]
  <2> DEFINE s == SubSeq(wire[n][m], k + 1, Len(wire[n][m]))
  <2>1. wire' = [wire EXCEPT ![n][m] = s]
    BY <1>4 DEF ConnEnds
  <2>2. k + 1 \in Nat /\ Len(wire[n][m]) \in Nat /\ 1 <= k + 1 /\ Len(wire[n][m]) <= Len(wire[n][m])
    BY <1>1
  <2>3. s \in Seq(Frames) /\ Range(s) \subseteq Range(wire[n][m])
    BY <1>1, <2>2, RangeSubSeq
  <2> QED
    BY <1>2, <2>1, <2>3
<1> QED
  BY <1>3, <1>4

LEMMA CrashFacts ==
    ASSUME TypeOK, NEW m \in Nodes, Crash(m)
    PROVE  /\ wire' \in Wires
           /\ \A n \in Nodes : Range(wire'[m][n]) \subseteq Range(wire[m][n])
           /\ \A a, b \in Nodes : a # m => wire'[a][b] = wire[a][b]
<1>1. wire \in Wires /\ \A n \in Nodes : wire[m][n] \in Seq(Frames)
  BY DEF TypeOK, Wires
<1>2. PICK k \in [Nodes -> UNION {0..Len(wire[m][n]) : n \in Nodes}] :
          /\ \A n \in Nodes : k[n] <= Len(wire[m][n])
          /\ wire' = [wire EXCEPT ![m] = [n \in Nodes |-> SubSeq(wire[m][n], 1, k[n])]]
  BY DEF Crash
<1>3. ASSUME NEW n \in Nodes
      PROVE  /\ SubSeq(wire[m][n], 1, k[n]) \in Seq(Frames)
             /\ Range(SubSeq(wire[m][n], 1, k[n])) \subseteq Range(wire[m][n])
  <2>1. k[n] \in UNION {0..Len(wire[m][j]) : j \in Nodes}
    BY <1>2
  <2>2. PICK j \in Nodes : k[n] \in 0..Len(wire[m][j])
    BY <2>1
  <2>3. k[n] \in Nat /\ 1 \in Nat /\ 1 <= 1 /\ k[n] <= Len(wire[m][n])
    BY <1>1, <1>2, <2>2
  <2> QED
    BY <1>1, <2>3, RangeSubSeq
<1>4. wire' \in Wires /\ \A n \in Nodes : wire'[m][n] = SubSeq(wire[m][n], 1, k[n])
  BY <1>1, <1>2, <1>3 DEF Wires
<1>5. \A a, b \in Nodes : a # m => wire'[a][b] = wire[a][b]
  BY <1>1, <1>2 DEF Wires
<1> QED
  BY <1>3, <1>4, <1>5

LEMMA TransportTypeOK ==
    ASSUME TypeOK, NEW n \in Nodes, NEW m \in Nodes, Transport(n, m)
    PROVE  TypeOK'
<1>1. CASE Receive(n, m)
  <2>1. PICK f \in Frames : wire' \in Wires /\ Handles(f)
    BY <1>1, ReceiveFacts
  <2>2. /\ alive' \subseteq alive /\ reason' \in [Pids -> Reasons]
        /\ deaths' \in [Nodes -> Seq(Deaths)] /\ links' \in [Pids -> SUBSET Pids]
        /\ monitors' \subseteq monitors /\ monitoredBy' \subseteq Relations
        /\ owed' \subseteq Relations /\ inbox' \in [Pids -> SUBSET Mail]
    BY <2>1, HandlesTypes
  <2> QED
    BY <1>1, <2>1, <2>2 DEF Receive, TypeOK, Wires, Mail, reactorVars, faultVars, histVars
<1>2. CASE Dial(n, m)
  <2>1. conn' \in [Nodes -> SUBSET Nodes]
    BY <1>2 DEF Dial, TypeOK
  <2> QED
    BY <1>2, <2>1 DEF Dial, TypeOK, lifeVars, relVars, reactorVars, faultVars, histVars
<1>3. CASE DialFails(n, m)
  <2>1. wire' \in Wires
    BY <1>3, CutFacts
  <2> QED
    BY <1>3, <2>1
       DEF DialFails, TypeOK, Wires, lifeVars, relVars, reactorVars, faultVars, histVars
<1>4. ASSUME NEW k \in 0..Len(wire[n][m]), ConnEnds(n, m, k)
      PROVE  TypeOK'
  <2>1. wire' \in Wires
    BY <1>4, CutFacts
  <2>2. conn' \in [Nodes -> SUBSET Nodes]
    BY <1>4 DEF ConnEnds, TypeOK
  <2>3. lost' \in [Nodes -> Seq(Nodes)]
    BY <1>4 DEF ConnEnds, TypeOK
  <2>4. losses' \subseteq Nodes \X Nodes
    BY <1>4 DEF ConnEnds, TypeOK
  <2> QED
    BY <1>4, <2>1, <2>2, <2>3, <2>4
       DEF ConnEnds, TypeOK, Wires, lifeVars, relVars, faultVars, histVars
<1> QED
  BY <1>1, <1>2, <1>3, <1>4 DEF Transport

LEMMA FaultTypeOK ==
    ASSUME TypeOK, Fault \/ \E n, m \in Nodes : Heal(n, m)
    PROVE  TypeOK'
<1>1. ASSUME NEW m \in Nodes, Crash(m)
      PROVE  TypeOK'
  <2>1. wire' \in Wires
    BY <1>1, CrashFacts
  <2>2. down' \subseteq Nodes /\ owed' \subseteq Relations /\ faultless' \in BOOLEAN
    BY <1>1 DEF Crash, OwedAtFault, TypeOK
  <2> QED
    BY <1>1, <2>1, <2>2 DEF Crash, TypeOK, Wires, lifeVars, relVars, reactorVars, histVars
<1>2. ASSUME NEW n \in Nodes, NEW m \in Nodes, Break(n, m)
      PROVE  TypeOK'
  <2>1. broken' = broken \cup {{n, m}} /\ {n, m} \in SUBSET Nodes /\ broken \subseteq SUBSET Nodes
    BY <1>2 DEF Break, TypeOK
  <2>2. broken' \subseteq SUBSET Nodes
    BY <2>1
  <2>3. owed' \subseteq Relations /\ faultless' \in BOOLEAN
    BY <1>2 DEF Break, OwedAtFault
  <2> QED
    BY <1>2, <2>2, <2>3 DEF Break, TypeOK, lifeVars, relVars, reactorVars, histVars
<1>3. ASSUME NEW n \in Nodes, NEW m \in Nodes, Heal(n, m)
      PROVE  TypeOK'
  <2>1. broken' \subseteq SUBSET Nodes
    BY <1>3 DEF Heal, TypeOK
  <2> QED
    BY <1>3, <2>1 DEF Heal, TypeOK, lifeVars, relVars, reactorVars, histVars
<1> QED
  BY <1>1, <1>2, <1>3 DEF Fault

LEMMA NextTypeOK == TypeOK /\ [Next]_vars => TypeOK'
<1> SUFFICES ASSUME TypeOK, [Next]_vars PROVE TypeOK'
  OBVIOUS
<1>1. CASE UNCHANGED vars
  BY <1>1 DEF vars, lifeVars, relVars, reactorVars, faultVars, histVars, TypeOK
<1>2. CASE Next
  BY <1>2, GuestTypeOK, ReturnTypeOK, ForwardTypeOK, ReactTypeOK, TransportTypeOK, FaultTypeOK
     DEF Next
<1> QED
  BY <1>1, <1>2

\* Every variable of the signalling keeps its type: the halves of relationships,
\* the published deaths, the frames on the peer links and the signals in the
\* mailboxes are what the handlers of protocol.rs and signals.rs expect.
THEOREM SignalsTypes == Spec => []TypeOK
  BY InitTypeOK, NextTypeOK, PTL DEF Spec

-----------------------------------------------------------------------------
(* Signals tell the truth *)

\* What has been asked for, and what has been lost, stays on record.
HistoryGrows == called \subseteq called' /\ losses \subseteq losses'

\* What every step does to the dead and to the published deaths: none comes back
\* or changes its reason, and what is published anew is true.
DeathsStand ==
    /\ alive' \subseteq alive
    /\ \A q \in Pids : q \notin alive => reason'[q] = reason[q]
    /\ \A n \in Nodes : \A d \in Range(deaths'[n]) : d \in Range(deaths[n]) \/ TrueDeath(d)'

LEMMA UnchangedStands ==
    ASSUME UNCHANGED <<alive, reason, deaths>>
    PROVE  DeathsStand
  BY DEF DeathsStand

LEMMA DiesStands ==
    ASSUME TypeOK, NEW p \in Pids, NEW r \in Reasons, Dies(p, r)
    PROVE  DeathsStand
<1>1. CASE p \notin alive
  BY <1>1, UnchangedStands DEF Dies
<1>2. CASE p \in alive
  <2>1. PICK d \in Deaths : /\ d.pid = p /\ d.reason = r
                            /\ deaths' = [deaths EXCEPT ![Home[p]] = Append(@, d)]
    <3> DEFINE e == [pid |-> p, reason |-> r, links |-> RemoteLinks(p, r),
                     watchers |-> {x \in monitoredBy : x.about = p}]
    <3>1. e \in Deaths /\ e.pid = p /\ e.reason = r
      BY DEF TypeOK, Deaths, RemoteLinks
    <3>2. deaths' = [deaths EXCEPT ![Home[p]] = Append(@, e)]
      BY <1>2 DEF Dies
    <3> QED
      BY <3>1, <3>2
  <2>3. alive' = alive \ {p} /\ reason' = [reason EXCEPT ![p] = r]
    BY <1>2 DEF Dies
  <2>4. p \notin alive' /\ reason'[p] = r /\ \A q \in Pids : q # p => reason'[q] = reason[q]
    BY <2>3 DEF TypeOK
  <2>5. TrueDeath(d)'
    BY <2>1, <2>4 DEF TrueDeath
  <2>6. \A n \in Nodes : deaths[n] \in Seq(Deaths)
    BY DEF TypeOK
  <2>7. ASSUME NEW n \in Nodes, NEW e \in Range(deaths'[n])
        PROVE  e \in Range(deaths[n]) \/ TrueDeath(e)'
    <3>1. CASE n = Home[p]
      <4>1. deaths'[n] = Append(deaths[n], d)
        BY <2>1, <3>1 DEF TypeOK
      <4>2. Range(deaths'[n]) = Range(deaths[n]) \cup {d}
        BY <2>1, <2>6, <4>1, RangeAppend
      <4> QED
        BY <4>2, <2>5
    <3>2. CASE n # Home[p]
      BY <2>1, <3>2 DEF TypeOK
    <3> QED
      BY <3>1, <3>2
  <2> QED
    BY <1>2, <2>3, <2>4, <2>7 DEF DeathsStand
<1> QED
  BY <1>1, <1>2

LEMMA InheritsStands ==
    ASSUME TypeOK, NEW p \in Pids, NEW x \in Mail, Inherits(p, x)
    PROVE  /\ DeathsStand
           /\ \A q \in Pids : \A s \in inbox'[q] :
                 s \in inbox[q] \/ (q = p /\ s = x)
<1>1. DeathsStand
  <2>1. CASE Dies(p, x.reason)
    BY <2>1, DiesStands DEF Mail
  <2>2. CASE UNCHANGED <<alive, reason, deaths>>
    BY <2>2, UnchangedStands
  <2> QED
    BY <2>1, <2>2 DEF Inherits
<1>2. inbox \in [Pids -> SUBSET Mail]
  BY DEF TypeOK, Mail
<1>3. \/ inbox' = inbox
      \/ inbox' = [inbox EXCEPT ![p] = @ \cup {x}]
  BY DEF Inherits
<1> QED
  BY <1>1, <1>2, <1>3

\* What was true stays true.
LEMMA TruthStays ==
    ASSUME TypeOK, DeathsStand, HistoryGrows
    PROVE  /\ DeathsAreTrue => DeathsAreTrue'
           /\ \A f \in Frames : TrueFrame(f) => TrueFrame(f)'
           /\ \A p \in Pids : \A s \in Mail : HasCause(p, s) => HasCause(p, s)'
<1>1. ASSUME NEW q \in Pids, q \notin alive
      PROVE  q \notin alive' /\ reason'[q] = reason[q]
  BY <1>1 DEF DeathsStand
<1>2. ASSUME DeathsAreTrue, NEW n \in Nodes, NEW d \in Range(deaths'[n])
      PROVE  TrueDeath(d)'
  <2>1. CASE TrueDeath(d)'
    BY <2>1
  <2>2. CASE d \in Range(deaths[n])
    <3>1. deaths[n] \in Seq(Deaths)
      BY DEF TypeOK
    <3>2. d \in Deaths
      BY <2>2, <3>1, RangeMember
    <3>3. TrueDeath(d) /\ d.pid \in Pids
      BY <1>2, <2>2, <3>2 DEF DeathsAreTrue, Deaths
    <3> QED
      BY <1>1, <3>3 DEF TrueDeath
  <2> QED
    BY <2>1, <2>2 DEF DeathsStand
<1>3. ASSUME NEW f \in Frames, TrueFrame(f)
      PROVE  TrueFrame(f)'
  <2>1. f.from \in Pids
    BY DEF Frames
  <2> QED
    BY <1>1, <1>3, <2>1 DEF TrueFrame, HistoryGrows
<1>4. ASSUME NEW p \in Pids, NEW s \in Mail, HasCause(p, s)
      PROVE  HasCause(p, s)'
  <2>1. s.from \in Pids
    BY DEF Mail
  <2> QED
    BY <1>1, <1>4, <2>1 DEF HasCause, HistoryGrows
<1> QED
  BY <1>2, <1>3, <1>4 DEF DeathsAreTrue

\* Nothing is lost, fired or broken before the first fault.
LEMMA FaultsStayKnown ==
    ASSUME TypeOK, FaultsAreKnown, [Next]_vars
    PROVE  /\ FaultsAreKnown'
           /\ faultless' => faultless
<1>1. CASE UNCHANGED <<lost, firing, down, broken, faultless>>
  BY <1>1 DEF FaultsAreKnown
<1>2. ASSUME NEW n \in Nodes, React(n)
      PROVE  FaultsAreKnown' /\ (faultless' => faultless)
  <2>1. ~faultless
    BY <1>2 DEF FaultsAreKnown, React, LossSeen, FireLink, FireMonitor, Forget, NotFiring
  <2>2. faultless' = faultless
    BY <1>2 DEF React, LossSeen, FireLink, FireMonitor, Forget, faultVars, histVars
  <2> QED
    BY <2>1, <2>2 DEF FaultsAreKnown
<1>3. ASSUME NEW n \in Nodes, NEW m \in Nodes, NEW k, ConnEnds(n, m, k)
      PROVE  FaultsAreKnown' /\ (faultless' => faultless)
  <2>1. ~faultless
    BY <1>3 DEF FaultsAreKnown, ConnEnds, Path
  <2>2. faultless' = faultless
    BY <1>3 DEF ConnEnds, faultVars, histVars
  <2> QED
    BY <2>1, <2>2 DEF FaultsAreKnown
<1>4. CASE Fault
  BY <1>4 DEF Fault, Crash, Break, FaultsAreKnown
<1>5. ASSUME NEW n \in Nodes, NEW m \in Nodes, Heal(n, m)
      PROVE  FaultsAreKnown' /\ (faultless' => faultless)
  <2>1. ~faultless /\ faultless' = faultless
    BY <1>5 DEF Heal, FaultsAreKnown
  <2> QED
    BY <2>1 DEF FaultsAreKnown
<1>6. ASSUME NEW n \in Nodes, NEW m \in Nodes, Transport(n, m)
      PROVE  \/ UNCHANGED <<lost, firing, down, broken, faultless>>
             \/ \E k : ConnEnds(n, m, k)
  BY <1>6 DEF Transport, Receive, Dial, DialFails, reactorVars, faultVars, histVars
<1>7. ASSUME NEW p \in Pids, Guest(p)
      PROVE  UNCHANGED <<lost, firing, down, broken, faultless>>
  BY <1>7
     DEF Guest, Link, Unlink, Monitor, ExitSignal, Demonitor, reactorVars, faultVars, histVars
<1>8. ASSUME NEW p \in Pids, NEW r, GuestReturn(p, r)
      PROVE  UNCHANGED <<lost, firing, down, broken, faultless>>
  BY <1>8 DEF GuestReturn, reactorVars, faultVars, histVars
<1>9. ASSUME NEW n \in Nodes, Forward(n)
      PROVE  UNCHANGED <<lost, firing, down, broken, faultless>>
  BY <1>9 DEF Forward, reactorVars, faultVars, histVars
<1>10. CASE UNCHANGED vars
  BY <1>1, <1>10 DEF vars, reactorVars, faultVars, histVars
<1> QED
  BY <1>1, <1>2, <1>3, <1>4, <1>5, <1>6, <1>7, <1>8, <1>9, <1>10 DEF Next

\* What the reactor is to fire, or is firing, was lost to its node.
LEMMA LossesStayTrue ==
    ASSUME TypeOK, LossesAreTrue, [Next]_vars
    PROVE  LossesAreTrue' /\ HistoryGrows
<1>0. /\ firing \in [Nodes -> Firings]
      /\ \A n \in Nodes : lost[n] \in Seq(Nodes)
  BY DEF TypeOK, Firings
<1>1. ASSUME UNCHANGED <<lost, firing, losses>>, called \subseteq called'
      PROVE  LossesAreTrue' /\ HistoryGrows
  BY <1>1 DEF LossesAreTrue, HistoryGrows
<1>2. ASSUME NEW n \in Nodes, React(n)
      PROVE  LossesAreTrue' /\ HistoryGrows
  <2>1. UNCHANGED histVars
    BY <1>2 DEF React, LossSeen, FireLink, FireMonitor, Forget, histVars
  <2>2. CASE LossSeen(n)
    <3>1. lost[n] \in Seq(Nodes) /\ lost[n] # <<>>
      BY <1>0, <2>2 DEF LossSeen
    <3>2. Range(lost[n]) = {Head(lost[n])} \cup Range(Tail(lost[n]))
      BY <3>1, RangeHeadTail
    <3>3. \A h \in Nodes : Range(lost'[h]) \subseteq Range(lost[h])
      BY <2>2, <3>2 DEF LossSeen, TypeOK
    <3>4. ASSUME NEW h \in Nodes, NEW x \in firing'[h].todo
          PROVE  \/ x \in firing[h].todo
                 \/ h = n /\ x \in Crossing(n, Head(lost[n]))
      BY <1>0, <2>2, <3>4 DEF LossSeen, Firings
    <3>5. <<n, Head(lost[n])>> \in losses
      BY <3>2 DEF LossesAreTrue
    <3>6. ASSUME NEW x \in Crossing(n, Head(lost[n]))
          PROVE  Home[x.who] = n /\ <<n, Home[x.about]>> \in losses
      BY <3>5, <3>6 DEF Crossing, On
    <3> QED
      BY <2>1, <3>3, <3>4, <3>6 DEF LossesAreTrue, HistoryGrows, histVars
  <2>3. CASE \E x \in firing[n].todo : FireLink(n, x) \/ FireMonitor(n, x)
    <3>1. PICK x : lost' = lost /\ firing' = [firing EXCEPT ![n].todo = @ \ {x}]
      BY <2>3 DEF FireLink, FireMonitor
    <3>2. \A h \in Nodes : firing'[h].todo \subseteq firing[h].todo
      BY <1>0, <3>1 DEF Firings
    <3> QED
      BY <2>1, <3>1, <3>2 DEF LossesAreTrue, HistoryGrows, histVars
  <2>4. CASE Forget(n)
    <3>1. lost' = lost /\ firing' = [firing EXCEPT ![n] = NotFiring] /\ NotFiring.todo = {}
      BY <2>4 DEF Forget, NotFiring
    <3>2. \A h \in Nodes : firing'[h].todo \subseteq firing[h].todo
      BY <1>0, <3>1
    <3> QED
      BY <2>1, <3>1, <3>2 DEF LossesAreTrue, HistoryGrows, histVars
  <2> QED
    BY <1>2, <2>2, <2>3, <2>4 DEF React
<1>3. ASSUME NEW n \in Nodes, NEW m \in Nodes, NEW k, ConnEnds(n, m, k)
      PROVE  LossesAreTrue' /\ HistoryGrows
  <2>1. /\ lost' = [lost EXCEPT ![n] = Append(@, m)]
        /\ losses' = losses \cup {<<n, m>>} /\ UNCHANGED <<firing, called>>
    BY <1>3 DEF ConnEnds
  <2>2. lost'[n] = Append(lost[n], m) /\ \A h \in Nodes : h # n => lost'[h] = lost[h]
    BY <2>1 DEF TypeOK
  <2>3. Range(lost'[n]) = Range(lost[n]) \cup {m}
    BY <1>0, <2>2, RangeAppend
  <2> QED
    BY <2>1, <2>2, <2>3 DEF LossesAreTrue, HistoryGrows
<1>4. ASSUME NEW n \in Nodes, NEW m \in Nodes, Transport(n, m)
      PROVE  LossesAreTrue' /\ HistoryGrows
  BY <1>1, <1>3, <1>4 DEF Transport, Receive, Dial, DialFails, reactorVars, histVars
<1>5. ASSUME NEW p \in Pids, Guest(p)
      PROVE  LossesAreTrue' /\ HistoryGrows
  BY <1>1, <1>5
     DEF Guest, Link, Unlink, Monitor, ExitSignal, Demonitor, reactorVars, histVars
<1>6. ASSUME NEW p \in Pids, NEW r, GuestReturn(p, r)
      PROVE  LossesAreTrue' /\ HistoryGrows
  BY <1>1, <1>6 DEF GuestReturn, reactorVars, histVars
<1>7. ASSUME NEW n \in Nodes, Forward(n)
      PROVE  LossesAreTrue' /\ HistoryGrows
  BY <1>1, <1>7 DEF Forward, reactorVars, histVars
<1>8. CASE Fault \/ \E n, m \in Nodes : Heal(n, m)
  BY <1>1, <1>8 DEF Fault, Crash, Break, Heal, reactorVars, histVars
<1>9. CASE UNCHANGED vars
  BY <1>1, <1>9 DEF vars, reactorVars, histVars
<1> QED
  BY <1>2, <1>4, <1>5, <1>6, <1>7, <1>8, <1>9 DEF Next

\* What a step must show: that the frames and the signals it adds are true.
NewFramesAreTrue ==
    \A n, m \in Nodes : \A f \in Range(wire'[n][m]) : f \in Range(wire[n][m]) \/ TrueFrame(f)'
NewSignalsAreTrue ==
    \A p \in Pids : \A s \in inbox'[p] : s \in inbox[p] \/ HasCause(p, s)'

LEMMA TruthStep ==
    ASSUME TypeOK, TypeOK', FramesAreTrue, DeathsAreTrue, SignalsAreTrue,
           HistoryGrows, DeathsStand, NewFramesAreTrue, NewSignalsAreTrue
    PROVE  FramesAreTrue' /\ DeathsAreTrue' /\ SignalsAreTrue'
<1>1. DeathsAreTrue'
  BY TruthStays
<1>2. ASSUME NEW n \in Nodes, NEW m \in Nodes, NEW f \in Range(wire'[n][m])
      PROVE  TrueFrame(f)'
  <2>1. CASE f \in Range(wire[n][m])
    <3>1. wire[n][m] \in Seq(Frames)
      BY DEF TypeOK
    <3>2. f \in Frames /\ TrueFrame(f)
      BY <2>1, <3>1, RangeMember DEF FramesAreTrue
    <3> QED
      BY <3>2, TruthStays
  <2> QED
    BY <2>1 DEF NewFramesAreTrue
<1>3. ASSUME NEW p \in Pids, NEW s \in inbox'[p]
      PROVE  HasCause(p, s)'
  <2>1. CASE s \in inbox[p]
    <3>1. s \in Mail /\ HasCause(p, s)
      BY <2>1 DEF TypeOK, SignalsAreTrue
    <3> QED
      BY <3>1, TruthStays
  <2> QED
    BY <2>1 DEF NewSignalsAreTrue
<1> QED
  BY <1>1, <1>2, <1>3 DEF FramesAreTrue, SignalsAreTrue

\* The frame of a host call.
LEMMA GuestSends ==
    ASSUME TypeOK, NEW p \in Pids, Guest(p)
    PROVE  \/ wire' = wire
           \/ \E f \in Frames :
                 /\ wire' = Send(wire, Home[p], f)
                 /\ f.kind \notin {"exit", "down"} /\ f.from = p
                 /\ f.kind = "monitor" => f.ref # 0
                 /\ f.kind = "signal" => Asked(f.from, f.to, f.reason) \in called'
<1> DEFINE Sends(f) ==
       /\ wire' = Send(wire, Home[p], f)
       /\ f.kind \notin {"exit", "down"} /\ f.from = p
       /\ f.kind = "monitor" => f.ref # 0
       /\ f.kind = "signal" => Asked(f.from, f.to, f.reason) \in called'
<1>1. ASSUME NEW q \in Pids, NEW named \in BOOLEAN, Link(p, q, named) \/ Unlink(p, q, named)
      PROVE  \E f \in Frames : Sends(f)
  <2>1. LinkFrame(p, q, named) \in Frames /\ UnlinkFrame(p, q, named) \in Frames
    BY SignalsAssumption DEF LinkFrame, UnlinkFrame, Frames, Reasons
  <2> QED
    BY <1>1, <2>1, FrameFields DEF Link, Unlink
<1>2. ASSUME NEW q \in Pids, NEW named \in BOOLEAN, Monitor(p, q, named)
      PROVE  \E f \in Frames : Sends(f)
  <2>1. nextRef[p] \in 0..MaxRef /\ nextRef[p] # 0
    BY <1>2 DEF Monitor, Refs
  <2>2. MonitorFrame(p, q, nextRef[p], named) \in Frames
    BY <2>1, SignalsAssumption DEF LinkFrame, MonitorFrame, Frames, Reasons
  <2> QED
    BY <1>2, <2>1, <2>2, FrameFields DEF Monitor
<1>3. ASSUME NEW q \in Pids, NEW why \in Given, NEW named \in BOOLEAN,
             ExitSignal(p, q, why, named)
      PROVE  \E f \in Frames : Sends(f)
  <2>1. SignalFrame(p, q, why, named) \in Frames
    BY SignalFrameType
  <2>2. Asked(p, q, why) \in called'
    BY <1>3 DEF ExitSignal
  <2> QED
    BY <1>3, <2>1, <2>2, FrameFields DEF ExitSignal
<1> QED
  BY <1>1, <1>2, <1>3 DEF Guest, Demonitor

LEMMA GuestTrue ==
    ASSUME TypeOK, NEW p \in Pids, Guest(p)
    PROVE  DeathsStand /\ NewFramesAreTrue /\ NewSignalsAreTrue
<1>1. UNCHANGED <<alive, reason, deaths, inbox>>
  BY DEF Guest, Link, Unlink, Monitor, ExitSignal, Demonitor, lifeVars
<1>2. \/ wire' = wire
      \/ \E f \in Frames : TrueFrame(f)' /\ wire' = Send(wire, Home[p], f)
  BY GuestSends DEF TrueFrame
<1>3. NewFramesAreTrue
  <2>1. CASE wire' = wire
    BY <2>1 DEF NewFramesAreTrue
  <2>2. ASSUME NEW f \in Frames, TrueFrame(f)', wire' = Send(wire, Home[p], f)
        PROVE  NewFramesAreTrue
    <3>1. wire \in Wires /\ Home[p] \in Nodes
      BY SignalsAssumption DEF TypeOK, Wires
    <3>2. \A a, b \in Nodes : Range(wire'[a][b]) \subseteq Range(wire[a][b]) \cup {f}
      <4>1. PICK h \in Nodes : h = Home[p]
        BY <3>1
      <4>2. \A a, b \in Nodes : Range(wire'[a][b]) = Range(wire[a][b]) \cup One(f, h, a, b)
        BY <2>2, <3>1, <4>1, SendFacts
      <4>3. \A a, b \in Nodes : One(f, h, a, b) \subseteq {f}
        BY DEF One
      <4> QED
        BY <4>2, <4>3
    <3> QED
      BY <2>2, <3>2 DEF NewFramesAreTrue
  <2> QED
    BY <1>2, <2>1, <2>2
<1> QED
  BY <1>1, <1>3, UnchangedStands DEF NewSignalsAreTrue

LEMMA ReturnTrue ==
    ASSUME TypeOK, NEW p \in Pids, NEW r \in Given, GuestReturn(p, r)
    PROVE  DeathsStand /\ NewFramesAreTrue /\ NewSignalsAreTrue
<1>1. r \in Reasons /\ Dies(p, r) /\ UNCHANGED <<wire, inbox>>
  BY GivenReasons DEF GuestReturn
<1> QED
  BY <1>1, DiesStands DEF NewFramesAreTrue, NewSignalsAreTrue

LEMMA ForwardTrue ==
    ASSUME TypeOK, DeathsAreTrue, NEW n \in Nodes, Forward(n)
    PROVE  DeathsStand /\ NewFramesAreTrue /\ NewSignalsAreTrue
<1>1. deaths[n] \in Seq(Deaths) /\ deaths[n] # <<>> /\ wire \in Wires
  BY DEF Forward, TypeOK, Wires
<1>2. PICK d \in Deaths : d = Head(deaths[n])
  BY <1>1, RangeHeadTail
<1>3. Range(deaths[n]) = {d} \cup Range(Tail(deaths[n]))
  BY <1>1, <1>2, RangeHeadTail
<1>4. UNCHANGED <<alive, reason, inbox>>
  BY DEF Forward, lifeVars
<1>5. DeathsStand
  <2>1. deaths' = [deaths EXCEPT ![n] = Tail(deaths[n])]
    BY DEF Forward
  <2>2. ASSUME NEW m \in Nodes PROVE Range(deaths'[m]) \subseteq Range(deaths[m])
    BY <2>1, <1>3 DEF TypeOK
  <2> QED
    BY <2>2, <1>4 DEF DeathsStand
<1>6. TrueDeath(d)
  BY <1>3 DEF DeathsAreTrue
<1>7. ASSUME NEW a \in Nodes, NEW b \in Nodes, NEW f \in Range(wire'[a][b])
      PROVE  f \in Range(wire[a][b]) \/ TrueFrame(f)'
  <2>1. wire' = Tell(wire, n, d)
    BY <1>2 DEF Forward
  <2>2. Grows(wire'[a][b], wire[a][b], For(ExitsOf(d) \cup DownsOf(d), n, a, b))
    BY <1>1, <2>1, TellFacts
  <2>3. wire[a][b] \in Seq(Frames)
    BY <1>1 DEF Wires
  <2>4. f \in Range(wire[a][b]) \/ f \in ExitsOf(d) \cup DownsOf(d)
    BY <2>2, <2>3, GrowsFacts DEF For
  <2>5. f \in ExitsOf(d) \cup DownsOf(d) => f.from = d.pid /\ f.reason = d.reason
    BY FrameFields DEF ExitsOf, DownsOf
  <2>6. f \in ExitsOf(d) \cup DownsOf(d) => f.kind # "signal"
    BY FrameFields DEF ExitsOf, DownsOf
  <2> QED
    BY <1>4, <1>6, <2>4, <2>5, <2>6 DEF TrueFrame, TrueDeath
<1> QED
  BY <1>4, <1>5, <1>7 DEF NewFramesAreTrue, NewSignalsAreTrue

LEMMA ReactTrue ==
    ASSUME TypeOK, LossesAreTrue, HistoryGrows, NEW n \in Nodes, React(n)
    PROVE  DeathsStand /\ NewFramesAreTrue /\ NewSignalsAreTrue
<1>1. ASSUME NEW x \in firing[n].todo
      PROVE  <<Home[x.who], Home[x.about]>> \in losses'
  BY <1>1 DEF LossesAreTrue, HistoryGrows
<1>2. wire' = wire
  BY DEF React, LossSeen, FireLink, FireMonitor, Forget
<1>3. CASE LossSeen(n) \/ Forget(n)
  <2>1. UNCHANGED <<alive, reason, deaths, inbox>>
    BY <1>3 DEF LossSeen, Forget, lifeVars
  <2> QED
    BY <1>2, <2>1, UnchangedStands DEF NewFramesAreTrue, NewSignalsAreTrue
<1>4. ASSUME NEW x \in firing[n].todo, FireLink(n, x)
      PROVE  DeathsStand /\ NewFramesAreTrue /\ NewSignalsAreTrue
  <2>1. x \in Relations
    BY DEF TypeOK
  <2>2. x.who \in Pids /\ x.about \in Pids /\ "noconnection" \in Reasons
    BY <2>1, RelationFields DEF Reasons, ExitReasons
  <2>3. /\ Inherits(x.who, Signal(x.about, 0, "noconnection"))
        /\ Signal(x.about, 0, "noconnection") \in Mail
    BY <1>4, <2>2, SignalFacts, ZeroRef DEF FireLink
  <2>4. /\ DeathsStand
        /\ \A q \in Pids : \A s \in inbox'[q] :
              s \in inbox[q] \/ (q = x.who /\ s = Signal(x.about, 0, "noconnection"))
    BY <2>2, <2>3, InheritsStands
  <2>5. HasCause(x.who, Signal(x.about, 0, "noconnection"))'
    BY <1>1 DEF HasCause, Signal
  <2> QED
    BY <1>2, <2>4, <2>5 DEF NewFramesAreTrue, NewSignalsAreTrue
<1>5. ASSUME NEW x \in firing[n].todo, FireMonitor(n, x)
      PROVE  DeathsStand /\ NewFramesAreTrue /\ NewSignalsAreTrue
  <2>1. UNCHANGED <<alive, reason, deaths>>
    BY <1>5 DEF FireMonitor, lifeVars
  <2>2. inbox \in [Pids -> SUBSET Mail]
    BY DEF TypeOK, Mail
  <2>3. \A q \in Pids : \A s \in inbox'[q] :
           s \in inbox[q] \/ (q = x.who /\ s = Signal(x.about, x.ref, "noconnection"))
    BY <1>5, <2>2 DEF FireMonitor
  <2>4. HasCause(x.who, Signal(x.about, x.ref, "noconnection"))'
    BY <1>1 DEF HasCause, Signal
  <2> QED
    BY <1>2, <2>1, <2>3, <2>4, UnchangedStands DEF NewFramesAreTrue, NewSignalsAreTrue
<1> QED
  BY <1>3, <1>4, <1>5 DEF React

LEMMA HandlesTrue ==
    ASSUME TypeOK, HistoryGrows, NEW f \in Frames, TrueFrame(f), Handles(f)
    PROVE  DeathsStand /\ NewSignalsAreTrue
<1>0. /\ f.from \in Pids /\ f.to \in Pids /\ f.ref \in 0..MaxRef /\ f.reason \in Reasons
      /\ "killed" \in Reasons
  BY DEF Frames, Reasons, ExitReasons
<1>1. CASE OnLink(f) \/ OnUnlink(f) \/ OnMonitor(f)
  <2>1. UNCHANGED <<alive, reason, deaths, inbox>>
    BY <1>1 DEF OnLink, OnUnlink, OnMonitor
  <2> QED
    BY <2>1, UnchangedStands DEF NewSignalsAreTrue
<1>2. CASE OnSignal(f)
  <2>1. CASE Dies(f.to, "killed") /\ inbox' = inbox
    BY <1>0, <2>1, DiesStands DEF NewSignalsAreTrue
  <2>2. CASE f.reason # "kill" /\ Inherits(f.to, Sent(f.from, f.reason))
    <3>1. Sent(f.from, f.reason) \in Mail
      BY <1>0, SignalFacts, ZeroRef
    <3>2. /\ DeathsStand
          /\ \A q \in Pids : \A s \in inbox'[q] :
                s \in inbox[q] \/ (q = f.to /\ s = Sent(f.from, f.reason))
      BY <1>0, <2>2, <3>1, InheritsStands
    <3>3. Asked(f.from, f.to, f.reason) \in called'
      BY <1>2 DEF OnSignal, TrueFrame, HistoryGrows
    <3>4. HasCause(f.to, Sent(f.from, f.reason))'
      BY <1>0, <2>2, <3>3 DEF HasCause, Sent, Signal
    <3> QED
      BY <3>2, <3>4 DEF NewSignalsAreTrue
  <2> QED
    BY <1>2, <2>1, <2>2 DEF OnSignal
<1>3. CASE OnExit(f) \/ OnDown(f)
  <2>0. Signal(f.from, 0, f.reason) \in Mail
    BY <1>0, SignalFacts, ZeroRef
  <2>1. DeathsStand
    <3>1. CASE OnExit(f)
      BY <1>0, <2>0, <3>1, InheritsStands DEF OnExit
    <3>2. CASE OnDown(f)
      BY <3>2, UnchangedStands DEF OnDown
    <3> QED
      BY <1>3, <3>1, <3>2
  <2>2. ASSUME NEW q \in Pids, NEW s \in inbox'[q]
        PROVE  \/ s \in inbox[q]
               \/ q = f.to /\ s.from = f.from /\ s.reason = f.reason /\ s.sent = FALSE
    <3>1. CASE OnExit(f)
      <4>1. s \in inbox[q] \/ (q = f.to /\ s = Signal(f.from, 0, f.reason))
        BY <1>0, <2>0, <3>1, InheritsStands DEF OnExit
      <4> QED
        BY <4>1 DEF Signal
    <3>2. CASE OnDown(f)
      <4>1. s \in inbox[q] \/ (q = f.to /\ s = Signal(f.from, f.ref, f.reason))
        BY <1>0, <3>2 DEF OnDown, TypeOK
      <4> QED
        BY <4>1 DEF Signal
    <3> QED
      BY <1>3, <3>1, <3>2
  <2>3. TrueFrame(f)'
    BY <2>1, TruthStays
  <2>4. f.kind \in {"exit", "down"}
    BY <1>3 DEF OnExit, OnDown
  <2> QED
    BY <2>1, <2>2, <2>3, <2>4 DEF NewSignalsAreTrue, TrueFrame, HasCause
<1> QED
  BY <1>1, <1>2, <1>3 DEF Handles

LEMMA TransportTrue ==
    ASSUME TypeOK, HistoryGrows, FramesAreTrue,
           NEW n \in Nodes, NEW m \in Nodes, Transport(n, m)
    PROVE  DeathsStand /\ NewFramesAreTrue /\ NewSignalsAreTrue
<1>1. CASE Receive(n, m)
  <2>3. PICK f \in Frames, w \in Wires :
            /\ Handles(f)
            /\ Range(wire[n][m]) = {f} \cup Range(w[n][m])
            /\ \A a, b \in Nodes : <<a, b>> # <<n, m>> => w[a][b] = wire[a][b]
            /\ \A a, b \in Nodes : Grows(wire'[a][b], w[a][b], For(Answer(f), m, a, b))
    BY <1>1, ReceiveFacts
  <2>4. TrueFrame(f)
    BY <2>3 DEF FramesAreTrue
  <2>5. DeathsStand /\ NewSignalsAreTrue
    BY <2>3, <2>4, HandlesTrue
  <2>6. ASSUME NEW a \in Nodes, NEW b \in Nodes, NEW g \in Range(wire'[a][b])
        PROVE  g \in Range(wire[a][b]) \/ TrueFrame(g)'
    <3>1. w[a][b] \in Seq(Frames) /\ Range(w[a][b]) \subseteq Range(wire[a][b])
      BY <2>3 DEF Wires
    <3>2. g \in Range(wire[a][b]) \/ g \in Answer(f)
      <4>1. Range(wire'[a][b]) = Range(w[a][b]) \cup For(Answer(f), m, a, b)
        BY <2>3, <3>1, GrowsFacts
      <4>2. For(Answer(f), m, a, b) \subseteq Answer(f)
        BY DEF For
      <4> QED
        BY <3>1, <4>1, <4>2
    <3>3. g \in Answer(f) => g.reason = "noproc" /\ g.from = g.to /\ g.kind # "signal"
      BY FrameFields DEF Answer
    <3> QED
      BY <3>2, <3>3 DEF TrueFrame
  <2> QED
    BY <2>5, <2>6 DEF NewFramesAreTrue
<1>2. CASE Dial(n, m) \/ DialFails(n, m) \/ \E k \in 0..Len(wire[n][m]) : ConnEnds(n, m, k)
  <2>1. UNCHANGED <<alive, reason, deaths, inbox>>
    BY <1>2 DEF Dial, DialFails, ConnEnds, lifeVars
  <2>2. \A a, b \in Nodes : Range(wire'[a][b]) \subseteq Range(wire[a][b])
    <3>1. CASE Dial(n, m)
      BY <3>1 DEF Dial
    <3>2. CASE DialFails(n, m) \/ \E k \in 0..Len(wire[n][m]) : ConnEnds(n, m, k)
      BY <3>2, CutFacts
    <3> QED
      BY <1>2, <3>1, <3>2
  <2> QED
    BY <2>1, <2>2, UnchangedStands DEF NewFramesAreTrue, NewSignalsAreTrue
<1> QED
  BY <1>1, <1>2 DEF Transport

LEMMA FaultTrue ==
    ASSUME TypeOK, Fault \/ \E n, m \in Nodes : Heal(n, m)
    PROVE  DeathsStand /\ NewFramesAreTrue /\ NewSignalsAreTrue
<1>1. UNCHANGED <<alive, reason, deaths, inbox>>
  BY DEF Fault, Crash, Break, Heal, lifeVars
<1>2. \A a, b \in Nodes : Range(wire'[a][b]) \subseteq Range(wire[a][b])
  <2>1. ASSUME NEW m \in Nodes, Crash(m)
        PROVE  \A a, b \in Nodes : Range(wire'[a][b]) \subseteq Range(wire[a][b])
    BY <2>1, CrashFacts
  <2>2. CASE \E n, m \in Nodes : Break(n, m) \/ Heal(n, m)
    BY <2>2 DEF Break, Heal
  <2> QED
    BY <2>1, <2>2 DEF Fault
<1> QED
  BY <1>1, <1>2, UnchangedStands DEF NewFramesAreTrue, NewSignalsAreTrue

Truth ==
    /\ TypeOK /\ FaultsAreKnown
    /\ LossesAreTrue /\ FramesAreTrue /\ DeathsAreTrue /\ SignalsAreTrue

LEMMA InitTruth == Init => Truth
<1> SUFFICES ASSUME Init PROVE Truth
  OBVIOUS
<1>1. TypeOK
  BY InitTypeOK
<1>2. FaultsAreKnown /\ SignalsAreTrue
  BY DEF Init, FaultsAreKnown, SignalsAreTrue
<1>3. \A n, m \in Nodes : Range(wire[n][m]) = {} /\ Range(deaths[n]) = {}
  BY DEF Init, Range
<1>4. LossesAreTrue
  BY DEF Init, LossesAreTrue, NotFiring, Range
<1> QED
  BY <1>1, <1>2, <1>3, <1>4 DEF Truth, FramesAreTrue, DeathsAreTrue

LEMMA NextStands ==
    ASSUME Truth, [Next]_vars
    PROVE  DeathsStand /\ NewFramesAreTrue /\ NewSignalsAreTrue
<1>0. HistoryGrows
  BY LossesStayTrue DEF Truth
<1>1. CASE UNCHANGED vars
  BY <1>1, UnchangedStands DEF vars, lifeVars, NewFramesAreTrue, NewSignalsAreTrue
<1>2. CASE Next
  BY <1>0, <1>2, GuestTrue, ReturnTrue, ForwardTrue, ReactTrue, TransportTrue, FaultTrue DEF Next, Truth
<1> QED
  BY <1>1, <1>2

LEMMA NextTruth == Truth /\ [Next]_vars => Truth'
<1> SUFFICES ASSUME Truth, [Next]_vars PROVE Truth'
  OBVIOUS
<1> USE DEF Truth
<1>1. TypeOK' /\ FaultsAreKnown' /\ LossesAreTrue' /\ HistoryGrows
  BY NextTypeOK, FaultsStayKnown, LossesStayTrue
<1>2. DeathsStand /\ NewFramesAreTrue /\ NewSignalsAreTrue
  BY NextStands
<1> QED
  BY <1>1, <1>2, TruthStep

\* Across nodes, an Exit or a Down tells the truth (src/signals.rs,
\* src/protocol.rs).  One that was pushed for an exit-signal is what its sender
\* asked for, of this particle and with this reason, and is never a kill, which a
\* trapping particle cannot decline.  Any other comes from a particle that has died
\* of its reason, or from a node whose loss the receiver's node has announced, or
\* answers a call for a name nobody held; for any number of nodes, particles,
\* reasons, crashes and broken paths.
THEOREM SignalsTellTheTruth == Spec => []SignalsAreTrue
<1>1. Truth => SignalsAreTrue
  BY DEF Truth
<1> QED
  BY <1>1, InitTruth, NextTruth, PTL DEF Spec

-----------------------------------------------------------------------------
(* Links and monitors fire *)

\* Nothing that was signalled is taken back, and no crashed node returns.
LEMMA SignalsStay ==
    ASSUME TypeOK, [Next]_vars
    PROVE  down \subseteq down' /\ \A p \in Pids : inbox[p] \subseteq inbox'[p]
<1> DEFINE Stay == down \subseteq down' /\ \A p \in Pids : inbox[p] \subseteq inbox'[p]
<1>1. inbox \in [Pids -> SUBSET Mail]
  BY DEF TypeOK, Mail
<1>2. ASSUME NEW to, NEW y, Inherits(to, y)
      PROVE  \A p \in Pids : inbox[p] \subseteq inbox'[p]
  BY <1>1, <1>2 DEF Inherits
<1>3. ASSUME NEW f, Handles(f)
      PROVE  \A p \in Pids : inbox[p] \subseteq inbox'[p]
  <2>1. CASE OnDown(f)
    BY <1>1, <2>1 DEF OnDown
  <2> QED
    BY <1>2, <1>3, <2>1 DEF Handles, OnLink, OnUnlink, OnMonitor, OnExit, OnSignal
<1>4. ASSUME NEW n \in Nodes, React(n) PROVE Stay
  <2>1. down' = down
    BY <1>4 DEF React, LossSeen, Forget, FireLink, FireMonitor, faultVars, histVars
  <2>2. ASSUME NEW x, FireMonitor(n, x)
        PROVE  \A p \in Pids : inbox[p] \subseteq inbox'[p]
    BY <1>1, <2>2 DEF FireMonitor
  <2> QED
    BY <1>2, <1>4, <2>1, <2>2 DEF React, LossSeen, Forget, FireLink
<1>5. ASSUME NEW n \in Nodes, NEW m \in Nodes, Transport(n, m) PROVE Stay
  <2>1. down' = down
    BY <1>5 DEF Transport, Receive, Dial, DialFails, ConnEnds, faultVars, histVars
  <2> QED
    BY <1>3, <1>5, <2>1 DEF Transport, Receive, Dial, DialFails, ConnEnds, Handles
<1>6. ASSUME NEW p \in Pids, Guest(p) PROVE Stay
  BY <1>6 DEF Guest, Link, Unlink, Monitor, ExitSignal, Demonitor, faultVars, histVars
<1>7. ASSUME NEW p \in Pids, NEW r, GuestReturn(p, r) PROVE Stay
  BY <1>7 DEF GuestReturn, faultVars, histVars
<1>8. ASSUME NEW n \in Nodes, Forward(n) PROVE Stay
  BY <1>8 DEF Forward, faultVars, histVars
<1>9. CASE Fault
  BY <1>9 DEF Fault, Crash, Break
<1>10. ASSUME NEW n \in Nodes, NEW m \in Nodes, Heal(n, m) PROVE Stay
  BY <1>10 DEF Heal
<1>11. CASE UNCHANGED vars
  BY <1>11 DEF vars, faultVars, histVars
<1>12. CASE Next
  BY <1>4, <1>5, <1>6, <1>7, <1>8, <1>9, <1>10, <1>12 DEF Next
<1> QED
  BY <1>11, <1>12

LEMMA ToldStays ==
    ASSUME Truth, [Next]_vars, NEW x \in Relations, Told(x)
    PROVE  Told(x)'
<1>1. x.who \in Pids
  BY RelationFields
<1>2. alive' \subseteq alive
  BY NextStands DEF DeathsStand
<1>3. down \subseteq down' /\ inbox[x.who] \subseteq inbox'[x.who]
  BY <1>1, SignalsStay DEF Truth
<1> QED
  BY <1>2, <1>3 DEF Told, Up

\* What exit_particle publishes.
LEMMA DiesPublishes ==
    ASSUME TypeOK, NEW p \in Pids, NEW r \in Reasons, Dies(p, r), p \in alive
    PROVE  \E d \in Deaths :
              /\ d.pid = p /\ d.reason = r /\ d.links = links[p]
              /\ d.watchers = {x \in monitoredBy : x.about = p}
              /\ d \in Range(deaths'[Home[p]])
              /\ \A n \in Nodes : Range(deaths[n]) \subseteq Range(deaths'[n])
<1> DEFINE e == [pid |-> p, reason |-> r, links |-> links[p],
                 watchers |-> {x \in monitoredBy : x.about = p}]
<1>1. e \in Deaths
  BY DEF TypeOK, Deaths
<1>2. PICK d \in Deaths : d = e
  BY <1>1
<1>3. deaths' = [deaths EXCEPT ![Home[p]] = Append(@, d)]
  BY <1>2 DEF Dies, RemoteLinks
<1>4. /\ d.pid = p /\ d.reason = r /\ d.links = links[p]
      /\ d.watchers = {x \in monitoredBy : x.about = p}
  BY <1>2
<1>5. Home[p] \in Nodes /\ \A n \in Nodes : deaths[n] \in Seq(Deaths)
  BY SignalsAssumption DEF TypeOK
<1>6. deaths'[Home[p]] = Append(deaths[Home[p]], d)
  BY <1>3, <1>5 DEF TypeOK
<1>7. Range(deaths'[Home[p]]) = Range(deaths[Home[p]]) \cup {d}
  <2>1. PICK q \in Seq(Deaths) : q = deaths[Home[p]]
    BY <1>5
  <2> QED
    BY <2>1, <1>6, RangeAppend
<1>8. \A n \in Nodes : n # Home[p] => deaths'[n] = deaths[n]
  BY <1>3 DEF TypeOK
<1> QED
  BY <1>4, <1>7, <1>8

LEMMA DeathsKept ==
    ASSUME TypeOK,
           \/ \E p \in Pids, r \in Reasons : Dies(p, r)
           \/ \E p \in Pids, y \in Mail : Inherits(p, y)
           \/ UNCHANGED deaths
    PROVE  \A n \in Nodes : Range(deaths[n]) \subseteq Range(deaths'[n])
<1>1. ASSUME NEW p \in Pids, NEW r \in Reasons, Dies(p, r)
      PROVE  \A n \in Nodes : Range(deaths[n]) \subseteq Range(deaths'[n])
  <2>1. CASE p \in alive
    BY <1>1, <2>1, DiesPublishes
  <2>2. CASE p \notin alive
    BY <1>1, <2>2 DEF Dies
  <2> QED
    BY <2>1, <2>2
<1>2. ASSUME NEW p \in Pids, NEW y \in Mail, Inherits(p, y)
      PROVE  \A n \in Nodes : Range(deaths[n]) \subseteq Range(deaths'[n])
  <2>1. y.reason \in Reasons
    BY DEF Mail
  <2> QED
    BY <1>1, <1>2, <2>1 DEF Inherits
<1> QED
  BY <1>1, <1>2

\* Word that is on its way stays so until it arrives, or the path is cut.
ComingKept ==
    /\ \A a, b \in Nodes : Range(wire[a][b]) \subseteq Range(wire'[a][b])
    /\ \A n \in Nodes : Range(deaths[n]) \subseteq Range(deaths'[n])

LEMMA KeptComes ==
    ASSUME NEW x \in Relations, Coming(x), ComingKept
    PROVE  Coming(x)'
  BY RelationFields DEF Coming, ComingKept

LEMMA GuestKeeps ==
    ASSUME TypeOK, NEW p \in Pids, Guest(p)
    PROVE  ComingKept
<1>1. deaths' = deaths
  BY DEF Guest, Link, Unlink, Monitor, ExitSignal, Demonitor
<1>2. wire \in Wires
  BY DEF TypeOK, Wires
<1>3. PICK h \in Nodes : h = Home[p]
  BY SignalsAssumption
<1>4. ASSUME NEW f \in Frames, wire' = Send(wire, h, f)
      PROVE  \A a, b \in Nodes : Range(wire[a][b]) \subseteq Range(wire'[a][b])
  <2>1. \A a, b \in Nodes : Range(wire'[a][b]) = Range(wire[a][b]) \cup One(f, h, a, b)
    BY <1>2, <1>3, <1>4, SendFacts
  <2> QED
    BY <2>1
<1>5. wire' = wire \/ \E f \in Frames : wire' = Send(wire, h, f)
  BY <1>3, GuestSends
<1> QED
  BY <1>1, <1>4, <1>5 DEF ComingKept

LEMMA ReturnReactKeeps ==
    ASSUME TypeOK,
           \/ \E p \in Pids, r \in Given : GuestReturn(p, r)
           \/ \E n \in Nodes : React(n)
    PROVE  ComingKept
<1>1. wire' = wire
  BY DEF GuestReturn, React, LossSeen, FireLink, FireMonitor, Forget
<1>2. ASSUME NEW p \in Pids, NEW r \in Given, GuestReturn(p, r)
      PROVE  \A n \in Nodes : Range(deaths[n]) \subseteq Range(deaths'[n])
  <2>1. r \in Reasons /\ Dies(p, r)
    BY <1>2, GivenReasons DEF GuestReturn
  <2> QED
    BY <2>1, DeathsKept
<1>3. ASSUME NEW n \in Nodes, React(n)
      PROVE  \A k \in Nodes : Range(deaths[k]) \subseteq Range(deaths'[k])
  <2>1. ASSUME NEW x \in firing[n].todo, FireLink(n, x)
        PROVE  \A k \in Nodes : Range(deaths[k]) \subseteq Range(deaths'[k])
    <3>1. x \in Relations
      BY DEF TypeOK
    <3>2. x.who \in Pids /\ x.about \in Pids /\ "noconnection" \in Reasons
      BY <3>1, RelationFields DEF Reasons, ExitReasons
    <3>3. /\ Inherits(x.who, Signal(x.about, 0, "noconnection"))
          /\ Signal(x.about, 0, "noconnection") \in Mail
      BY <2>1, <3>2, SignalFacts, ZeroRef DEF FireLink
    <3> QED
      BY <3>2, <3>3, DeathsKept
  <2>2. CASE deaths' = deaths
    BY <2>2
  <2> QED
    BY <1>3, <2>1, <2>2 DEF React, LossSeen, FireMonitor, Forget
<1> QED
  BY <1>1, <1>2, <1>3 DEF ComingKept

LEMMA ForwardComes ==
    ASSUME TypeOK, NEW n \in Nodes, Forward(n), NEW x \in Relations, Coming(x)
    PROVE  Coming(x)'
<1>0. /\ x.who \in Pids /\ x.about \in Pids
      /\ Home[x.who] \in Nodes /\ Home[x.about] \in Nodes
  BY RelationFields
<1>1. deaths[n] \in Seq(Deaths) /\ deaths[n] # <<>> /\ wire \in Wires
  BY DEF Forward, TypeOK, Wires
<1>2. PICK d \in Deaths : d = Head(deaths[n])
  BY <1>1, RangeHeadTail
<1>3. Range(deaths[n]) = {d} \cup Range(Tail(deaths[n]))
  BY <1>1, <1>2, RangeHeadTail
<1>4. wire' = Tell(wire, n, d) /\ deaths' = [deaths EXCEPT ![n] = Tail(deaths[n])]
  BY <1>2 DEF Forward
<1>5. \A a, b \in Nodes : wire[a][b] \in Seq(Frames)
  BY <1>1 DEF Wires
<1>6. \A a, b \in Nodes : Grows(wire'[a][b], wire[a][b], For(ExitsOf(d) \cup DownsOf(d), n, a, b))
  BY <1>1, <1>2, <1>4, TellFacts
<1>7. \A a, b \in Nodes :
         Range(wire'[a][b]) = Range(wire[a][b]) \cup For(ExitsOf(d) \cup DownsOf(d), n, a, b)
  BY <1>5, <1>6, GrowsFacts
<1>8. CASE \E f \in Range(wire[Home[x.about]][Home[x.who]]) : Tells(f, x)
  BY <1>0, <1>7, <1>8 DEF Coming
<1>9. ASSUME NEW e \in Range(deaths[Home[x.about]]), Names(e, x)
      PROVE  Coming(x)'
  <2>1. CASE e \in Range(deaths'[Home[x.about]])
    BY <1>9, <2>1 DEF Coming
  <2>2. CASE Home[x.about] = n /\ e = d
    <3>1. \E f \in ExitsOf(d) \cup DownsOf(d) : Tells(f, x) /\ f.to = x.who
      <4>1. CASE x.ref = 0
        <5>1. ExitFrame(d.pid, x.who, d.reason) \in ExitsOf(d)
          BY <1>9, <2>2, <4>1 DEF Names, ExitsOf
        <5> QED
          BY <1>9, <2>2, <4>1, <5>1, FrameFields DEF Names, Tells
      <4>2. CASE x.ref # 0
        <5>1. DownFrame(d.pid, x.who, x.ref, d.reason) \in DownsOf(d)
          BY <1>9, <2>2, <4>2 DEF Names, DownsOf
        <5> QED
          BY <1>9, <2>2, <4>2, <5>1, FrameFields DEF Names, Tells
      <4> QED
        BY <4>1, <4>2
    <3>2. PICK f \in ExitsOf(d) \cup DownsOf(d) : Tells(f, x) /\ f.to = x.who
      BY <3>1
    <3>3. f \in For(ExitsOf(d) \cup DownsOf(d), n, Home[x.about], Home[x.who])
      BY <2>2, <3>2 DEF For
    <3>4. f \in Range(wire'[Home[x.about]][Home[x.who]])
      BY <1>0, <1>7, <3>3
    <3> QED
      BY <3>2, <3>4 DEF Coming
  <2>3. e \in Range(deaths'[Home[x.about]]) \/ (Home[x.about] = n /\ e = d)
    <3>1. CASE Home[x.about] = n
      <4>1. deaths'[n] = Tail(deaths[n])
        BY <1>4 DEF TypeOK
      <4> QED
        BY <1>3, <1>9, <3>1, <4>1
    <3>2. CASE Home[x.about] # n
      <4>1. deaths'[Home[x.about]] = deaths[Home[x.about]]
        BY <1>0, <1>4, <3>2 DEF TypeOK
      <4> QED
        BY <1>9, <4>1
    <3> QED
      BY <3>1, <3>2
  <2> QED
    BY <2>1, <2>2, <2>3
<1> QED
  BY <1>8, <1>9 DEF Coming

\* The handler of the frame that tells x does.
LEMMA HandlesTells ==
    ASSUME TypeOK, NEW f \in Frames, Handles(f), NEW x \in Relations, Tells(f, x)
    PROVE  Told(x)'
<1>0. x.who \in Pids /\ inbox \in [Pids -> SUBSET Mail]
  BY RelationFields DEF TypeOK, Mail
<1>1. CASE x.ref = 0
  <2>1. Inherits(x.who, Signal(x.about, 0, f.reason)) /\ IsAbnormal(f.reason)
    BY <1>1 DEF Tells, Handles, OnLink, OnUnlink, OnMonitor, OnExit, OnSignal, OnDown
  <2>2. CASE x.who \in Traps
    <3>1. CASE x.who \in alive
      <4>1. Signal(x.about, 0, f.reason) \in inbox'[x.who]
        BY <1>0, <2>1, <2>2, <3>1 DEF Inherits
      <4> QED
        BY <1>1, <4>1 DEF Told, Signal
    <3>2. CASE x.who \notin alive
      <4>1. x.who \notin alive'
        BY <2>1, <2>2, <3>2 DEF Inherits
      <4> QED
        BY <4>1 DEF Told, Up
    <3> QED
      BY <3>1, <3>2
  <2>3. CASE x.who \notin Traps
    <3>1. Dies(x.who, f.reason)
      BY <2>1, <2>3 DEF Inherits, Signal
    <3>2. x.who \notin alive'
      BY <3>1 DEF Dies
    <3> QED
      BY <3>2 DEF Told, Up
  <2> QED
    BY <2>2, <2>3
<1>2. CASE x.ref # 0
  <2>1. OnDown(f)
    BY <1>2 DEF Tells, Handles, OnLink, OnUnlink, OnMonitor, OnExit, OnSignal, OnDown
  <2>2. CASE x.who \in alive
    <3>1. Signal(x.about, x.ref, f.reason) \in inbox'[x.who]
      BY <1>0, <2>1, <2>2 DEF OnDown, Tells
    <3> QED
      BY <3>1 DEF Told, Signal
  <2>3. CASE x.who \notin alive
    BY <2>1, <2>3 DEF OnDown, Told, Up
  <2> QED
    BY <2>2, <2>3
<1> QED
  BY <1>1, <1>2

LEMMA HandlesKeepsDeaths ==
    ASSUME TypeOK, NEW f \in Frames, Handles(f)
    PROVE  \A n \in Nodes : Range(deaths[n]) \subseteq Range(deaths'[n])
<1>0. f.from \in Pids /\ f.to \in Pids /\ f.reason \in Reasons /\ "killed" \in Reasons
  BY DEF Frames, Reasons, ExitReasons
<1>1. \/ \E p \in Pids, r \in Reasons : Dies(p, r)
      \/ \E p \in Pids, y \in Mail : Inherits(p, y)
      \/ UNCHANGED deaths
  <2>0. Signal(f.from, 0, f.reason) \in Mail /\ Sent(f.from, f.reason) \in Mail
    BY <1>0, SignalFacts, ZeroRef
  <2>1. CASE OnExit(f)
    BY <1>0, <2>0, <2>1 DEF OnExit
  <2>2. CASE OnSignal(f)
    BY <1>0, <2>0, <2>2 DEF OnSignal
  <2> QED
    BY <2>1, <2>2 DEF Handles, OnLink, OnUnlink, OnMonitor, OnDown
<1> QED
  BY <1>1, DeathsKept

LEMMA ReceiveComes ==
    ASSUME TypeOK, NEW n \in Nodes, NEW m \in Nodes, Receive(n, m),
           NEW x \in Relations, Coming(x)
    PROVE  Coming(x)' \/ Told(x)'
<1>0. Home[x.who] \in Nodes /\ Home[x.about] \in Nodes
  BY RelationFields
<1>1. PICK f \in Frames, w \in Wires :
          /\ Handles(f)
          /\ Range(wire[n][m]) = {f} \cup Range(w[n][m])
          /\ \A a, b \in Nodes : <<a, b>> # <<n, m>> => w[a][b] = wire[a][b]
          /\ \A a, b \in Nodes : Grows(wire'[a][b], w[a][b], For(Answer(f), m, a, b))
  BY ReceiveFacts
<1>2. \A a, b \in Nodes : w[a][b] \in Seq(Frames)
  BY <1>1 DEF Wires
<1>3. \A a, b \in Nodes : Range(w[a][b]) \subseteq Range(wire'[a][b])
  BY <1>1, <1>2, GrowsFacts
<1>4. CASE \E d \in Range(deaths[Home[x.about]]) : Names(d, x)
  <2>1. Range(deaths[Home[x.about]]) \subseteq Range(deaths'[Home[x.about]])
    BY <1>0, <1>1, HandlesKeepsDeaths
  <2> QED
    BY <1>4, <2>1 DEF Coming
<1>5. ASSUME NEW g \in Range(wire[Home[x.about]][Home[x.who]]), Tells(g, x)
      PROVE  Coming(x)' \/ Told(x)'
  <2>1. g = f \/ g \in Range(w[Home[x.about]][Home[x.who]])
    BY <1>0, <1>1, <1>5
  <2>2. CASE g = f
    BY <1>1, <1>5, <2>2, HandlesTells
  <2>3. CASE g \in Range(w[Home[x.about]][Home[x.who]])
    BY <1>0, <1>3, <1>5, <2>3 DEF Coming
  <2> QED
    BY <2>1, <2>2, <2>3
<1> QED
  BY <1>4, <1>5 DEF Coming

\* A frame is dropped only when the path is cut or its receiver's node is gone.
LEMMA CutComes ==
    ASSUME TypeOK, NEW n \in Nodes, NEW m \in Nodes,
           DialFails(n, m) \/ \E k \in 0..Len(wire[n][m]) : ConnEnds(n, m, k),
           NEW x \in Relations, Coming(x)
    PROVE  Coming(x)' \/ Told(x)' \/ ~Path(Home[x.who], Home[x.about])'
<1>0. Home[x.who] \in Nodes /\ Home[x.about] \in Nodes
  BY RelationFields
<1>1. UNCHANGED <<deaths, down, broken>> /\ ~Path(n, m)
  BY DEF DialFails, ConnEnds, faultVars, histVars
<1>2. CASE <<Home[x.about], Home[x.who]>> = <<n, m>>
  <2>1. CASE {n, m} \in broken
    <3>1. {Home[x.who], Home[x.about]} = {n, m}
      BY <1>2
    <3> QED
      BY <1>1, <2>1, <3>1 DEF Path
  <2>2. CASE m \in down
    BY <1>1, <1>2, <2>2 DEF Told, Up
  <2> QED
    BY <1>1, <2>1, <2>2 DEF Path
<1>3. CASE <<Home[x.about], Home[x.who]>> # <<n, m>>
  <2>1. wire'[Home[x.about]][Home[x.who]] = wire[Home[x.about]][Home[x.who]]
    BY <1>0, <1>3, CutFacts
  <2> QED
    BY <1>1, <2>1 DEF Coming
<1> QED
  BY <1>2, <1>3

LEMMA FaultComes ==
    ASSUME TypeOK, Fault \/ \E n, m \in Nodes : Heal(n, m), NEW x \in Relations, Coming(x)
    PROVE  Coming(x)' \/ ~Path(Home[x.who], Home[x.about])'
<1>0. Home[x.who] \in Nodes /\ Home[x.about] \in Nodes
  BY RelationFields
<1>1. CASE \E n, m \in Nodes : Break(n, m) \/ Heal(n, m)
  BY <1>1 DEF Break, Heal, Coming
<1>2. ASSUME NEW m \in Nodes, Crash(m)
      PROVE  Coming(x)' \/ ~Path(Home[x.who], Home[x.about])'
  <2>1. CASE m = Home[x.about]
    BY <1>2, <2>1 DEF Crash, Path
  <2>2. CASE m # Home[x.about]
    <3>1. wire'[Home[x.about]][Home[x.who]] = wire[Home[x.about]][Home[x.who]]
      BY <1>0, <1>2, <2>2, CrashFacts
    <3>2. deaths' = deaths
      BY <1>2 DEF Crash
    <3> QED
      BY <3>1, <3>2 DEF Coming
  <2> QED
    BY <2>1, <2>2
<1> QED
  BY <1>1, <1>2 DEF Fault

\* Word that is on its way stays so, or arrives, or the path is cut.
LEMMA ComingStep ==
    ASSUME TypeOK, [Next]_vars, NEW x \in Relations, Coming(x)
    PROVE  Coming(x)' \/ Told(x)' \/ ~Path(Home[x.who], Home[x.about])'
<1>1. CASE UNCHANGED vars
  BY <1>1 DEF vars, Coming
<1>2. ASSUME NEW p \in Pids, Guest(p) PROVE Coming(x)'
  BY <1>2, GuestKeeps, KeptComes
<1>3. CASE \/ \E p \in Pids, r \in Given : GuestReturn(p, r)
           \/ \E n \in Nodes : React(n)
  BY <1>3, ReturnReactKeeps, KeptComes
<1>4. ASSUME NEW n \in Nodes, Forward(n) PROVE Coming(x)'
  BY <1>4, ForwardComes
<1>5. ASSUME NEW n \in Nodes, NEW m \in Nodes, Transport(n, m)
      PROVE  Coming(x)' \/ Told(x)' \/ ~Path(Home[x.who], Home[x.about])'
  <2>1. CASE Receive(n, m)
    BY <2>1, ReceiveComes
  <2>2. CASE DialFails(n, m) \/ \E k \in 0..Len(wire[n][m]) : ConnEnds(n, m, k)
    BY <2>2, CutComes
  <2>3. CASE Dial(n, m)
    BY <2>3 DEF Dial, Coming
  <2> QED
    BY <1>5, <2>1, <2>2, <2>3 DEF Transport
<1>6. CASE Fault \/ \E n, m \in Nodes : Heal(n, m)
  BY <1>6, FaultComes
<1> QED
  BY <1>1, <1>2, <1>3, <1>4, <1>5, <1>6 DEF Next

\* A half stays until its holder is gone, calls it off, or forgets the node.
LEMMA DiesHolds ==
    ASSUME TypeOK, NEW p \in Pids, NEW r, Dies(p, r), UNCHANGED down,
           NEW x \in Relations, Holds(x)
    PROVE  Holds(x)' \/ Told(x)'
<1>1. CASE p \notin alive
  BY <1>1 DEF Dies, Holds, Up
<1>2. CASE p \in alive /\ x.who = p
  <2>1. x.who \notin alive'
    BY <1>2 DEF Dies
  <2> QED
    BY <2>1 DEF Told, Up
<1>3. CASE p \in alive /\ x.who # p
  <2>1. x.who \in Pids /\ links \in [Pids -> SUBSET Pids]
    BY RelationFields DEF TypeOK
  <2>2. /\ alive' = alive \ {p} /\ links' = [links EXCEPT ![p] = {}]
        /\ monitors' = {y \in monitors : y.who # p}
    BY <1>3 DEF Dies
  <2>3. Up(x.who)' /\ links'[x.who] = links[x.who] /\ (x \in monitors => x \in monitors')
    BY <1>3, <2>1, <2>2 DEF Holds, Up
  <2> QED
    BY <2>3 DEF Holds
<1> QED
  BY <1>1, <1>2, <1>3

LEMMA InheritsHolds ==
    ASSUME TypeOK, NEW p \in Pids, NEW y, Inherits(p, y), UNCHANGED down,
           NEW x \in Relations, Holds(x)
    PROVE  Holds(x)' \/ Told(x)'
<1>1. CASE Dies(p, y.reason)
  BY <1>1, DiesHolds
<1>2. CASE UNCHANGED <<alive, links, monitors>>
  BY <1>2 DEF Holds, Up
<1> QED
  BY <1>1, <1>2 DEF Inherits

LEMMA HandlesHolds ==
    ASSUME TypeOK, NEW f \in Frames, Handles(f), UNCHANGED down,
           NEW x \in Relations, Holds(x), x \in owed'
    PROVE  Holds(x)' \/ Told(x)'
<1>0. /\ f.to \in Pids /\ f.from \in Pids /\ x.who \in Pids
      /\ links \in [Pids -> SUBSET Pids]
      /\ x = [who |-> x.who, about |-> x.about, ref |-> x.ref]
  BY RelationFields DEF Frames, TypeOK
<1>1. CASE OnLink(f)
  <2>1. links[x.who] \subseteq links'[x.who]
    BY <1>0, <1>1 DEF OnLink
  <2> QED
    BY <1>1, <2>1 DEF OnLink, Holds, Up
<1>2. CASE OnUnlink(f)
  <2>1. x # LinkOf(f.to, f.from)
    BY <1>2 DEF OnUnlink
  <2>2. ~(x.ref = 0 /\ x.who = f.to /\ x.about = f.from)
    BY <1>0, <2>1 DEF LinkOf
  <2>3. x.ref = 0 /\ x.about \in links[x.who] => x.about \in links'[x.who]
    BY <1>0, <1>2, <2>2 DEF OnUnlink
  <2> QED
    BY <1>2, <2>3 DEF OnUnlink, Holds, Up
<1>3. CASE OnMonitor(f) \/ OnDown(f)
  BY <1>3 DEF OnMonitor, OnDown, Holds, Up
<1>4. CASE OnExit(f)
  BY <1>0, <1>4, InheritsHolds DEF OnExit
<1>5. CASE OnSignal(f)
  BY <1>0, <1>5, DiesHolds, InheritsHolds DEF OnSignal
<1> QED
  BY <1>1, <1>2, <1>3, <1>4, <1>5 DEF Handles

LEMMA GuestHolds ==
    ASSUME TypeOK, NEW p \in Pids, Guest(p), NEW x \in Relations, Holds(x), x \in owed'
    PROVE  Holds(x)'
<1>0. /\ x.who \in Pids /\ links \in [Pids -> SUBSET Pids] /\ x.ref \in Nat
      /\ x = [who |-> x.who, about |-> x.about, ref |-> x.ref]
  BY RelationFields DEF TypeOK
<1>1. ASSUME NEW q \in Pids, NEW named \in BOOLEAN, Link(p, q, named) PROVE Holds(x)'
  <2>1. links[x.who] \subseteq links'[x.who]
    BY <1>0, <1>1 DEF Link
  <2> QED
    BY <1>1, <2>1 DEF Link, Holds, Up, lifeVars, faultVars, histVars
<1>2. ASSUME NEW q \in Pids, NEW named \in BOOLEAN, Unlink(p, q, named) PROVE Holds(x)'
  <2>1. x # LinkOf(p, q)
    BY <1>2 DEF Unlink
  <2>2. ~(x.ref = 0 /\ x.who = p /\ x.about = q)
    BY <1>0, <2>1 DEF LinkOf
  <2>3. x.ref = 0 /\ x.about \in links[x.who] => x.about \in links'[x.who]
    BY <1>0, <1>2, <2>2 DEF Unlink
  <2> QED
    BY <1>2, <2>3 DEF Unlink, Holds, Up, lifeVars, faultVars, histVars
<1>3. ASSUME NEW q \in Pids, NEW named \in BOOLEAN, Monitor(p, q, named) PROVE Holds(x)'
  BY <1>3 DEF Monitor, Holds, Up, lifeVars, faultVars, histVars
<1>4. ASSUME NEW q, NEW why, NEW named, ExitSignal(p, q, why, named) PROVE Holds(x)'
  BY <1>4 DEF ExitSignal, Holds, Up, lifeVars, relVars, faultVars, histVars
<1>5. ASSUME NEW r \in Refs, Demonitor(p, r) PROVE Holds(x)'
  BY <1>5 DEF Demonitor, Holds, Up, lifeVars, faultVars, histVars
<1> QED
  BY <1>1, <1>2, <1>3, <1>4, <1>5 DEF Guest

LEMMA ForgetHolds ==
    ASSUME TypeOK, NEW n \in Nodes, Forget(n), NEW x \in Relations, Holds(x),
           firing[Home[x.who]].node # Home[x.about]
    PROVE  Holds(x)'
<1>1. x.who \in Pids /\ x.about \in Pids
  BY RelationFields
<1>2. ~(x.who \in On(n) /\ x.about \in On(firing[n].node))
  BY DEF On
<1>3. x.about \in links[x.who] => x.about \in links'[x.who]
  BY <1>1, <1>2 DEF Forget
<1>4. x \in monitors => x \in monitors'
  BY <1>2 DEF Forget
<1> QED
  BY <1>3, <1>4 DEF Forget, Holds, Up, lifeVars, faultVars, histVars

LEMMA HoldsStep ==
    ASSUME TypeOK, [Next]_vars, NEW x \in Relations, Holds(x), x \in owed',
           firing[Home[x.who]].node # Home[x.about]
    PROVE  Holds(x)' \/ Told(x)'
<1>0. x.who \in Pids /\ x.about \in Pids
  BY RelationFields
<1>1. CASE UNCHANGED vars
  BY <1>1 DEF vars, lifeVars, relVars, faultVars, histVars, Holds, Up
<1>2. ASSUME NEW p \in Pids, Guest(p) PROVE Holds(x)'
  BY <1>2, GuestHolds
<1>3. ASSUME NEW p \in Pids, NEW r, GuestReturn(p, r) PROVE Holds(x)' \/ Told(x)'
  BY <1>3, DiesHolds DEF GuestReturn, faultVars, histVars
<1>4. ASSUME NEW n \in Nodes, Forward(n) PROVE Holds(x)'
  BY <1>4 DEF Forward, lifeVars, relVars, faultVars, histVars, Holds, Up
<1>5. ASSUME NEW n \in Nodes, React(n) PROVE Holds(x)' \/ Told(x)'
  <2>1. CASE LossSeen(n)
    BY <2>1 DEF LossSeen, lifeVars, relVars, faultVars, histVars, Holds, Up
  <2>2. ASSUME NEW y \in firing[n].todo, FireLink(n, y) PROVE Holds(x)' \/ Told(x)'
    <3>1. y.who \in Pids
      BY RelationFields DEF TypeOK
    <3>2. Inherits(y.who, Signal(y.about, 0, "noconnection")) /\ UNCHANGED down
      BY <2>2 DEF FireLink, faultVars, histVars
    <3> QED
      BY <3>1, <3>2, InheritsHolds
  <2>3. ASSUME NEW y \in firing[n].todo, FireMonitor(n, y) PROVE Holds(x)'
    BY <2>3 DEF FireMonitor, lifeVars, relVars, faultVars, histVars, Holds, Up
  <2>4. CASE Forget(n)
    BY <2>4, ForgetHolds
  <2> QED
    BY <1>5, <2>1, <2>2, <2>3, <2>4 DEF React
<1>6. ASSUME NEW n \in Nodes, NEW m \in Nodes, Transport(n, m)
      PROVE  Holds(x)' \/ Told(x)'
  <2>1. CASE Receive(n, m)
    <3>1. PICK f \in Frames : Handles(f)
      BY <2>1, ReceiveFacts
    <3>2. UNCHANGED down
      BY <2>1 DEF Receive, faultVars, histVars
    <3> QED
      BY <3>1, <3>2, HandlesHolds
  <2>2. CASE Dial(n, m) \/ DialFails(n, m) \/ \E k \in 0..Len(wire[n][m]) : ConnEnds(n, m, k)
    BY <2>2 DEF Dial, DialFails, ConnEnds, lifeVars, relVars, faultVars, histVars, Holds, Up
  <2> QED
    BY <1>6, <2>1, <2>2 DEF Transport
<1>7. CASE Fault \/ \E n, m \in Nodes : Heal(n, m)
  <2>1. UNCHANGED <<alive, links, monitors>>
    BY <1>7 DEF Fault, Crash, Break, Heal, lifeVars, relVars
  <2> QED
    BY <2>1 DEF Holds, Told, Up
<1> QED
  BY <1>1, <1>2, <1>3, <1>4, <1>5, <1>6, <1>7 DEF Next

\* What is being fired stays so until it has fired.
LEMMA FiresTells ==
    ASSUME TypeOK, NEW n \in Nodes, NEW x \in Relations, FireLink(n, x) \/ FireMonitor(n, x)
    PROVE  Told(x)'
<1>0. x.who \in Pids /\ inbox \in [Pids -> SUBSET Mail]
  BY RelationFields DEF TypeOK, Mail
<1>1. CASE x.who \notin alive'
  BY <1>1 DEF Told, Up
<1>2. CASE x.who \in alive' /\ FireLink(n, x)
  <2>1. Inherits(x.who, Signal(x.about, 0, "noconnection")) /\ x.ref = 0
    BY <1>2 DEF FireLink
  <2>2. x.who \in Traps /\ x.who \in alive
    BY <1>2, <2>1 DEF Inherits, IsAbnormal, Dies, Signal
  <2>3. Signal(x.about, 0, "noconnection") \in inbox'[x.who]
    BY <1>0, <2>1, <2>2 DEF Inherits
  <2> QED
    BY <2>1, <2>3 DEF Told, Signal
<1>3. CASE x.who \in alive' /\ FireMonitor(n, x)
  <2>1. x.who \in alive
    BY <1>3 DEF FireMonitor, lifeVars
  <2>2. Signal(x.about, x.ref, "noconnection") \in inbox'[x.who]
    BY <1>0, <1>3, <2>1 DEF FireMonitor
  <2> QED
    BY <2>2 DEF Told, Signal
<1> QED
  BY <1>1, <1>2, <1>3

LEMMA ReactTodo ==
    ASSUME TypeOK, NEW n \in Nodes, React(n), NEW x \in Relations,
           NEW h \in Nodes, x \in firing[h].todo
    PROVE  x \in firing'[h].todo \/ Told(x)'
<1>0. firing \in [Nodes -> Firings]
  BY DEF TypeOK, Firings
<1>1. CASE LossSeen(n)
  <2>1. firing[n].todo = {}
    BY <1>1 DEF LossSeen, NotFiring
  <2>2. firing'[h] = firing[h]
    BY <1>0, <1>1, <2>1 DEF LossSeen
  <2> QED
    BY <2>2
<1>2. ASSUME NEW y \in firing[n].todo, FireLink(n, y) \/ FireMonitor(n, y)
      PROVE  x \in firing'[h].todo \/ Told(x)'
  <2>1. firing' = [firing EXCEPT ![n].todo = @ \ {y}]
    BY <1>2 DEF FireLink, FireMonitor
  <2>2. CASE x = y
    BY <1>2, <2>2, FiresTells
  <2>3. CASE x # y
    BY <1>0, <2>1, <2>3 DEF Firings
  <2> QED
    BY <2>2, <2>3
<1>3. CASE Forget(n)
  BY <1>0, <1>3 DEF Forget
<1> QED
  BY <1>1, <1>2, <1>3 DEF React

LEMMA TodoStep ==
    ASSUME TypeOK, [Next]_vars, NEW x \in Relations, NEW h \in Nodes, x \in firing[h].todo
    PROVE  x \in firing'[h].todo \/ Told(x)'
<1>1. CASE \E n \in Nodes : React(n)
  BY <1>1, ReactTodo
<1>2. CASE UNCHANGED firing
  BY <1>2
<1>3. ASSUME NEW p \in Pids, Guest(p) PROVE UNCHANGED firing
  BY <1>3 DEF Guest, Link, Unlink, Monitor, ExitSignal, Demonitor, reactorVars
<1>4. ASSUME NEW n \in Nodes, NEW m \in Nodes, Transport(n, m) PROVE UNCHANGED firing
  BY <1>4 DEF Transport, Receive, Dial, DialFails, ConnEnds, reactorVars
<1>5. CASE Fault \/ \E n, m \in Nodes : Heal(n, m)
  BY <1>2, <1>5 DEF Fault, Crash, Break, Heal, reactorVars
<1>6. CASE UNCHANGED vars
  BY <1>2, <1>6 DEF vars, reactorVars
<1>7. ASSUME NEW p \in Pids, NEW r, GuestReturn(p, r) PROVE UNCHANGED firing
  BY <1>7 DEF GuestReturn, reactorVars
<1>8. ASSUME NEW n \in Nodes, Forward(n) PROVE UNCHANGED firing
  BY <1>8 DEF Forward, reactorVars
<1> QED
  BY <1>1, <1>2, <1>3, <1>4, <1>5, <1>6, <1>7, <1>8 DEF Next

\* The reactor takes up a loss with every half that crosses to it, and no loss is
\* passed over.
LEMMA ReactLoss ==
    ASSUME TypeOK, NEW n \in Nodes, React(n), NEW x \in Relations, Holds(x),
           firing[Home[x.who]].node # Home[x.about]
    PROVE  \/ x \in firing'[Home[x.who]].todo
           \/ /\ firing'[Home[x.who]].node # Home[x.about]
              /\ Home[x.about] \in Range(lost[Home[x.who]])
                     => Home[x.about] \in Range(lost'[Home[x.who]])
<1>0. /\ x.who \in Pids /\ x.about \in Pids
      /\ Home[x.who] \in Nodes /\ Home[x.about] \in Nodes
      /\ firing \in [Nodes -> Firings] /\ lost \in [Nodes -> Seq(Nodes)]
  BY RelationFields DEF TypeOK, Firings
<1>1. CASE LossSeen(n) /\ n = Home[x.who]
  <2>1. PICK q \in Seq(Nodes) : q = lost[n]
    BY <1>0
  <2>2. q # <<>> /\ lost'[n] = Tail(q)
    BY <1>0, <1>1, <2>1 DEF LossSeen
  <2>3. Range(q) = {Head(q)} \cup Range(Tail(q))
    BY <2>1, <2>2, RangeHeadTail
  <2>4. CASE Head(q) = Home[x.about]
    <3>1. x \in Crossing(n, Head(lost[n]))
      BY <1>0, <1>1, <2>1, <2>4 DEF Crossing, On
    <3>2. firing' = [firing EXCEPT ![n] = [node |-> Head(lost[n]),
                                           todo |-> Crossing(n, Head(lost[n]))]]
      BY <1>1, <3>1 DEF LossSeen
    <3> QED
      BY <1>0, <1>1, <3>1, <3>2
  <2>5. CASE Head(q) # Home[x.about]
    <3>1. firing'[n].node # Home[x.about]
      BY <1>0, <1>1, <2>1, <2>5 DEF LossSeen
    <3> QED
      BY <1>1, <2>1, <2>2, <2>3, <2>5, <3>1
  <2> QED
    BY <2>4, <2>5
<1>2. CASE LossSeen(n) /\ n # Home[x.who]
  <2>1. firing'[Home[x.who]] = firing[Home[x.who]] /\ lost'[Home[x.who]] = lost[Home[x.who]]
    BY <1>0, <1>2 DEF LossSeen
  <2> QED
    BY <2>1
<1>3. ASSUME NEW y \in firing[n].todo, FireLink(n, y) \/ FireMonitor(n, y)
      PROVE  /\ firing'[Home[x.who]].node # Home[x.about]
             /\ lost' = lost
  <2>1. firing' = [firing EXCEPT ![n].todo = @ \ {y}] /\ lost' = lost
    BY <1>3 DEF FireLink, FireMonitor
  <2> QED
    BY <1>0, <2>1 DEF Firings
<1>4. CASE Forget(n)
  <2>1. firing' = [firing EXCEPT ![n] = NotFiring] /\ lost' = lost
    BY <1>4 DEF Forget
  <2>2. NotFiring.node # Home[x.about]
    BY <1>0, SignalsAssumption DEF NotFiring
  <2>3. firing'[Home[x.who]].node # Home[x.about]
    BY <1>0, <2>1, <2>2
  <2> QED
    BY <2>1, <2>3
<1> QED
  BY <1>1, <1>2, <1>3, <1>4 DEF React

LEMMA LossStep ==
    ASSUME TypeOK, [Next]_vars, NEW x \in Relations, Holds(x),
           firing[Home[x.who]].node # Home[x.about]
    PROVE  \/ x \in firing'[Home[x.who]].todo
           \/ /\ firing'[Home[x.who]].node # Home[x.about]
              /\ Home[x.about] \in Range(lost[Home[x.who]])
                     => Home[x.about] \in Range(lost'[Home[x.who]])
<1>0. Home[x.who] \in Nodes /\ lost \in [Nodes -> Seq(Nodes)]
  BY RelationFields DEF TypeOK
<1>1. CASE \E n \in Nodes : React(n)
  BY <1>1, ReactLoss
<1>2. CASE UNCHANGED <<firing, lost>>
  BY <1>2
<1>3. ASSUME NEW p \in Pids, Guest(p) PROVE UNCHANGED <<firing, lost>>
  BY <1>3 DEF Guest, Link, Unlink, Monitor, ExitSignal, Demonitor, reactorVars
<1>4. ASSUME NEW n \in Nodes, NEW m \in Nodes, NEW k, ConnEnds(n, m, k)
      PROVE  UNCHANGED firing /\ Range(lost[Home[x.who]]) \subseteq Range(lost'[Home[x.who]])
  <2>1. UNCHANGED firing /\ lost' = [lost EXCEPT ![n] = Append(@, m)]
    BY <1>4 DEF ConnEnds
  <2>2. PICK q \in Seq(Nodes) : q = lost[Home[x.who]]
    BY <1>0
  <2>3. lost'[Home[x.who]] = q \/ lost'[Home[x.who]] = Append(q, m)
    BY <1>0, <2>1, <2>2
  <2>4. Range(Append(q, m)) = Range(q) \cup {m}
    BY <2>2, RangeAppend
  <2> QED
    BY <2>1, <2>2, <2>3, <2>4
<1>5. ASSUME NEW n \in Nodes, NEW m \in Nodes, Transport(n, m)
      PROVE  UNCHANGED <<firing, lost>> \/ \E k : ConnEnds(n, m, k)
  BY <1>5 DEF Transport, Receive, Dial, DialFails, reactorVars
<1>6. CASE Fault \/ \E n, m \in Nodes : Heal(n, m)
  BY <1>2, <1>6 DEF Fault, Crash, Break, Heal, reactorVars
<1>7. CASE UNCHANGED vars
  BY <1>2, <1>7 DEF vars, reactorVars
<1>8. ASSUME NEW p \in Pids, NEW r, GuestReturn(p, r) PROVE UNCHANGED <<firing, lost>>
  BY <1>8 DEF GuestReturn, reactorVars
<1>9. ASSUME NEW n \in Nodes, Forward(n) PROVE UNCHANGED <<firing, lost>>
  BY <1>9 DEF Forward, reactorVars
<1> QED
  BY <1>1, <1>2, <1>3, <1>4, <1>5, <1>6, <1>7, <1>8, <1>9 DEF Next

\* A connection ends with the announcement of a loss.
LEMMA ConnStep ==
    ASSUME TypeOK, [Next]_vars, NEW h \in Nodes, NEW g \in conn[h]
    PROVE  g \in conn'[h] \/ g \in Range(lost'[h])
<1>0. conn \in [Nodes -> SUBSET Nodes] /\ lost \in [Nodes -> Seq(Nodes)] /\ g \in Nodes
  BY DEF TypeOK
<1>1. CASE UNCHANGED conn
  BY <1>1
<1>2. ASSUME NEW n \in Nodes, NEW m \in Nodes, Dial(n, m) PROVE g \in conn'[h]
  BY <1>0, <1>2 DEF Dial
<1>3. ASSUME NEW n \in Nodes, NEW m \in Nodes, NEW k, ConnEnds(n, m, k)
      PROVE  g \in conn'[h] \/ g \in Range(lost'[h])
  <2>1. conn' = [conn EXCEPT ![n] = @ \ {m}] /\ lost' = [lost EXCEPT ![n] = Append(@, m)]
    BY <1>3 DEF ConnEnds
  <2>2. CASE n = h /\ m = g
    <3>1. PICK q \in Seq(Nodes) : q = lost[h]
      BY <1>0
    <3>2. lost'[h] = Append(q, g) /\ Range(Append(q, g)) = Range(q) \cup {g}
      BY <1>0, <2>1, <2>2, <3>1, RangeAppend
    <3> QED
      BY <3>2
  <2>3. CASE ~(n = h /\ m = g)
    BY <1>0, <2>1, <2>3
  <2> QED
    BY <2>2, <2>3
<1>4. ASSUME NEW n \in Nodes, NEW m \in Nodes, Transport(n, m)
      PROVE  UNCHANGED conn \/ Dial(n, m) \/ \E k : ConnEnds(n, m, k)
  BY <1>4 DEF Transport, Receive, DialFails
<1>5. ASSUME NEW p \in Pids, Guest(p) PROVE UNCHANGED conn
  BY <1>5 DEF Guest, Link, Unlink, Monitor, ExitSignal, Demonitor
<1>6. CASE Fault \/ \E n, m \in Nodes : Heal(n, m)
  BY <1>1, <1>6 DEF Fault, Crash, Break, Heal
<1>7. CASE UNCHANGED vars
  BY <1>1, <1>7 DEF vars
<1>8. ASSUME NEW p \in Pids, NEW r, GuestReturn(p, r) PROVE UNCHANGED conn
  BY <1>8 DEF GuestReturn
<1>9. ASSUME NEW n \in Nodes, Forward(n) \/ React(n) PROVE UNCHANGED conn
  BY <1>9 DEF Forward, React, LossSeen, FireLink, FireMonitor, Forget
<1> QED
  BY <1>1, <1>2, <1>3, <1>4, <1>5, <1>6, <1>7, <1>8, <1>9 DEF Next

\* A path that is cut stays so while a connection across it is up.
LEMMA PathStep ==
    ASSUME TypeOK, [Next]_vars, NEW h \in Nodes, NEW g \in conn[h], ~Path(h, g)
    PROVE  ~Path(h, g)'
<1>1. down \subseteq down'
  BY SignalsStay
<1>2. CASE broken \subseteq broken'
  BY <1>1, <1>2 DEF Path
<1>3. ASSUME NEW n \in Nodes, NEW m \in Nodes, Heal(n, m) PROVE ~Path(h, g)'
  <2>1. {h, g} # {n, m}
    BY <1>3 DEF Heal
  <2>2. broken' = broken \ {{n, m}}
    BY <1>3 DEF Heal
  <2> QED
    BY <1>1, <2>1, <2>2 DEF Path
<1>4. ASSUME NEW n \in Nodes, NEW m \in Nodes, Transport(n, m) PROVE UNCHANGED broken
  BY <1>4 DEF Transport, Receive, Dial, DialFails, ConnEnds, faultVars, histVars
<1>5. ASSUME NEW p \in Pids, Guest(p) PROVE UNCHANGED broken
  BY <1>5 DEF Guest, Link, Unlink, Monitor, ExitSignal, Demonitor, faultVars, histVars
<1>6. CASE Fault
  BY <1>2, <1>6 DEF Fault, Crash, Break
<1>7. CASE UNCHANGED vars
  BY <1>2, <1>7 DEF vars, faultVars, histVars
<1>8. ASSUME NEW p \in Pids, NEW r, GuestReturn(p, r) PROVE UNCHANGED broken
  BY <1>8 DEF GuestReturn, faultVars, histVars
<1>9. ASSUME NEW n \in Nodes, Forward(n) \/ React(n) PROVE UNCHANGED broken
  BY <1>9 DEF Forward, React, LossSeen, FireLink, FireMonitor, Forget, faultVars, histVars
<1> QED
  BY <1>2, <1>3, <1>4, <1>5, <1>6, <1>7, <1>8, <1>9 DEF Next


\* What is watched goes on being so until it fires or is told.
LEMMA WatchedStep ==
    ASSUME TypeOK, [Next]_vars, NEW x \in Relations, Watched(x), x \in owed'
    PROVE  Due(x)'
<1>0. /\ Home[x.who] \in Nodes /\ Home[x.about] \in Nodes
      /\ Holds(x) /\ firing[Home[x.who]].node # Home[x.about]
  BY RelationFields DEF Watched
<1>1. Holds(x)' \/ Told(x)'
  BY <1>0, HoldsStep
<1>2. \/ x \in firing'[Home[x.who]].todo
      \/ /\ firing'[Home[x.who]].node # Home[x.about]
         /\ Home[x.about] \in Range(lost[Home[x.who]])
                => Home[x.about] \in Range(lost'[Home[x.who]])
  BY <1>0, LossStep
<1>3. CASE Home[x.about] \in Range(lost[Home[x.who]])
  BY <1>1, <1>2, <1>3 DEF Due, Watched
<1>4. CASE /\ Home[x.about] \in conn[Home[x.who]]
           /\ ~Path(Home[x.who], Home[x.about]) \/ Coming(x)
  <2>1. \/ Home[x.about] \in conn'[Home[x.who]]
        \/ Home[x.about] \in Range(lost'[Home[x.who]])
    BY <1>0, <1>4, ConnStep
  <2>2. ~Path(Home[x.who], Home[x.about])' \/ Coming(x)' \/ Told(x)'
    <3>1. CASE ~Path(Home[x.who], Home[x.about])
      BY <1>0, <1>4, <3>1, PathStep
    <3>2. CASE Coming(x)
      BY <3>2, ComingStep
    <3> QED
      BY <1>4, <3>1, <3>2
  <2> QED
    BY <1>1, <1>2, <2>1, <2>2 DEF Due, Watched
<1> QED
  BY <1>3, <1>4 DEF Watched

\* A fault leaves nothing owed but what its holder's own node can tell.
LEMMA FaultOwes ==
    ASSUME TypeOK, [Next]_vars, faultless' # faultless, NEW x \in owed'
    PROVE  Fault /\ Held(x)
<1>1. ASSUME NEW p \in Pids, Guest(p) PROVE UNCHANGED faultless
  BY <1>1 DEF Guest, Link, Unlink, Monitor, ExitSignal, Demonitor, faultVars, histVars
<1>2. ASSUME NEW n \in Nodes, NEW m \in Nodes, Transport(n, m) PROVE UNCHANGED faultless
  BY <1>2 DEF Transport, Receive, Dial, DialFails, ConnEnds, faultVars, histVars
<1>3. ASSUME NEW n \in Nodes, Forward(n) \/ React(n) PROVE UNCHANGED faultless
  BY <1>3 DEF Forward, React, LossSeen, FireLink, FireMonitor, Forget, faultVars, histVars
<1>4. ASSUME NEW p \in Pids, NEW r, GuestReturn(p, r) PROVE UNCHANGED faultless
  BY <1>4 DEF GuestReturn, faultVars, histVars
<1>5. ~(UNCHANGED vars) /\ ~(\E n, m \in Nodes : Heal(n, m))
  BY DEF vars, faultVars, histVars, Heal
<1>6. Fault
  BY <1>1, <1>2, <1>3, <1>4, <1>5 DEF Next
<1> QED
  BY <1>6 DEF Fault, Crash, Break, OwedAtFault

\* What was due and is still owed is still due.
LEMMA OldDue ==
    ASSUME Truth, [Next]_vars, NEW x \in Relations, Due(x), x \in owed'
    PROVE  Due(x)'
<1>0. TypeOK /\ FaultsAreKnown /\ FaultsAreKnown' /\ (faultless' => faultless)
  BY FaultsStayKnown DEF Truth
<1>1. Home[x.who] \in Nodes /\ Home[x.about] \in Nodes
  BY RelationFields
<1>2. CASE Told(x)
  BY <1>2, ToldStays DEF Due
<1>3. CASE x \in firing[Home[x.who]].todo
  BY <1>0, <1>1, <1>3, TodoStep DEF Due
<1>4. CASE Watched(x)
  BY <1>0, <1>4, WatchedStep
<1>5. CASE faultless /\ Coming(x)
  <2>1. CASE faultless'
    <3>1. Path(Home[x.who], Home[x.about])'
      BY <1>0, <2>1 DEF FaultsAreKnown, Path
    <3> QED
      BY <1>0, <1>5, <2>1, <3>1, ComingStep DEF Due
  <2>2. CASE ~faultless'
    <3>1. Held(x)
      BY <1>0, <1>5, <2>2, FaultOwes
    <3>2. Watched(x)
      BY <1>5, <3>1 DEF Held, Watched
    <3> QED
      BY <1>0, <3>2, WatchedStep
  <2> QED
    BY <2>1, <2>2
<1> QED
  BY <1>2, <1>3, <1>4, <1>5 DEF Due


\* A death makes due what it makes owed.
LEMMA DiesOwes ==
    ASSUME TypeOK, MonitorsHaveRefs, NEW p \in Pids, NEW r \in Reasons, Dies(p, r), p \in alive,
           UNCHANGED <<down, faultless, conn>>,
           \A h \in Nodes : firing'[h].node = firing[h].node,
           NEW x \in OwedAtDeath(p, r)
    PROVE  Due(x)'
<1>1. \/ x \in {LinkOf(q, p) : q \in links[p]} /\ Held(x) /\ IsAbnormal(r)
      \/ x \in monitoredBy /\ x.about = p /\ Up(x.who) /\ (Held(x) \/ faultless)
  BY DEF OwedAtDeath
<1>2. x \in Relations
  <2>1. links[p] \subseteq Pids /\ monitoredBy \subseteq Relations /\ 0 \in 0..MaxRef
    BY SignalsAssumption DEF TypeOK
  <2> QED
    BY <1>1, <2>1 DEF LinkOf, Relations
<1>3. Home[x.who] \in Nodes /\ Home[x.about] \in Nodes
  BY <1>2, RelationFields
<1>4. PICK d \in Deaths :
          /\ d.pid = p /\ d.reason = r /\ d.links = links[p]
          /\ d.watchers = {y \in monitoredBy : y.about = p}
          /\ d \in Range(deaths'[Home[p]])
  BY DiesPublishes
<1>5. x.about = p /\ Names(d, x)
  BY <1>1, <1>4 DEF LinkOf, Names, MonitorsHaveRefs
<1>6. Coming(x)'
  BY <1>4, <1>5 DEF Coming, Names
<1>7. CASE Held(x)
  <2>1. Holds(x)' \/ Told(x)'
    BY <1>2, <1>7, DiesHolds DEF Held
  <2> QED
    BY <1>3, <1>6, <1>7, <2>1 DEF Due, Watched, Held
<1>8. CASE faultless
  BY <1>6, <1>8 DEF Due
<1> QED
  BY <1>1, <1>7, <1>8

LEMMA InheritsOwes ==
    ASSUME TypeOK, MonitorsHaveRefs, NEW p \in Pids,
           \/ \E r \in Reasons : Dies(p, r)
           \/ \E y \in Mail : Inherits(p, y),
           UNCHANGED <<down, faultless, conn>>,
           \A h \in Nodes : firing'[h].node = firing[h].node,
           NEW x \in owed', x \notin owed
    PROVE  Due(x)'
<1>1. PICK r \in Reasons : Dies(p, r) /\ p \in alive
  BY DEF Inherits, Dies, Mail
<1>2. x \in OwedAtDeath(p, r)
  BY <1>1 DEF Dies
<1> QED
  BY <1>1, <1>2, DiesOwes

\* So does a fault.
LEMMA FaultDue ==
    ASSUME TypeOK, Fault, NEW x \in owed', x \notin owed
    PROVE  Due(x)'
<1>1. ASSUME NEW m \in Nodes, Crash(m) PROVE Due(x)'
  <2>1. /\ x \in Relations /\ Held(x) /\ Home[x.who] # m
        /\ {Home[x.who], Home[x.about]} \in {{m, n} : n \in Nodes \ {m}}
    BY <1>1 DEF Crash, OwedAtFault
  <2>2. Home[x.about] = m
    BY <2>1
  <2>3. UNCHANGED <<alive, links, monitors, conn, lost, firing>> /\ down' = down \cup {m}
    BY <1>1 DEF Crash, lifeVars, relVars, reactorVars
  <2>4. ~Path(Home[x.who], Home[x.about])'
    BY <2>2, <2>3 DEF Path
  <2>5. Holds(x)'
    BY <2>1, <2>3 DEF Held, Holds, Up
  <2> QED
    BY <2>1, <2>3, <2>4, <2>5 DEF Held, Due, Watched
<1>2. ASSUME NEW n \in Nodes, NEW m \in Nodes, Break(n, m) PROVE Due(x)'
  <2>1. x \in Relations /\ Held(x) /\ {Home[x.who], Home[x.about]} = {n, m}
    BY <1>2 DEF Break, OwedAtFault
  <2>2. UNCHANGED <<alive, links, monitors, conn, lost, firing, down>> /\ {n, m} \in broken'
    BY <1>2 DEF Break, lifeVars, relVars, reactorVars
  <2>3. ~Path(Home[x.who], Home[x.about])'
    BY <2>1, <2>2 DEF Path
  <2>4. Holds(x)'
    BY <2>1, <2>2 DEF Held, Holds, Up
  <2> QED
    BY <2>1, <2>2, <2>3, <2>4 DEF Held, Due, Watched
<1> QED
  BY <1>1, <1>2 DEF Fault

\* What comes to be owed is due.
LEMMA NewDue ==
    ASSUME TypeOK, MonitorsHaveRefs, [Next]_vars, NEW x \in owed', x \notin owed
    PROVE  Due(x)'
<1>0. firing \in [Nodes -> Firings]
  BY DEF TypeOK, Firings
<1>1. ASSUME NEW p \in Pids, NEW r \in Given, GuestReturn(p, r) PROVE Due(x)'
  <2>1. r \in Reasons /\ Dies(p, r) /\ UNCHANGED <<down, faultless, conn, firing>>
    BY <1>1, GivenReasons DEF GuestReturn, reactorVars, faultVars
  <2> QED
    BY <2>1, InheritsOwes
<1>2. ASSUME NEW n \in Nodes, React(n) PROVE Due(x)'
  <2>1. PICK y \in firing[n].todo : FireLink(n, y)
    BY <1>2 DEF React, LossSeen, FireMonitor, Forget
  <2>2. y.who \in Pids /\ y.about \in Pids /\ "noconnection" \in Reasons
    BY RelationFields DEF TypeOK, Reasons, ExitReasons
  <2>3. /\ Inherits(y.who, Signal(y.about, 0, "noconnection"))
        /\ UNCHANGED <<down, faultless, conn>>
        /\ firing' = [firing EXCEPT ![n].todo = @ \ {y}]
    BY <2>1 DEF FireLink, faultVars
  <2>4. \A h \in Nodes : firing'[h].node = firing[h].node
    BY <1>0, <2>3 DEF Firings
  <2>5. Signal(y.about, 0, "noconnection") \in Mail
    BY <2>2, SignalFacts, ZeroRef
  <2> QED
    BY <2>2, <2>3, <2>4, <2>5, InheritsOwes
<1>3. ASSUME NEW n \in Nodes, NEW m \in Nodes, Transport(n, m) PROVE Due(x)'
  <2>1. Receive(n, m)
    BY <1>3 DEF Transport, Dial, DialFails, ConnEnds
  <2>2. PICK f \in Frames : Handles(f)
    BY <2>1, ReceiveFacts
  <2>3. UNCHANGED <<down, faultless, conn, firing>>
    BY <2>1 DEF Receive, reactorVars, faultVars, histVars
  <2>4. f.from \in Pids /\ f.to \in Pids /\ f.reason \in Reasons /\ "killed" \in Reasons
    BY DEF Frames, Reasons, ExitReasons
  <2>5. \/ Dies(f.to, "killed")
        \/ Inherits(f.to, Signal(f.from, 0, f.reason))
        \/ Inherits(f.to, Sent(f.from, f.reason))
    BY <2>2 DEF Handles, OnLink, OnUnlink, OnMonitor, OnExit, OnSignal, OnDown
  <2>6. Signal(f.from, 0, f.reason) \in Mail /\ Sent(f.from, f.reason) \in Mail
    BY <2>4, SignalFacts, ZeroRef
  <2> QED
    BY <2>3, <2>4, <2>5, <2>6, InheritsOwes
<1>4. CASE Fault
  BY <1>4, FaultDue
<1>5. ASSUME NEW p \in Pids, Guest(p) PROVE owed' \subseteq owed
  BY <1>5 DEF Guest, Link, Unlink, Monitor, ExitSignal, Demonitor
<1>6. ~(UNCHANGED vars) /\ ~(\E n, m \in Nodes : Heal(n, m)) /\ ~(\E n \in Nodes : Forward(n))
  BY DEF vars, Heal, Forward
<1> QED
  BY <1>1, <1>2, <1>3, <1>4, <1>5, <1>6 DEF Next

\* Every frame of a monitor carries the ref its watcher made.
LEMMA NewMonitorFrames ==
    ASSUME TypeOK, [Next]_vars, NEW a \in Nodes, NEW b \in Nodes, NEW f \in Range(wire'[a][b])
    PROVE  f \in Range(wire[a][b]) \/ (f.kind = "monitor" => f.ref # 0)
<1>0. wire \in Wires /\ wire[a][b] \in Seq(Frames)
  BY DEF TypeOK, Wires
<1>1. ASSUME NEW p \in Pids, Guest(p)
      PROVE  f \in Range(wire[a][b]) \/ (f.kind = "monitor" => f.ref # 0)
  <2>1. PICK h \in Nodes : h = Home[p]
    BY SignalsAssumption
  <2>2. ASSUME NEW g \in Frames, wire' = Send(wire, h, g), g.kind = "monitor" => g.ref # 0
        PROVE  f \in Range(wire[a][b]) \/ (f.kind = "monitor" => f.ref # 0)
    <3>1. Range(wire'[a][b]) = Range(wire[a][b]) \cup One(g, h, a, b)
      BY <1>0, <2>1, <2>2, SendFacts
    <3> QED
      BY <2>2, <3>1 DEF One
  <2>3. wire' = wire \/ \E g \in Frames : /\ wire' = Send(wire, h, g)
                                          /\ g.kind = "monitor" => g.ref # 0
    BY <1>1, <2>1, GuestSends
  <2> QED
    BY <2>2, <2>3
<1>2. ASSUME NEW n \in Nodes, Forward(n)
      PROVE  f \in Range(wire[a][b]) \/ (f.kind = "monitor" => f.ref # 0)
  <2>1. PICK d \in Deaths : wire' = Tell(wire, n, d)
    <3>1. deaths[n] \in Seq(Deaths) /\ deaths[n] # <<>>
      BY <1>2 DEF Forward, TypeOK
    <3>2. Head(deaths[n]) \in Deaths
      BY <3>1, RangeHeadTail
    <3> QED
      BY <1>2, <3>2 DEF Forward
  <2>2. Grows(wire'[a][b], wire[a][b], For(ExitsOf(d) \cup DownsOf(d), n, a, b))
    BY <1>0, <2>1, TellFacts
  <2>3. Range(wire'[a][b]) = Range(wire[a][b]) \cup For(ExitsOf(d) \cup DownsOf(d), n, a, b)
    BY <1>0, <2>2, GrowsFacts
  <2>4. f \in Range(wire[a][b]) \/ f \in ExitsOf(d) \/ f \in DownsOf(d)
    BY <2>3 DEF For
  <2> QED
    BY <2>4, FrameFields DEF ExitsOf, DownsOf
<1>3. ASSUME NEW n \in Nodes, NEW m \in Nodes, Transport(n, m)
      PROVE  f \in Range(wire[a][b]) \/ (f.kind = "monitor" => f.ref # 0)
  <2>1. CASE Receive(n, m)
    <3>1. PICK g \in Frames, w \in Wires :
              /\ Range(wire[n][m]) = {g} \cup Range(w[n][m])
              /\ \A i, j \in Nodes : <<i, j>> # <<n, m>> => w[i][j] = wire[i][j]
              /\ \A i, j \in Nodes : Grows(wire'[i][j], w[i][j], For(Answer(g), m, i, j))
      BY <2>1, ReceiveFacts
    <3>2. w[a][b] \in Seq(Frames) /\ Range(w[a][b]) \subseteq Range(wire[a][b])
      BY <3>1 DEF Wires
    <3>3. Range(wire'[a][b]) = Range(w[a][b]) \cup For(Answer(g), m, a, b)
      BY <3>1, <3>2, GrowsFacts
    <3>4. f \in Range(wire[a][b]) \/ f \in Answer(g)
      BY <3>2, <3>3 DEF For
    <3>5. f \in Answer(g) => f.kind # "monitor"
      BY FrameFields DEF Answer
    <3> QED
      BY <3>4, <3>5
  <2>2. CASE DialFails(n, m) \/ \E k \in 0..Len(wire[n][m]) : ConnEnds(n, m, k)
    BY <2>2, CutFacts
  <2>3. CASE Dial(n, m)
    BY <2>3 DEF Dial
  <2> QED
    BY <1>3, <2>1, <2>2, <2>3 DEF Transport
<1>4. ASSUME NEW m \in Nodes, Crash(m) PROVE f \in Range(wire[a][b])
  BY <1>4, CrashFacts
<1>5. ASSUME NEW p \in Pids, NEW r, GuestReturn(p, r) PROVE UNCHANGED wire
  BY <1>5 DEF GuestReturn
<1>6. ASSUME NEW n \in Nodes, React(n) PROVE UNCHANGED wire
  BY <1>6 DEF React, LossSeen, FireLink, FireMonitor, Forget
<1>7. ASSUME NEW n \in Nodes, NEW m \in Nodes, Break(n, m) \/ Heal(n, m) PROVE UNCHANGED wire
  BY <1>7 DEF Break, Heal
<1>8. CASE UNCHANGED vars
  BY <1>8 DEF vars
<1> QED
  BY <1>1, <1>2, <1>3, <1>4, <1>5, <1>6, <1>7, <1>8 DEF Next, Fault

LEMMA NewMonitorHalves ==
    ASSUME TypeOK, MonitorsHaveRefs, [Next]_vars, NEW x \in monitoredBy'
    PROVE  x.ref # 0
<1>1. CASE monitoredBy' \subseteq monitoredBy
  BY <1>1 DEF MonitorsHaveRefs
<1>2. ASSUME NEW p, NEW r, Dies(p, r) PROVE monitoredBy' \subseteq monitoredBy
  BY <1>2 DEF Dies
<1>3. ASSUME NEW p, NEW y, Inherits(p, y) PROVE monitoredBy' \subseteq monitoredBy
  BY <1>2, <1>3 DEF Inherits
<1>4. ASSUME NEW n \in Nodes, NEW m \in Nodes, Transport(n, m) PROVE x.ref # 0
  <2>1. CASE Receive(n, m)
    <3>1. PICK f \in Frames : Handles(f) /\ f \in Range(wire[n][m])
      BY <2>1, ReceiveFacts
    <3>2. CASE OnMonitor(f)
      BY <3>1, <3>2 DEF OnMonitor, MonitorOf, MonitorsHaveRefs
    <3> QED
      BY <1>1, <1>2, <1>3, <3>1, <3>2 DEF Handles, OnLink, OnUnlink, OnExit, OnSignal, OnDown
  <2> QED
    BY <1>1, <1>4, <2>1 DEF Transport, Dial, DialFails, ConnEnds, relVars
<1>5. ASSUME NEW n \in Nodes, React(n) PROVE monitoredBy' \subseteq monitoredBy
  BY <1>3, <1>5 DEF React, LossSeen, FireLink, FireMonitor, Forget, relVars
<1>6. ASSUME NEW p \in Pids, Guest(p) PROVE UNCHANGED monitoredBy
  BY <1>6 DEF Guest, Link, Unlink, Monitor, ExitSignal, Demonitor, relVars
<1>7. ASSUME NEW p \in Pids, NEW r, GuestReturn(p, r) PROVE monitoredBy' \subseteq monitoredBy
  BY <1>2, <1>7 DEF GuestReturn
<1>8. ASSUME NEW n \in Nodes, Forward(n) PROVE UNCHANGED monitoredBy
  BY <1>8 DEF Forward, relVars
<1>9. CASE Fault \/ (\E n, m \in Nodes : Heal(n, m)) \/ UNCHANGED vars
  BY <1>1, <1>9 DEF Fault, Crash, Break, Heal, vars, relVars
<1> QED
  BY <1>1, <1>4, <1>5, <1>6, <1>7, <1>8, <1>9 DEF Next

\* The inductive invariant of the two theorems below.
Firing == Truth /\ MonitorsHaveRefs /\ OwedIsDue

LEMMA InitFiring == Init => Firing
<1> SUFFICES ASSUME Init PROVE Firing
  OBVIOUS
<1>1. \A n, m \in Nodes : Range(wire[n][m]) = {}
  BY DEF Init, Range
<1> QED
  BY <1>1, InitTruth DEF Init, Firing, MonitorsHaveRefs, OwedIsDue

LEMMA NextFiring == Firing /\ [Next]_vars => Firing'
<1> SUFFICES ASSUME Firing, [Next]_vars PROVE Firing'
  OBVIOUS
<1>1. Truth /\ TypeOK /\ MonitorsHaveRefs
  BY DEF Firing, Truth
<1>2. Truth' /\ TypeOK'
  BY <1>1, NextTruth DEF Truth
<1>3. MonitorsHaveRefs'
  BY <1>1, NewMonitorFrames, NewMonitorHalves DEF MonitorsHaveRefs
<1>4. ASSUME NEW x \in owed' PROVE Due(x)'
  <2>1. x \in Relations
    BY <1>2 DEF TypeOK
  <2>2. CASE x \in owed
    BY <1>1, <2>1, <2>2, OldDue DEF Firing, OwedIsDue
  <2>3. CASE x \notin owed
    BY <1>1, <2>3, NewDue
  <2> QED
    BY <2>2, <2>3
<1> QED
  BY <1>2, <1>3, <1>4 DEF Firing, OwedIsDue

\* With nothing on its way, what is due has been told.
LEMMA QuietTells ==
    ASSUME Firing, Quiet, NEW x \in owed
    PROVE  Told(x)
<1>1. TypeOK /\ x \in Relations /\ Due(x)
  BY DEF Firing, Truth, TypeOK, OwedIsDue
<1>2. PICK h \in Nodes, g \in Nodes : h = Home[x.who] /\ g = Home[x.about]
  BY <1>1, RelationFields
<1> SUFFICES ASSUME Up(x.who) PROVE Told(x)
  BY DEF Told
<1>3. h \notin down
  BY <1>2 DEF Up
<1>4. /\ wire[g][h] = <<>> /\ lost[h] = <<>> /\ firing[h] = NotFiring
      /\ \A m \in conn[h] : Path(h, m)
  BY <1>3 DEF Quiet
<1>5. Range(wire[g][h]) = {} /\ Range(lost[h]) = {} /\ firing[h].todo = {}
  BY <1>4 DEF Range, NotFiring
<1>6. ASSUME g \in down PROVE g \notin conn[h] /\ ~faultless
  BY <1>4, <1>6 DEF Path, Firing, Truth, FaultsAreKnown
<1>7. ASSUME g \notin down PROVE ~Coming(x)
  <2>1. Range(deaths[g]) = {}
    BY <1>7 DEF Quiet, Range
  <2> QED
    BY <1>2, <1>5, <2>1 DEF Coming
<1> QED
  BY <1>1, <1>2, <1>4, <1>5, <1>6, <1>7 DEF Due, Watched

\* Links fire across nodes (src/signals.rs, src/registry.rs): once all is quiet,
\* whoever held a link when its other end died abnormally, or went with its node
\* or its path, is dead too or has the Exit; for any number of nodes, particles,
\* crashes, broken paths and healed ones.
THEOREM LinksDoFire == Spec => []LinksFire
<1>1. Firing => LinksFire
  BY QuietTells DEF LinksFire
<1> QED
  BY <1>1, InitFiring, NextFiring, PTL DEF Spec

\* So do monitors, on any death and on the loss of the target's node: the watcher
\* has the Down with the ref it made.
THEOREM MonitorsDoFire == Spec => []MonitorsFire
<1>1. Firing => MonitorsFire
  BY QuietTells DEF MonitorsFire
<1> QED
  BY <1>1, InitFiring, NextFiring, PTL DEF Spec


-----------------------------------------------------------------------------
(* Links settle *)

\* What a link or unlink, another frame, or several other frames at the end of a
\* queue mean for the half they are about.
LEMMA EndsAppend ==
    ASSUME NEW s \in Seq(Frames), NEW f \in Frames, NEW p, NEW q, NEW now \in BOOLEAN
    PROVE  /\ IsFrame(f, "link", p, q) => EndsLinked(Append(s, f), p, q, now)
           /\ IsFrame(f, "unlink", p, q) => ~EndsLinked(Append(s, f), p, q, now)
<1> DEFINE t == Append(s, f)
<1>1. t \in Seq(Frames) /\ Len(t) = Len(s) + 1 /\ Len(s) \in Nat /\ t[Len(t)] = f
  OBVIOUS
<1> HIDE DEF t
<1>2. Len(t) \in 1..Len(t) /\ \A j \in (Len(t) + 1)..Len(t) : FALSE
  BY <1>1
<1>3. ASSUME IsFrame(f, "link", p, q) PROVE EndsLinked(t, p, q, now)
  BY <1>1, <1>2, <1>3 DEF EndsLinked
<1>4. ASSUME IsFrame(f, "unlink", p, q) PROVE ~EndsLinked(t, p, q, now)
  <2>1. ASSUME NEW i \in 1..Len(t), IsFrame(t[i], "link", p, q),
               \A j \in (i + 1)..Len(t) : ~IsFrame(t[j], "unlink", p, q)
        PROVE  FALSE
    <3>1. i # Len(t)
      BY <1>1, <1>4, <2>1 DEF IsFrame
    <3>2. Len(t) \in (i + 1)..Len(t)
      BY <1>1, <3>1
    <3> QED
      BY <1>1, <1>4, <2>1, <3>2
  <2>2. ~(\A j \in 1..Len(t) : ~IsFrame(t[j], "unlink", p, q))
    BY <1>1, <1>2, <1>4
  <2> QED
    BY <2>1, <2>2 DEF EndsLinked
<1> QED
  BY <1>3, <1>4 DEF t

\* A frame is no word of p to q on their link.
NoWord(f, p, q) == ~IsFrame(f, "link", p, q) /\ ~IsFrame(f, "unlink", p, q)

LEMMA EndsConcat ==
    ASSUME NEW s \in Seq(Frames), NEW t \in Seq(Frames), NEW p, NEW q, NEW now \in BOOLEAN,
           \A f \in Range(t) : NoWord(f, p, q)
    PROVE  EndsLinked(s \o t, p, q, now) <=> EndsLinked(s, p, q, now)
<1> DEFINE u == s \o t
<1>1. /\ u \in Seq(Frames) /\ Len(u) = Len(s) + Len(t) /\ Len(s) \in Nat /\ Len(t) \in Nat
      /\ \A i \in 1..Len(s) : u[i] = s[i]
  OBVIOUS
<1>2. ASSUME NEW i \in 1..Len(u), ~(i <= Len(s))
      PROVE  NoWord(u[i], p, q)
  <2>1. i - Len(s) \in 1..Len(t)
    BY <1>1, <1>2
  <2>2. u[i] = t[i - Len(s)]
    BY <1>1, <2>1, BehindTheFirst
  <2> QED
    BY <2>1, <2>2, RangeMember
<1> HIDE DEF u
<1>3. \A i \in 1..Len(u) : i \notin 1..Len(s) => NoWord(u[i], p, q)
  BY <1>1, <1>2
<1>4. 1..Len(s) \subseteq 1..Len(u)
  BY <1>1
<1>5. ASSUME NEW i \in 1..Len(s)
      PROVE  (\A j \in (i + 1)..Len(u) : ~IsFrame(u[j], "unlink", p, q))
                <=> (\A j \in (i + 1)..Len(s) : ~IsFrame(s[j], "unlink", p, q))
  <2>1. \A j \in (i + 1)..Len(u) : j \in 1..Len(u)
    BY <1>1
  <2>2. \A j \in (i + 1)..Len(s) : j \in 1..Len(s) /\ j \in (i + 1)..Len(u)
    BY <1>1
  <2>3. \A j \in (i + 1)..Len(u) : j \in 1..Len(s) => j \in (i + 1)..Len(s)
    BY <1>1
  <2> QED
    BY <1>1, <1>3, <2>1, <2>2, <2>3 DEF NoWord
<1>6. (\A j \in 1..Len(u) : ~IsFrame(u[j], "unlink", p, q))
          <=> (\A j \in 1..Len(s) : ~IsFrame(s[j], "unlink", p, q))
  BY <1>1, <1>3, <1>4 DEF NoWord
<1>7. \A i \in 1..Len(u) : IsFrame(u[i], "link", p, q) => i \in 1..Len(s)
  BY <1>3 DEF NoWord
<1>8. EndsLinked(u, p, q, now) <=> EndsLinked(s, p, q, now)
  BY <1>1, <1>4, <1>5, <1>6, <1>7 DEF EndsLinked
<1> QED
  BY <1>8 DEF u

\* What the half will be is the same once the first frame is handled.
LEMMA EndsTail ==
    ASSUME NEW s \in Seq(Frames), s # <<>>, NEW p, NEW q, NEW now \in BOOLEAN, NEW next \in BOOLEAN,
           \/ IsFrame(Head(s), "link", p, q) /\ next
           \/ IsFrame(Head(s), "unlink", p, q) /\ ~next
           \/ NoWord(Head(s), p, q) /\ (next <=> now)
    PROVE  EndsLinked(Tail(s), p, q, next) <=> EndsLinked(s, p, q, now)
<1> DEFINE t == Tail(s)
<1>1. /\ t \in Seq(Frames) /\ Len(s) \in Nat /\ Len(s) >= 1 /\ Len(t) = Len(s) - 1
      /\ Head(s) = s[1] /\ \A i \in 1..Len(t) : t[i] = s[i + 1]
  OBVIOUS
<1> HIDE DEF t
<1>2. \A i \in 1..Len(t) : i + 1 \in 1..Len(s)
  BY <1>1
<1>3. \A i \in 1..Len(s) : i # 1 => i - 1 \in 1..Len(t) /\ t[i - 1] = s[i]
  BY <1>1
<1>4. ASSUME NEW i \in 1..Len(t)
      PROVE  (\A j \in (i + 1)..Len(t) : ~IsFrame(t[j], "unlink", p, q))
                <=> (\A j \in (i + 2)..Len(s) : ~IsFrame(s[j], "unlink", p, q))
  <2>1. \A j \in (i + 1)..Len(t) : j + 1 \in (i + 2)..Len(s) /\ t[j] = s[j + 1]
    BY <1>1
  <2>2. \A j \in (i + 2)..Len(s) : j - 1 \in (i + 1)..Len(t) /\ t[j - 1] = s[j]
    BY <1>1
  <2> QED
    BY <2>1, <2>2
<1>5. (\A j \in 1..Len(t) : ~IsFrame(t[j], "unlink", p, q))
          <=> (\A j \in 2..Len(s) : ~IsFrame(s[j], "unlink", p, q))
  <2>1. \A j \in 1..Len(t) : j + 1 \in 2..Len(s) /\ t[j] = s[j + 1]
    BY <1>1
  <2>2. \A j \in 2..Len(s) : j - 1 \in 1..Len(t) /\ t[j - 1] = s[j]
    BY <1>1
  <2> QED
    BY <2>1, <2>2
<1>6. (\A j \in 1..Len(s) : ~IsFrame(s[j], "unlink", p, q))
          <=> /\ ~IsFrame(s[1], "unlink", p, q)
              /\ \A j \in 2..Len(s) : ~IsFrame(s[j], "unlink", p, q)
  BY <1>1
<1> DEFINE LinksAll(i) == /\ IsFrame(s[i], "link", p, q)
                          /\ \A j \in (i + 1)..Len(s) : ~IsFrame(s[j], "unlink", p, q)
           LinksRest(i) == /\ IsFrame(t[i], "link", p, q)
                           /\ \A j \in (i + 1)..Len(t) : ~IsFrame(t[j], "unlink", p, q)
<1>7. \A i \in 1..Len(t) : LinksRest(i) <=> LinksAll(i + 1)
  <2> SUFFICES ASSUME NEW i \in 1..Len(t) PROVE LinksRest(i) <=> LinksAll(i + 1)
    OBVIOUS
  <2>1. (i + 1) + 1 = i + 2
    OBVIOUS
  <2> QED
    BY <1>1, <1>4, <2>1
<1>8. (\E i \in 1..Len(s) : LinksAll(i)) <=> LinksAll(1) \/ \E i \in 1..Len(t) : LinksRest(i)
  <2>1. 1 \in 1..Len(s)
    BY <1>1
  <2>2. \A i \in 1..Len(s) : i # 1 => LinksRest(i - 1) <=> LinksAll(i)
    <3> SUFFICES ASSUME NEW i \in 1..Len(s), i # 1 PROVE LinksRest(i - 1) <=> LinksAll(i)
      OBVIOUS
    <3>1. i - 1 \in 1..Len(t) /\ (i - 1) + 1 = i
      BY <1>3
    <3> HIDE DEF LinksAll, LinksRest
    <3> QED
      BY <1>7, <3>1
  <2> HIDE DEF LinksAll, LinksRest
  <2> QED
    BY <1>2, <1>3, <1>7, <2>1, <2>2
<1>9. LinksAll(1) <=> IsFrame(s[1], "link", p, q) /\ \A j \in 2..Len(s) : ~IsFrame(s[j], "unlink", p, q)
  OBVIOUS
<1>10. /\ EndsLinked(s, p, q, now) <=>
              (\E i \in 1..Len(s) : LinksAll(i)) \/ (now /\ \A j \in 1..Len(s) : ~IsFrame(s[j], "unlink", p, q))
       /\ EndsLinked(t, p, q, next) <=>
              (\E i \in 1..Len(t) : LinksRest(i)) \/ (next /\ \A j \in 1..Len(t) : ~IsFrame(t[j], "unlink", p, q))
  BY DEF EndsLinked
<1> HIDE DEF LinksAll, LinksRest
<1>11. EndsLinked(t, p, q, next) <=> EndsLinked(s, p, q, now)
  BY <1>1, <1>5, <1>6, <1>8, <1>9, <1>10 DEF NoWord, IsFrame
<1> QED
  BY <1>11 DEF t


LEMMA EndsQuietly ==
    ASSUME NEW s \in Seq(Frames), NEW p, NEW q, NEW now \in BOOLEAN
    PROVE  /\ now /\ (\A f \in Range(s) : ~IsFrame(f, "unlink", p, q)) => EndsLinked(s, p, q, now)
           /\ ~now /\ (\A f \in Range(s) : ~IsFrame(f, "link", p, q)) => ~EndsLinked(s, p, q, now)
  BY RangeMember DEF EndsLinked

\* A step that is none of the link between p and q, as q will see it.
Same(p, q) ==
    /\ WillHold(p, q)' <=> WillHold(p, q)
    /\ \A kind \in {"link", "unlink"} : InFlight(kind, p, q)' => InFlight(kind, p, q)

Agree(p, q) ==
    /\ ~(InFlight("link", p, q) /\ InFlight("unlink", q, p))
    /\ WillHold(p, q) <=> WillHold(q, p)

LEMMA SameAgree ==
    ASSUME NEW p, NEW q, Same(p, q), Same(q, p), Agree(p, q)
    PROVE  Agree(p, q)'
  BY DEF Same, Agree

LEMMA SameGrows ==
    ASSUME TypeOK, NEW p \in Pids, NEW q \in Pids, NEW h \in Nodes, NEW g \in Nodes,
           h = Home[p], g = Home[q], p \in links'[q] <=> p \in links[q],
           NEW fs, Grows(wire'[h][g], wire[h][g], fs), \A f \in fs : NoWord(f, p, q)
    PROVE  Same(p, q)
<1>1. PICK s \in Seq(Frames) : s = wire[h][g]
  BY DEF TypeOK
<1>2. PICK t \in Seq(Frames) : wire'[h][g] = s \o t /\ Range(t) = fs
  BY <1>1 DEF Grows
<1>3. PICK now \in BOOLEAN : now <=> p \in links[q]
  OBVIOUS
<1>4. EndsLinked(s \o t, p, q, now) <=> EndsLinked(s, p, q, now)
  BY <1>1, <1>2, <1>3, EndsConcat
<1>5. WillHold(p, q)' <=> WillHold(p, q)
  BY <1>1, <1>2, <1>3, <1>4 DEF WillHold, EndsLinked
<1>6. Range(s \o t) = Range(s) \cup Range(t)
  BY <1>1, <1>2, RangeConcat
<1>7. ASSUME NEW kind \in {"link", "unlink"}, InFlight(kind, p, q)'
      PROVE  InFlight(kind, p, q)
  <2>1. PICK f \in Range(wire'[h][g]) : IsFrame(f, kind, p, q)
    BY <1>7 DEF InFlight, IsFrame
  <2>2. f \in Range(wire[h][g])
    BY <1>1, <1>2, <1>6, <2>1 DEF NoWord
  <2> QED
    BY <2>1, <2>2 DEF InFlight, IsFrame
<1> QED
  BY <1>5, <1>7 DEF Same

\* What a guest's frame does to the link it is about, and to any other.
LEMMA SendWord ==
    ASSUME TypeOK, NEW h \in Nodes, NEW f \in Frames, wire' = Send(wire, h, f),
           NEW p \in Pids, NEW q \in Pids
    PROVE  /\ NoWord(f, p, q) /\ (p \in links'[q] <=> p \in links[q]) => Same(p, q)
           /\ \A kind : InFlight(kind, p, q)' => InFlight(kind, p, q) \/ IsFrame(f, kind, p, q)
           /\ h = Home[p] /\ IsFrame(f, "link", p, q) => WillHold(p, q)'
           /\ h = Home[p] /\ IsFrame(f, "unlink", p, q) => ~WillHold(p, q)'
<1>0. PICK a \in Nodes, b \in Nodes : a = Home[p] /\ b = Home[q]
  BY SignalsAssumption
<1>1. wire \in Wires
  BY DEF TypeOK, Wires
<1>2. PICK s \in Seq(Frames) : s = wire[a][b]
  BY <1>0, <1>1 DEF Wires
<1>3. /\ wire'[a][b] = IF a = h /\ b = Home[f.to] THEN Append(s, f) ELSE s
      /\ Range(wire'[a][b]) = Range(s) \cup One(f, h, a, b)
  BY <1>0, <1>1, <1>2, SendFacts
<1>4. ASSUME NoWord(f, p, q), p \in links'[q] <=> p \in links[q]
      PROVE  Same(p, q)
  <2>1. Grows(wire'[a][b], wire[a][b], One(f, h, a, b))
    <3>1. CASE a = h /\ b = Home[f.to]
      <4>1. Append(s, f) = s \o <<f>> /\ <<f>> \in Seq(Frames) /\ Range(<<f>>) = {f}
        BY <1>2 DEF Range
      <4>2. One(f, h, a, b) = {f}
        BY <3>1 DEF One
      <4> QED
        BY <1>2, <1>3, <3>1, <4>1, <4>2 DEF Grows
    <3>2. CASE ~(a = h /\ b = Home[f.to])
      <4>1. s = s \o <<>> /\ <<>> \in Seq(Frames) /\ Range(<<>>) = {}
        BY <1>2 DEF Range
      <4>2. One(f, h, a, b) = {}
        BY <3>2 DEF One
      <4> QED
        BY <1>2, <1>3, <3>2, <4>1, <4>2 DEF Grows
    <3> QED
      BY <3>1, <3>2
  <2>2. \A g \in One(f, h, a, b) : NoWord(g, p, q)
    BY <1>4 DEF One
  <2> QED
    BY <1>0, <1>4, <2>1, <2>2, SameGrows
<1>5. ASSUME NEW kind, InFlight(kind, p, q)'
      PROVE  InFlight(kind, p, q) \/ IsFrame(f, kind, p, q)
  <2>1. PICK g \in Range(wire'[a][b]) : IsFrame(g, kind, p, q)
    BY <1>0, <1>5 DEF InFlight, IsFrame
  <2>2. g \in Range(wire[a][b]) \/ g = f
    BY <1>2, <1>3, <2>1 DEF One
  <2> QED
    BY <1>0, <2>1, <2>2 DEF InFlight, IsFrame
<1>6. PICK now \in BOOLEAN : now <=> p \in links'[q]
  OBVIOUS
<1>7. ASSUME h = Home[p], f.to = q PROVE WillHold(p, q)' <=> EndsLinked(Append(s, f), p, q, now)
  BY <1>0, <1>3, <1>6, <1>7 DEF WillHold, EndsLinked
<1> QED
  BY <1>2, <1>4, <1>5, <1>6, <1>7, EndsAppend DEF IsFrame

LEMMA LinkAgrees ==
    ASSUME TypeOK, NEW a \in Pids, NEW b \in Pids, NEW named \in BOOLEAN, Link(a, b, named),
           NEW p \in alive, NEW q \in alive, {p, q} \notin loose', Agree(p, q)
    PROVE  Agree(p, q)'
<1> DEFINE f == LinkFrame(a, b, named)
<1>0. PICK h \in Nodes : h = Home[a]
  BY SignalsAssumption
<1>1. /\ wire' = Send(wire, h, f) /\ Home[a] # Home[b] /\ a # b
      /\ links' = [links EXCEPT ![a] = IF named \/ a \notin alive THEN @ ELSE @ \cup {b}]
      /\ loose' = IF Loosens(a, b, "unlink", named) THEN loose \cup {{a, b}} ELSE loose
      /\ alive' = alive
  BY <1>0 DEF Link, lifeVars
<1>2. f \in Frames /\ IsFrame(f, "link", a, b) /\ \A k, i, j : IsFrame(f, k, i, j) => k = "link" /\ i = a /\ j = b
  BY SignalsAssumption DEF LinkFrame, Frames, Reasons, ExitReasons, IsFrame
<1>3. p \in Pids /\ q \in Pids /\ links \in [Pids -> SUBSET Pids] /\ links' \in [Pids -> SUBSET Pids]
  BY <1>1 DEF TypeOK
<1> HIDE DEF f
<1>4. ASSUME NEW i \in Pids, NEW j \in Pids, {i, j} # {a, b}
      PROVE  Same(i, j)
  <2>1. NoWord(f, i, j)
    BY <1>2, <1>4 DEF NoWord
  <2>2. i \in links'[j] <=> i \in links[j]
    BY <1>1, <1>3, <1>4
  <2> QED
    BY <1>0, <1>1, <1>2, <2>1, <2>2, SendWord
<1>5. CASE {p, q} # {a, b}
  BY <1>3, <1>4, <1>5, SameAgree
<1>6. CASE {p, q} = {a, b}
  <2>1. ~named /\ ~InFlight("unlink", b, a) /\ a \in alive /\ b \in alive
    BY <1>1, <1>6 DEF Loosens
  <2>2. b \in links'[a]
    BY <1>1, <1>3, <2>1
  <2>3. WillHold(a, b)'
    BY <1>0, <1>1, <1>2, SendWord
  <2>4. ~InFlight("unlink", b, a)' /\ (InFlight("unlink", a, b)' => InFlight("unlink", a, b))
        /\ (InFlight("link", b, a)' => InFlight("link", b, a))
    <3>1. ~IsFrame(f, "unlink", b, a) /\ ~IsFrame(f, "unlink", a, b) /\ ~IsFrame(f, "link", b, a)
      BY <1>1, <1>2
    <3> QED
      BY <1>0, <1>1, <1>2, <2>1, <3>1, SendWord
  <2>5. WillHold(b, a)'
    <3>1. PICK i \in Nodes, j \in Nodes : i = Home[b] /\ j = Home[a]
      BY SignalsAssumption
    <3>2. PICK s \in Seq(Frames) : s = wire'[i][j]
      <4>1. wire \in Wires
        BY DEF TypeOK, Wires
      <4>2. wire' \in Wires
        BY <1>0, <1>1, <1>2, <4>1, SendFacts
      <4> QED
        BY <3>1, <4>2 DEF Wires
    <3>3. \A g \in Range(s) : ~IsFrame(g, "unlink", b, a)
      BY <2>4, <3>1, <3>2 DEF InFlight, IsFrame
    <3>4. EndsLinked(s, b, a, TRUE)
      BY <3>2, <3>3, EndsQuietly
    <3> QED
      BY <2>2, <3>1, <3>2, <3>4 DEF WillHold, EndsLinked
  <2>6. CASE p = a /\ q = b
    BY <2>3, <2>4, <2>5, <2>6 DEF Agree
  <2>7. CASE p = b /\ q = a
    BY <2>3, <2>4, <2>5, <2>7 DEF Agree
  <2> QED
    BY <1>6, <2>6, <2>7
<1> QED
  BY <1>5, <1>6


LEMMA UnlinkAgrees ==
    ASSUME TypeOK, NEW a \in Pids, NEW b \in Pids, NEW named \in BOOLEAN, Unlink(a, b, named),
           NEW p \in alive, NEW q \in alive, {p, q} \notin loose', Agree(p, q)
    PROVE  Agree(p, q)'
<1> DEFINE f == UnlinkFrame(a, b, named)
<1>0. PICK h \in Nodes : h = Home[a]
  BY SignalsAssumption
<1>1. /\ wire' = Send(wire, h, f) /\ Home[a] # Home[b] /\ a # b
      /\ links' = [links EXCEPT ![a] = IF named \/ a \notin alive THEN @ ELSE @ \ {b}]
      /\ loose' = IF Loosens(a, b, "link", named) THEN loose \cup {{a, b}} ELSE loose
      /\ alive' = alive
  BY <1>0 DEF Unlink, lifeVars
<1>2. /\ f \in Frames /\ IsFrame(f, "unlink", a, b)
      /\ \A k, i, j : IsFrame(f, k, i, j) => k = "unlink" /\ i = a /\ j = b
  BY SignalsAssumption DEF UnlinkFrame, LinkFrame, Frames, Reasons, ExitReasons, IsFrame
<1>3. p \in Pids /\ q \in Pids /\ links \in [Pids -> SUBSET Pids] /\ links' \in [Pids -> SUBSET Pids]
  BY <1>1 DEF TypeOK
<1> HIDE DEF f
<1>4. ASSUME NEW i \in Pids, NEW j \in Pids, {i, j} # {a, b}
      PROVE  Same(i, j)
  <2>1. NoWord(f, i, j)
    BY <1>2, <1>4 DEF NoWord
  <2>2. i \in links'[j] <=> i \in links[j]
    BY <1>1, <1>3, <1>4
  <2> QED
    BY <1>0, <1>1, <1>2, <2>1, <2>2, SendWord
<1>5. CASE {p, q} # {a, b}
  BY <1>3, <1>4, <1>5, SameAgree
<1>6. CASE {p, q} = {a, b}
  <2>1. ~named /\ ~InFlight("link", b, a) /\ a \in alive /\ b \in alive
    BY <1>1, <1>6 DEF Loosens
  <2>2. b \notin links'[a]
    BY <1>1, <1>3, <2>1
  <2>3. ~WillHold(a, b)'
    BY <1>0, <1>1, <1>2, SendWord
  <2>4. ~InFlight("link", b, a)' /\ (InFlight("link", a, b)' => InFlight("link", a, b))
        /\ (InFlight("unlink", b, a)' => InFlight("unlink", b, a))
    <3>1. ~IsFrame(f, "link", b, a) /\ ~IsFrame(f, "link", a, b) /\ ~IsFrame(f, "unlink", b, a)
      BY <1>1, <1>2
    <3> QED
      BY <1>0, <1>1, <1>2, <2>1, <3>1, SendWord
  <2>5. ~WillHold(b, a)'
    <3>1. PICK i \in Nodes, j \in Nodes : i = Home[b] /\ j = Home[a]
      BY SignalsAssumption
    <3>2. PICK s \in Seq(Frames) : s = wire'[i][j]
      <4>1. wire \in Wires
        BY DEF TypeOK, Wires
      <4>2. wire' \in Wires
        BY <1>0, <1>1, <1>2, <4>1, SendFacts
      <4> QED
        BY <3>1, <4>2 DEF Wires
    <3>3. \A g \in Range(s) : ~IsFrame(g, "link", b, a)
      BY <2>4, <3>1, <3>2 DEF InFlight, IsFrame
    <3>4. ~EndsLinked(s, b, a, FALSE)
      BY <3>2, <3>3, EndsQuietly
    <3> QED
      BY <2>2, <3>1, <3>2, <3>4 DEF WillHold, EndsLinked
  <2>6. CASE p = a /\ q = b
    BY <2>3, <2>4, <2>5, <2>6 DEF Agree
  <2>7. CASE p = b /\ q = a
    BY <2>3, <2>4, <2>5, <2>7 DEF Agree
  <2> QED
    BY <1>6, <2>6, <2>7
<1> QED
  BY <1>5, <1>6

\* The other calls of a guest, and the forwarder, say nothing about links.
LEMMA GuestAgrees ==
    ASSUME TypeOK, NEW a \in Pids, Guest(a),
           NEW p \in alive, NEW q \in alive, {p, q} \notin loose', Agree(p, q)
    PROVE  Agree(p, q)'
<1>0. p \in Pids /\ q \in Pids
  BY DEF TypeOK
<1>1. ASSUME NEW h \in Nodes, NEW f \in Frames, wire' = Send(wire, h, f), UNCHANGED links,
             f.kind \notin {"link", "unlink"}
      PROVE  Agree(p, q)'
  <2>1. NoWord(f, p, q) /\ NoWord(f, q, p)
    BY <1>1 DEF NoWord, IsFrame
  <2>2. Same(p, q) /\ Same(q, p)
    BY <1>0, <1>1, <2>1, SendWord
  <2> QED
    BY <2>2, SameAgree
<1>2. PICK h \in Nodes : h = Home[a]
  BY SignalsAssumption
<1>3. ASSUME NEW b \in Pids, NEW named \in BOOLEAN, Monitor(a, b, named) PROVE Agree(p, q)'
  <2>1. nextRef[a] \in 0..MaxRef
    BY <1>3 DEF Monitor, Refs
  <2>2. PICK f \in Frames : f = MonitorFrame(a, b, nextRef[a], named)
    BY <2>1, SignalsAssumption DEF LinkFrame, MonitorFrame, Frames, Reasons, ExitReasons
  <2>3. f.kind \notin {"link", "unlink"}
    BY <2>2 DEF LinkFrame, MonitorFrame
  <2>4. wire' = Send(wire, h, f) /\ UNCHANGED links
    BY <1>2, <1>3, <2>2 DEF Monitor
  <2> QED
    BY <1>1, <1>2, <2>2, <2>3, <2>4
<1>4. ASSUME NEW b \in Pids, NEW why \in Given, NEW named \in BOOLEAN,
             ExitSignal(a, b, why, named)
      PROVE  Agree(p, q)'
  <2>0. SignalFrame(a, b, why, named) \in Frames
    BY SignalFrameType
  <2>1. PICK f \in Frames : f = SignalFrame(a, b, why, named)
    BY <2>0
  <2>2. f.kind \notin {"link", "unlink"}
    BY <2>1 DEF LinkFrame, SignalFrame
  <2>3. wire' = Send(wire, h, f) /\ UNCHANGED links
    BY <1>2, <1>4, <2>1 DEF ExitSignal, relVars
  <2> QED
    BY <1>1, <1>2, <2>1, <2>2, <2>3
<1>5. ASSUME NEW r \in Refs, Demonitor(a, r) PROVE Agree(p, q)'
  BY <1>5 DEF Demonitor, Agree, WillHold, InFlight
<1> QED
  BY <1>3, <1>4, <1>5, LinkAgrees, UnlinkAgrees DEF Guest

LEMMA ForwardAgrees ==
    ASSUME TypeOK, NEW n \in Nodes, Forward(n), NEW p \in Pids, NEW q \in Pids
    PROVE  Same(p, q)
<1>1. PICK d \in Deaths : wire' = Tell(wire, n, d)
  <2>1. deaths[n] \in Seq(Deaths) /\ deaths[n] # <<>>
    BY DEF Forward, TypeOK
  <2>2. Head(deaths[n]) \in Deaths
    BY <2>1, RangeHeadTail
  <2> QED
    BY <2>2 DEF Forward
<1>2. PICK h \in Nodes, g \in Nodes : h = Home[p] /\ g = Home[q]
  BY SignalsAssumption
<1>3. PICK fs : fs = For(ExitsOf(d) \cup DownsOf(d), n, h, g)
  OBVIOUS
<1>4. Grows(wire'[h][g], wire[h][g], fs)
  <2>1. wire \in Wires
    BY DEF TypeOK, Wires
  <2> QED
    BY <1>1, <1>2, <1>3, <2>1, TellFacts
<1>5. \A f \in fs : NoWord(f, p, q)
  <2>1. \A f \in fs : f \in ExitsOf(d) \/ f \in DownsOf(d)
    BY <1>3 DEF For
  <2>2. \A f \in fs : f.kind \in {"exit", "down"}
    BY <2>1, FrameFields DEF ExitsOf, DownsOf
  <2> QED
    BY <2>2 DEF NoWord, IsFrame
<1>6. UNCHANGED links
  BY DEF Forward, relVars
<1> QED
  BY <1>2, <1>4, <1>5, <1>6, SameGrows

\* A frame of their link moves the half of q as the queue said it would.
LEMMA HandlesWord ==
    ASSUME TypeOK, NEW f \in Frames, Handles(f), NEW p \in alive', NEW q \in alive'
    PROVE  /\ IsFrame(f, "link", p, q) => p \in links'[q]
           /\ IsFrame(f, "unlink", p, q) => p \notin links'[q]
           /\ NoWord(f, p, q) => (p \in links'[q] <=> p \in links[q])
<1>0. /\ f.to \in Pids /\ f.from \in Pids /\ links \in [Pids -> SUBSET Pids]
      /\ alive' \subseteq alive /\ q \in Pids /\ p \in Pids
  BY HandlesTypes DEF Frames, TypeOK
<1>1. ASSUME NEW a, NEW r, Dies(a, r)
      PROVE  links'[q] = links[q]
  BY <1>0, <1>1 DEF Dies
<1>2. CASE OnLink(f)
  BY <1>0, <1>2 DEF OnLink, IsFrame, NoWord
<1>3. CASE OnUnlink(f)
  BY <1>0, <1>3 DEF OnUnlink, IsFrame, NoWord
<1>4. CASE OnExit(f) \/ OnSignal(f)
  <2>1. links'[q] = links[q]
    BY <1>1, <1>4 DEF OnExit, OnSignal, Inherits
  <2>2. f.kind \notin {"link", "unlink"}
    BY <1>4 DEF OnExit, OnSignal
  <2> QED
    BY <2>1, <2>2 DEF IsFrame
<1>5. CASE OnMonitor(f) \/ OnDown(f)
  <2>1. UNCHANGED links /\ f.kind \notin {"link", "unlink"}
    BY <1>5 DEF OnMonitor, OnDown
  <2> QED
    BY <2>1 DEF IsFrame
<1> QED
  BY <1>2, <1>3, <1>4, <1>5 DEF Handles


LEMMA ReceiveAgrees ==
    ASSUME TypeOK, FramesAreRouted, NEW n \in Nodes, NEW m \in Nodes, Receive(n, m),
           NEW p \in alive', NEW q \in alive'
    PROVE  Same(p, q)
<1>1. PICK f \in Frames, w \in Wires :
          /\ f = Head(wire[n][m])
          /\ Handles(f)
          /\ Range(wire[n][m]) = {f} \cup Range(w[n][m])
          /\ w[n][m] = Tail(wire[n][m])
          /\ \A a, b \in Nodes : <<a, b>> # <<n, m>> => w[a][b] = wire[a][b]
          /\ \A a, b \in Nodes : Grows(wire'[a][b], w[a][b], For(Answer(f), m, a, b))
  BY ReceiveFacts
<1>2. p \in Pids /\ q \in Pids
  BY <1>1, HandlesTypes DEF TypeOK
<1>3. PICK h \in Nodes, g \in Nodes : h = Home[p] /\ g = Home[q]
  BY <1>2, SignalsAssumption
<1>4. PICK s \in Seq(Frames), u \in Seq(Frames) : s = wire[h][g] /\ u = w[h][g]
  <2>1. wire[h][g] \in Seq(Frames)
    BY <1>3 DEF TypeOK
  <2>2. w[h][g] \in Seq(Frames)
    BY <1>1, <1>3 DEF Wires
  <2> QED
    BY <2>1, <2>2
<1>5. PICK t \in Seq(Frames) : wire'[h][g] = u \o t /\ Range(t) = For(Answer(f), m, h, g)
  <2>1. Grows(wire'[h][g], u, For(Answer(f), m, h, g))
    BY <1>1, <1>3, <1>4
  <2> QED
    BY <2>1 DEF Grows
<1>6. \A e \in Range(t) : NoWord(e, p, q)
  <2>1. \A e \in Range(t) : e \in Answer(f)
    BY <1>5 DEF For
  <2>2. \A e \in Answer(f) : e.kind \in {"exit", "down"}
    BY FrameFields DEF Answer
  <2> QED
    BY <2>1, <2>2 DEF NoWord, IsFrame
<1>7. PICK now \in BOOLEAN, next \in BOOLEAN : (now <=> p \in links[q]) /\ (next <=> p \in links'[q])
  OBVIOUS
<1>8. EndsLinked(u \o t, p, q, next) <=> EndsLinked(u, p, q, next)
  BY <1>4, <1>5, <1>6, <1>7, EndsConcat
<1>9. /\ IsFrame(f, "link", p, q) => next
      /\ IsFrame(f, "unlink", p, q) => ~next
      /\ NoWord(f, p, q) => (next <=> now)
  BY <1>1, <1>7, HandlesWord
<1>10. EndsLinked(u, p, q, next) <=> EndsLinked(s, p, q, now)
  <2>1. CASE h = n /\ g = m
    <3>1. s # <<>> /\ f = Head(s) /\ u = Tail(s)
      BY <1>1, <1>4, <2>1 DEF Receive
    <3>2. \/ IsFrame(Head(s), "link", p, q) /\ next
          \/ IsFrame(Head(s), "unlink", p, q) /\ ~next
          \/ NoWord(Head(s), p, q) /\ (next <=> now)
      BY <1>9, <3>1 DEF NoWord
    <3> QED
      BY <1>4, <1>7, <3>1, <3>2, EndsTail
  <2>2. CASE ~(h = n /\ g = m)
    <3>1. s = u
      BY <1>1, <1>3, <1>4, <2>2
    <3>2. f \in Range(wire[n][m])
      BY <1>1
    <3>3. NoWord(f, p, q)
      BY <1>3, <2>2, <3>2 DEF FramesAreRouted, NoWord, IsFrame
    <3>4. next <=> now
      BY <1>9, <3>3
    <3> QED
      BY <3>1, <3>4 DEF EndsLinked
  <2> QED
    BY <2>1, <2>2
<1>11. WillHold(p, q)' <=> WillHold(p, q)
  BY <1>3, <1>4, <1>5, <1>7, <1>8, <1>10, ZenonT(40) DEF WillHold, EndsLinked
<1>12. Range(u \o t) = Range(u) \cup Range(t)
  BY <1>4, <1>5, RangeConcat
<1>13. Range(u) \subseteq Range(s)
  BY <1>1, <1>3, <1>4
<1>14. ASSUME NEW kind \in {"link", "unlink"}, InFlight(kind, p, q)'
       PROVE  InFlight(kind, p, q)
  <2>1. PICK e \in Range(wire'[h][g]) : IsFrame(e, kind, p, q)
    BY <1>3, <1>14 DEF InFlight, IsFrame
  <2>2. e \in Range(s)
    BY <1>5, <1>6, <1>12, <1>13, <2>1 DEF NoWord
  <2> QED
    BY <1>3, <1>4, <2>1, <2>2 DEF InFlight, IsFrame
<1> QED
  BY <1>11, <1>14 DEF Same

\* While nothing has failed, every step leaves a pair that is not loose agreeing.
LEMMA AgreeStep ==
    ASSUME Truth, FramesAreRouted, [Next]_vars, faultless',
           NEW p \in alive', NEW q \in alive', {p, q} \notin loose', Agree(p, q)
    PROVE  Agree(p, q)'
<1>0. /\ TypeOK /\ FaultsAreKnown /\ faultless /\ alive' \subseteq alive
      /\ p \in Pids /\ q \in Pids /\ links \in [Pids -> SUBSET Pids]
  BY NextStands, FaultsStayKnown DEF Truth, TypeOK, DeathsStand
<1>1. CASE UNCHANGED vars
  BY <1>1 DEF vars, relVars, Agree, WillHold, InFlight
<1>2. ASSUME NEW a \in Pids, Guest(a) PROVE Agree(p, q)'
  BY <1>0, <1>2, GuestAgrees
<1>3. ASSUME NEW a \in Pids, NEW r, GuestReturn(a, r) PROVE Agree(p, q)'
  <2>1. UNCHANGED wire /\ Dies(a, r)
    BY <1>3 DEF GuestReturn
  <2>2. links'[p] = links[p] /\ links'[q] = links[q]
    BY <1>0, <2>1 DEF Dies
  <2> QED
    BY <2>1, <2>2 DEF Agree, WillHold, InFlight
<1>4. ASSUME NEW n \in Nodes, Forward(n) PROVE Agree(p, q)'
  BY <1>0, <1>4, ForwardAgrees, SameAgree
<1>5. ASSUME NEW n \in Nodes, React(n) PROVE FALSE
  BY <1>0, <1>5 DEF FaultsAreKnown, React, LossSeen, FireLink, FireMonitor, Forget, NotFiring
<1>6. ASSUME NEW n \in Nodes, NEW m \in Nodes, Transport(n, m) PROVE Agree(p, q)'
  <2>1. CASE Receive(n, m)
    BY <1>0, <2>1, ReceiveAgrees, SameAgree
  <2>2. CASE Dial(n, m)
    BY <2>2 DEF Dial, relVars, Agree, WillHold, InFlight
  <2>3. Path(n, m)
    BY <1>0 DEF FaultsAreKnown, Path
  <2> QED
    BY <1>6, <2>1, <2>2, <2>3 DEF Transport, DialFails, ConnEnds
<1>7. ~Fault /\ ~(\E n, m \in Nodes : Heal(n, m))
  BY <1>0 DEF Fault, Crash, Break, Heal, FaultsAreKnown
<1> QED
  BY <1>1, <1>2, <1>3, <1>4, <1>5, <1>6, <1>7 DEF Next

\* The links and unlinks on the wire are those that were there, or a guest's.
LEMMA RoutedStep ==
    ASSUME TypeOK, FramesAreRouted, [Next]_vars, NEW a \in Nodes, NEW b \in Nodes,
           NEW f \in Range(wire'[a][b]), f.kind \in {"link", "unlink"}
    PROVE  Home[f.from] = a /\ Home[f.to] = b
<1>0. wire \in Wires /\ wire[a][b] \in Seq(Frames)
  BY DEF TypeOK, Wires
<1>1. CASE f \in Range(wire[a][b])
  BY <1>1 DEF FramesAreRouted
<1>2. ASSUME NEW p \in Pids, Guest(p) PROVE Home[f.from] = a /\ Home[f.to] = b
  <2>1. PICK h \in Nodes : h = Home[p]
    BY SignalsAssumption
  <2>2. wire' = wire \/ \E g \in Frames : wire' = Send(wire, h, g) /\ g.from = p
    BY <1>2, <2>1, GuestSends
  <2>3. ASSUME NEW g \in Frames, wire' = Send(wire, h, g), g.from = p
        PROVE  Home[f.from] = a /\ Home[f.to] = b
    <3>1. Range(wire'[a][b]) = Range(wire[a][b]) \cup One(g, h, a, b)
      BY <1>0, <2>1, <2>3, SendFacts
    <3>2. f \in Range(wire[a][b]) \/ (f = g /\ a = h /\ Home[g.to] = b)
      BY <3>1 DEF One
    <3> QED
      BY <1>1, <2>1, <2>3, <3>2
  <2> QED
    BY <1>1, <2>2, <2>3
<1>3. ASSUME NEW n \in Nodes, Forward(n) PROVE f \in Range(wire[a][b])
  <2>1. PICK d \in Deaths : wire' = Tell(wire, n, d)
    <3>1. deaths[n] \in Seq(Deaths) /\ deaths[n] # <<>>
      BY <1>3 DEF Forward, TypeOK
    <3>2. Head(deaths[n]) \in Deaths
      BY <3>1, RangeHeadTail
    <3> QED
      BY <1>3, <3>2 DEF Forward
  <2>2. Grows(wire'[a][b], wire[a][b], For(ExitsOf(d) \cup DownsOf(d), n, a, b))
    BY <1>0, <2>1, TellFacts
  <2>3. Range(wire'[a][b]) = Range(wire[a][b]) \cup For(ExitsOf(d) \cup DownsOf(d), n, a, b)
    BY <1>0, <2>2, GrowsFacts
  <2>4. f \in Range(wire[a][b]) \/ f \in ExitsOf(d) \/ f \in DownsOf(d)
    BY <2>3 DEF For
  <2>5. f \in ExitsOf(d) \/ f \in DownsOf(d) => f.kind \in {"exit", "down"}
    BY FrameFields DEF ExitsOf, DownsOf
  <2> QED
    BY <2>4, <2>5
<1>4. ASSUME NEW n \in Nodes, NEW m \in Nodes, Transport(n, m) PROVE f \in Range(wire[a][b])
  <2>1. CASE Receive(n, m)
    <3>1. PICK g \in Frames, w \in Wires :
              /\ Range(wire[n][m]) = {g} \cup Range(w[n][m])
              /\ \A i, j \in Nodes : <<i, j>> # <<n, m>> => w[i][j] = wire[i][j]
              /\ \A i, j \in Nodes : Grows(wire'[i][j], w[i][j], For(Answer(g), m, i, j))
      BY <2>1, ReceiveFacts
    <3>2. w[a][b] \in Seq(Frames) /\ Range(w[a][b]) \subseteq Range(wire[a][b])
      BY <3>1 DEF Wires
    <3>3. Range(wire'[a][b]) = Range(w[a][b]) \cup For(Answer(g), m, a, b)
      BY <3>1, <3>2, GrowsFacts
    <3>4. f \in Range(wire[a][b]) \/ f \in Answer(g)
      BY <3>2, <3>3 DEF For
    <3>5. f \in Answer(g) => f.kind \in {"exit", "down"}
      BY FrameFields DEF Answer
    <3> QED
      BY <3>4, <3>5
  <2>2. CASE DialFails(n, m) \/ \E k \in 0..Len(wire[n][m]) : ConnEnds(n, m, k)
    BY <2>2, CutFacts
  <2>3. CASE Dial(n, m)
    BY <2>3 DEF Dial
  <2> QED
    BY <1>4, <2>1, <2>2, <2>3 DEF Transport
<1>5. ASSUME NEW m \in Nodes, Crash(m) PROVE f \in Range(wire[a][b])
  BY <1>5, CrashFacts
<1>6. ASSUME NEW p \in Pids, NEW r, GuestReturn(p, r) PROVE UNCHANGED wire
  BY <1>6 DEF GuestReturn
<1>7. ASSUME NEW n \in Nodes, React(n) PROVE UNCHANGED wire
  BY <1>7 DEF React, LossSeen, FireLink, FireMonitor, Forget
<1>8. ASSUME NEW n \in Nodes, NEW m \in Nodes, Break(n, m) \/ Heal(n, m) PROVE UNCHANGED wire
  BY <1>8 DEF Break, Heal
<1>9. CASE UNCHANGED vars
  BY <1>1, <1>9 DEF vars
<1> QED
  BY <1>1, <1>2, <1>3, <1>4, <1>5, <1>6, <1>7, <1>8, <1>9 DEF Next, Fault

\* A pair once loose stays so.
LEMMA LooseStays ==
    ASSUME [Next]_vars
    PROVE  loose \subseteq loose'
<1>1. ASSUME NEW p \in Pids, Guest(p) PROVE loose \subseteq loose'
  BY <1>1 DEF Guest, Link, Unlink, Monitor, ExitSignal, Demonitor
<1>2. ASSUME NEW n \in Nodes, NEW m \in Nodes, Transport(n, m) PROVE loose \subseteq loose'
  BY <1>2 DEF Transport, Receive, Dial, DialFails, ConnEnds
<1>3. ASSUME NEW n \in Nodes, Forward(n) \/ React(n) PROVE loose \subseteq loose'
  BY <1>3 DEF Forward, React, LossSeen, FireLink, FireMonitor, Forget
<1>4. ASSUME NEW p \in Pids, NEW r, GuestReturn(p, r) PROVE loose \subseteq loose'
  BY <1>4 DEF GuestReturn
<1>5. CASE Fault \/ (\E n, m \in Nodes : Heal(n, m)) \/ UNCHANGED vars
  BY <1>5 DEF Fault, Crash, Break, Heal, vars
<1> QED
  BY <1>1, <1>2, <1>3, <1>4, <1>5 DEF Next

\* The inductive invariant of the theorem below.
Settling == Truth /\ FramesAreRouted /\ HalvesAgree

LEMMA InitSettling == Init => Settling
<1> SUFFICES ASSUME Init PROVE Settling
  OBVIOUS
<1>1. \A n, m \in Nodes : wire[n][m] = <<>> /\ Range(wire[n][m]) = {}
  BY DEF Init, Range
<1>2. ASSUME NEW p \in Pids, NEW q \in Pids PROVE Agree(p, q)
  <2>1. PICK h \in Nodes, g \in Nodes : h = Home[p] /\ g = Home[q]
    BY SignalsAssumption
  <2>2. /\ wire[h][g] = <<>> /\ wire[g][h] = <<>> /\ p \notin links[q] /\ q \notin links[p]
        /\ Range(wire[h][g]) = {}
    BY <1>1, <2>1 DEF Init
  <2>3. <<>> \in Seq(Frames) /\ Len(<<>>) = 0
    OBVIOUS
  <2>4. ~WillHold(p, q) /\ ~WillHold(q, p)
    BY <2>1, <2>2, <2>3 DEF WillHold, EndsLinked
  <2>5. ~InFlight("link", p, q)
    BY <2>1, <2>2 DEF InFlight
  <2> QED
    BY <2>4, <2>5 DEF Agree
<1>3. FramesAreRouted
  BY <1>1 DEF FramesAreRouted
<1>4. alive = Pids
  BY DEF Init
<1> QED
  BY <1>2, <1>3, <1>4, InitTruth DEF Settling, HalvesAgree, Agree

LEMMA NextSettling == Settling /\ [Next]_vars => Settling'
<1> SUFFICES ASSUME Settling, [Next]_vars PROVE Settling'
  OBVIOUS
<1>1. Truth /\ TypeOK /\ FaultsAreKnown /\ FramesAreRouted /\ HalvesAgree
  BY DEF Settling, Truth
<1>2. Truth'
  BY <1>1, NextTruth
<1>3. FramesAreRouted'
  BY <1>1, RoutedStep DEF FramesAreRouted
<1>4. (faultless' => faultless) /\ alive' \subseteq alive /\ loose \subseteq loose'
  BY <1>1, FaultsStayKnown, NextStands, LooseStays DEF DeathsStand
<1>5. ASSUME faultless', NEW p \in alive', NEW q \in alive', {p, q} \notin loose'
      PROVE  Agree(p, q)'
  <2>1. Agree(p, q)
    BY <1>1, <1>4, <1>5 DEF HalvesAgree, Agree
  <2> QED
    BY <1>1, <1>5, <2>1, AgreeStep
<1>6. HalvesAgree'
  BY <1>5 DEF HalvesAgree, Agree
<1> QED
  BY <1>2, <1>3, <1>6 DEF Settling

\* Across nodes a link is one relationship (the remote branches of link and
\* unlink in src/runtime/invoke.rs, their frames in src/protocol.rs): with nothing
\* failed and all quiet, live particles hold both halves or neither, but for
\* pairs whose calls crossed or went by name; for any number of nodes, particles
\* and calls.
THEOREM LinksDoSettle == Spec => []LinksSettle
<1>1. Settling => LinksSettle
  <2> SUFFICES ASSUME Settling, Quiet, faultless, NEW p \in alive, NEW q \in alive,
                      q \in links[p], {p, q} \notin loose
               PROVE  p \in links[q]
    BY DEF LinksSettle
  <2>1. TypeOK /\ FaultsAreKnown /\ p \in Pids /\ q \in Pids
    BY DEF Settling, Truth, TypeOK
  <2>2. PICK h \in Nodes, g \in Nodes : h = Home[p] /\ g = Home[q]
    BY <2>1, SignalsAssumption
  <2>3. wire[h][g] = <<>> /\ wire[g][h] = <<>> /\ Len(<<>>) = 0
    BY <2>1, <2>2 DEF Quiet, FaultsAreKnown
  <2>4. (WillHold(p, q) <=> p \in links[q]) /\ (WillHold(q, p) <=> q \in links[p])
    BY <2>2, <2>3 DEF WillHold, EndsLinked
  <2>5. WillHold(p, q) <=> WillHold(q, p)
    BY DEF Settling, HalvesAgree
  <2> QED
    BY <2>4, <2>5
<1> QED
  BY <1>1, InitSettling, NextSettling, PTL DEF Spec
=============================================================================
