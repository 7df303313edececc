------------------------------ MODULE Cluster ------------------------------
(***************************************************************************)
(* Cluster membership: the roster each node keeps (src/cluster.rs and its  *)
(* reactor), the announcements that make the mesh transitive               *)
(* (src/protocol.rs), the peer links they travel on (src/transport.rs) and *)
(* the deliberate disconnects that keep partitions fully connected         *)
(* (src/partitions.rs).                                                    *)
(*                                                                         *)
(* A link of one node to another is a writer task with a queue, a          *)
(* connection and one ordered stream.  disconnect drops the link while its *)
(* writer drains what it has: the next message opens another link, with a  *)
(* connection of its own, and the two streams are handled independently.   *)
(* A connection opened by one node is watched by that node alone; nobody   *)
(* closes it when its writer is through, so it lingers.                    *)
(*                                                                         *)
(* QUIC is external: while the path between two nodes is up it delivers in *)
(* order and loses nothing; a path that stays down longer than the idle    *)
(* timeout ends every connection across it, with what was in flight.  A    *)
(* handler of a node is one step here, and so are the two lock sections of *)
(* learn.  What particles say to each other is left out: a "deliver" frame *)
(* stands for all of it.  Left out too: a write that fails again after the *)
(* writer has reconnected, which announces the loss once more.             *)
(***************************************************************************)
EXTENDS Naturals, Sequences, SequencesExt, FiniteSets

CONSTANTS
    Nodes,      \* the nodes' identities
    MaxPending  \* bound on the losses of a node that a reactor has not got to

ASSUME ClusterAssumption == MaxPending \in Nat

VARIABLES
    members,    \* Cluster.members
    quarantined,\* Cluster.quarantined, without the times
    known,      \* PeerLinks.known: nodes whose address is known
    linked,     \* PeerLinks.links: nodes with a link that is not dropped
    wire,       \* per link ever opened and not drained: its stream
    lingering,  \* nodes to which a drained, dropped link left a connection
    leaving,    \* the membership reactor's events: nodes announced lost
    losses,     \* the loss reporter's events, the same ones
    nextOp,     \* Partitions.next_op
    seen,       \* Partitions.seen: highest op by reporter and lost node
    broken,     \* paths that are down, as pairs
    down,       \* nodes that have crashed
    ended       \* how many connections of a node ended by themselves (history)

rosterVars == <<members, quarantined>>
linkVars == <<known, linked, wire, lingering>>
eventVars == <<leaving, losses>>
reportVars == <<nextOp, seen>>
netVars == <<broken, down>>
vars == <<rosterVars, linkVars, eventVars, reportVars, netVars, ended>>

\* QUIC between two nodes; iroh does not connect a node to itself.
Path(n, m) == n # m /\ {n, m} \notin broken /\ down \cap {n, m} = {}

AnnounceFrame(n, ns) == [kind |-> "announce", from |-> n, nodes |-> ns]
LostFrame(r, l, op) == [kind |-> "lost", from |-> r, lost |-> l, op |-> op]
RemoveFrame(n) == [kind |-> "remove", from |-> n]
DeliverFrame == [kind |-> "deliver"]

Fresh(fs) == [up |-> FALSE, frames |-> fs]

-----------------------------------------------------------------------------
(* Sending.  What a step of n sends is a function from nodes to frames.      *)

Nothing == [m \in Nodes |-> <<>>]

\* PeerLinks.send: onto the link there is, or a new one.
Enqueue(streams, open, fs) ==
    IF fs = <<>> THEN streams
    ELSE IF open
    THEN [streams EXCEPT ![Len(streams)].frames = @ \o fs]
    ELSE Append(streams, Fresh(fs))

Targets(out) == {m \in Nodes : out[m] # <<>>}

Sends(w, n, out) ==
    [w EXCEPT ![n] = [m \in Nodes |-> Enqueue(w[n][m], m \in linked[n], out[m])]]

\* announce_to: the roster to each of `to`, without the recipient and without
\* those whose address is not known.
RosterFor(n, m, mem, kn) == AnnounceFrame(n, (mem \cap kn) \ {m})

Announces(n, to, mem, kn) ==
    [m \in Nodes |-> IF m \in to THEN <<RosterFor(n, m, mem, kn)>> ELSE <<>>]

\* A slip: nobody sees to it that a node is not its own peer.
LearnedSelf(n, ns) == ns \ (quarantined[n] \cup members[n])

\* learn: who of ns is new to n; itself and quarantined nodes are refused.
Learned(n, ns) == ns \ ({n} \cup quarantined[n] \cup members[n])

-----------------------------------------------------------------------------

\* join (by id) and join_at (by address): learn the peer and announce to it,
\* even if it was refused.
Join(n, p, byAddr) ==
    /\ LET kn == IF byAddr THEN known[n] \cup {p} ELSE known[n]
           mem == members[n] \cup Learned(n, {p})
       IN  /\ known' = [known EXCEPT ![n] = kn]
           /\ members' = [members EXCEPT ![n] = mem]
           /\ wire' = Sends(wire, n, Announces(n, {p}, mem, kn))
    /\ linked' = [linked EXCEPT ![n] = @ \cup {p}]
    /\ UNCHANGED <<quarantined, lingering, eventVars, reportVars, netVars, ended>>

\* A particle's message, link, monitor or signal to another node.
SendDeliver(n, m) ==
    /\ n # m
    /\ wire' = Sends(wire, n, [Nothing EXCEPT ![m] = <<DeliverFrame>>])
    /\ linked' = [linked EXCEPT ![n] = @ \cup {m}]
    /\ UNCHANGED <<rosterVars, known, lingering, eventVars, reportVars, netVars, ended>>

\* A stream that is not the last, or whose link was dropped.
Dropped(n, m, k) == k < Len(wire[n][m]) \/ m \notin linked[n]

\* The writer of a link connects, and the far side's accept learns who it is and
\* answers with its roster before it looks at any frame.
Dial(n, m, k) ==
    /\ k \in DOMAIN wire[n][m]
    /\ ~wire[n][m][k].up /\ wire[n][m][k].frames # <<>>
    /\ Path(n, m)
    /\ LET new == Learned(m, {n})
           mem == members[m] \cup new
           dialled == [wire EXCEPT ![n][m][k].up = TRUE]
       IN  /\ members' = [members EXCEPT ![m] = mem]
           /\ wire' = Sends(dialled, m, Announces(m, new, mem, known[m]))
           /\ linked' = [linked EXCEPT ![m] = @ \cup new]
    /\ UNCHANGED <<quarantined, known, lingering, eventVars, reportVars, netVars, ended>>

\* The stream of wire[n][m] at k becomes s: a drained one of a dropped link goes.
Rest(n, m, k, s) ==
    IF s.frames = <<>> /\ Dropped(n, m, k)
    THEN [wire EXCEPT ![n][m] = RemoveAt(@, k)]
    ELSE [wire EXCEPT ![n][m][k] = s]

\* It cannot connect: the message is dropped, and that is no loss of a peer.
DialFails(n, m, k) ==
    /\ k \in DOMAIN wire[n][m]
    /\ ~wire[n][m][k].up /\ wire[n][m][k].frames # <<>>
    /\ ~Path(n, m)
    /\ wire' = Rest(n, m, k, Fresh(Tail(wire[n][m][k].frames)))
    /\ UNCHANGED <<rosterVars, known, linked, lingering, eventVars, reportVars, netVars, ended>>

-----------------------------------------------------------------------------
(* PeerLoss: the broadcast that the membership reactor and the loss reporter *)
(* subscribe to.                                                             *)

AnnounceLost(n, m) ==
    /\ leaving' = [leaving EXCEPT ![n] = Append(@, m)]
    /\ losses' = [losses EXCEPT ![n] = Append(@, m)]

\* A connection ends with the path: some of its frames were written and are
\* gone, the others the writer will try again on a new connection.
ConnectionEnds(n, m, k, i) ==
    /\ k \in DOMAIN wire[n][m]
    /\ wire[n][m][k].up
    /\ ~Path(n, m)
    /\ i \in 0..Len(wire[n][m][k].frames)
    /\ wire' = Rest(n, m, k, Fresh(SubSeq(wire[n][m][k].frames, i + 1,
                                          Len(wire[n][m][k].frames))))
    /\ AnnounceLost(n, m)
    /\ ended' = [ended EXCEPT ![n] = @ + 1]
    /\ UNCHANGED <<rosterVars, known, linked, lingering, reportVars, netVars>>

\* So does one left behind by a link that was dropped.
LingeringEnds(n, m) ==
    /\ m \in lingering[n]
    /\ ~Path(n, m)
    /\ lingering' = [lingering EXCEPT ![n] = @ \ {m}]
    /\ AnnounceLost(n, m)
    /\ ended' = [ended EXCEPT ![n] = @ + 1]
    /\ UNCHANGED <<rosterVars, known, linked, wire, reportVars, netVars>>

\* The membership reactor.
Forget(n, l) ==
    /\ leaving[n] # <<>>
    /\ l = Head(leaving[n])
    /\ members' = [members EXCEPT ![n] = @ \ {l}]
    /\ leaving' = [leaving EXCEPT ![n] = Tail(@)]
    /\ UNCHANGED <<quarantined, linkVars, losses, reportVars, netVars, ended>>

\* The loss reporter: everybody is told, unless the node was removed on purpose.
Report(n, l) ==
    /\ losses[n] # <<>>
    /\ l = Head(losses[n])
    /\ losses' = [losses EXCEPT ![n] = Tail(@)]
    /\ LET told == members[n] \ {l}
       IN  \/ /\ l \in quarantined[n]
              /\ UNCHANGED <<nextOp, wire, linked>>
           \/ /\ l \notin quarantined[n]
              /\ nextOp' = [nextOp EXCEPT ![n] = @ + 1]
              /\ wire' = Sends(wire, n, [m \in Nodes |->
                    IF m \in told THEN <<LostFrame(n, l, nextOp[n])>> ELSE <<>>])
              /\ linked' = [linked EXCEPT ![n] = @ \cup told]
    /\ UNCHANGED <<rosterVars, known, lingering, leaving, seen, netVars, ended>>

-----------------------------------------------------------------------------
(* Frames, handled in the order of their stream                              *)

\* n can take a frame off stream k of m.
Arrived(n, m, k) ==
    /\ k \in DOMAIN wire[m][n]
    /\ wire[m][n][k].up
    /\ wire[m][n][k].frames # <<>>

Frame(n, m, k) == Head(wire[m][n][k].frames)

Taken(n, m, k) == Rest(m, n, k, [wire[m][n][k] EXCEPT !.frames = Tail(@)])

\* A dropped link whose last frame is taken leaves its connection behind.
Lingers(n, m, k) ==
    IF Dropped(m, n, k) /\ Len(wire[m][n][k].frames) = 1
    THEN [lingering EXCEPT ![m] = @ \cup {n}] ELSE lingering

HandleDeliver(n, m, k) ==
    /\ Arrived(n, m, k)
    /\ Frame(n, m, k).kind = "deliver"
    /\ wire' = Taken(n, m, k)
    /\ lingering' = Lingers(n, m, k)
    /\ UNCHANGED <<rosterVars, known, linked, eventVars, reportVars, netVars, ended>>

\* Announce: the addresses are remembered and the nodes learned; those that are
\* new are announced to, and so is the sender if it left out somebody n knows.
HandleAnnounce(n, m, k) ==
    /\ Arrived(n, m, k)
    /\ Frame(n, m, k).kind = "announce"
    /\ LET f == Frame(n, m, k)
           named == f.nodes \cup {f.from}
           kn == known[n] \cup named
           new == Learned(n, named)
           mem == members[n] \cup new
           back == IF mem \ named # {} THEN {f.from} ELSE {}
           first == Announces(n, new, mem, kn)
           second == Announces(n, back, mem, kn)
       IN  /\ known' = [known EXCEPT ![n] = kn]
           /\ members' = [members EXCEPT ![n] = mem]
           /\ wire' = Sends(Taken(n, m, k), n, [x \in Nodes |-> first[x] \o second[x]])
           /\ linked' = [linked EXCEPT ![n] = @ \cup new \cup back]
    /\ lingering' = Lingers(n, m, k)
    /\ UNCHANGED <<quarantined, eventVars, reportVars, netVars, ended>>

\* A slip: the node is only forgotten, as when its connection ends.
DisconnectForgets(n, t, m, k, out) ==
    /\ quarantined' = quarantined
    /\ members' = [members EXCEPT ![n] = @ \ {t}]
    /\ wire' = Sends(Taken(n, m, k), n, [out EXCEPT ![t] = @ \o <<RemoveFrame(n)>>])
    /\ linked' = [linked EXCEPT ![n] = (@ \cup Targets(out)) \ {t}]
    /\ AnnounceLost(n, t)

\* A slip: the other side is not asked to drop its end.
DisconnectSilently(n, t, m, k, out) ==
    /\ quarantined' = [quarantined EXCEPT ![n] = @ \cup {t}]
    /\ members' = [members EXCEPT ![n] = @ \ {t}]
    /\ wire' = Sends(Taken(n, m, k), n, out)
    /\ linked' = [linked EXCEPT ![n] = (@ \cup Targets(out)) \ {t}]
    /\ AnnounceLost(n, t)

\* disconnect_deliberately, by n of t and while handling stream k of m, after
\* `out` was sent: t is quarantined, asked to drop n, its link dropped and its
\* loss announced.
Disconnect(n, t, m, k, out) ==
    /\ quarantined' = [quarantined EXCEPT ![n] = @ \cup {t}]
    /\ members' = [members EXCEPT ![n] = @ \ {t}]
    /\ wire' = Sends(Taken(n, m, k), n, [out EXCEPT ![t] = @ \o <<RemoveFrame(n)>>])
    /\ linked' = [linked EXCEPT ![n] = (@ \cup Targets(out)) \ {t}]
    /\ AnnounceLost(n, t)

\* A slip: a report is new whenever it arrives.
AcceptsAlways(n, f) == f.op > 0

\* Partitions.accept: whether a report is later than what n has handled of this
\* reporter and this node.
Accepts(n, f) == f.op > seen[n][<<f.from, f.lost>>]

\* Whom a report makes n drop: the node lost, or the reporter if that is n.
Drops(n, f) == IF f.lost = n THEN f.from ELSE f.lost

\* A flooded copy of a report that was handled before.
HandleLostAgain(n, m, k) ==
    /\ Arrived(n, m, k)
    /\ Frame(n, m, k).kind = "lost"
    /\ ~Accepts(n, Frame(n, m, k))
    /\ wire' = Taken(n, m, k)
    /\ lingering' = Lingers(n, m, k)
    /\ UNCHANGED <<rosterVars, known, linked, eventVars, reportVars, netVars, ended>>

\* on_lost_connection: the news is passed on, then the node reported lost is
\* dropped, or the reporter by the node it reported.
HandleLost(n, m, k) ==
    /\ Arrived(n, m, k)
    /\ Frame(n, m, k).kind = "lost"
    /\ LET f == Frame(n, m, k)
           told == members[n] \ {f.from, f.lost}
       IN  /\ Accepts(n, f)
           /\ seen' = [seen EXCEPT ![n][<<f.from, f.lost>>] = f.op]
           /\ Disconnect(n, Drops(n, f), m, k,
                         [x \in Nodes |-> IF x \in told THEN <<f>> ELSE <<>>])
    /\ lingering' = Lingers(n, m, k)
    /\ UNCHANGED <<known, nextOp, netVars, ended>>

Pending(events, m) == Len(SelectSeq(events, LAMBDA x : x = m))

\* on_remove_connection: like a report of the sender, the answer included.
HandleRemove(n, m, k) ==
    /\ Arrived(n, m, k)
    /\ Frame(n, m, k).kind = "remove"
    /\ Pending(leaving[n], Frame(n, m, k).from) < MaxPending
    /\ Pending(losses[n], Frame(n, m, k).from) < MaxPending
    /\ Disconnect(n, Frame(n, m, k).from, m, k, Nothing)
    /\ lingering' = Lingers(n, m, k)
    /\ UNCHANGED <<known, reportVars, netVars, ended>>

\* A quarantine is over.  It lasts a minute, so that it outlives every loss the
\* reporter has been told of and has not got to.
Expire(n, m) ==
    /\ m \in quarantined[n]
    /\ m \notin Range(losses[n])
    /\ quarantined' = [quarantined EXCEPT ![n] = @ \ {m}]
    /\ UNCHANGED <<members, linkVars, eventVars, reportVars, netVars, ended>>

-----------------------------------------------------------------------------
(* The network *)

PathBreaks(n, m) ==
    /\ n # m
    /\ Path(n, m)
    /\ broken' = broken \cup {{n, m}}
    /\ UNCHANGED <<rosterVars, linkVars, eventVars, reportVars, down, ended>>

Across(n, m) ==
    \/ m \in lingering[n]
    \/ \E k \in DOMAIN wire[n][m] : wire[n][m][k].up

\* A path that comes back before its connections have ended has lost nothing:
\* that is no break at all.
PathHeals(n, m) ==
    /\ {n, m} \in broken
    /\ ~Across(n, m) /\ ~Across(m, n)
    /\ broken' = broken \ {{n, m}}
    /\ UNCHANGED <<rosterVars, linkVars, eventVars, reportVars, down, ended>>

\* A node stops for good.  Nothing of it is persisted but its identity.
Crash(n) ==
    /\ n \notin down
    /\ down' = down \cup {n}
    /\ UNCHANGED <<rosterVars, linkVars, eventVars, reportVars, broken, ended>>

-----------------------------------------------------------------------------

\* The nodes of ns have all met, and all is said: where joining gets to.
Meshed(ns) ==
    LET met(n) == IF n \in ns THEN ns \ {n} ELSE {}
    IN  /\ members = [n \in Nodes |-> met(n)]
        /\ known = [n \in Nodes |-> met(n)]
        /\ linked = [n \in Nodes |-> met(n)]
        /\ wire = [n \in Nodes |-> [m \in Nodes |->
              IF m \in met(n) THEN <<[up |-> TRUE, frames |-> <<>>]>> ELSE <<>>]]

\* Nothing has happened yet, but that some nodes are not there.
Untroubled(absent) ==
    /\ quarantined = [n \in Nodes |-> {}]
    /\ lingering = [n \in Nodes |-> {}]
    /\ leaving = [n \in Nodes |-> <<>>]
    /\ losses = [n \in Nodes |-> <<>>]
    /\ nextOp = [n \in Nodes |-> 1]
    /\ seen = [n \in Nodes |-> [p \in Nodes \X Nodes |-> 0]]
    /\ broken = {}
    /\ down = absent
    /\ ended = [n \in Nodes |-> 0]

Init == Meshed({}) /\ Untroubled({})

Alive == Nodes \ down

\* What goes on by itself once begun: writers, handlers and reactors, and the
\* end of connections whose path is down.
Writer(n, m, k) ==
    /\ n \in Alive
    /\ k \in DOMAIN wire[n][m]
    /\ \/ Dial(n, m, k)
       \/ DialFails(n, m, k)
       \/ \E i \in 0..Len(wire[n][m][k].frames) : ConnectionEnds(n, m, k, i)

Handler(n, m, k) ==
    /\ n \in Alive
    /\ \/ HandleDeliver(n, m, k)
       \/ HandleAnnounce(n, m, k)
       \/ HandleLostAgain(n, m, k)
       \/ HandleLost(n, m, k)
       \/ HandleRemove(n, m, k)

Reactor(n, m) ==
    /\ n \in Alive
    /\ \/ Forget(n, m)
       \/ Report(n, m)
       \/ LingeringEnds(n, m)

Goes ==
    \/ \E n, m \in Nodes : \E k \in DOMAIN wire[n][m] : Writer(n, m, k)
    \/ \E n, m \in Nodes : \E k \in DOMAIN wire[m][n] : Handler(n, m, k)
    \/ \E n, m \in Nodes : Reactor(n, m)

\* What users, time and the network do.
Joins == \E n \in Alive, p \in Nodes, byAddr \in BOOLEAN : Join(n, p, byAddr)
Delivers == \E n \in Alive, m \in Nodes : SendDeliver(n, m)
Expires == \E n \in Alive, m \in Nodes : Expire(n, m)
Breaks == \E n, m \in Nodes : PathBreaks(n, m)
Heals == \E n, m \in Nodes : PathHeals(n, m)
Crashes == \E n \in Nodes : Crash(n)

Next == Goes \/ Joins \/ Delivers \/ Expires \/ Breaks \/ Heals \/ Crashes

\* Every task is run: the writer and the handler of the oldest stream, which
\* goes once drained, and the reactors; and the idle timeout ends what is idle.
\* Nobody has to join or to send, no path to break or to heal, no node to crash
\* and no quarantine to be over by any time.
Fairness ==
    \A n, m \in Nodes :
        /\ WF_vars(Writer(n, m, 1))
        /\ WF_vars(Handler(n, m, 1))
        /\ WF_vars(Reactor(n, m))

Spec == Init /\ [][Next]_vars /\ Fairness

-----------------------------------------------------------------------------

Frames ==
    [kind : {"announce"}, from : Nodes, nodes : SUBSET Nodes]
    \cup [kind : {"lost"}, from : Nodes, lost : Nodes, op : Nat]
    \cup [kind : {"remove"}, from : Nodes]
    \cup {DeliverFrame}

\* The variables have their types, and no node is its own member or keeps itself
\* out (Cluster.nodes "Never includes ourselves"), whom it joins and whoever
\* names it.
TypeOK ==
    /\ members \in [Nodes -> SUBSET Nodes]
    /\ quarantined \in [Nodes -> SUBSET Nodes]
    /\ known \in [Nodes -> SUBSET Nodes]
    /\ linked \in [Nodes -> SUBSET Nodes]
    /\ wire \in [Nodes -> [Nodes -> Seq([up : BOOLEAN, frames : Seq(Frames)])]]
    /\ lingering \in [Nodes -> SUBSET Nodes]
    /\ leaving \in [Nodes -> Seq(Nodes)]
    /\ losses \in [Nodes -> Seq(Nodes)]
    /\ nextOp \in [Nodes -> Nat]
    /\ seen \in [Nodes -> [Nodes \X Nodes -> Nat]]
    /\ broken \in SUBSET SUBSET Nodes
    /\ down \subseteq Nodes
    /\ ended \in [Nodes -> Nat]
    /\ \A n \in Nodes : n \notin members[n] \cup quarantined[n]

InFlight(kind) ==
    \E n, m \in Nodes : \E k \in DOMAIN wire[n][m] :
        \E f \in Range(wire[n][m][k].frames) : f.kind = kind

\* A node reports no more losses than connections of its own have ended: what it
\* drops on purpose, after a report or a request and however the announced loss,
\* the rejoining of that node and the end of the quarantine are interleaved with
\* it, never comes out of the loss reporter as a fresh report.
NoEcho == \A n \in Nodes : nextOp[n] - 1 <= ended[n]

\* The flood of a report ends: on_lost_connection passes a report on once, in
\* whatever order and over however many paths its copies arrive.
FloodEnds == <>[]~InFlight("lost")

\* The cascade of deliberate disconnects ends too, as src/partitions.rs says of
\* the far side's taking down of the link without reporting it.
CascadeSettles == <>[]~InFlight("remove")

\* No overlapping partitions: who is a member of a member is a member, members
\* are so mutually, and they are there.
FullyConnected ==
    \A a \in Alive : \A b \in members[a] :
        /\ b \in Alive /\ a \in members[b]
        /\ members[b] \ {a} \subseteq members[a]
=============================================================================
