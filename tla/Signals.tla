------------------------------ MODULE Signals ------------------------------
(***************************************************************************)
(* Links, monitors and exit signals between particles of different nodes:  *)
(* the remote branches of the host calls (src/runtime/invoke.rs), the      *)
(* control frames on the ordered peer links and their handlers             *)
(* (src/protocol.rs), the halves each registry keeps (src/registry.rs),    *)
(* and the two tasks of src/signals.rs: the forwarder, which tells other   *)
(* nodes of a death, and the node-loss reactor, which fires whatever       *)
(* crosses to a node that was lost.                                        *)
(*                                                                         *)
(* Neither node can write the other's registry.  A relationship is two     *)
(* halves: the caller records its own at once, and the other when the      *)
(* frame is handled.  A target given by name is only known to its own      *)
(* node, so the caller records nothing for it.                             *)
(*                                                                         *)
(* Left out: relationships within a node, the stages of an exit and the    *)
(* two lock sections of apply_inherited_exit (Registry); membership, which *)
(* frames are not held to (Cluster).  Here an exit is one step, and so is  *)
(* the handling of a frame.  QUIC is external, as in Cluster: in order and *)
(* without loss until the connection ends, and a path that stays down ends *)
(* every connection across it with what was in flight.                     *)
(***************************************************************************)
EXTENDS Naturals, Sequences, SequencesExt, FiniteSets

CONSTANTS
    Nodes,
    Pids,
    Home,       \* the node of each pid
    Traps,      \* the particles that have called trap-exit
    Given,      \* the reasons guests give to exit and to exit-signal
    MaxRef      \* bound on the refs one particle makes

ExitReasons == {"normal", "kill", "killed", "shutdown", "exception", "noproc", "noconnection"}

ASSUME SignalsAssumption ==
    /\ "none" \notin Nodes
    /\ IsFiniteSet(Pids)
    /\ Home \in [Pids -> Nodes]
    /\ Traps \subseteq Pids
    /\ Given \subseteq ExitReasons
    /\ MaxRef \in Nat

Refs == 1..MaxRef
Reasons == ExitReasons \cup {"none"}
IsAbnormal(r) == r # "normal"

\* One half of a relationship: who is told when `about` is gone.  Links have no
\* ref.
LinkOf(p, q) == [who |-> p, about |-> q, ref |-> 0]
MonitorOf(w, t, r) == [who |-> w, about |-> t, ref |-> r]
Relations == [who : Pids, about : Pids, ref : 0..MaxRef]

\* What reaches a mailbox.  `sent` says that it was pushed for an exit-signal,
\* which the Exit itself does not say (history).
Signal(p, r, why) == [from |-> p, ref |-> r, reason |-> why, sent |-> FALSE]
Sent(p, why) == [Signal(p, 0, why) EXCEPT !.sent = TRUE]
Mail == [from : Pids, ref : 0..MaxRef, reason : Reasons, sent : BOOLEAN]

\* The control frames; `named` says that `to` is addressed by its name.
LinkFrame(p, q, named) == [kind |-> "link", from |-> p, to |-> q, ref |-> 0, named |-> named, reason |-> "none"]
UnlinkFrame(p, q, named) == [LinkFrame(p, q, named) EXCEPT !.kind = "unlink"]
MonitorFrame(w, t, r, named) == [LinkFrame(w, t, named) EXCEPT !.kind = "monitor", !.ref = r]
SignalFrame(p, q, why, named) == [LinkFrame(p, q, named) EXCEPT !.kind = "signal", !.reason = why]
ExitFrame(p, q, why) == [LinkFrame(p, q, FALSE) EXCEPT !.kind = "exit", !.reason = why]
DownFrame(p, w, r, why) == [LinkFrame(p, w, FALSE) EXCEPT !.kind = "down", !.ref = r, !.reason = why]
Frames == [kind : {"link", "unlink", "monitor", "signal", "exit", "down"}, from : Pids,
           to : Pids, ref : 0..MaxRef, named : BOOLEAN, reason : Reasons]

\* An exit-signal asked for.
Asked(p, q, why) == [from |-> p, to |-> q, reason |-> why]

\* ParticleDeath, as it is published.
Deaths == [pid : Pids, reason : Reasons, links : SUBSET Pids, watchers : SUBSET Relations]

VARIABLES
    alive,      \* pids in their registry's particle_states
    running,    \* pids whose guest has not returned
    reason,     \* what a particle died of
    links,      \* ParticleState.links, the remote ones
    monitors,   \* ParticleState.monitors: halves of the watchers
    monitoredBy,\* ParticleState.monitored_by: halves of the targets
    nextRef,    \* HostState.next_ref
    deaths,     \* per node: published deaths the forwarder has not got to
    conn,       \* per node: the nodes its writer is connected to
    wire,       \* per pair of nodes: frames queued or in flight
    lost,       \* per node: announced losses the reactor has not got to
    firing,     \* per node: what the reactor is firing
    inbox,      \* the signals pushed to each mailbox
    down,       \* nodes that have crashed
    broken,     \* paths that are down, as pairs
    faultless,  \* nothing has crashed or broken so far (history)
    loose,      \* pairs whose link calls crossed or went by name (history)
    owed,       \* relations whose other end is gone since they held (history)
    called,     \* the exit-signals asked for (history)
    losses      \* pairs of nodes: the first has announced the second's loss (history)

relVars == <<links, monitors, monitoredBy, nextRef>>
lifeVars == <<alive, running, reason>>
reactorVars == <<lost, firing>>
faultVars == <<down, broken, faultless>>
histVars == <<called, losses>>
vars == <<lifeVars, relVars, deaths, conn, wire, reactorVars, inbox, faultVars, loose, owed, histVars>>

NotFiring == [node |-> "none", todo |-> {}]

Up(p) == p \in alive /\ Home[p] \notin down
Path(n, m) == {n, m} \notin broken /\ m \notin down
On(n) == {p \in Pids : Home[p] = n}

\* A mesh of nodes that have talked to each other.
Init ==
    /\ alive = Pids
    /\ running = Pids
    /\ reason = [p \in Pids |-> "none"]
    /\ links = [p \in Pids |-> {}]
    /\ monitors = {}
    /\ monitoredBy = {}
    /\ nextRef = [p \in Pids |-> 1]
    /\ deaths = [n \in Nodes |-> <<>>]
    /\ conn = [n \in Nodes |-> Nodes \ {n}]
    /\ wire = [n \in Nodes |-> [m \in Nodes |-> <<>>]]
    /\ lost = [n \in Nodes |-> <<>>]
    /\ firing = [n \in Nodes |-> NotFiring]
    /\ inbox = [p \in Pids |-> {}]
    /\ down = {}
    /\ broken = {}
    /\ faultless = TRUE
    /\ loose = {}
    /\ owed = {}
    /\ called = {}
    /\ losses = {}

-----------------------------------------------------------------------------
(* The remote branches of the host calls.  A guest runs on when its particle *)
(* has died, until it notices.                                               *)

CanCall(p) == p \in running /\ Home[p] \notin down

Send(w, n, f) == [w EXCEPT ![n][Home[f.to]] = Append(@, f)]

InFlight(kind, p, q) ==
    \E f \in Range(wire[Home[p]][Home[q]]) : f.kind = kind /\ f.from = p /\ f.to = q

\* The call of p meets the opposite call of q on its way, or went by name.
Loosens(p, q, opposite, named) == named \/ InFlight(opposite, q, p)

Link(p, q, named) ==
    /\ CanCall(p)
    /\ Home[p] # Home[q]
    /\ links' = [links EXCEPT ![p] = IF named \/ p \notin alive THEN @ ELSE @ \cup {q}]
    /\ wire' = Send(wire, Home[p], LinkFrame(p, q, named))
    /\ loose' = IF Loosens(p, q, "unlink", named) THEN loose \cup {{p, q}} ELSE loose
    /\ UNCHANGED <<lifeVars, monitors, monitoredBy, nextRef, deaths, conn, reactorVars,
                   inbox, faultVars, owed, histVars>>

Unlink(p, q, named) ==
    /\ CanCall(p)
    /\ Home[p] # Home[q]
    /\ links' = [links EXCEPT ![p] = IF named \/ p \notin alive THEN @ ELSE @ \ {q}]
    /\ wire' = Send(wire, Home[p], UnlinkFrame(p, q, named))
    /\ loose' = IF Loosens(p, q, "link", named) THEN loose \cup {{p, q}} ELSE loose
    /\ owed' = owed \ {LinkOf(p, q)}
    /\ UNCHANGED <<lifeVars, monitors, monitoredBy, nextRef, deaths, conn, reactorVars,
                   inbox, faultVars, histVars>>

\* A slip: the watcher's half has lost its ref.
MonitorNoRef(p, q, named) ==
    /\ CanCall(p)
    /\ Home[p] # Home[q]
    /\ nextRef[p] \in Refs
    /\ nextRef' = [nextRef EXCEPT ![p] = @ + 1]
    /\ monitors' = monitors \cup {[who |-> p, about |-> q]}
    /\ wire' = Send(wire, Home[p], MonitorFrame(p, q, nextRef[p], named))
    /\ UNCHANGED <<lifeVars, links, monitoredBy, deaths, conn, reactorVars, inbox,
                   faultVars, loose, owed, histVars>>

Monitor(p, q, named) ==
    /\ CanCall(p)
    /\ Home[p] # Home[q]
    /\ nextRef[p] \in Refs
    /\ nextRef' = [nextRef EXCEPT ![p] = @ + 1]
    /\ monitors' = IF named \/ p \notin alive THEN monitors
                   ELSE monitors \cup {MonitorOf(p, q, nextRef[p])}
    /\ wire' = Send(wire, Home[p], MonitorFrame(p, q, nextRef[p], named))
    /\ UNCHANGED <<lifeVars, links, monitoredBy, deaths, conn, reactorVars, inbox,
                   faultVars, loose, owed, histVars>>

\* demonitor drops the half of this node; no frame is sent.
Demonitor(p, r) ==
    /\ CanCall(p)
    /\ p \in alive
    /\ monitors' = {x \in monitors : ~(x.who = p /\ x.ref = r)}
    /\ owed' = {x \in owed : ~(x.who = p /\ x.ref = r)}
    /\ UNCHANGED <<lifeVars, links, monitoredBy, nextRef, deaths, conn, wire, reactorVars,
                   inbox, faultVars, loose, histVars>>

\* exit-signal, with any reason.
ExitSignal(p, q, why, named) ==
    /\ CanCall(p)
    /\ Home[p] # Home[q]
    /\ wire' = Send(wire, Home[p], SignalFrame(p, q, why, named))
    /\ called' = called \cup {Asked(p, q, why)}
    /\ UNCHANGED <<lifeVars, relVars, deaths, conn, reactorVars, inbox, faultVars, loose,
                   owed, losses>>

-----------------------------------------------------------------------------
(* Deaths *)

\* A half that is told, by its own node if need be: it is recorded there, and
\* the node is connected to the other's and so will notice its loss.
Holds(x) ==
    /\ Up(x.who)
    /\ IF x.ref = 0 THEN x.about \in links[x.who] ELSE x \in monitors

\* It is not about to be forgotten, either, by a reactor that has collected what
\* an earlier loss of the other node fires.
Held(x) ==
    /\ Holds(x)
    /\ Home[x.about] \in conn[Home[x.who]]
    /\ firing[Home[x.who]].node # Home[x.about]

\* What somebody is to be told when p dies of r: of an abnormal death the links
\* recorded at both ends, of any death the monitors that the target knows of.  A
\* monitor by name has no half at the watcher and stands no fault.
OwedAtDeath(p, r) ==
    {x \in {LinkOf(q, p) : q \in links[p]} : Held(x) /\ IsAbnormal(r)}
        \cup {x \in monitoredBy : x.about = p /\ Up(x.who) /\ (Held(x) \/ faultless)}

\* A slip: what is published of a particle that was killed has no links.
RemoteLinksOfUnkilled(p, r) == IF r = "killed" THEN {} ELSE links[p]

\* remote_links of a death.
RemoteLinks(p, r) == links[p]

\* exit_particle, here with its remote relationships: they are taken out with
\* the state and published with the death.  No effect on one that is gone.
Dies(p, r) ==
    IF p \in alive
    THEN /\ alive' = alive \ {p}
         /\ reason' = [reason EXCEPT ![p] = r]
         /\ deaths' = [deaths EXCEPT ![Home[p]] = Append(@,
               [pid |-> p, reason |-> r, links |-> RemoteLinks(p, r),
                watchers |-> {x \in monitoredBy : x.about = p}])]
         /\ links' = [links EXCEPT ![p] = {}]
         /\ monitors' = {x \in monitors : x.who # p}
         /\ monitoredBy' = {x \in monitoredBy : x.about # p}
         /\ owed' = owed \cup OwedAtDeath(p, r)
    ELSE UNCHANGED <<alive, reason, deaths, links, monitors, monitoredBy, owed>>

\* apply_inherited_exit, of what would be the signal x to a trapping particle.
Inherits(to, x) ==
    \/ /\ to \in Traps
       /\ inbox' = IF to \in alive THEN [inbox EXCEPT ![to] = @ \cup {x}] ELSE inbox
       /\ UNCHANGED <<alive, reason, deaths, links, monitors, monitoredBy, owed>>
    \/ /\ to \notin Traps
       /\ IF IsAbnormal(x.reason) THEN Dies(to, x.reason)
          ELSE UNCHANGED <<alive, reason, deaths, links, monitors, monitoredBy, owed>>
       /\ UNCHANGED inbox

\* The guest returns or fails.
GuestReturn(p, r) ==
    /\ CanCall(p)
    /\ running' = running \ {p}
    /\ Dies(p, r)
    /\ UNCHANGED <<nextRef, conn, wire, reactorVars, inbox, faultVars, loose, histVars>>

\* Frames appended to the queues of their nodes, in some order.
SendAll(w, n, fs) ==
    [w EXCEPT ![n] = [m \in Nodes |-> w[n][m] \o SetToSeq({f \in fs : Home[f.to] = m})]]

\* A slip: only the links are told.
TellLinksOnly(w, n, d) == SendAll(w, n, {ExitFrame(d.pid, q, d.reason) : q \in d.links})

\* A slip: who was killed is reported as one that failed.
TellKilledAsException(w, n, d) ==
    LET why == IF d.reason = "killed" THEN "exception" ELSE d.reason
    IN  SendAll(SendAll(w, n, {ExitFrame(d.pid, q, why) : q \in d.links}),
                n, {DownFrame(d.pid, x.who, x.ref, why) : x \in d.watchers})

\* The frames of one death: an Exit to every link, then a Down to every watcher.
Tell(w, n, d) ==
    SendAll(SendAll(w, n, {ExitFrame(d.pid, q, d.reason) : q \in d.links}),
            n, {DownFrame(d.pid, x.who, x.ref, d.reason) : x \in d.watchers})

\* The forwarder takes the next death; queueing its frames never waits.
Forward(n) ==
    /\ n \notin down
    /\ deaths[n] # <<>>
    /\ wire' = Tell(wire, n, Head(deaths[n]))
    /\ deaths' = [deaths EXCEPT ![n] = Tail(@)]
    /\ UNCHANGED <<lifeVars, relVars, conn, reactorVars, inbox, faultVars, loose, owed,
                   histVars>>

-----------------------------------------------------------------------------
(* Frames arriving at node m from node n *)

Resolves(f) == f.named => f.to \in alive

\* Our half of a link, if the particle is there.
OnLink(f) ==
    /\ f.kind = "link"
    /\ links' = IF f.to \in alive THEN [links EXCEPT ![f.to] = @ \cup {f.from}] ELSE links
    /\ UNCHANGED <<monitoredBy, alive, reason, deaths, monitors, inbox, owed>>

\* A slip: the half of the particle that was unlinked stays.
OnUnlinkKeeps(f) ==
    /\ f.kind = "unlink"
    /\ UNCHANGED <<links, monitoredBy, alive, reason, deaths, monitors, inbox, owed>>

OnUnlink(f) ==
    /\ f.kind = "unlink"
    /\ links' = [links EXCEPT ![f.to] = @ \ {f.from}]
    /\ owed' = owed \ {LinkOf(f.to, f.from)}
    /\ UNCHANGED <<monitoredBy, alive, reason, deaths, monitors, inbox>>

OnMonitor(f) ==
    /\ f.kind = "monitor"
    /\ monitoredBy' = IF f.to \in alive THEN monitoredBy \cup {MonitorOf(f.from, f.to, f.ref)}
                      ELSE monitoredBy
    /\ UNCHANGED <<links, alive, reason, deaths, monitors, inbox, owed>>

\* An inherited exit, whether or not the link is still there.
OnExit(f) ==
    /\ f.kind = "exit"
    /\ Inherits(f.to, Signal(f.from, 0, f.reason))

\* A slip: kill is inherited like any other reason, and so can be trapped.
OnSignalTrapped(f) ==
    /\ f.kind = "signal"
    /\ Inherits(f.to, Sent(f.from, f.reason))

\* apply_directed_exit: kill cannot be trapped and kills with killed; any other
\* reason is inherited, its sender alive or not.
OnSignal(f) ==
    /\ f.kind = "signal"
    /\ \/ f.reason = "kill" /\ Dies(f.to, "killed") /\ UNCHANGED inbox
       \/ f.reason # "kill" /\ Inherits(f.to, Sent(f.from, f.reason))

OnDown(f) ==
    /\ f.kind = "down"
    /\ inbox' = IF f.to \in alive
                THEN [inbox EXCEPT ![f.to] = @ \cup {Signal(f.from, f.ref, f.reason)}] ELSE inbox
    /\ UNCHANGED <<links, monitoredBy, alive, reason, deaths, monitors, owed>>

\* The answer to a link or a monitor of a name nobody holds.
Answer(f) ==
    CASE f.kind = "link" /\ ~Resolves(f) -> {ExitFrame(f.from, f.from, "noproc")}
      [] f.kind = "monitor" /\ ~Resolves(f) -> {DownFrame(f.from, f.from, f.ref, "noproc")}
      [] OTHER -> {}

\* The peer link's reader takes the next frame.  What a crashed node has sent
\* and QUIC has delivered is still read.
Receive(n, m) ==
    /\ m \notin down
    /\ n \in down \/ (m \in conn[n] /\ Path(n, m))
    /\ wire[n][m] # <<>>
    /\ LET f == Head(wire[n][m])
       IN  /\ \/ OnLink(f) \/ OnUnlink(f) \/ OnMonitor(f)
              \/ OnExit(f) \/ OnSignal(f) \/ OnDown(f)
           /\ wire' = SendAll([wire EXCEPT ![n][m] = Tail(@)], m, Answer(f))
    /\ UNCHANGED <<running, nextRef, conn, reactorVars, faultVars, loose, histVars>>

-----------------------------------------------------------------------------
(* Connections and faults *)

\* The writer connects when it has a frame.
Dial(n, m) ==
    /\ n \notin down
    /\ m \notin conn[n] /\ wire[n][m] # <<>>
    /\ Path(n, m)
    /\ conn' = [conn EXCEPT ![n] = @ \cup {m}]
    /\ UNCHANGED <<lifeVars, relVars, deaths, wire, reactorVars, inbox, faultVars, loose,
                   owed, histVars>>

\* A slip: the frame is kept for another try.
DialFailsRetries(n, m) ==
    /\ n \notin down
    /\ m \notin conn[n] /\ wire[n][m] # <<>>
    /\ ~Path(n, m)
    /\ UNCHANGED vars

\* It cannot connect: the frame is dropped, and no loss is announced.
DialFails(n, m) ==
    /\ n \notin down
    /\ m \notin conn[n] /\ wire[n][m] # <<>>
    /\ ~Path(n, m)
    /\ wire' = [wire EXCEPT ![n][m] = Tail(@)]
    /\ UNCHANGED <<lifeVars, relVars, deaths, conn, reactorVars, inbox, faultVars, loose,
                   owed, histVars>>

\* The connection ends, with what was in flight: the first k frames.
ConnEnds(n, m, k) ==
    /\ n \notin down
    /\ m \in conn[n]
    /\ ~Path(n, m)
    /\ k \in 0..Len(wire[n][m])
    /\ conn' = [conn EXCEPT ![n] = @ \ {m}]
    /\ wire' = [wire EXCEPT ![n][m] = SubSeq(@, k + 1, Len(@))]
    /\ lost' = [lost EXCEPT ![n] = Append(@, m)]
    /\ losses' = losses \cup {<<n, m>>}
    /\ UNCHANGED <<lifeVars, relVars, deaths, firing, inbox, faultVars, loose, owed,
                   called>>

\* Those who were to be told by the other side alone may never be; whoever has
\* its own half and a connection will be.
OwedAtFault(gone) ==
    {x \in Relations : Held(x) /\ (x \in owed \/ {Home[x.who], Home[x.about]} \in gone)}

\* A node crashes with all its particles; some prefix of what it has sent has
\* been delivered to the other nodes.
Crash(m) ==
    /\ m \notin down
    /\ down' = down \cup {m}
    /\ faultless' = FALSE
    /\ \E k \in [Nodes -> UNION {0..Len(wire[m][n]) : n \in Nodes}] :
          /\ \A n \in Nodes : k[n] <= Len(wire[m][n])
          /\ wire' = [wire EXCEPT ![m] = [n \in Nodes |-> SubSeq(wire[m][n], 1, k[n])]]
    /\ owed' = {x \in OwedAtFault({{m, n} : n \in Nodes \ {m}}) : Home[x.who] # m}
    /\ UNCHANGED <<lifeVars, relVars, deaths, conn, reactorVars, inbox, broken, loose,
                   histVars>>

Break(n, m) ==
    /\ n # m /\ {n, m} \notin broken
    /\ faultless' = FALSE
    /\ broken' = broken \cup {{n, m}}
    /\ owed' = OwedAtFault({{n, m}})
    /\ UNCHANGED <<lifeVars, relVars, deaths, conn, wire, reactorVars, inbox, down,
                   loose, histVars>>

\* It comes back once the connections across it have ended.
Heal(n, m) ==
    /\ {n, m} \in broken
    /\ m \notin conn[n] /\ n \notin conn[m]
    /\ broken' = broken \ {{n, m}}
    /\ UNCHANGED <<lifeVars, relVars, deaths, conn, wire, reactorVars, inbox, down,
                   faultless, loose, owed, histVars>>

-----------------------------------------------------------------------------
(* The node-loss reactor: three lock sections, and the firing in between *)

\* relationships_with_node.
Crossing(n, m) == {x \in Relations : Holds(x) /\ x.who \in On(n) /\ x.about \in On(m)}

\* The relationships are collected; with none, nothing is forgotten either.
LossSeen(n) ==
    /\ n \notin down
    /\ lost[n] # <<>> /\ firing[n] = NotFiring
    /\ lost' = [lost EXCEPT ![n] = Tail(@)]
    /\ LET todo == Crossing(n, Head(lost[n]))
       IN  firing' = IF todo = {} THEN firing
                     ELSE [firing EXCEPT ![n] = [node |-> Head(lost[n]), todo |-> todo]]
    /\ UNCHANGED <<lifeVars, relVars, deaths, conn, wire, inbox, faultVars, loose, owed,
                   histVars>>

\* Each link fires as an inherited exit.
FireLink(n, x) ==
    /\ n \notin down
    /\ x \in firing[n].todo /\ x.ref = 0
    /\ firing' = [firing EXCEPT ![n].todo = @ \ {x}]
    /\ Inherits(x.who, Signal(x.about, 0, "noconnection"))
    /\ UNCHANGED <<running, nextRef, conn, wire, lost, faultVars, loose, histVars>>

\* Then each monitor as a Down.
FireMonitor(n, x) ==
    /\ n \notin down
    /\ x \in firing[n].todo /\ \A y \in firing[n].todo : y.ref # 0
    /\ firing' = [firing EXCEPT ![n].todo = @ \ {x}]
    /\ inbox' = IF x.who \in alive
                THEN [inbox EXCEPT ![x.who] = @ \cup {Signal(x.about, x.ref, "noconnection")}]
                ELSE inbox
    /\ UNCHANGED <<lifeVars, relVars, deaths, conn, wire, lost, faultVars, loose, owed,
                   histVars>>

\* forget_node, of whatever is there by now.
Forget(n) ==
    /\ n \notin down
    /\ firing[n] # NotFiring /\ firing[n].todo = {}
    /\ LET m == firing[n].node
       IN  /\ links' = [p \in Pids |-> IF p \in On(n) THEN links[p] \ On(m) ELSE links[p]]
           /\ monitors' = {x \in monitors : ~(x.who \in On(n) /\ x.about \in On(m))}
           /\ monitoredBy' = {x \in monitoredBy : ~(x.about \in On(n) /\ x.who \in On(m))}
    /\ firing' = [firing EXCEPT ![n] = NotFiring]
    /\ UNCHANGED <<lifeVars, nextRef, deaths, conn, wire, lost, inbox, faultVars, loose,
                   owed, histVars>>

-----------------------------------------------------------------------------

Guest(p) ==
    \/ \E q \in Pids, named \in BOOLEAN : Link(p, q, named)
    \/ \E q \in Pids, named \in BOOLEAN : Unlink(p, q, named)
    \/ \E q \in Pids, named \in BOOLEAN : Monitor(p, q, named)
    \/ \E q \in Pids, why \in Given, named \in BOOLEAN : ExitSignal(p, q, why, named)
    \/ \E r \in Refs : Demonitor(p, r)

React(n) ==
    \/ LossSeen(n)
    \/ \E x \in firing[n].todo : FireLink(n, x)
    \/ \E x \in firing[n].todo : FireMonitor(n, x)
    \/ Forget(n)

Transport(n, m) ==
    \/ Receive(n, m)
    \/ Dial(n, m)
    \/ DialFails(n, m)
    \/ \E k \in 0..Len(wire[n][m]) : ConnEnds(n, m, k)

Fault ==
    \/ \E m \in Nodes : Crash(m)
    \/ \E n, m \in Nodes : Break(n, m)

Next ==
    \/ \E p \in Pids : Guest(p)
    \/ \E p \in Pids, why \in Given : GuestReturn(p, why)
    \/ \E n \in Nodes : Forward(n)
    \/ \E n \in Nodes : React(n)
    \/ \E n \in Nodes : \E m \in Nodes \ {n} : Transport(n, m)
    \/ Fault
    \/ \E n, m \in Nodes : Heal(n, m)

\* The forwarder and the reactor are tasks that only wait for their channel, a
\* writer always tries its next frame, and QUIC's idle timeout ends what cannot
\* be reached.  No guest has to call or return, and no path has to come back.
Fairness ==
    /\ \A n \in Nodes : WF_vars(Forward(n)) /\ WF_vars(React(n))
    /\ \A n \in Nodes : \A m \in Nodes \ {n} : WF_vars(Transport(n, m))

Spec == Init /\ [][Next]_vars /\ Fairness

-----------------------------------------------------------------------------

\* The variables have their types: a half of a monitor is its watcher, its target
\* and its ref on either node, and what is on the wire is a frame.
TypeOK ==
    /\ alive \subseteq Pids
    /\ running \subseteq Pids
    /\ reason \in [Pids -> Reasons]
    /\ links \in [Pids -> SUBSET Pids]
    /\ monitors \subseteq Relations
    /\ monitoredBy \subseteq Relations
    /\ nextRef \in [Pids -> Nat]
    /\ deaths \in [Nodes -> Seq(Deaths)]
    /\ conn \in [Nodes -> SUBSET Nodes]
    /\ wire \in [Nodes -> [Nodes -> Seq(Frames)]]
    /\ lost \in [Nodes -> Seq(Nodes)]
    /\ firing \in [Nodes -> [node : Nodes \cup {"none"}, todo : SUBSET Relations]]
    /\ inbox \in [Pids -> SUBSET Mail]
    /\ down \subseteq Nodes
    /\ broken \subseteq SUBSET Nodes
    /\ faultless \in BOOLEAN
    /\ loose \subseteq SUBSET Pids
    /\ owed \subseteq Relations
    /\ called \subseteq [from : Pids, to : Pids, reason : Given]
    /\ losses \subseteq Nodes \X Nodes

\* Nothing is on its way: every frame handled, every death forwarded, every
\* connection across a dead path ended, and every loss reacted to.
Quiet ==
    /\ \A n, m \in Nodes : m \notin down => wire[n][m] = <<>>
    /\ \A n \in Nodes \ down :
          /\ deaths[n] = <<>> /\ lost[n] = <<>> /\ firing[n] = NotFiring
          /\ \A m \in conn[n] : Path(n, m)

Told(x) ==
    \/ ~Up(x.who)
    \/ \E s \in inbox[x.who] : s.from = x.about /\ s.ref = x.ref /\ ~s.sent

\* A link that held when its other end died abnormally, or went with its node or
\* path, has fired once all is quiet: its holder is dead too, or has the Exit,
\* even if the frame that told it was lost on the way and the loss had to
\* (signals.rs 87-91), and through a chain of nodes.
LinksFire == Quiet => \A x \in owed : x.ref = 0 => Told(x)

\* The same of monitors and any death: a Down with the watcher's ref has come,
\* from the forwarder or from the loss reactor.
MonitorsFire == Quiet => \A x \in owed : x.ref # 0 => Told(x)

\* Across nodes, too, a link is one relationship: when nothing has failed and all
\* is quiet, live particles hold both halves or neither, however their calls
\* and frames interleave, but for pairs one of whom linked while the other
\* unlinked, or that were linked or unlinked by name (invoke.rs 508 and 540).
LinksSettle ==
    Quiet /\ faultless =>
        \A p, q \in alive : q \in links[p] /\ {p, q} \notin loose => p \in links[q]

\* Why p may have the signal x: its sender has asked for just that, and not for
\* a kill; or has died, of that reason; or its node was lost to p's; or x answers
\* a call for a name nobody held.
HasCause(p, x) ==
    IF x.sent
    THEN x.reason # "kill" /\ Asked(x.from, p, x.reason) \in called
    ELSE \/ x.from \notin alive /\ x.reason = reason[x.from]
         \/ x.reason = "noconnection" /\ <<Home[p], Home[x.from]>> \in losses
         \/ x.reason = "noproc" /\ x.from = p

\* A signal tells the truth: the Exit of an exit-signal is one its sender asked
\* for at this particle, with this reason, and never a kill, which cannot be
\* trapped (registry.rs 305-314).  Every other Exit and every Down blames nobody
\* for a death it did not die or for the loss of a node that was not lost, however
\* late the frame, the forwarder or the reactor comes.
SignalsAreTrue == \A p \in Pids : \A x \in inbox[p] : HasCause(p, x)

\* Signalling comes to rest: no exit is answered by another for ever, no frame
\* for a node that is gone keeps its writer, and no loss stays unhandled.
ComesToRest == []<>Quiet
=============================================================================
