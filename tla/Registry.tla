------------------------------ MODULE Registry ------------------------------
(***************************************************************************)
(* One node's particle registry (src/registry.rs) under the host calls     *)
(* that drive it (src/runtime/invoke.rs): spawning, names, links,          *)
(* monitors, exit signals, and exit_particle, the one way a particle dies. *)
(*                                                                         *)
(* Every lock is a tokio RwLock taken for a few lines, so a call is cut    *)
(* where a lock is released and other tasks may run: spawn between         *)
(* inserting the particle and inserting its name, a directed exit between  *)
(* reading trap_exit and acting on it, and exit_particle between taking    *)
(* the particle out, dropping its names, publishing its death, sweeping    *)
(* its links and monitors, and each delivery and cascaded exit after that. *)
(*                                                                         *)
(* A task is a particle's own guest or one of the node's (Outside: peer    *)
(* link handlers, client streams, the runtime).  A guest goes on running   *)
(* after its particle has died; it learns of it from recv at the latest.   *)
(*                                                                         *)
(* Left out: component templates and policies, the listing in `particles`  *)
(* (inserted and removed with the state, read only to list), the mailbox's *)
(* own queue (Mailbox) and particles on other nodes.                       *)
(***************************************************************************)
EXTENDS Naturals, FiniteSets

CONSTANTS
    Pids,       \* the particles of a behaviour: a pid is handed out once
    NoPid,      \* no particle
    MaxRef,     \* bound on the refs one particle makes
    Names,      \* names a particle can be registered under
    NoName,     \* an unnamed spawn
    Outside,    \* tasks of the node itself
    ExitReasons \* the reasons guests and signals give

ASSUME RegistryAssumption ==
    /\ NoPid \notin Pids
    /\ MaxRef \in Nat
    /\ NoName \notin Names
    /\ Outside \cap Pids = {}
    /\ ExitReasons \subseteq {"normal", "kill", "killed", "shutdown", "exception"}

Refs == 1..MaxRef
Tasks == Pids \cup Outside

Reasons == {"normal", "kill", "killed", "shutdown", "exception", "noproc"}
IsAbnormal(r) == r # "normal"

\* "up" is in particle_states; the stages after it are those of exit_particle,
\* named for what is to be done next; a spawn that loses its name is undone.
Exiting == {"unname", "publish", "sweep", "deliver"}
Stages == {"unborn", "up", "done", "undone"} \cup Exiting

Exit(from, r) == [kind |-> "exit", from |-> from, ref |-> 0, reason |-> r]
Down(from, ref, r) == [kind |-> "down", from |-> from, ref |-> ref, reason |-> r]
Signals == [kind : {"exit", "down"}, from : Pids \cup {NoPid}, ref : Nat, reason : Reasons]

\* What a task is in the middle of.
Idle == [op |-> "idle", pid |-> NoPid, name |-> NoName, link |-> FALSE, reason |-> "normal"]
Ops == {"spawn_name", "spawn_link", "spawn_start", "signal_deliver", "signal_exit", "await"}
Calls == {Idle} \cup [op : Ops, pid : Pids, name : Names \cup {NoName},
                      link : BOOLEAN, reason : Reasons]

VARIABLES
    stage,      \* where each pid is in its life
    links,      \* ParticleState.links; once exiting, what exit_particle took out
    monitors,   \* ParticleState.monitors, as pairs <<ref, target>>
    monitoredBy,\* ParticleState.monitored_by, as pairs <<watcher, ref>>
    trapExit,   \* ParticleState.trap_exit
    nextRef,    \* HostState.next_ref
    names,      \* the name table
    reason,     \* what an exiting or dead particle died of
    exitTo,     \* exit_particle's exit_deliveries, by exiting pid
    downTo,     \* its down_deliveries
    killing,    \* its cascade_kills
    child,      \* the cascaded exit it is running, if any
    deaths,     \* how often each death was published
    inbox,      \* the signals pushed to each mailbox
    running,    \* particles whose guest is running
    call        \* what each task is in the middle of

exitVars == <<reason, exitTo, downTo, killing, child>>
relVars == <<links, monitors, monitoredBy, trapExit, nextRef>>
vars == <<stage, relVars, names, exitVars, deaths, inbox, running, call>>

Live(p) == stage[p] = "up"
\* Taken out, its relationships not swept yet.
Unswept(p) == stage[p] \in {"unname", "publish", "sweep"}
Swept(p) == stage[p] \in {"deliver", "done"}

CanCall(m) == call[m] = Idle /\ (m \in Outside \/ m \in running)
Busy(m, op, p, r) == [call EXCEPT ![m] = [Idle EXCEPT !.op = op, !.pid = p, !.reason = r]]
Return(m) == [call EXCEPT ![m] = Idle]

Init ==
    /\ stage = [p \in Pids |-> "unborn"]
    /\ links = [p \in Pids |-> {}]
    /\ monitors = [p \in Pids |-> {}]
    /\ monitoredBy = [p \in Pids |-> {}]
    /\ trapExit = [p \in Pids |-> FALSE]
    /\ nextRef = [p \in Pids |-> 1]
    /\ names = [n \in Names |-> NoPid]
    /\ reason = [p \in Pids |-> "normal"]
    /\ exitTo = [p \in Pids |-> {}]
    /\ downTo = [p \in Pids |-> {}]
    /\ killing = [p \in Pids |-> {}]
    /\ child = [p \in Pids |-> NoPid]
    /\ deaths = [p \in Pids |-> 0]
    /\ inbox = [p \in Pids |-> {}]
    /\ running = {}
    /\ call = [t \in Tasks |-> Idle]

-----------------------------------------------------------------------------
(* spawn, spawn_link, handle_spawn, local_spawn *)

\* A name that is taken is refused at once; otherwise the generator hands out a
\* pid never used before and the particle is inserted.  Only guests can ask for
\* a link.
Spawn(m, p, n, lk) ==
    /\ CanCall(m)
    /\ n # NoName => names[n] = NoPid
    /\ lk => m \in Pids
    /\ stage[p] = "unborn"
    /\ stage' = [stage EXCEPT ![p] = "up"]
    /\ call' = [call EXCEPT ![m] = [Idle EXCEPT
          !.op = IF n # NoName THEN "spawn_name" ELSE IF lk THEN "spawn_link" ELSE "spawn_start",
          !.pid = p, !.name = n, !.link = lk]]
    /\ UNCHANGED <<relVars, names, exitVars, deaths, inbox, running>>

\* The name is looked at again under the write lock and inserted, whether or
\* not the particle is still there.
SpawnName(m) ==
    /\ call[m].op = "spawn_name"
    /\ names[call[m].name] = NoPid
    /\ names' = [names EXCEPT ![call[m].name] = call[m].pid]
    /\ call' = [call EXCEPT ![m].op = IF call[m].link THEN "spawn_link" ELSE "spawn_start"]
    /\ UNCHANGED <<stage, relVars, exitVars, deaths, inbox, running>>

\* A slip: the rollback drops the name with the particle, whoever holds it.
SpawnRollbackFreesName(m) ==
    /\ call[m].op = "spawn_name"
    /\ names[call[m].name] # NoPid
    /\ stage' = [stage EXCEPT ![call[m].pid] = IF @ = "up" THEN "undone" ELSE @]
    /\ names' = [names EXCEPT ![call[m].name] = NoPid]
    /\ call' = Return(m)
    /\ UNCHANGED <<relVars, exitVars, deaths, inbox, running>>

\* Another spawn or register took the name first: the particle is dropped from
\* particle_states, with no exit, no death and no word to anyone.
SpawnRollback(m) ==
    /\ call[m].op = "spawn_name"
    /\ names[call[m].name] # NoPid
    /\ stage' = [stage EXCEPT ![call[m].pid] = IF @ = "up" THEN "undone" ELSE @]
    /\ call' = Return(m)
    /\ UNCHANGED <<relVars, names, exitVars, deaths, inbox, running>>

\* registry.link(a, b): both must be there.
LinkBoth(a, b) == [links EXCEPT ![a] = @ \cup {b}, ![b] = @ \cup {a}]

\* spawn_link records the link before the child is started, and ignores a
\* failure: a guest whose particle is dead gets an unlinked child.
SpawnLink(m) ==
    /\ m \in Pids
    /\ call[m].op = "spawn_link"
    /\ links' = IF Live(m) /\ Live(call[m].pid) THEN LinkBoth(m, call[m].pid) ELSE links
    /\ call' = [call EXCEPT ![m].op = "spawn_start"]
    /\ UNCHANGED <<stage, monitors, monitoredBy, trapExit, nextRef, names,
                   exitVars, deaths, inbox, running>>

\* start_particle starts the guest, or fails and leaves the particle as it is.
SpawnStart(m, ok) ==
    /\ call[m].op = "spawn_start"
    /\ running' = IF ok THEN running \cup {call[m].pid} ELSE running
    /\ call' = Return(m)
    /\ UNCHANGED <<stage, relVars, names, exitVars, deaths, inbox>>

-----------------------------------------------------------------------------
(* The guest's single-step calls.  Targets are any pid ever handed out: a    *)
(* handle outlives its particle, and resolve() finds any that is there.      *)

Known == {p \in Pids : stage[p] # "unborn"}

\* Push a signal to a particle that is still registered.
Deliver(p, s) == [inbox EXCEPT ![p] = IF Live(p) THEN @ \cup {s} ELSE @]

Link(m, t) ==
    /\ m \in running /\ CanCall(m)
    /\ \/ /\ Live(m) /\ Live(t)
          /\ links' = LinkBoth(m, t)
          /\ UNCHANGED inbox
       \/ /\ ~(Live(m) /\ Live(t))
          /\ inbox' = Deliver(m, Exit(m, "noproc"))
          /\ UNCHANGED links
    /\ UNCHANGED <<stage, monitors, monitoredBy, trapExit, nextRef, names,
                   exitVars, deaths, running, call>>

Unlink(m, t) ==
    /\ m \in running /\ CanCall(m)
    /\ links' = [p \in Pids |->
          IF ~Live(p) THEN links[p]
          ELSE links[p] \ ((IF p = m THEN {t} ELSE {}) \cup (IF p = t THEN {m} ELSE {}))]
    /\ UNCHANGED <<stage, monitors, monitoredBy, trapExit, nextRef, names,
                   exitVars, deaths, inbox, running, call>>

\* A slip: the watcher's pair is recorded the other way round.
MonitorSwapped(m, t) ==
    /\ m \in running /\ CanCall(m)
    /\ nextRef[m] \in Refs
    /\ nextRef' = [nextRef EXCEPT ![m] = @ + 1]
    /\ monitors' = [monitors EXCEPT ![m] = @ \cup {<<t, nextRef[m]>>}]
    /\ UNCHANGED <<stage, links, monitoredBy, trapExit, names, exitVars, deaths,
                   inbox, running, call>>

\* monitor(pid): monitor_with_ref records each half whose owner is there.
Monitor(m, t) ==
    /\ m \in running /\ CanCall(m)
    /\ nextRef[m] \in Refs
    /\ nextRef' = [nextRef EXCEPT ![m] = @ + 1]
    /\ monitors' = [monitors EXCEPT ![m] =
          IF Live(m) THEN @ \cup {<<nextRef[m], t>>} ELSE @]
    /\ monitoredBy' = [monitoredBy EXCEPT ![t] =
          IF Live(t) THEN @ \cup {<<m, nextRef[m]>>} ELSE @]
    /\ UNCHANGED <<stage, links, trapExit, names, exitVars, deaths, inbox,
                   running, call>>

\* monitor of a name nobody holds: an immediate noproc.
MonitorUnknown(m, n) ==
    /\ m \in running /\ CanCall(m)
    /\ names[n] = NoPid
    /\ nextRef[m] \in Refs
    /\ nextRef' = [nextRef EXCEPT ![m] = @ + 1]
    /\ inbox' = Deliver(m, Down(m, nextRef[m], "noproc"))
    /\ UNCHANGED <<stage, links, monitors, monitoredBy, trapExit, names,
                   exitVars, deaths, running, call>>

\* demonitor of one of the guest's refs, and of nothing when the particle or
\* the ref is gone.
Demonitor(m, r) ==
    /\ m \in running /\ CanCall(m)
    /\ Live(m)
    /\ monitors' = [monitors EXCEPT ![m] = {x \in @ : x[1] # r}]
    /\ monitoredBy' = [t \in Pids |->
          IF Live(t) /\ <<r, t>> \in monitors[m] THEN monitoredBy[t] \ {<<m, r>>}
          ELSE monitoredBy[t]]
    /\ UNCHANGED <<stage, links, trapExit, nextRef, names, exitVars, deaths,
                   inbox, running, call>>

TrapExit(m, b) ==
    /\ m \in running /\ CanCall(m)
    /\ Live(m)
    /\ trapExit' = [trapExit EXCEPT ![m] = b]
    /\ UNCHANGED <<stage, links, monitors, monitoredBy, nextRef, names,
                   exitVars, deaths, inbox, running, call>>

\* register_name looks at the name table only, never at particle_states.
Register(m, n) ==
    /\ m \in running /\ CanCall(m)
    /\ names[n] = NoPid
    /\ names' = [names EXCEPT ![n] = m]
    /\ UNCHANGED <<stage, relVars, exitVars, deaths, inbox, running, call>>

Unregister(m, n) ==
    /\ m \in running /\ CanCall(m)
    /\ names[n] = m
    /\ names' = [names EXCEPT ![n] = NoPid]
    /\ UNCHANGED <<stage, relVars, exitVars, deaths, inbox, running, call>>

-----------------------------------------------------------------------------
(* exit_particle *)

\* Step 1: the state is taken out of particle_states (and its mailbox closed).
\* A particle that is already out is left alone.
BeginExit(p, r) ==
    /\ stage' = [stage EXCEPT ![p] = "unname"]
    /\ reason' = [reason EXCEPT ![p] = r]

\* A slip: the early return of a second exit is missing.
RunExitAgain(m, p, r) ==
    /\ BeginExit(p, r)
    /\ call' = Busy(m, "await", p, r)

\* A task runs exit_particle(p, r): it is in it until p's exit is through, or
\* back at once when p has already exited.
RunExit(m, p, r) ==
    \/ /\ Live(p)
       /\ BeginExit(p, r)
       /\ call' = Busy(m, "await", p, r)
    \/ /\ ~Live(p)
       /\ call' = Return(m)
       /\ UNCHANGED <<stage, reason>>

\* Every name the particle holds now, however it came by it.
DropNames(p) ==
    /\ stage[p] = "unname"
    /\ names' = [n \in Names |-> IF names[n] = p THEN NoPid ELSE names[n]]
    /\ stage' = [stage EXCEPT ![p] = "publish"]
    /\ UNCHANGED <<relVars, exitVars, deaths, inbox, running, call>>

Publish(p) ==
    /\ stage[p] = "publish"
    /\ deaths' = [deaths EXCEPT ![p] = @ + 1]
    /\ stage' = [stage EXCEPT ![p] = "sweep"]
    /\ UNCHANGED <<relVars, names, exitVars, inbox, running, call>>

\* Who is told and who dies with p, of those still there at the sweep.
ExitDeliveries(p) == {q \in links[p] : Live(q) /\ trapExit[q]}

\* A slip: a kill stops at the particle it killed.
CascadeKillsSparesKill(p) ==
    {q \in links[p] : Live(q) /\ ~trapExit[q] /\ reason[p] \notin {"normal", "kill"}}

CascadeKills(p) == {q \in links[p] : Live(q) /\ ~trapExit[q] /\ IsAbnormal(reason[p])}

\* A slip: a watcher that is linked too is taken to have been told.
DownDeliveriesUnlinked(p) == {x \in monitoredBy[p] : Live(x[1]) /\ x[1] \notin links[p]}

DownDeliveries(p) == {x \in monitoredBy[p] : Live(x[1])}

\* A slip: the peers that trap exits keep their end of the link.
LinksWithoutKept(p) ==
    [q \in Pids |-> IF q \in CascadeKills(p) THEN links[q] \ {p} ELSE links[q]]

LinksWithout(p) ==
    [q \in Pids |-> IF Live(q) /\ q \in links[p] THEN links[q] \ {p} ELSE links[q]]

MonitorsWithout(p) ==
    [w \in Pids |->
        IF Live(w) THEN {x \in monitors[w] : <<w, x[1]>> \notin monitoredBy[p]}
        ELSE monitors[w]]

\* Under one write lock: forget p at every linked peer and every watcher that
\* is there, and decide who is told and who dies with it.
Sweep(p) ==
    /\ stage[p] = "sweep"
    /\ stage' = [stage EXCEPT ![p] = "deliver"]
    /\ links' = LinksWithout(p)
    /\ exitTo' = [exitTo EXCEPT ![p] = ExitDeliveries(p)]
    /\ killing' = [killing EXCEPT ![p] = CascadeKills(p)]
    /\ downTo' = [downTo EXCEPT ![p] = DownDeliveries(p)]
    /\ monitors' = MonitorsWithout(p)
    /\ UNCHANGED <<monitoredBy, trapExit, nextRef, names, reason, child,
                   deaths, inbox, running, call>>

\* The mailboxes were cloned under the lock: a signal is pushed even if its
\* receiver has died since.
DeliverExit(p, q) ==
    /\ stage[p] = "deliver"
    /\ q \in exitTo[p]
    /\ exitTo' = [exitTo EXCEPT ![p] = @ \ {q}]
    /\ inbox' = [inbox EXCEPT ![q] = @ \cup {Exit(p, reason[p])}]
    /\ UNCHANGED <<stage, relVars, names, reason, downTo, killing, child,
                   deaths, running, call>>

DeliverDown(p, w, r) ==
    /\ stage[p] = "deliver"
    /\ exitTo[p] = {}
    /\ <<w, r>> \in downTo[p]
    /\ downTo' = [downTo EXCEPT ![p] = @ \ {<<w, r>>}]
    /\ inbox' = [inbox EXCEPT ![w] = @ \cup {Down(p, r, reason[p])}]
    /\ UNCHANGED <<stage, relVars, names, reason, exitTo, killing, child,
                   deaths, running, call>>

\* All pushed, and no cascaded exit under way.
ReadyToCascade(p) ==
    /\ stage[p] = "deliver"
    /\ exitTo[p] = {}
    /\ downTo[p] = {}
    /\ child[p] # NoPid => stage[child[p]] = "done"

\* A slip: a peer that has died by itself meanwhile is not passed over.
CascadeInsists(p, q) ==
    /\ ReadyToCascade(p)
    /\ q \in killing[p]
    /\ Live(q)
    /\ killing' = [killing EXCEPT ![p] = @ \ {q}]
    /\ BeginExit(q, reason[p])
    /\ child' = [child EXCEPT ![p] = q]
    /\ UNCHANGED <<relVars, names, exitTo, downTo, deaths, inbox, running, call>>

\* The cascade runs one exit at a time, each to its end, with p's own reason.
Cascade(p, q) ==
    /\ ReadyToCascade(p)
    /\ q \in killing[p]
    /\ killing' = [killing EXCEPT ![p] = @ \ {q}]
    /\ \/ /\ Live(q)
          /\ BeginExit(q, reason[p])
          /\ child' = [child EXCEPT ![p] = q]
       \/ /\ ~Live(q)
          /\ UNCHANGED <<stage, reason, child>>
    /\ UNCHANGED <<relVars, names, exitTo, downTo, deaths, inbox, running, call>>

Finish(p) ==
    /\ ReadyToCascade(p)
    /\ killing[p] = {}
    /\ stage' = [stage EXCEPT ![p] = "done"]
    /\ UNCHANGED <<relVars, names, exitVars, deaths, inbox, running, call>>

\* The task that ran the exit gets back.
Await(m) ==
    /\ call[m].op = "await"
    /\ stage[call[m].pid] = "done"
    /\ call' = Return(m)
    /\ UNCHANGED <<stage, relVars, names, exitVars, deaths, inbox, running>>

-----------------------------------------------------------------------------
(* The ways into exit_particle *)

\* host::exit; the guest goes on afterwards.
GuestExit(m, r) ==
    /\ m \in running /\ CanCall(m)
    /\ RunExit(m, m, r)
    /\ UNCHANGED <<relVars, names, exitTo, downTo, killing, child, deaths,
                   inbox, running>>

\* start returns, returns an error or traps: the guest is over and its task
\* runs the exit.
GuestReturn(m, r) ==
    /\ m \in running /\ CanCall(m)
    /\ running' = running \ {m}
    /\ RunExit(m, m, r)
    /\ UNCHANGED <<relVars, names, exitTo, downTo, killing, child, deaths, inbox>>

\* apply_inherited_exit, first half: trap_exit is read, and the lock released.
InheritedExit(m, t, r) ==
    \/ /\ Live(t) /\ trapExit[t]
       /\ call' = Busy(m, "signal_deliver", t, r)
    \/ /\ Live(t) /\ ~trapExit[t] /\ IsAbnormal(r)
       /\ call' = Busy(m, "signal_exit", t, r)

\* A slip: a kill is applied like any other reason.
DirectedExitTrappable(m, t, r) == InheritedExit(m, t, r)

\* apply_directed_exit, first half: a kill is not asked about trap_exit, and
\* becomes killed.
DirectedExit(m, t, r) ==
    \/ /\ r # "kill"
       /\ InheritedExit(m, t, r)
    \/ /\ r = "kill"
       /\ Live(t)
       /\ call' = Busy(m, "signal_exit", t, "killed")

\* exit_signal by a guest, or a peer's ExitSignal handled by the node.
ExitSignal(m, t, r) ==
    /\ CanCall(m)
    /\ DirectedExit(m, t, r)
    /\ UNCHANGED <<stage, relVars, names, exitVars, deaths, inbox, running>>

\* A remote particle's death, handled by the node: inherited, not directed.
PeerExit(m, t, r) ==
    /\ m \in Outside /\ CanCall(m)
    /\ InheritedExit(m, t, r)
    /\ UNCHANGED <<stage, relVars, names, exitVars, deaths, inbox, running>>

\* The second half: deliver to a particle that is still there, or exit it.
SignalDeliver(m) ==
    /\ call[m].op = "signal_deliver"
    /\ inbox' = Deliver(call[m].pid, Exit(IF m \in Pids THEN m ELSE NoPid, call[m].reason))
    /\ call' = Return(m)
    /\ UNCHANGED <<stage, relVars, names, exitVars, deaths, running>>

SignalExit(m) ==
    /\ call[m].op = "signal_exit"
    /\ RunExit(m, call[m].pid, call[m].reason)
    /\ UNCHANGED <<relVars, names, exitTo, downTo, killing, child, deaths,
                   inbox, running>>

-----------------------------------------------------------------------------

\* The steps a task takes inside a call it has begun.
Proceed(m) ==
    \/ SpawnName(m)
    \/ SpawnRollback(m)
    \/ SpawnLink(m)
    \/ \E ok \in BOOLEAN : SpawnStart(m, ok)
    \/ SignalDeliver(m)
    \/ SignalExit(m)
    \/ Await(m)

ExitStep(p) ==
    \/ DropNames(p)
    \/ Publish(p)
    \/ Sweep(p)
    \/ \E q \in Pids : DeliverExit(p, q)
    \/ \E w \in Pids, r \in Refs : DeliverDown(p, w, r)
    \/ \E q \in Pids : Cascade(p, q)
    \/ Finish(p)

Guest(m) ==
    \/ \E t \in Known : Link(m, t)
    \/ \E t \in Known : Unlink(m, t)
    \/ \E t \in Known : Monitor(m, t)
    \/ \E n \in Names : MonitorUnknown(m, n)
    \/ \E r \in Refs : Demonitor(m, r)
    \/ \E b \in BOOLEAN : TrapExit(m, b)
    \/ \E n \in Names : Register(m, n)
    \/ \E n \in Names : Unregister(m, n)
    \/ \E r \in ExitReasons : GuestExit(m, r)
    \/ \E r \in {"normal", "exception"} : GuestReturn(m, r)

AnyTask(m) ==
    \/ \E p \in Pids, n \in Names \cup {NoName}, lk \in BOOLEAN : Spawn(m, p, n, lk)
    \/ \E t \in Known, r \in ExitReasons : ExitSignal(m, t, r)
    \/ \E t \in Known, r \in ExitReasons : PeerExit(m, t, r)

Next ==
    \/ \E m \in Tasks : AnyTask(m)
    \/ \E m \in Pids : Guest(m)
    \/ \E m \in Tasks : Proceed(m)
    \/ \E p \in Pids : ExitStep(p)

\* A call that has begun runs to its end: no lock is held across another call,
\* so the scheduler always has a next step for it.  Nothing else is fair: no
\* guest has to call, exit or return.
Fairness ==
    /\ \A m \in Tasks : WF_vars(Proceed(m))
    /\ \A p \in Pids : WF_vars(ExitStep(p))

Spec == Init /\ [][Next]_vars /\ Fairness

-----------------------------------------------------------------------------

\* The variables have their types: monitors map a watcher's ref to its target,
\* monitored_by keeps watcher and ref the other way about (monitor_with_ref),
\* and every call is at a point where it can go on.
TypeOK ==
    /\ stage \in [Pids -> Stages]
    /\ links \in [Pids -> SUBSET Pids]
    /\ monitors \in [Pids -> SUBSET (Refs \X Pids)]
    /\ monitoredBy \in [Pids -> SUBSET (Pids \X Refs)]
    /\ trapExit \in [Pids -> BOOLEAN]
    /\ nextRef \in [Pids -> Nat]
    /\ names \in [Names -> Pids \cup {NoPid}]
    /\ reason \in [Pids -> Reasons]
    /\ exitTo \in [Pids -> SUBSET Pids]
    /\ downTo \in [Pids -> SUBSET (Pids \X Refs)]
    /\ killing \in [Pids -> SUBSET Pids]
    /\ child \in [Pids -> Pids \cup {NoPid}]
    /\ deaths \in [Pids -> Nat]
    /\ inbox \in [Pids -> SUBSET Signals]
    /\ running \subseteq Pids
    /\ call \in [Tasks -> Calls]

\* Nobody is left holding one end of a link: a live particle's peer is live and
\* holds the other end, or is on its way out with this particle among the links
\* it took along, so that the sweep of its exit will reach it.  The one hole is
\* a peer whose spawn was rolled back (registry.rs 172), which tells nobody.
LinksAreMutual ==
    \A p \in Pids : Live(p) => \A q \in links[p] :
        \/ stage[q] = "undone"
        \/ (Live(q) \/ Unswept(q)) /\ p \in links[q]

\* An abnormal death is never missed: from its sweep on, every particle that was
\* linked is dead itself, or about to be killed by this exit, or has the Exit
\* signal or will get it.  It may have unlinked, trapped or untrapped since the
\* links were taken out: the sweep goes by what it finds (registry.rs 703-715).
AbnormalDeathReachesLinks ==
    \A p \in Pids : Swept(p) /\ IsAbnormal(reason[p]) => \A q \in links[p] :
        Live(q) => \/ q \in killing[p]
                   \/ q \in exitTo[p]
                   \/ Exit(p, reason[p]) \in inbox[q]

\* A monitor that took hold is answered: from the sweep on, every live watcher
\* has the Down with its ref and the reason, or will get it.
DeathReachesWatchers ==
    \A p \in Pids : Swept(p) => \A x \in monitoredBy[p] :
        Live(x[1]) => x \in downTo[p] \/ Down(p, x[2], reason[p]) \in inbox[x[1]]

\* "Every death is published exactly once, including deaths cascaded through
\* links" (registry.rs 92), whoever else exits the particle at the same time.
DeathPublishedOnce ==
    \A p \in Pids :
        deaths[p] = IF stage[p] \in {"sweep", "deliver", "done"} THEN 1 ELSE 0

\* A kill that was sent is never something to trap: the only Exit carrying kill
\* from a local particle is the legacy of one that itself died of kill.
SentKillIsNeverTrapped ==
    \A q \in Pids : \A s \in inbox[q] :
        s.kind = "exit" /\ s.reason = "kill" /\ s.from \in Pids
            => ~Live(s.from) /\ reason[s.from] = "kill"

\* A name is never passed from one particle to another and never lost under a
\* holder that has not asked for it: it becomes free by its holder's exit or
\* its holder's own call, even while spawns race for it and roll back.
NamesKeepTheirHolder ==
    [][\A n \in Names : names[n] # NoPid /\ names'[n] # names[n] =>
          /\ names'[n] = NoPid
          /\ stage[names[n]] = "unname" \/ Unregister(names[n], n)]_vars

\* Every exit gets through, cascades included: no two exits wait for each other,
\* however the links run.
ExitsFinish ==
    \A p \in Pids : (stage[p] \in Exiting) ~> (stage[p] = "done")
=============================================================================
