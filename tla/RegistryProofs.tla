--------------------------- MODULE RegistryProofs ---------------------------
(***************************************************************************)
(* Proofs about Registry for any number of particles, refs, names and      *)
(* node tasks.                                                             *)
(***************************************************************************)
EXTENDS Registry, TLAPS

LEMMA TaskPids == Pids \subseteq Tasks /\ Outside \subseteq Tasks
  BY DEF Tasks

LEMMA IdleCall == Idle \in Calls
  BY DEF Idle, Calls, Reasons

LEMMA InitTypeOK == Init => TypeOK
<1> SUFFICES ASSUME Init PROVE TypeOK
  OBVIOUS
<1>1. /\ stage \in [Pids -> Stages]
      /\ reason \in [Pids -> Reasons]
  BY DEF Init, Stages, Reasons
<1>2. /\ links \in [Pids -> SUBSET Pids]
      /\ exitTo \in [Pids -> SUBSET Pids]
      /\ killing \in [Pids -> SUBSET Pids]
  BY DEF Init
<1>3. /\ monitors \in [Pids -> SUBSET (Refs \X Pids)]
      /\ monitoredBy \in [Pids -> SUBSET (Pids \X Refs)]
      /\ downTo \in [Pids -> SUBSET (Pids \X Refs)]
  BY DEF Init
<1>4. /\ nextRef \in [Pids -> Nat]
      /\ deaths \in [Pids -> Nat]
      /\ names \in [Names -> Pids \cup {NoPid}]
      /\ child \in [Pids -> Pids \cup {NoPid}]
  BY DEF Init
<1>5. trapExit \in [Pids -> BOOLEAN]
  BY DEF Init
<1>6. inbox \in [Pids -> SUBSET Signals] /\ running \subseteq Pids
  BY DEF Init
<1>7. call \in [Tasks -> Calls]
  BY IdleCall DEF Init
<1> QED
  BY <1>1, <1>2, <1>3, <1>4, <1>5, <1>6, <1>7 DEF TypeOK

\* A task's record of what it is doing stays a record of Calls.
LEMMA BusyCall ==
    ASSUME call \in [Tasks -> Calls], NEW m \in Tasks, NEW op \in Ops,
           NEW p \in Pids, NEW r \in Reasons
    PROVE  Busy(m, op, p, r) \in [Tasks -> Calls]
  BY DEF Busy, Idle, Calls, Ops

LEMMA ReturnCall ==
    ASSUME call \in [Tasks -> Calls], NEW m \in Tasks
    PROVE  Return(m) \in [Tasks -> Calls]
  BY IdleCall DEF Return

\* What Busy and Return say of each task.
LEMMA BusyAt ==
    ASSUME call \in [Tasks -> Calls], NEW m \in Tasks, NEW op, NEW p, NEW r,
           NEW k \in Tasks
    PROVE  /\ Busy(m, op, p, r)[m].op = op
           /\ Busy(m, op, p, r)[m].pid = p
           /\ Busy(m, op, p, r)[m].reason = r
           /\ k # m => Busy(m, op, p, r)[k] = call[k]
  BY DEF Busy, Idle

LEMMA ReturnAt ==
    ASSUME call \in [Tasks -> Calls], NEW m \in Tasks, NEW k \in Tasks
    PROVE  /\ Return(m)[m].op \notin Ops
           /\ k # m => Return(m)[k] = call[k]
  BY DEF Return, Idle, Ops

\* What a task in the middle of a call knows of it.
LEMMA CallFields ==
    ASSUME TypeOK, NEW m \in Tasks, call[m].op \in Ops
    PROVE  /\ call[m] \in [op : Ops, pid : Pids, name : Names \cup {NoName},
                           link : BOOLEAN, reason : Reasons]
           /\ call[m].pid \in Pids
           /\ call[m].reason \in Reasons
<1>1. call[m] \in Calls
  BY DEF TypeOK
<1>2. call[m] # Idle
  BY DEF Idle, Ops
<1> QED
  BY <1>1, <1>2 DEF Calls

LEMMA RunExitTypes ==
    ASSUME TypeOK, NEW m \in Tasks, NEW p \in Pids, NEW r \in Reasons, RunExit(m, p, r)
    PROVE  /\ stage' \in [Pids -> Stages]
           /\ reason' \in [Pids -> Reasons]
           /\ call' \in [Tasks -> Calls]
<1>1. Busy(m, "await", p, r) \in [Tasks -> Calls] /\ Return(m) \in [Tasks -> Calls]
  BY BusyCall, ReturnCall DEF TypeOK, Ops
<1> QED
  BY <1>1, SMTT(20) DEF RunExit, BeginExit, TypeOK, Stages, Exiting

LEMMA SpawnTypeOK ==
    ASSUME TypeOK, NEW m \in Tasks, NEW p \in Pids, NEW n \in Names \cup {NoName},
           NEW lk \in BOOLEAN, Spawn(m, p, n, lk)
    PROVE  TypeOK'
<1>1. stage' \in [Pids -> Stages]
  BY DEF Spawn, TypeOK, Stages
<1>2. call' \in [Tasks -> Calls]
  BY ZenonT(60) DEF Spawn, TypeOK, Calls, Idle, Reasons, Ops
<1> QED
  BY <1>1, <1>2 DEF Spawn, TypeOK, relVars, exitVars

LEMMA ProceedTypeOK ==
    ASSUME TypeOK, NEW m \in Tasks, Proceed(m)
    PROVE  TypeOK'
<1>0. call[m].op \in Ops
  BY DEF Proceed, SpawnName, SpawnRollback, SpawnLink, SpawnStart, SignalDeliver,
         SignalExit, Await, Ops
<1> DEFINE c == call[m]
<1>a. c \in [op : Ops, pid : Pids, name : Names \cup {NoName},
             link : BOOLEAN, reason : Reasons]
  BY <1>0, CallFields
<1>b. c.pid \in Pids /\ c.reason \in Reasons
  BY <1>0, CallFields
<1>1. CASE SpawnName(m)
  <2>1. [c EXCEPT !.op = IF c.link THEN "spawn_link" ELSE "spawn_start"] \in Calls
    BY <1>a DEF Calls, Ops
  <2>2. call' \in [Tasks -> Calls]
    BY <2>1, <1>1 DEF SpawnName, TypeOK
  <2>3. names' \in [Names -> Pids \cup {NoPid}]
    BY <1>b, <1>1 DEF SpawnName, TypeOK
  <2> QED
    BY <2>2, <2>3, <1>1 DEF SpawnName, TypeOK, relVars, exitVars
<1>2. CASE SpawnRollback(m)
  <2>1. call' \in [Tasks -> Calls]
    BY <1>2, ReturnCall DEF SpawnRollback, TypeOK
  <2>2. stage' \in [Pids -> Stages]
    BY <1>2 DEF SpawnRollback, TypeOK, Stages
  <2> QED
    BY <2>1, <2>2, <1>2 DEF SpawnRollback, TypeOK, relVars, exitVars
<1>3. CASE SpawnLink(m)
  <2>1. [c EXCEPT !.op = "spawn_start"] \in Calls
    BY <1>a DEF Calls, Ops
  <2>2. call' \in [Tasks -> Calls]
    BY <2>1, <1>3 DEF SpawnLink, TypeOK
  <2>3. links' \in [Pids -> SUBSET Pids]
    BY <1>b, <1>3, SMTT(20) DEF SpawnLink, TypeOK, LinkBoth
  <2> QED
    BY <2>2, <2>3, <1>3 DEF SpawnLink, TypeOK, exitVars
<1>4. ASSUME NEW ok \in BOOLEAN, SpawnStart(m, ok) PROVE TypeOK'
  <2>1. running' \subseteq Pids
    BY <1>b, <1>4 DEF SpawnStart, TypeOK
  <2>2. call' \in [Tasks -> Calls]
    BY <1>4, ReturnCall DEF SpawnStart, TypeOK
  <2> QED
    BY <2>1, <2>2, <1>4 DEF SpawnStart, TypeOK, relVars, exitVars
<1>5. CASE SignalDeliver(m)
  <2>1. Exit(IF m \in Pids THEN m ELSE NoPid, c.reason) \in Signals
    BY <1>b DEF Exit, Signals
  <2>2. inbox' \in [Pids -> SUBSET Signals]
    BY <2>1, <1>5, ZenonT(60) DEF SignalDeliver, Deliver, TypeOK
  <2>3. call' \in [Tasks -> Calls]
    BY <1>5, ReturnCall DEF SignalDeliver, TypeOK
  <2> QED
    BY <2>2, <2>3, <1>5 DEF SignalDeliver, TypeOK, relVars, exitVars
<1>6. CASE SignalExit(m)
  <2>1. RunExit(m, c.pid, c.reason)
    BY <1>6 DEF SignalExit
  <2>2. RunExit(m, c.pid, c.reason) =>
            stage' \in [Pids -> Stages] /\ reason' \in [Pids -> Reasons]
                /\ call' \in [Tasks -> Calls]
    BY <1>b, RunExitTypes
  <2> QED
    BY <2>1, <2>2, <1>6 DEF SignalExit, TypeOK, relVars, exitVars
<1>7. CASE Await(m)
  <2>1. call' \in [Tasks -> Calls]
    BY <1>7, ReturnCall DEF Await, TypeOK
  <2> QED
    BY <2>1, <1>7 DEF Await, TypeOK, relVars, exitVars
<1> QED
  BY <1>1, <1>2, <1>3, <1>4, <1>5, <1>6, <1>7 DEF Proceed

LEMMA ExitStepTypeOK ==
    ASSUME TypeOK, NEW p \in Pids, ExitStep(p)
    PROVE  TypeOK'
<1>0. reason[p] \in Reasons
  BY DEF TypeOK
<1>1. CASE DropNames(p)
  <2>1. names' \in [Names -> Pids \cup {NoPid}]
    BY <1>1 DEF DropNames, TypeOK
  <2>2. stage' \in [Pids -> Stages]
    BY <1>1 DEF DropNames, TypeOK, Stages, Exiting
  <2> QED
    BY <2>1, <2>2, <1>1 DEF DropNames, TypeOK, relVars, exitVars
<1>2. CASE Publish(p)
  <2>1. deaths' \in [Pids -> Nat]
    BY <1>2 DEF Publish, TypeOK
  <2>2. stage' \in [Pids -> Stages]
    BY <1>2 DEF Publish, TypeOK, Stages, Exiting
  <2> QED
    BY <2>1, <2>2, <1>2 DEF Publish, TypeOK, relVars, exitVars
<1>3. CASE Sweep(p)
  <2>1. stage' \in [Pids -> Stages]
    BY <1>3 DEF Sweep, TypeOK, Stages, Exiting
  <2>2. links' \in [Pids -> SUBSET Pids]
    BY <1>3 DEF Sweep, LinksWithout, TypeOK
  <2>3. exitTo' \in [Pids -> SUBSET Pids] /\ killing' \in [Pids -> SUBSET Pids]
    BY <1>3 DEF Sweep, ExitDeliveries, CascadeKills, TypeOK
  <2>4. downTo' \in [Pids -> SUBSET (Pids \X Refs)]
    BY <1>3 DEF Sweep, DownDeliveries, TypeOK
  <2>5. monitors' \in [Pids -> SUBSET (Refs \X Pids)]
    BY <1>3 DEF Sweep, MonitorsWithout, TypeOK
  <2> QED
    BY <2>1, <2>2, <2>3, <2>4, <2>5, <1>3 DEF Sweep, TypeOK
<1>4. ASSUME NEW q \in Pids, DeliverExit(p, q) PROVE TypeOK'
  <2>1. Exit(p, reason[p]) \in Signals
    BY <1>0 DEF Exit, Signals
  <2>2. inbox' \in [Pids -> SUBSET Signals] /\ exitTo' \in [Pids -> SUBSET Pids]
    BY <2>1, <1>4 DEF DeliverExit, TypeOK
  <2> QED
    BY <2>2, <1>4 DEF DeliverExit, TypeOK, relVars
<1>5. ASSUME NEW w \in Pids, NEW r \in Refs, DeliverDown(p, w, r) PROVE TypeOK'
  <2>1. Down(p, r, reason[p]) \in Signals
    BY <1>0, RegistryAssumption DEF Down, Signals, Refs
  <2>2. inbox' \in [Pids -> SUBSET Signals]
    BY <2>1, <1>5 DEF DeliverDown, TypeOK
  <2>3. downTo' \in [Pids -> SUBSET (Pids \X Refs)]
    BY <1>5 DEF DeliverDown, TypeOK
  <2> QED
    BY <2>2, <2>3, <1>5 DEF DeliverDown, TypeOK, relVars
<1>6. ASSUME NEW q \in Pids, Cascade(p, q) PROVE TypeOK'
  <2>1. stage' \in [Pids -> Stages] /\ reason' \in [Pids -> Reasons]
    BY <1>0, <1>6 DEF Cascade, BeginExit, TypeOK, Stages, Exiting
  <2>2. killing' \in [Pids -> SUBSET Pids] /\ child' \in [Pids -> Pids \cup {NoPid}]
    BY <1>6 DEF Cascade, TypeOK
  <2> QED
    BY <2>1, <2>2, <1>6 DEF Cascade, TypeOK, relVars
<1>7. CASE Finish(p)
  BY <1>7 DEF Finish, TypeOK, relVars, exitVars, Stages
<1> QED
  BY <1>1, <1>2, <1>3, <1>4, <1>5, <1>6, <1>7 DEF ExitStep

LEMMA GuestTypeOK ==
    ASSUME TypeOK, NEW m \in Pids, Guest(m)
    PROVE  TypeOK'
<1> USE TaskPids
<1>1. ASSUME NEW t \in Pids, Link(m, t) PROVE TypeOK'
  <2>1. Exit(m, "noproc") \in Signals
    BY DEF Exit, Signals, Reasons
  <2>2. inbox' \in [Pids -> SUBSET Signals]
    BY <2>1, <1>1 DEF Link, Deliver, TypeOK
  <2>3. links' \in [Pids -> SUBSET Pids]
    BY <1>1 DEF Link, LinkBoth, TypeOK
  <2> QED
    BY <2>2, <2>3, <1>1 DEF Link, TypeOK, exitVars
<1>2. ASSUME NEW t \in Pids, Unlink(m, t) PROVE TypeOK'
  <2>1. links' \in [Pids -> SUBSET Pids]
    BY <1>2 DEF Unlink, TypeOK
  <2> QED
    BY <2>1, <1>2 DEF Unlink, TypeOK, exitVars
<1>3. ASSUME NEW t \in Pids, Monitor(m, t) PROVE TypeOK'
  <2>1. nextRef' \in [Pids -> Nat]
    BY <1>3 DEF Monitor, TypeOK
  <2>2. monitors' \in [Pids -> SUBSET (Refs \X Pids)]
    BY <1>3 DEF Monitor, TypeOK
  <2>3. monitoredBy' \in [Pids -> SUBSET (Pids \X Refs)]
    BY <1>3 DEF Monitor, TypeOK
  <2> QED
    BY <2>1, <2>2, <2>3, <1>3 DEF Monitor, TypeOK, exitVars
<1>4. ASSUME NEW n \in Names, MonitorUnknown(m, n) PROVE TypeOK'
  <2>1. Down(m, nextRef[m], "noproc") \in Signals
    BY DEF Down, Signals, Reasons, TypeOK
  <2>2. inbox' \in [Pids -> SUBSET Signals]
    BY <2>1, <1>4 DEF MonitorUnknown, Deliver, TypeOK
  <2>3. nextRef' \in [Pids -> Nat]
    BY <1>4 DEF MonitorUnknown, TypeOK
  <2> QED
    BY <2>2, <2>3, <1>4 DEF MonitorUnknown, TypeOK, exitVars
<1>5. ASSUME NEW r \in Refs, Demonitor(m, r) PROVE TypeOK'
  <2>1. monitors' \in [Pids -> SUBSET (Refs \X Pids)]
    BY <1>5 DEF Demonitor, TypeOK
  <2>2. monitoredBy' \in [Pids -> SUBSET (Pids \X Refs)]
    BY <1>5 DEF Demonitor, TypeOK
  <2> QED
    BY <2>1, <2>2, <1>5 DEF Demonitor, TypeOK, exitVars
<1>6. ASSUME NEW b \in BOOLEAN, TrapExit(m, b) PROVE TypeOK'
  <2>1. trapExit' \in [Pids -> BOOLEAN]
    BY <1>6 DEF TrapExit, TypeOK
  <2> QED
    BY <2>1, <1>6 DEF TrapExit, TypeOK, exitVars
<1>7. ASSUME NEW n \in Names, Register(m, n) \/ Unregister(m, n) PROVE TypeOK'
  <2>1. names' \in [Names -> Pids \cup {NoPid}]
    BY <1>7 DEF Register, Unregister, TypeOK
  <2> QED
    BY <2>1, <1>7 DEF Register, Unregister, TypeOK, relVars, exitVars
<1>8. ASSUME NEW r \in Reasons, GuestExit(m, r) \/ GuestReturn(m, r) PROVE TypeOK'
  <2>1. RunExit(m, m, r)
    BY <1>8 DEF GuestExit, GuestReturn
  <2>2. /\ stage' \in [Pids -> Stages]
        /\ reason' \in [Pids -> Reasons]
        /\ call' \in [Tasks -> Calls]
    BY <2>1, RunExitTypes
  <2>3. running' \subseteq Pids
    BY <1>8 DEF GuestExit, GuestReturn, TypeOK
  <2> QED
    BY <2>2, <2>3, <1>8 DEF GuestExit, GuestReturn, TypeOK, relVars, exitVars
<1>9. ExitReasons \subseteq Reasons /\ {"normal", "exception"} \subseteq Reasons
  BY RegistryAssumption DEF Reasons
<1>10. Known \subseteq Pids
  BY DEF Known
<1> QED
  BY <1>1, <1>2, <1>3, <1>4, <1>5, <1>6, <1>7, <1>8, <1>9, <1>10 DEF Guest

LEMMA SignalTypeOK ==
    ASSUME TypeOK, NEW m \in Tasks, NEW t \in Pids, NEW r \in Reasons,
           ExitSignal(m, t, r) \/ PeerExit(m, t, r)
    PROVE  TypeOK'
<1>1. \A op \in Ops, x \in Reasons : Busy(m, op, t, x) \in [Tasks -> Calls]
  BY BusyCall DEF TypeOK
<1>2. call' \in [Tasks -> Calls]
  BY <1>1 DEF ExitSignal, PeerExit, DirectedExit, InheritedExit, Ops, Reasons
<1> QED
  BY <1>2 DEF ExitSignal, PeerExit, TypeOK, relVars, exitVars

\* The type invariant of the registry under every host call and every step of
\* exit_particle.
THEOREM RegistryTypeOK == Spec => []TypeOK
<1>1. TypeOK /\ [Next]_vars => TypeOK'
  <2> SUFFICES ASSUME TypeOK, [Next]_vars PROVE TypeOK'
    OBVIOUS
  <2>1. ASSUME NEW m \in Tasks, AnyTask(m) PROVE TypeOK'
    <3>1. ExitReasons \subseteq Reasons /\ Known \subseteq Pids
      BY RegistryAssumption DEF Reasons, Known
    <3> QED
      BY <2>1, <3>1, SpawnTypeOK, SignalTypeOK DEF AnyTask
  <2>2. ASSUME NEW m \in Pids, Guest(m) PROVE TypeOK'
    BY <2>2, GuestTypeOK
  <2>3. ASSUME NEW m \in Tasks, Proceed(m) PROVE TypeOK'
    BY <2>3, ProceedTypeOK
  <2>4. ASSUME NEW p \in Pids, ExitStep(p) PROVE TypeOK'
    BY <2>4, ExitStepTypeOK
  <2>5. CASE UNCHANGED vars
    BY <2>5 DEF vars, relVars, exitVars, TypeOK
  <2> QED
    BY <2>1, <2>2, <2>3, <2>4, <2>5 DEF Next
<1> QED
  BY <1>1, InitTypeOK, PTL DEF Spec

-----------------------------------------------------------------------------

\* The life of a pid: no step takes it anywhere else, and none takes it back.
StageMoves ==
    {<<"unborn", "up">>, <<"up", "undone">>, <<"up", "unname">>,
     <<"unname", "publish">>, <<"publish", "sweep">>, <<"sweep", "deliver">>,
     <<"deliver", "done">>}

\* An exit is begun only for a particle that is up, and by nobody else is a
\* stage touched.
LEMMA RunExitMoves ==
    ASSUME TypeOK, NEW m, NEW q \in Pids, NEW r, RunExit(m, q, r),
           NEW p \in Pids, stage'[p] # stage[p]
    PROVE  stage[p] = "up" /\ stage'[p] = "unname"
  BY DEF RunExit, BeginExit, Live, TypeOK

LEMMA LifeCycle ==
    ASSUME TypeOK, [Next]_vars, NEW p \in Pids, stage'[p] # stage[p]
    PROVE  /\ <<stage[p], stage'[p]>> \in StageMoves
           /\ stage'[p] = "sweep" => Publish(p)
           /\ stage'[p] = "deliver" => Sweep(p)
<1> USE DEF StageMoves
<1>1. ASSUME NEW m \in Tasks, AnyTask(m) PROVE stage[p] = "unborn" /\ stage'[p] = "up"
  BY <1>1 DEF AnyTask, Spawn, ExitSignal, PeerExit, TypeOK
<1>2. ASSUME NEW m \in Pids, Guest(m) PROVE stage[p] = "up" /\ stage'[p] = "unname"
  <2>1. PICK r : GuestExit(m, r) \/ GuestReturn(m, r)
    BY <1>2 DEF Guest, Link, Unlink, Monitor, MonitorUnknown, Demonitor, TrapExit,
                Register, Unregister
  <2> QED
    BY <2>1, RunExitMoves DEF GuestExit, GuestReturn
<1>3. ASSUME NEW m \in Tasks, Proceed(m)
      PROVE  stage[p] = "up" /\ stage'[p] \in {"undone", "unname"}
  <2>1. CASE SpawnRollback(m)
    BY <2>1 DEF SpawnRollback, TypeOK
  <2>2. CASE SignalExit(m)
    <3>1. call[m].pid \in Pids
      BY <2>2, CallFields DEF SignalExit, Ops
    <3> QED
      BY <2>2, <3>1, RunExitMoves DEF SignalExit
  <2> QED
    BY <1>3, <2>1, <2>2 DEF Proceed, SpawnName, SpawnLink, SpawnStart, SignalDeliver, Await
<1>4. ASSUME NEW q \in Pids, ExitStep(q)
      PROVE  /\ <<stage[p], stage'[p]>> \in StageMoves
             /\ stage'[p] = "sweep" => Publish(p)
             /\ stage'[p] = "deliver" => Sweep(p)
  <2>1. CASE DropNames(q)
    BY <2>1 DEF DropNames, TypeOK
  <2>2. CASE Publish(q)
    <3>1. p = q
      BY <2>2 DEF Publish, TypeOK
    <3>2. stage[p] = "publish" /\ stage'[p] = "sweep"
      BY <2>2, <3>1 DEF Publish, TypeOK
    <3> QED
      BY <2>2, <3>1, <3>2
  <2>3. CASE Sweep(q)
    <3>1. p = q
      BY <2>3 DEF Sweep, TypeOK
    <3>2. stage[p] = "sweep" /\ stage'[p] = "deliver"
      BY <2>3, <3>1 DEF Sweep, TypeOK
    <3> QED
      BY <2>3, <3>1, <3>2
  <2>4. ASSUME NEW k \in Pids, Cascade(q, k) PROVE stage[p] = "up" /\ stage'[p] = "unname"
    BY <2>4 DEF Cascade, BeginExit, Live, TypeOK
  <2>5. CASE Finish(q)
    BY <2>5 DEF Finish, ReadyToCascade, TypeOK
  <2> QED
    BY <1>4, <2>1, <2>2, <2>3, <2>4, <2>5 DEF ExitStep, DeliverExit, DeliverDown
<1> QED
  BY <1>1, <1>2, <1>3, <1>4 DEF Next, vars

-----------------------------------------------------------------------------

\* Every death is published exactly once, whoever exits the particle and however
\* often (registry.rs 92): the state leaves particle_states once, and only the
\* exit that took it out goes on to publish.
THEOREM RegistryDeathPublishedOnce == Spec => []DeathPublishedOnce
<1>1. Init => DeathPublishedOnce
  BY DEF Init, DeathPublishedOnce
<1>2. TypeOK /\ DeathPublishedOnce /\ [Next]_vars => DeathPublishedOnce'
  <2> SUFFICES ASSUME TypeOK, DeathPublishedOnce, [Next]_vars PROVE DeathPublishedOnce'
    OBVIOUS
  <2>1. ASSUME NEW q \in Pids, Publish(q) PROVE DeathPublishedOnce'
    BY <2>1 DEF Publish, DeathPublishedOnce, TypeOK
  <2>2. CASE UNCHANGED deaths /\ \A q \in Pids : ~Publish(q)
    <3>1. ASSUME NEW p \in Pids, stage'[p] = "sweep" PROVE stage[p] = "sweep"
      BY <2>2, <3>1, LifeCycle
    <3> QED
      BY <2>2, <3>1, LifeCycle DEF DeathPublishedOnce, StageMoves, TypeOK
  <2> QED
    BY <2>1, <2>2, ZenonT(60) DEF Next, vars, AnyTask, Spawn, ExitSignal, PeerExit, Guest, Link, Unlink,
       Monitor, MonitorUnknown, Demonitor, TrapExit, Register, Unregister, GuestExit,
       GuestReturn, Proceed, SpawnName, SpawnRollback, SpawnLink, SpawnStart, SignalDeliver,
       SignalExit, Await, ExitStep, DropNames, Publish, Sweep, DeliverExit, DeliverDown,
       Cascade, Finish
<1> QED
  BY <1>1, <1>2, RegistryTypeOK, PTL DEF Spec

-----------------------------------------------------------------------------
(* Which steps touch what. *)

LEMMA LinksFrame ==
    ASSUME [Next]_vars
    PROVE  \/ UNCHANGED links
           \/ \E m \in Pids, t \in Known : Link(m, t) \/ Unlink(m, t)
           \/ \E m \in Tasks : SpawnLink(m)
           \/ \E p \in Pids : Sweep(p)
  BY ZenonT(60) DEF Next, vars, relVars, AnyTask, Spawn, ExitSignal, PeerExit, Guest,
     Monitor, MonitorUnknown, Demonitor, TrapExit, Register, Unregister, GuestExit,
     GuestReturn, Proceed, SpawnName, SpawnRollback, SpawnStart, SignalDeliver,
     SignalExit, Await, ExitStep, DropNames, Publish, DeliverExit, DeliverDown,
     Cascade, Finish

LEMMA WatchFrame ==
    ASSUME [Next]_vars
    PROVE  \/ UNCHANGED monitoredBy
           \/ \E m, t \in Pids : Monitor(m, t)
           \/ \E m \in Pids, r \in Refs : Demonitor(m, r)
  BY ZenonT(60) DEF Next, vars, relVars, AnyTask, Spawn, ExitSignal, PeerExit, Guest, Link, Unlink,
     MonitorUnknown, TrapExit, Register, Unregister, GuestExit, Known,
     GuestReturn, Proceed, SpawnName, SpawnRollback, SpawnLink, SpawnStart, SignalDeliver,
     SignalExit, Await, ExitStep, DropNames, Publish, Sweep, DeliverExit, DeliverDown,
     Cascade, Finish

\* A reason is given to a particle when its exit begins, and never changed.
LEMMA ReasonSet ==
    ASSUME TypeOK, [Next]_vars, NEW p \in Pids, reason'[p] # reason[p]
    PROVE  stage[p] = "up" /\ stage'[p] = "unname"
<1>1. ASSUME NEW m, NEW q \in Pids, NEW r, RunExit(m, q, r)
      PROVE  stage[p] = "up" /\ stage'[p] = "unname"
  BY <1>1 DEF RunExit, BeginExit, Live, TypeOK
<1>2. ASSUME NEW m \in Pids, Guest(m) PROVE \E r : RunExit(m, m, r)
  BY <1>2 DEF Guest, Link, Unlink, Monitor, MonitorUnknown, Demonitor, TrapExit,
     Register, Unregister, GuestExit, GuestReturn, exitVars
<1>3. ASSUME NEW m \in Tasks, Proceed(m)
      PROVE  call[m].pid \in Pids /\ RunExit(m, call[m].pid, call[m].reason)
  <2>1. SignalExit(m)
    BY <1>3 DEF Proceed, SpawnName, SpawnRollback, SpawnLink, SpawnStart, SignalDeliver,
       Await, exitVars
  <2> QED
    BY <2>1, CallFields DEF SignalExit, Ops
<1>4. ASSUME NEW q \in Pids, ExitStep(q) PROVE stage[p] = "up" /\ stage'[p] = "unname"
  <2>1. PICK k \in Pids : Cascade(q, k)
    BY <1>4 DEF ExitStep, DropNames, Publish, Sweep, DeliverExit, DeliverDown, Finish,
       exitVars
  <2> QED
    BY <2>1 DEF Cascade, BeginExit, Live, TypeOK
<1>5. ASSUME NEW m \in Tasks, AnyTask(m) PROVE FALSE
  BY <1>5 DEF AnyTask, Spawn, ExitSignal, PeerExit, exitVars
<1> QED
  BY <1>1, <1>2, <1>3, <1>4, <1>5 DEF Next, vars, exitVars

\* A call is about the pid it was about before, or about one that is there.
LEMMA CallTargets ==
    ASSUME TypeOK, [Next]_vars, NEW m \in Tasks, call'[m].op \in Ops
    PROVE  \/ call'[m].pid = call[m].pid /\ call[m].op \in Ops
           \/ call'[m].pid \in Pids /\ stage'[call'[m].pid] # "unborn"
<1> USE DEF TypeOK
<1>1. ASSUME NEW k \in Tasks, NEW q \in Pids, NEW r \in Reasons, RunExit(k, q, r)
      PROVE  \/ call'[m].pid = call[m].pid /\ call[m].op \in Ops
             \/ call'[m].pid \in Pids /\ stage'[call'[m].pid] # "unborn"
  <2>1. CASE m # k
    BY <1>1, <2>1, BusyAt, ReturnAt DEF RunExit
  <2>2. CASE m = k /\ call' = Return(k)
    BY <2>2, ReturnAt
  <2>3. CASE m = k /\ call' = Busy(k, "await", q, r) /\ BeginExit(q, r)
    BY <2>3, BusyAt DEF BeginExit
  <2> QED
    BY <1>1, <2>1, <2>2, <2>3 DEF RunExit
<1>2. ASSUME NEW k \in Tasks, NEW q \in Pids, NEW n \in Names \cup {NoName},
             NEW lk \in BOOLEAN, Spawn(k, q, n, lk)
      PROVE  \/ call'[m].pid = call[m].pid /\ call[m].op \in Ops
             \/ call'[m].pid \in Pids /\ stage'[call'[m].pid] # "unborn"
  BY <1>2 DEF Spawn, Idle
<1>3. ASSUME NEW k \in Tasks, NEW t \in Pids, NEW r \in Reasons,
             ExitSignal(k, t, r) \/ PeerExit(k, t, r)
      PROVE  \/ call'[m].pid = call[m].pid /\ call[m].op \in Ops
             \/ call'[m].pid \in Pids /\ stage'[call'[m].pid] # "unborn"
  <2>1. PICK op, x : Live(t) /\ call' = Busy(k, op, t, x)
    BY <1>3 DEF ExitSignal, PeerExit, DirectedExit, InheritedExit
  <2>2. UNCHANGED stage
    BY <1>3 DEF ExitSignal, PeerExit
  <2> QED
    BY <2>1, <2>2, BusyAt DEF Live
<1>4. ASSUME NEW k \in Pids, Guest(k)
      PROVE  UNCHANGED call \/ \E r \in Reasons : RunExit(k, k, r)
  <2>1. ExitReasons \subseteq Reasons /\ {"normal", "exception"} \subseteq Reasons
    BY RegistryAssumption DEF Reasons
  <2> QED
    BY <1>4, <2>1 DEF Guest, Link, Unlink, Monitor, MonitorUnknown, Demonitor, TrapExit,
       Register, Unregister, GuestExit, GuestReturn
<1>5. ASSUME NEW k \in Tasks, Proceed(k)
      PROVE  \/ call'[m].pid = call[m].pid /\ call[m].op \in Ops
             \/ call'[m].pid \in Pids /\ stage'[call'[m].pid] # "unborn"
  <2>1. CASE SpawnName(k)
    BY <2>1 DEF SpawnName, Ops
  <2>2. CASE SpawnLink(k)
    BY <2>2 DEF SpawnLink, Ops
  <2>3. CASE call' = Return(k)
    BY <2>3 DEF Return, Idle, Ops
  <2>4. CASE SignalExit(k)
    BY <2>4, <1>1, CallFields DEF SignalExit, Ops
  <2> QED
    BY <1>5, <2>1, <2>2, <2>3, <2>4 DEF Proceed, SpawnRollback, SpawnStart, SignalDeliver,
       Await
<1>6. ASSUME NEW q \in Pids, ExitStep(q) PROVE UNCHANGED call
  BY <1>6 DEF ExitStep, DropNames, Publish, Sweep, DeliverExit, DeliverDown, Cascade, Finish
<1>7. ASSUME NEW k \in Tasks, AnyTask(k)
      PROVE  \/ call'[m].pid = call[m].pid /\ call[m].op \in Ops
             \/ call'[m].pid \in Pids /\ stage'[call'[m].pid] # "unborn"
  <2>1. ExitReasons \subseteq Reasons /\ Known \subseteq Pids
    BY RegistryAssumption DEF Reasons, Known
  <2> HIDE DEF TypeOK
  <2>2. CASE \E p \in Pids, n \in Names \cup {NoName}, lk \in BOOLEAN : Spawn(k, p, n, lk)
    BY <2>2, <1>2
  <2>3. CASE \E t \in Known, r \in ExitReasons : ExitSignal(k, t, r) \/ PeerExit(k, t, r)
    BY <2>1, <2>3, <1>3
  <2> QED
    BY <1>7, <2>2, <2>3 DEF AnyTask
<1>8. Pids \subseteq Tasks
  BY TaskPids
<1> QED
  BY <1>1, <1>4, <1>5, <1>6, <1>7, <1>8 DEF Next, vars

-----------------------------------------------------------------------------

\* What a pid that was never handed out cannot be involved in.  It is what the
\* invariants below need of Spawn, which makes such a pid live.
Unborn(p) == stage[p] = "unborn"

NothingUnborn ==
    /\ \A p \in Pids : Unborn(p) => links[p] = {} /\ reason[p] = "normal" /\ p \notin running
    /\ \A p \in Pids : \A q \in links[p] : ~Unborn(q)
    /\ \A p \in Pids : \A x \in monitoredBy[p] : ~Unborn(x[1])
    /\ \A m \in Tasks : call[m].op \in Ops => ~Unborn(call[m].pid)

\* Birth is final.
LEMMA StaysBorn ==
    ASSUME TypeOK, [Next]_vars, NEW p \in Pids, ~Unborn(p)
    PROVE  ~Unborn(p)'
  BY LifeCycle DEF StageMoves, Unborn

LEMMA NothingUnbornLinks ==
    ASSUME TypeOK, NothingUnborn, [Next]_vars
    PROVE  /\ \A p \in Pids : Unborn(p)' => links'[p] = {}
           /\ \A p \in Pids : \A q \in links'[p] : ~Unborn(q)'
<1> SUFFICES /\ \A p \in Pids : Unborn(p) => links'[p] = {}
             /\ \A p \in Pids : \A q \in links'[p] : q \in Pids /\ ~Unborn(q)
  BY StaysBorn
<1> USE DEF TypeOK, NothingUnborn, Unborn, Live
<1>1. ASSUME NEW m \in Pids, NEW t \in Known, Link(m, t)
      PROVE  \/ UNCHANGED links
             \/ ~Unborn(m) /\ ~Unborn(t) /\ links' = LinkBoth(m, t)
  BY <1>1 DEF Link
<1>2. ASSUME NEW m \in Tasks, SpawnLink(m)
      PROVE  \/ UNCHANGED links
             \/ /\ m \in Pids /\ ~Unborn(m)
                /\ call[m].pid \in Pids /\ ~Unborn(call[m].pid)
                /\ links' = LinkBoth(m, call[m].pid)
  BY <1>2, CallFields DEF SpawnLink, Ops
<1>3. ASSUME NEW m \in Pids, NEW t \in Pids, ~Unborn(m), ~Unborn(t), links' = LinkBoth(m, t)
      PROVE  /\ \A p \in Pids : Unborn(p) => links'[p] = {}
             /\ \A p \in Pids : \A q \in links'[p] : q \in Pids /\ ~Unborn(q)
  BY <1>3 DEF LinkBoth
<1>4. ASSUME NEW m \in Pids, NEW t \in Known, Unlink(m, t)
      PROVE  \A p \in Pids : links'[p] \subseteq links[p]
  BY <1>4 DEF Unlink
<1>5. ASSUME NEW p \in Pids, Sweep(p)
      PROVE  \A q \in Pids : links'[q] \subseteq links[q]
  BY <1>5 DEF Sweep, LinksWithout
<1>6. \/ UNCHANGED links
      \/ \E m \in Pids, t \in Known : Link(m, t) \/ Unlink(m, t)
      \/ \E m \in Tasks : SpawnLink(m)
      \/ \E p \in Pids : Sweep(p)
  BY LinksFrame
<1>7. Known \subseteq Pids
  BY DEF Known
<1>8. CASE \A p \in Pids : links'[p] \subseteq links[p]
  BY <1>8
<1>9. CASE UNCHANGED links
  BY <1>9
<1> QED
  BY <1>1, <1>2, <1>3, <1>4, <1>5, <1>6, <1>7, <1>8, <1>9

LEMMA NothingUnbornStep ==
    ASSUME TypeOK, NothingUnborn, [Next]_vars
    PROVE  NothingUnborn'
<1> USE DEF Unborn
<1>1. \A p \in Pids : Unborn(p)' => reason'[p] = "normal"
  <2>1. ASSUME NEW p \in Pids, reason'[p] # reason[p] PROVE stage'[p] = "unname"
    BY <2>1, ReasonSet
  <2> QED
    BY <2>1, StaysBorn DEF NothingUnborn
<1>2. \A p \in Pids : Unborn(p)' => p \notin running'
  <2>1. ASSUME NEW m \in Tasks, NEW ok \in BOOLEAN, SpawnStart(m, ok)
        PROVE  \A p \in running' : p \in Pids /\ ~Unborn(p)
    <3>1. call[m].pid \in Pids /\ ~Unborn(call[m].pid)
      BY <2>1, CallFields DEF SpawnStart, Ops, NothingUnborn
    <3> QED
      BY <2>1, <3>1 DEF SpawnStart, NothingUnborn, TypeOK
  <2>2. running' \subseteq running \/ \E m \in Tasks, ok \in BOOLEAN : SpawnStart(m, ok)
    BY ZenonT(60) DEF Next, vars, AnyTask, Spawn, ExitSignal, PeerExit, Guest, Link, Unlink,
       Monitor, MonitorUnknown, Demonitor, TrapExit, Register, Unregister, GuestExit,
       GuestReturn, Proceed, SpawnName, SpawnRollback, SpawnLink, SignalDeliver,
       SignalExit, Await, ExitStep, DropNames, Publish, Sweep, DeliverExit, DeliverDown,
       Cascade, Finish
  <2> QED
    BY <2>1, <2>2, StaysBorn DEF NothingUnborn
<1>3. \A p \in Pids : \A x \in monitoredBy'[p] : ~Unborn(x[1])'
  <2>1. ASSUME NEW m \in Pids, NEW t \in Pids, Monitor(m, t)
        PROVE  \A p \in Pids : \A x \in monitoredBy'[p] : x[1] \in Pids /\ ~Unborn(x[1])
    BY <2>1 DEF Monitor, NothingUnborn, TypeOK
  <2>2. ASSUME NEW m \in Pids, NEW r \in Refs, Demonitor(m, r)
        PROVE  \A p \in Pids : \A x \in monitoredBy'[p] : x[1] \in Pids /\ ~Unborn(x[1])
    BY <2>2 DEF Demonitor, NothingUnborn, TypeOK
  <2>3. CASE UNCHANGED monitoredBy
    BY <2>3, StaysBorn DEF NothingUnborn, TypeOK
  <2>4. \/ UNCHANGED monitoredBy
        \/ \E m, t \in Pids : Monitor(m, t)
        \/ \E m \in Pids, r \in Refs : Demonitor(m, r)
    BY WatchFrame
  <2> QED
    BY <2>1, <2>2, <2>3, <2>4, StaysBorn
<1>4. ASSUME NEW m \in Tasks, call'[m].op \in Ops PROVE stage'[call'[m].pid] # "unborn"
  <2>1. CASE call'[m].pid = call[m].pid /\ call[m].op \in Ops
    BY <2>1, StaysBorn, CallFields DEF NothingUnborn
  <2>2. CASE call'[m].pid \in Pids /\ stage'[call'[m].pid] # "unborn"
    BY <2>2
  <2> QED
    BY <1>4, <2>1, <2>2, CallTargets
<1> QED
  BY <1>1, <1>2, <1>3, <1>4, NothingUnbornLinks DEF NothingUnborn

\* A pid that was never handed out is in no table and in no call.
LEMMA RegistryNothingUnborn == Spec => [](TypeOK /\ NothingUnborn)
<1>1. Init => NothingUnborn
  BY DEF Init, NothingUnborn, Idle, Ops
<1>2. TypeOK /\ NothingUnborn /\ [Next]_vars => NothingUnborn'
  BY NothingUnbornStep
<1> QED
  BY <1>1, <1>2, RegistryTypeOK, PTL DEF Spec

-----------------------------------------------------------------------------

\* The links of a particle that is not up are nobody's to change.
LEMMA DeadLinksFixed ==
    ASSUME TypeOK, [Next]_vars, NEW p \in Pids, ~Live(p)
    PROVE  links'[p] = links[p]
<1> USE DEF TypeOK, Live
<1>1. ASSUME NEW m \in Pids, NEW t \in Pids, Link(m, t) PROVE links'[p] = links[p]
  BY <1>1 DEF Link, LinkBoth
<1>2. ASSUME NEW m \in Pids, NEW t \in Pids, Unlink(m, t) PROVE links'[p] = links[p]
  BY <1>2 DEF Unlink
<1>3. ASSUME NEW m \in Tasks, SpawnLink(m) PROVE links'[p] = links[p]
  BY <1>3 DEF SpawnLink, LinkBoth
<1>4. ASSUME NEW q \in Pids, Sweep(q) PROVE links'[p] = links[p]
  BY <1>4 DEF Sweep, LinksWithout
<1>5. Known \subseteq Pids
  BY DEF Known
<1> QED
  BY <1>1, <1>2, <1>3, <1>4, <1>5, LinksFrame

\* A link is never left with one end: LinksAreMutual is inductive with what is
\* known of unborn pids.  The sweep of an exit needs it most: whoever still
\* holds the dead particle is found from the dead particle's own links.
LEMMA LinksAreMutualStep ==
    ASSUME TypeOK, NothingUnborn, LinksAreMutual, [Next]_vars
    PROVE  LinksAreMutual'
<1> USE DEF TypeOK, Live, Unswept
<1>1. ASSUME NEW m \in Pids, NEW t \in Pids, Live(m), Live(t), links' = LinkBoth(m, t),
             UNCHANGED stage
      PROVE  LinksAreMutual'
  BY <1>1 DEF LinkBoth, LinksAreMutual
<1>2. ASSUME NEW m \in Pids, NEW t \in Pids, Unlink(m, t) PROVE LinksAreMutual'
  <2>1. /\ UNCHANGED stage
        /\ \A p \in Pids : links'[p] \subseteq links[p]
        /\ \A p \in Pids : \A q \in links[p] :
              q \notin links'[p] => Live(p) /\ {p, q} = {m, t}
    BY <1>2 DEF Unlink
  <2>2. ASSUME NEW p \in Pids, Live(p), NEW q \in links'[p], p \in links[q], q \in Pids
        PROVE  p \in links'[q]
    <3>1. q \in links[p]
      BY <2>1
    <3>2. CASE p \notin links'[q]
      <4>1. {p, q} = {m, t} /\ Live(q)
        BY <2>1, <2>2, <3>2, ZenonT(60)
      <4>2. q \notin links'[p]
        BY <4>1, <2>2, <1>2 DEF Unlink
      <4> QED
        BY <4>2
    <3> QED
      BY <3>2
  <2> QED
    BY <2>1, <2>2 DEF LinksAreMutual
<1>3. ASSUME NEW s \in Pids, Sweep(s) PROVE LinksAreMutual'
  <2>1. /\ stage' = [stage EXCEPT ![s] = "deliver"]
        /\ stage[s] = "sweep"
        /\ links' = LinksWithout(s)
    BY <1>3 DEF Sweep
  <2>2. ASSUME NEW p \in Pids, Live(p), NEW q \in links'[p]
        PROVE  q \in links[p] /\ q # s
    BY <2>1, <2>2 DEF LinksWithout, LinksAreMutual
  <2>3. ASSUME NEW p \in Pids, p # s, NEW q \in Pids, p \in links[q]
        PROVE  p \in links'[q]
    BY <2>1, <2>3 DEF LinksWithout
  <2> QED
    BY <2>1, <2>2, <2>3 DEF LinksAreMutual
<1>4. CASE UNCHANGED links /\ \A s \in Pids : ~Sweep(s)
  <2> SUFFICES ASSUME NEW p \in Pids, stage'[p] = "up", NEW q \in links[p]
               PROVE  \/ stage'[q] = "undone"
                      \/ stage'[q] \in {"up", "unname", "publish", "sweep"} /\ p \in links[q]
    BY <1>4 DEF LinksAreMutual
  <2>1. stage[p] = "up" /\ q \in Pids
    BY LifeCycle DEF StageMoves, NothingUnborn, Unborn
  <2>2. stage'[q] # "deliver" \/ stage[q] = "deliver"
    BY <2>1, <1>4, LifeCycle
  <2> QED
    BY <2>1, <2>2, LifeCycle DEF LinksAreMutual, StageMoves
<1>5. ASSUME NEW m \in Pids, NEW t \in Pids, Link(m, t) PROVE LinksAreMutual'
  <2>1. CASE Live(m) /\ Live(t)
    BY <1>5, <2>1, <1>1 DEF Link
  <2>2. CASE ~(Live(m) /\ Live(t))
    BY <1>5, <2>2 DEF Link, LinksAreMutual
  <2> QED
    BY <2>1, <2>2
<1>6. ASSUME NEW m \in Tasks, SpawnLink(m) PROVE LinksAreMutual'
  <2>1. call[m].pid \in Pids
    BY <1>6, CallFields DEF SpawnLink, Ops
  <2>2. CASE Live(m) /\ Live(call[m].pid)
    BY <1>6, <2>1, <2>2, <1>1 DEF SpawnLink
  <2>3. CASE ~(Live(m) /\ Live(call[m].pid))
    BY <1>6, <2>3 DEF SpawnLink, LinksAreMutual
  <2> QED
    BY <2>2, <2>3
<1>7. Known \subseteq Pids
  BY DEF Known
<1> QED
  BY <1>2, <1>3, <1>4, <1>5, <1>6, <1>7, LinksFrame

\* No particle is left holding one end of a link, except to a spawn that was
\* rolled back: link, unlink, spawn_link and the sweep of exit_particle in any
\* interleaving.
THEOREM RegistryLinksAreMutual == Spec => []LinksAreMutual
<1>1. Init => LinksAreMutual
  BY DEF Init, LinksAreMutual
<1> QED
  BY <1>1, LinksAreMutualStep, RegistryNothingUnborn, PTL DEF Spec

-----------------------------------------------------------------------------

\* Nothing that was pushed to a mailbox is taken back.
LEMMA InboxGrows ==
    ASSUME TypeOK, [Next]_vars, NEW p \in Pids
    PROVE  inbox[p] \subseteq inbox'[p]
<1> USE DEF TypeOK
<1>1. ASSUME NEW m \in Pids, Guest(m) PROVE inbox[p] \subseteq inbox'[p]
  BY <1>1 DEF Guest, Link, Unlink, Monitor, MonitorUnknown, Demonitor, TrapExit,
     Register, Unregister, GuestExit, GuestReturn, Deliver
<1>2. ASSUME NEW m \in Tasks, Proceed(m) PROVE inbox[p] \subseteq inbox'[p]
  BY <1>2 DEF Proceed, SpawnName, SpawnRollback, SpawnLink, SpawnStart, SignalDeliver,
     SignalExit, Await, Deliver
<1>3. ASSUME NEW q \in Pids, ExitStep(q) PROVE inbox[p] \subseteq inbox'[p]
  <2>1. ASSUME NEW k \in Pids, DeliverExit(q, k) PROVE inbox[p] \subseteq inbox'[p]
    BY <2>1 DEF DeliverExit
  <2>2. ASSUME NEW w \in Pids, NEW r \in Refs, DeliverDown(q, w, r)
        PROVE  inbox[p] \subseteq inbox'[p]
    BY <2>2 DEF DeliverDown
  <2> QED
    BY <1>3, <2>1, <2>2 DEF ExitStep, DropNames, Publish, Sweep, Cascade, Finish
<1>4. ASSUME NEW m \in Tasks, AnyTask(m) PROVE inbox[p] \subseteq inbox'[p]
  BY <1>4 DEF AnyTask, Spawn, ExitSignal, PeerExit
<1> QED
  BY <1>1, <1>2, <1>3, <1>4 DEF Next, vars

\* What a swept exit still owes leaves its lists only by being done.
LEMMA OwedIsDone ==
    ASSUME TypeOK, [Next]_vars, NEW p \in Pids, Swept(p)
    PROVE  /\ \A q \in killing[p] : q \in killing'[p] \/ ~Live(q)'
           /\ \A q \in exitTo[p] : q \in exitTo'[p] \/ Exit(p, reason[p]) \in inbox'[q]
           /\ \A x \in downTo[p] :
                 x \in downTo'[p] \/ Down(p, x[2], reason[p]) \in inbox'[x[1]]
<1> DEFINE Goal ==
           /\ \A q \in killing[p] : q \in killing'[p] \/ ~Live(q)'
           /\ \A q \in exitTo[p] : q \in exitTo'[p] \/ Exit(p, reason[p]) \in inbox'[q]
           /\ \A x \in downTo[p] :
                 x \in downTo'[p] \/ Down(p, x[2], reason[p]) \in inbox'[x[1]]
<1>1. CASE UNCHANGED <<exitTo, downTo, killing>>
  BY <1>1
<1>2. ASSUME NEW s \in Pids, Sweep(s) PROVE Goal
  <2>1. p # s
    BY <1>2 DEF Sweep, Swept
  <2> QED
    BY <1>2, <2>1 DEF Sweep, TypeOK
<1>3. ASSUME NEW s \in Pids, NEW q \in Pids, DeliverExit(s, q) PROVE Goal
  <2>1. UNCHANGED <<downTo, killing>>
    BY <1>3 DEF DeliverExit
  <2>2. ASSUME NEW x \in exitTo[p], x \notin exitTo'[p]
        PROVE  p = s /\ x = q
    BY <1>3, <2>2 DEF DeliverExit, TypeOK
  <2>3. Exit(s, reason[s]) \in inbox'[q]
    BY <1>3 DEF DeliverExit, TypeOK
  <2> QED
    BY <2>1, <2>2, <2>3
<1>4. ASSUME NEW s \in Pids, NEW w \in Pids, NEW r \in Refs, DeliverDown(s, w, r) PROVE Goal
  <2>1. UNCHANGED <<exitTo, killing>>
    BY <1>4 DEF DeliverDown
  <2>2. ASSUME NEW x \in downTo[p], x \notin downTo'[p]
        PROVE  p = s /\ x = <<w, r>>
    BY <1>4, <2>2 DEF DeliverDown, TypeOK
  <2>3. Down(s, r, reason[s]) \in inbox'[w]
    BY <1>4 DEF DeliverDown, TypeOK
  <2> QED
    BY <2>1, <2>2, <2>3
<1>5. ASSUME NEW s \in Pids, NEW q \in Pids, Cascade(s, q) PROVE Goal
  <2>1. ~Live(q)'
    BY <1>5 DEF Cascade, BeginExit, Live, TypeOK
  <2> QED
    BY <1>5, <2>1 DEF Cascade, TypeOK
<1>6. \/ UNCHANGED <<exitTo, downTo, killing>>
      \/ \E s \in Pids : Sweep(s)
      \/ \E s, q \in Pids : DeliverExit(s, q) \/ Cascade(s, q)
      \/ \E s, w \in Pids, r \in Refs : DeliverDown(s, w, r)
  <2>1. ASSUME NEW m \in Pids, Guest(m) PROVE UNCHANGED <<exitTo, downTo, killing>>
    BY <2>1 DEF Guest, Link, Unlink, Monitor, MonitorUnknown, Demonitor, TrapExit,
       Register, Unregister, GuestExit, GuestReturn, exitVars
  <2>2. ASSUME NEW m \in Tasks, Proceed(m) PROVE UNCHANGED <<exitTo, downTo, killing>>
    BY <2>2 DEF Proceed, SpawnName, SpawnRollback, SpawnLink, SpawnStart, SignalDeliver,
       SignalExit, Await, exitVars
  <2>3. ASSUME NEW m \in Tasks, AnyTask(m) PROVE UNCHANGED <<exitTo, downTo, killing>>
    BY <2>3 DEF AnyTask, Spawn, ExitSignal, PeerExit, exitVars
  <2>4. ASSUME NEW s \in Pids, DropNames(s) \/ Publish(s) \/ Finish(s)
        PROVE  UNCHANGED <<exitTo, downTo, killing>>
    BY <2>4 DEF DropNames, Publish, Finish, exitVars
  <2> QED
    BY <2>1, <2>2, <2>3, <2>4 DEF Next, ExitStep, vars, exitVars
<1> QED
  BY <1>1, <1>2, <1>3, <1>4, <1>5, <1>6

\* Only a particle that was there can be there after a step, once Spawn's is
\* set apart; and a swept exit stays swept, with its reason.
LEMMA SweptStep ==
    ASSUME TypeOK, [Next]_vars, NEW p \in Pids, Swept(p)'
    PROVE  /\ Swept(p) \/ Sweep(p)
           /\ reason'[p] = reason[p]
           /\ ~Live(p)
<1>1. stage[p] \in {"sweep", "deliver", "done"}
  BY LifeCycle DEF Swept, StageMoves
<1>2. reason'[p] = reason[p]
  BY <1>1, ReasonSet
<1>3. Swept(p) \/ Sweep(p)
  BY <1>1, LifeCycle DEF Swept, StageMoves
<1> QED
  BY <1>1, <1>2, <1>3 DEF Live

LEMMA AbnormalDeathStep ==
    ASSUME TypeOK, NothingUnborn, AbnormalDeathReachesLinks, [Next]_vars
    PROVE  AbnormalDeathReachesLinks'
<1> SUFFICES ASSUME NEW p \in Pids, Swept(p)', IsAbnormal(reason'[p]),
                    NEW q \in links'[p], Live(q)'
             PROVE  \/ q \in killing'[p]
                    \/ q \in exitTo'[p]
                    \/ Exit(p, reason'[p]) \in inbox'[q]
  BY DEF AbnormalDeathReachesLinks
<1>1. /\ Swept(p) \/ Sweep(p)
      /\ reason'[p] = reason[p]
      /\ ~Live(p)
  BY SweptStep
<1>2. q \in links[p] /\ q \in Pids
  BY <1>1, DeadLinksFixed DEF TypeOK
<1>3. Live(q)
  BY <1>2, LifeCycle DEF Live, StageMoves, NothingUnborn, Unborn
<1>4. CASE Swept(p)
  <2>1. \/ q \in killing[p]
        \/ q \in exitTo[p]
        \/ Exit(p, reason[p]) \in inbox[q]
    BY <1>1, <1>2, <1>3, <1>4 DEF AbnormalDeathReachesLinks
  <2> QED
    BY <2>1, <1>1, <1>2, <1>4, OwedIsDone, InboxGrows
<1>5. CASE Sweep(p)
  BY <1>1, <1>2, <1>3, <1>5 DEF Sweep, ExitDeliveries, CascadeKills, TypeOK
<1> QED
  BY <1>1, <1>4, <1>5

\* An abnormal death is never missed by a linked particle: whatever its peers
\* did between the removal of its state and the sweep, and whoever else was
\* exiting.
THEOREM RegistryAbnormalDeath == Spec => []AbnormalDeathReachesLinks
<1>1. Init => AbnormalDeathReachesLinks
  BY DEF Init, AbnormalDeathReachesLinks
<1> QED
  BY <1>1, AbnormalDeathStep, RegistryNothingUnborn, PTL DEF Spec

-----------------------------------------------------------------------------

LEMMA DeathReachesWatchersStep ==
    ASSUME TypeOK, NothingUnborn, DeathReachesWatchers, [Next]_vars
    PROVE  DeathReachesWatchers'
<1> SUFFICES ASSUME NEW p \in Pids, Swept(p)', NEW x \in monitoredBy'[p], Live(x[1])'
             PROVE  x \in downTo'[p] \/ Down(p, x[2], reason'[p]) \in inbox'[x[1]]
  BY DEF DeathReachesWatchers
<1>1. /\ Swept(p) \/ Sweep(p)
      /\ reason'[p] = reason[p]
      /\ ~Live(p)
  BY SweptStep
<1>2. x \in monitoredBy[p]
  <2>1. ASSUME NEW m \in Pids, NEW t \in Pids, Monitor(m, t) PROVE x \in monitoredBy[p]
    BY <2>1, <1>1 DEF Monitor, TypeOK
  <2>2. ASSUME NEW m \in Pids, NEW r \in Refs, Demonitor(m, r) PROVE x \in monitoredBy[p]
    BY <2>2, <1>1 DEF Demonitor, TypeOK
  <2> QED
    BY <2>1, <2>2, WatchFrame
<1>3. x[1] \in Pids /\ x[2] \in Refs
  BY <1>2 DEF TypeOK
<1>4. Live(x[1])
  BY <1>2, <1>3, LifeCycle DEF Live, StageMoves, NothingUnborn, Unborn
<1>5. CASE Swept(p)
  <2>1. x \in downTo[p] \/ Down(p, x[2], reason[p]) \in inbox[x[1]]
    BY <1>2, <1>4, <1>5 DEF DeathReachesWatchers
  <2> QED
    BY <2>1, <1>1, <1>3, <1>5, OwedIsDone, InboxGrows
<1>6. CASE Sweep(p)
  BY <1>2, <1>4, <1>6 DEF Sweep, DownDeliveries, TypeOK
<1> QED
  BY <1>1, <1>5, <1>6

\* Every monitor that took hold is answered by the death of its target.
THEOREM RegistryDeathReachesWatchers == Spec => []DeathReachesWatchers
<1>1. Init => DeathReachesWatchers
  BY DEF Init, DeathReachesWatchers
<1> QED
  BY <1>1, DeathReachesWatchersStep, RegistryNothingUnborn, PTL DEF Spec

-----------------------------------------------------------------------------

\* No step frees or passes on a name but its holder's exit and its holder's own
\* unregister.
THEOREM RegistryNamesKeepTheirHolder == Spec => NamesKeepTheirHolder
<1> DEFINE Keeps == \A n \in Names : names[n] # NoPid /\ names'[n] # names[n] =>
          /\ names'[n] = NoPid
          /\ stage[names[n]] = "unname" \/ Unregister(names[n], n)
<1>1. TypeOK /\ [Next]_vars => [Keeps]_vars
  <2> SUFFICES ASSUME TypeOK, Next PROVE Keeps
    BY DEF vars
  <2>1. ASSUME NEW m \in Tasks, SpawnName(m) PROVE Keeps
    BY <2>1 DEF SpawnName, TypeOK
  <2>2. ASSUME NEW m \in Pids, NEW n \in Names, Register(m, n) PROVE Keeps
    BY <2>2 DEF Register, TypeOK
  <2>3. ASSUME NEW m \in Pids, NEW n \in Names, Unregister(m, n) PROVE Keeps
    <3>1. \A k \in Names : names'[k] # names[k] => k = n /\ names'[k] = NoPid
      BY <2>3 DEF Unregister, TypeOK
    <3>2. names[n] = m
      BY <2>3 DEF Unregister
    <3> QED
      BY <2>3, <3>1, <3>2
  <2>4. ASSUME NEW p \in Pids, DropNames(p) PROVE Keeps
    BY <2>4 DEF DropNames, TypeOK
  <2>5. CASE UNCHANGED names
    BY <2>5
  <2>6. \/ UNCHANGED names
        \/ \E m \in Tasks : SpawnName(m)
        \/ \E m \in Pids, n \in Names : Register(m, n) \/ Unregister(m, n)
        \/ \E p \in Pids : DropNames(p)
    BY ZenonT(60) DEF Next, AnyTask, Spawn, ExitSignal, PeerExit, Guest, Link, Unlink, Monitor,
       MonitorUnknown, Demonitor, TrapExit, GuestExit, GuestReturn, Proceed,
       SpawnRollback, SpawnLink, SpawnStart, SignalDeliver, SignalExit, Await, ExitStep,
       Publish, Sweep, DeliverExit, DeliverDown, Cascade, Finish
  <2> HIDE DEF Keeps
  <2> QED
    BY <2>1, <2>2, <2>3, <2>4, <2>5, <2>6
<1> QED
  BY <1>1, RegistryTypeOK, PTL DEF Spec, NamesKeepTheirHolder

-----------------------------------------------------------------------------

\* A guest on its way to push an Exit is not pushing a kill.
NoGuestDeliversKill ==
    \A m \in Pids : call[m].op = "signal_deliver" => call[m].reason # "kill"

KillInv == SentKillIsNeverTrapped /\ NoGuestDeliversKill

LEMMA NoGuestDeliversKillStep ==
    ASSUME TypeOK, NoGuestDeliversKill, [Next]_vars
    PROVE  NoGuestDeliversKill'
<1> SUFFICES ASSUME NEW m \in Pids, call'[m].op = "signal_deliver"
             PROVE  call'[m].reason # "kill"
  BY DEF NoGuestDeliversKill
<1> USE TaskPids DEF TypeOK
<1>1. CASE call'[m] = call[m]
  BY <1>1 DEF NoGuestDeliversKill
<1>2. ASSUME NEW k \in Tasks, NEW p \in Pids, NEW n \in Names \cup {NoName},
             NEW lk \in BOOLEAN, Spawn(k, p, n, lk)
      PROVE  call'[m] = call[m]
  BY <1>2 DEF Spawn, Idle
<1>3. ASSUME NEW k \in Tasks, NEW t \in Pids, NEW r, ExitSignal(k, t, r)
      PROVE  call'[m].reason # "kill"
  <2>1. PICK op, x : call' = Busy(k, op, t, x) /\ (op = "signal_deliver" => x # "kill")
    BY <1>3 DEF ExitSignal, DirectedExit, InheritedExit
  <2>2. CASE k = m
    BY <2>1, <2>2, BusyAt
  <2>3. CASE k # m
    BY <1>1, <2>1, <2>3, BusyAt
  <2> QED
    BY <2>2, <2>3
<1>4. ASSUME NEW k \in Tasks, NEW t \in Pids, NEW r, PeerExit(k, t, r)
      PROVE  call'[m] = call[m]
  <2>1. PICK op, x : call' = Busy(k, op, t, x)
    BY <1>4 DEF PeerExit, InheritedExit
  <2>2. k # m
    BY <1>4, RegistryAssumption DEF PeerExit
  <2> QED
    BY <2>1, <2>2, BusyAt
<1>5. ASSUME NEW k \in Tasks, NEW p \in Pids, NEW r, RunExit(k, p, r)
      PROVE  call'[m] = call[m]
  <2>1. CASE call' = Return(k)
    BY <2>1, ReturnAt DEF Ops
  <2>2. CASE call' = Busy(k, "await", p, r)
    BY <2>2, BusyAt
  <2> QED
    BY <1>5, <2>1, <2>2 DEF RunExit
<1>6. ASSUME NEW k \in Pids, Guest(k) PROVE call'[m] = call[m]
  BY <1>5, <1>6 DEF Guest, Link, Unlink, Monitor, MonitorUnknown, Demonitor, TrapExit,
     Register, Unregister, GuestExit, GuestReturn
<1>7. ASSUME NEW k \in Tasks, Proceed(k) PROVE call'[m] = call[m]
  <2>1. CASE call' = Return(k)
    BY <2>1, ReturnAt DEF Ops
  <2>2. CASE SpawnName(k)
    BY <2>2 DEF SpawnName
  <2>3. CASE SpawnLink(k)
    BY <2>3 DEF SpawnLink
  <2>4. CASE SignalExit(k)
    BY <2>4, <1>5, CallFields DEF SignalExit, Ops
  <2> QED
    BY <1>7, <2>1, <2>2, <2>3, <2>4 DEF Proceed, SpawnRollback, SpawnStart, SignalDeliver,
       Await
<1>8. ASSUME NEW q \in Pids, ExitStep(q) PROVE call'[m] = call[m]
  BY <1>8 DEF ExitStep, DropNames, Publish, Sweep, DeliverExit, DeliverDown, Cascade, Finish
<1>9. ASSUME NEW k \in Tasks, AnyTask(k)
      PROVE  call'[m] = call[m] \/ call'[m].reason # "kill"
  BY <1>2, <1>3, <1>4, <1>9 DEF AnyTask, Known
<1> QED
  BY <1>1, <1>6, <1>7, <1>8, <1>9 DEF Next, vars

LEMMA SentKillStep ==
    ASSUME TypeOK, NothingUnborn, KillInv, [Next]_vars
    PROVE  SentKillIsNeverTrapped'
<1> SUFFICES ASSUME NEW q \in Pids, NEW s \in inbox'[q],
                    s.kind = "exit", s.reason = "kill", s.from \in Pids
             PROVE  ~Live(s.from)' /\ reason'[s.from] = "kill"
  BY DEF SentKillIsNeverTrapped
<1>1. SUFFICES ~Live(s.from) /\ reason[s.from] = "kill"
  BY LifeCycle, ReasonSet DEF Live, StageMoves, NothingUnborn, Unborn
<1> USE DEF TypeOK
<1>2. CASE s \in inbox[q]
  BY <1>2 DEF KillInv, SentKillIsNeverTrapped
<1>3. ASSUME NEW m \in Pids, Guest(m) PROVE s \in inbox[q]
  <2>1. ASSUME NEW t \in Pids, Link(m, t) PROVE s \in inbox[q]
    BY <2>1 DEF Link, Deliver, Exit
  <2>2. ASSUME NEW n \in Names, MonitorUnknown(m, n) PROVE s \in inbox[q]
    BY <2>2 DEF MonitorUnknown, Deliver, Down
  <2> QED
    BY <1>3, <2>1, <2>2 DEF Guest, Unlink, Monitor, Demonitor, TrapExit, Register,
       Unregister, GuestExit, GuestReturn, Known
<1>4. ASSUME NEW m \in Tasks, Proceed(m) PROVE s \in inbox[q]
  <2>1. CASE SignalDeliver(m)
    <3>1. s \in inbox[q] \/ s = Exit(IF m \in Pids THEN m ELSE NoPid, call[m].reason)
      BY <2>1 DEF SignalDeliver, Deliver
    <3>2. m \in Pids => call[m].reason # "kill"
      BY <2>1 DEF SignalDeliver, KillInv, NoGuestDeliversKill
    <3> QED
      BY <3>1, <3>2, RegistryAssumption DEF Exit
  <2> QED
    BY <1>4, <2>1 DEF Proceed, SpawnName, SpawnRollback, SpawnLink, SpawnStart, SignalExit,
       Await
<1>5. ASSUME NEW p \in Pids, ExitStep(p)
      PROVE  s \in inbox[q] \/ (~Live(s.from) /\ reason[s.from] = "kill")
  <2>1. ASSUME NEW k \in Pids, DeliverExit(p, k)
        PROVE  s \in inbox[q] \/ (~Live(s.from) /\ reason[s.from] = "kill")
    <3>1. s \in inbox[q] \/ s = Exit(p, reason[p])
      BY <2>1 DEF DeliverExit
    <3>2. s = Exit(p, reason[p]) => s.from = p /\ s.reason = reason[p]
      BY DEF Exit
    <3>3. ~Live(p)
      BY <2>1 DEF DeliverExit, Live
    <3>4. CASE s = Exit(p, reason[p])
      <4>1. s.from = p /\ reason[p] = "kill"
        BY <3>2, <3>4
      <4> QED
        BY <3>3, <4>1
    <3> QED
      BY <3>1, <3>4
  <2>2. ASSUME NEW w \in Pids, NEW r \in Refs, DeliverDown(p, w, r)
        PROVE  s \in inbox[q]
    <3>1. s \in inbox[q] \/ s = Down(p, r, reason[p])
      BY <2>2 DEF DeliverDown
    <3> QED
      BY <3>1 DEF Down
  <2> QED
    <3>1. ASSUME NEW k \in Pids, Cascade(p, k) PROVE s \in inbox[q]
      BY <3>1 DEF Cascade
    <3>2. CASE DropNames(p) \/ Publish(p) \/ Sweep(p) \/ Finish(p)
      BY <3>2 DEF DropNames, Publish, Sweep, Finish
    <3> QED
      BY <1>5, <2>1, <2>2, <3>1, <3>2 DEF ExitStep
<1>6. ASSUME NEW m \in Tasks, AnyTask(m) PROVE s \in inbox[q]
  BY <1>6 DEF AnyTask, Spawn, ExitSignal, PeerExit
<1> QED
  BY <1>2, <1>3, <1>4, <1>5, <1>6 DEF Next, vars

\* A kill sent to a particle never ends up as an Exit it could trap, whatever
\* it does to trap_exit while the signal is being applied.
THEOREM RegistrySentKill == Spec => []SentKillIsNeverTrapped
<1>1. Init => KillInv
  BY TaskPids DEF Init, KillInv, SentKillIsNeverTrapped, NoGuestDeliversKill, Idle
<1>2. TypeOK /\ NothingUnborn /\ KillInv /\ [Next]_vars => KillInv'
  BY SentKillStep, NoGuestDeliversKillStep DEF KillInv
<1>3. KillInv => SentKillIsNeverTrapped
  BY DEF KillInv
<1> QED
  BY <1>1, <1>2, <1>3, RegistryNothingUnborn, PTL DEF Spec
=============================================================================
