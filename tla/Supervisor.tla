----------------------------- MODULE Supervisor -----------------------------
(***************************************************************************)
(* A static supervisor: the decision core (Supervisor in                   *)
(* crates/plasmoid-sdk/src/supervisor.rs), the loop that drives it as a    *)
(* particle (run_supervisor! in supervise.rs), and the children it starts, *)
(* stops and hears of.                                                     *)
(*                                                                         *)
(* Children of the core are ids, here 1..N in start order; a started       *)
(* child is an instance, numbered in the order of the spawns.  Instances   *)
(* are linked to the supervisor, which traps exits, so an exit pushes an   *)
(* Exit to the front of its mailbox (Registry, Mailbox).  An exit signal   *)
(* is applied before the host call that sends it returns: an instance that *)
(* does not trap is dead by then.                                          *)
(*                                                                         *)
(* Time is a clock that may advance at any moment.  Component names, init  *)
(* arguments and logging are left out; so is the death of the supervisor   *)
(* by a signal from outside.                                               *)
(***************************************************************************)
EXTENDS Integers, Sequences, SequencesExt, FiniteSetsExt

CONSTANTS
    N,              \* number of children
    Strategies,     \* strategies a behaviour may have
    ChildSpecs,     \* what a child may be: its spec, and whether it traps exits
    Intensity,      \* SupFlags.intensity
    Period,         \* SupFlags.period_ms
    Patience,       \* the milliseconds of Shutdown::Timeout
    MaxInst,        \* bound on the instances of a behaviour
    MaxFails,       \* bound on the starts that fail
    MaxNow          \* bound on the clock

ASSUME SupervisorAssumption ==
    /\ {N, Intensity, Period, Patience, MaxInst, MaxFails, MaxNow} \subseteq Nat
    /\ Strategies \subseteq {"one_for_one", "one_for_all", "rest_for_one"}
    /\ ChildSpecs \subseteq [restart : {"permanent", "transient", "temporary"},
                              shutdown : {"brutal_kill", "timeout", "infinity"},
                              traps : BOOLEAN]

Kids == 1..N
Insts == 1..MaxInst
NoInst == 0
NoKid == 0
Times == 0..MaxNow

ExitReasons == {"normal", "shutdown", "exception", "killed"}
WarrantsRestart(r) == r \notin {"normal", "shutdown"}

Start(c) == [op |-> "start", kid |-> c]
Stop(c) == [op |-> "stop", kid |-> c]
GiveUp == [op |-> "give_up", kid |-> NoKid]

VARIABLES
    strategy,   \* SupFlags.strategy
    spec,       \* Supervisor.children, and whether each traps exits
    running,    \* Supervisor.running
    restarts,   \* Supervisor.restarts, oldest first
    live,       \* run_supervisor!'s live: the instance of each child
    pending,    \* its pending: children asked to stop, with their deadlines
    queue,      \* its queue of actions (batches are taken and extended in order)
    phase,      \* the loop: "drain", "wait" (in recv) or "gone"
    mail,       \* Exits in the supervisor's mailbox, as <<instance, reason>>
    state,      \* each instance: "unborn", "up" or "dead"
    kidOf,      \* the child an instance is of
    nextInst,   \* the next instance to be spawned
    fails,      \* how many starts have failed (history)
    ordered,    \* when restarts were ordered, oldest first (history)
    now         \* the clock

conf == <<strategy, spec>>
coreVars == <<running, restarts, ordered>>
loopVars == <<live, pending, queue, phase>>
worldVars == <<mail, state, kidOf, nextInst, fails>>
vars == <<conf, coreVars, loopVars, worldVars, now>>

Up(i) == state[i] = "up"
Traps(i) == spec[kidOf[i]].traps

-----------------------------------------------------------------------------
(* The decision core: pure, from the running flags and the restarts to both  *)
(* again and the actions to take.                                            *)

\* A set of children in start order, and in the reverse of it.
Ascending(S) ==
    CHOOSE s \in [1..Cardinality(S) -> S] : \A i, j \in DOMAIN s : i < j => s[i] < s[j]

Descending(S) ==
    CHOOSE s \in [1..Cardinality(S) -> S] : \A i, j \in DOMAIN s : i < j => s[i] > s[j]

ToStarts(cs) == [k \in DOMAIN cs |-> Start(cs[k])]
ToStops(cs) == [k \in DOMAIN cs |-> Stop(cs[k])]

\* A slip: permanent is taken for transient.
ShouldRestartAbnormal(c, r) ==
    spec[c].restart # "temporary" /\ WarrantsRestart(r)

ShouldRestart(c, r) ==
    \/ spec[c].restart = "permanent"
    \/ spec[c].restart = "transient" /\ WarrantsRestart(r)

Affected(c) ==
    CASE strategy = "one_for_one" -> {c}
      [] strategy = "one_for_all" -> Kids
      [] strategy = "rest_for_one" -> c..N

Survivors(run, c) == Descending({k \in Affected(c) : run[k]})

Returns(k) == spec[k].restart # "temporary"

\* A slip: the restarts are in the order of the stops.
ToRestartBackwards(c) == Descending({k \in Affected(c) : Returns(k)})

ToRestart(c) == Ascending({k \in Affected(c) : Returns(k)})

Repeated(n, t) == [k \in 1..n |-> t]

\* The remembered restarts, popped from the front while before the cutoff.
NotBefore(cutoff) ==
    SubSeq(restarts,
           Min({k \in DOMAIN restarts : restarts[k] >= cutoff} \cup {Len(restarts) + 1}),
           Len(restarts))

\* A slip: what is noted is when a restart expires, not when it was.
RememberedExpiry(n) == NotBefore(now) \o Repeated(n, now + Period)

\* A slip: a fan-out counts as one restart.
RememberedOnce(n) == Append(NotBefore(now - Period), now)

\* n restarts more, which are in the window, without those before it.
Remembered(n) == NotBefore(now - Period) \o Repeated(n, now)

\* shutdown(): stop whatever runs, last child first.
ShutdownActions(run) == ToStops(Descending({c \in Kids : run[c]}))

\* A slip: the shutdown is missing.
GiveUpAtOnce(run) == <<GiveUp>>

GiveUpActions(run) == Append(ShutdownActions(run), GiveUp)

\* on_child_exit.  Which survivors are stopped and which children started
\* again is decided first; then the restarts are counted, and if too many are
\* left everything decided so far is thrown away for a shutdown and GiveUp.
OnChildExit(c, r) ==
    LET gone == [running EXCEPT ![c] = FALSE]
        after == [k \in Kids |-> IF k \in Affected(c) THEN Returns(k) ELSE gone[k]]
        counted == Remembered(Len(ToRestart(c)))
    IN  IF ~ShouldRestart(c, r)
        THEN [run |-> gone, restarts |-> restarts, actions |-> <<>>]
        ELSE IF Len(counted) > Intensity
        THEN [run |-> [k \in Kids |-> FALSE], restarts |-> counted,
              actions |-> GiveUpActions(after)]
        ELSE [run |-> after, restarts |-> counted,
              actions |-> ToStops(Survivors(gone, c)) \o ToStarts(ToRestart(c))]

StartsAmong(actions) == {k \in DOMAIN actions : actions[k].op = "start"}

\* The loop hands an exit to the core and queues what it decides.
Decide(c, r, rest) ==
    \E d \in {OnChildExit(c, r)} :
        /\ running' = d.run
        /\ restarts' = d.restarts
        /\ queue' = rest \o d.actions
        /\ ordered' = ordered \o Repeated(Cardinality(StartsAmong(d.actions)), now)

-----------------------------------------------------------------------------
(* The children *)

\* An instance dies, and the supervisor it is linked to has the Exit.
Die(i, r) ==
    /\ state' = [state EXCEPT ![i] = "dead"]
    /\ mail' = <<<<i, r>>>> \o mail

\* An instance exits of its own accord, perhaps because it was asked to.  What
\* becomes of those that outlive the supervisor is not followed.
ChildExits(i, r) ==
    /\ phase # "gone"
    /\ Up(i)
    /\ Die(i, r)
    /\ UNCHANGED <<conf, coreVars, loopVars, kidOf, nextInst, fails, now>>

\* signal!(key, reason): resolve finds the instance only while it is up.
Signal(i, r) ==
    \/ /\ Up(i) /\ (r = "killed" \/ ~Traps(i))
       /\ Die(i, r)
    \/ /\ ~(Up(i) /\ (r = "killed" \/ ~Traps(i)))
       /\ UNCHANGED <<state, mail>>

-----------------------------------------------------------------------------
(* The loop *)

Init ==
    /\ strategy \in Strategies
    /\ spec \in [Kids -> ChildSpecs]
    /\ running = [c \in Kids |-> TRUE]
    /\ restarts = <<>>
    /\ live = [c \in Kids |-> NoInst]
    /\ pending = {}
    /\ queue = ToStarts(Ascending(Kids))
    /\ phase = "drain"
    /\ mail = <<>>
    /\ state = [i \in Insts |-> "unborn"]
    /\ kidOf = [i \in Insts |-> NoKid]
    /\ nextInst = 1
    /\ fails = 0
    /\ ordered = <<>>
    /\ now = 0

Draining(op) ==
    /\ phase = "drain"
    /\ queue # <<>>
    /\ Head(queue).op = op

DoStart ==
    /\ Draining("start")
    /\ nextInst \in Insts
    /\ live' = [live EXCEPT ![Head(queue).kid] = nextInst]
    /\ state' = [state EXCEPT ![nextInst] = "up"]
    /\ kidOf' = [kidOf EXCEPT ![nextInst] = Head(queue).kid]
    /\ nextInst' = nextInst + 1
    /\ queue' = Tail(queue)
    /\ UNCHANGED <<conf, coreVars, pending, phase, mail, fails, now>>

\* A slip: the core is not told.
StartFailsSilently ==
    /\ Draining("start")
    /\ fails < MaxFails
    /\ fails' = fails + 1
    /\ queue' = Tail(queue)
    /\ UNCHANGED <<conf, coreVars, live, pending, phase, mail, state, kidOf, nextInst, now>>

\* spawn_link fails: the loop reports it to the core as an exit of the child.
StartFails ==
    /\ Draining("start")
    /\ fails < MaxFails
    /\ fails' = fails + 1
    /\ Decide(Head(queue).kid, "exception", Tail(queue))
    /\ UNCHANGED <<conf, live, pending, phase, mail, state, kidOf, nextInst, now>>

StopUnknown ==
    /\ Draining("stop")
    /\ live[Head(queue).kid] = NoInst
    /\ queue' = Tail(queue)
    /\ UNCHANGED <<conf, coreVars, live, pending, phase, worldVars, now>>

\* A slip: a child to be killed is only forgotten.
DoStopForgets ==
    /\ Draining("stop")
    /\ live' = [live EXCEPT ![Head(queue).kid] = NoInst]
    /\ queue' = Tail(queue)
    /\ UNCHANGED <<conf, coreVars, pending, phase, worldVars, now>>

\* A brutal kill forgets the instance at once; the others wait for its Exit,
\* with a deadline or without.
DoStop ==
    /\ Draining("stop")
    /\ LET c == Head(queue).kid
           how == spec[c].shutdown
       IN  /\ live[c] # NoInst
           /\ Signal(live[c], IF how = "brutal_kill" THEN "killed" ELSE "shutdown")
           /\ live' = IF how = "brutal_kill" THEN [live EXCEPT ![c] = NoInst] ELSE live
           /\ pending' = IF how = "timeout" THEN pending \cup {<<c, now + Patience>>}
                         ELSE pending
    /\ queue' = Tail(queue)
    /\ UNCHANGED <<conf, coreVars, phase, kidOf, nextInst, fails, now>>

\* exit(shutdown) and out of the loop: what is linked and does not trap dies
\* with the supervisor.
DoGiveUp ==
    /\ Draining("give_up")
    /\ phase' = "gone"
    /\ state' = [i \in Insts |-> IF Up(i) /\ ~Traps(i) THEN "dead" ELSE state[i]]
    /\ mail' = <<>>
    /\ queue' = <<>>
    /\ UNCHANGED <<conf, coreVars, live, pending, kidOf, nextInst, fails, now>>

\* Everything drained: recv finds nothing and waits.
RecvWait ==
    /\ phase = "drain"
    /\ queue = <<>>
    /\ mail = <<>>
    /\ phase' = "wait"
    /\ UNCHANGED <<conf, coreVars, live, pending, queue, worldVars, now>>

\* recv returns an Exit, at once or after waiting.  The child is the one whose
\* live instance it is, if any still is.
RecvExit ==
    /\ phase \in {"drain", "wait"}
    /\ queue = <<>>
    /\ mail # <<>>
    /\ mail' = Tail(mail)
    /\ phase' = "drain"
    /\ LET i == Head(mail)[1]
           r == Head(mail)[2]
       IN  \/ \E c \in Kids :
                 /\ live[c] = i
                 /\ live' = [live EXCEPT ![c] = NoInst]
                 /\ pending' = {x \in pending : x[1] # c}
                 /\ Decide(c, r, <<>>)
           \/ /\ \A c \in Kids : live[c] # i
              /\ UNCHANGED <<coreVars, live, pending, queue>>
    /\ UNCHANGED <<conf, state, kidOf, nextInst, fails, now>>

\* recv times out at the nearest deadline, perhaps with an Exit just pushed:
\* whatever is live for an overdue child now is killed and forgotten.
RecvTimeout ==
    /\ phase = "wait"
    /\ \E x \in pending : x[2] <= now
    /\ LET overdue == {c \in Kids : \E x \in pending : x[1] = c /\ x[2] <= now}
           killed == {live[c] : c \in overdue} \cap {i \in Insts : Up(i)}
       IN  /\ state' = [i \in Insts |-> IF i \in killed THEN "dead" ELSE state[i]]
           /\ mail' = SetToSeq({<<i, "killed">> : i \in killed}) \o mail
           /\ live' = [c \in Kids |-> IF c \in overdue THEN NoInst ELSE live[c]]
           /\ pending' = {x \in pending : x[1] \notin overdue}
    /\ phase' = "drain"
    /\ UNCHANGED <<conf, coreVars, queue, kidOf, nextInst, fails, now>>

Tick ==
    /\ phase # "gone"
    /\ now < MaxNow
    /\ now' = now + 1
    /\ UNCHANGED <<conf, coreVars, loopVars, worldVars>>

-----------------------------------------------------------------------------

Loop ==
    \/ DoStart
    \/ StartFails
    \/ StopUnknown
    \/ DoStop
    \/ DoGiveUp
    \/ RecvWait
    \/ RecvExit
    \/ RecvTimeout

Next ==
    \/ Loop
    \/ \E i \in Insts, r \in {"normal", "exception"} : ChildExits(i, r)
    \/ Tick

\* The supervisor's loop is a running guest: it takes its next step, and recv
\* returns what is there.  No child has to exit, and no deadline to be met on
\* time.
Spec == Init /\ [][Next]_vars /\ WF_vars(Loop)

-----------------------------------------------------------------------------

\* The variables have their types; in particular what the core remembers of
\* restarts are times at which there was one (forget_restarts_before).
TypeOK ==
    /\ strategy \in Strategies
    /\ spec \in [Kids -> ChildSpecs]
    /\ running \in [Kids -> BOOLEAN]
    /\ restarts \in Seq(Times)
    /\ ordered \in Seq(Times)
    /\ live \in [Kids -> Insts \cup {NoInst}]
    /\ pending \subseteq Kids \X Nat
    /\ queue \in Seq([op : {"start", "stop", "give_up"}, kid : Kids \cup {NoKid}])
    /\ phase \in {"drain", "wait", "gone"}
    /\ mail \in Seq(Insts \X ExitReasons)
    /\ state \in [Insts -> {"unborn", "up", "dead"}]
    /\ kidOf \in [Insts -> Kids \cup {NoKid}]
    /\ nextInst \in Nat
    /\ fails \in Nat
    /\ now \in Times

\* The loop waits and has heard of everything.
Quiet == phase = "wait" /\ mail = <<>>

\* The children a strategy stops and starts in one batch while a deadline
\* keeps running for them: the loop gets those wrong (PermanentIsRestarted).
Disturbed(c) == strategy # "one_for_one" /\ spec[c].shutdown = "timeout"

HasLive(c) == live[c] # NoInst /\ Up(live[c])

\* What the core believes is so: when the loop is quiet, a child it takes for
\* running has a live instance, and every permanent child is taken for running,
\* whatever exits, failed starts and fan-outs went before.
CoreMatchesWorld ==
    Quiet => \A c \in Kids : ~Disturbed(c) =>
        /\ running[c] => HasLive(c)
        /\ spec[c].restart = "permanent" => running[c]

\* A child is never run twice at the same time, where its stop is over before
\* its start: a single child is restarted when it is dead, and a brutal kill
\* is applied at once.  Two starts that fail in one batch can queue a child
\* twice, and the first of the two instances is then forgotten while it runs.
OneInstance ==
    \A i, j \in Insts :
        /\ Up(i) /\ Up(j) /\ kidOf[i] = kidOf[j]
        /\ \/ strategy = "one_for_one"
           \/ spec[kidOf[i]].shutdown = "brutal_kill" /\ fails <= 1
        => i = j

\* More than Intensity restarts in a Period are never ordered, the ends of the
\* window included, however strategy, failed starts and time are mixed.
BrakeHolds ==
    \A i \in DOMAIN ordered : i + Intensity \in DOMAIN ordered =>
        ordered[i + Intensity] > ordered[i] + Period

\* Under one_for_all and rest_for_one a child is never older than one that was
\* started before it and that it may rely on.
LaterChildIsYounger ==
    Quiet /\ strategy # "one_for_one" =>
        \A c, d \in Kids :
            /\ c < d
            /\ live[c] # NoInst /\ live[d] # NoInst
            /\ spec[d].restart # "temporary"
            => live[c] < live[d]

\* A supervisor that gives up leaves no instance behind that it could stop: what
\* is still up traps exits and was merely asked, or is a temporary child whose
\* Stop was thrown away with the fan-out (supervisor.rs 263-303), or was
\* forgotten after two failed starts (OneInstance).
GivesUpCleanly ==
    phase = "gone" => \A i \in Insts : Up(i) =>
        /\ Traps(i)
        /\ spec[kidOf[i]].shutdown = "brutal_kill" =>
              /\ strategy # "one_for_one"
              /\ spec[kidOf[i]].restart = "temporary" \/ fails > 1

\* A permanent child that is down comes back, or the supervisor gives up.
PermanentReturns ==
    \A c \in Kids :
        (spec[c].restart = "permanent" /\ ~Disturbed(c) /\ ~HasLive(c))
            ~> (HasLive(c) \/ phase = "gone")

\* supervisor.rs 59, of a permanent child: "Always restarted."
PermanentIsRestarted ==
    Quiet => \A c \in Kids : spec[c].restart = "permanent" => HasLive(c)
=============================================================================
