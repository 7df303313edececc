-------------------------- MODULE DynamicSupervisor --------------------------
(***************************************************************************)
(* A dynamic supervisor, called by others: DynamicSupervisor in            *)
(* crates/plasmoid-sdk/src/supervisor.rs and the loop that runs it,        *)
(* run_dynamic_supervisor! in supervise.rs, as the Pool of Calls.          *)
(*                                                                         *)
(* A child is an id with a kind: when it is restarted, how it is stopped   *)
(* and whether it traps exits.  A started child is an instance, numbered   *)
(* in the order of the spawns and linked to the pool, which traps exits.   *)
(* Exits go to the front of the pool's mailbox, requests to its back.      *)
(*                                                                         *)
(* Time is left out: a deadline may pass at any moment from when it is     *)
(* set, and a restart may leave the window at any moment (Supervisor has   *)
(* the window itself).                                                     *)
(***************************************************************************)
EXTENDS Calls

CONSTANTS
    Ids,        \* ids of children
    Kinds,      \* what a child may be
    NoKind,     \* not a child
    Intensity,  \* SupFlags.intensity
    MaxExits,   \* bound on the instances that exit of their own accord
    MaxFails    \* bound on the starts that fail

ASSUME PoolAssumption ==
    /\ {Intensity, MaxExits, MaxFails} \subseteq Nat
    /\ IsFiniteSet(Ids)
    /\ Kinds \subseteq [restart : {"permanent", "transient", "temporary"},
                         shutdown : {"brutal_kill", "timeout", "infinity"},
                         traps : BOOLEAN]
    /\ NoKind \notin Kinds
    /\ Ops \subseteq [op : {"start", "terminate"}, id : Ids, kind : Kinds]

\* One instance for each request and one for each exit are all there can be.
Insts == 1..(MaxCalls + MaxExits)
NoInst == 0

VARIABLES
    children,   \* DynamicSupervisor.children: the kind of each, or NoKind
    recent,     \* DynamicSupervisor.restarts: how many are within the window
    live,       \* the loop's live: the instance of each id
    pending,    \* its pending: the ids with a deadline
    queue,      \* its queue of actions
    phase,      \* the loop: "drain", "wait" (in recv), "gave_up" or "killed"
    state,      \* each instance: "unborn", "up" or "dead"
    born,       \* the id and the kind each was started with, once it was
    asked,      \* the instances that were sent a shutdown or a kill (history)
    spoiled,    \* ids the loop has lost track of (history, see below)
    spent       \* exits and failed starts so far (history)

coreVars == <<children, recent>>
loopVars == <<live, pending, queue, phase>>
instVars == <<state, born, asked>>
poolVars == <<coreVars, loopVars, instVars, spoiled, spent>>
poolSpecVars == <<callsVars, poolVars>>

Up(i) == state[i] = "up"
Fresh == Min({i \in Insts : state[i] = "unborn"})
WarrantsRestart(r) == r \notin {"normal", "shutdown"}

ExitMsg(i, r) == [kind |-> "exit", ref |-> 0, n |-> i, reason |-> r]

-----------------------------------------------------------------------------
(* The decision core *)

IsChild(id) == children[id] # NoKind

StartAct(id, kind) == [op |-> "start", id |-> id, kind |-> kind]
StopAct(id, kind) == [op |-> "stop", id |-> id, kind |-> kind]
GiveUpAct == <<[op |-> "give_up"]>>

\* A slip: only giving up is left.
NoShutdown == GiveUpAct

\* shutdown() and GiveUp: whatever is a child is stopped first.
ShutdownAndGiveUp ==
    LET ids == SetToSeq({id \in Ids : IsChild(id)})
    IN  [k \in DOMAIN ids |-> StopAct(ids[k], children[ids[k]])] \o GiveUpAct

ShouldRestart(id, r) ==
    \/ children[id].restart = "permanent"
    \/ children[id].restart = "transient" /\ WarrantsRestart(r)

\* A slip: what does not come back keeps its id.
OnChildExitKeeps(id, r) ==
    IF IsChild(id) /\ ShouldRestart(id, r)
    THEN /\ recent' = recent + 1
         /\ queue' = <<StartAct(id, children[id])>>
         /\ UNCHANGED children
    ELSE UNCHANGED <<coreVars, queue>>

\* on_child_exit, and the loop queues what it decides.
OnChildExit(id, r) ==
    \/ /\ ~IsChild(id)
       /\ UNCHANGED <<coreVars, queue>>
    \/ /\ IsChild(id) /\ ~ShouldRestart(id, r)
       /\ children' = [children EXCEPT ![id] = NoKind]
       /\ UNCHANGED <<recent, queue>>
    \/ /\ IsChild(id) /\ ShouldRestart(id, r) /\ recent + 1 > Intensity
       /\ recent' = recent + 1
       /\ children' = [c \in Ids |-> NoKind]
       /\ queue' = ShutdownAndGiveUp
    \/ /\ IsChild(id) /\ ShouldRestart(id, r) /\ recent + 1 <= Intensity
       /\ recent' = recent + 1
       /\ queue' = <<StartAct(id, children[id])>>
       /\ UNCHANGED children

\* A restart is older than the period: it is no longer counted.
WindowMoves ==
    /\ recent > 0
    /\ recent' = recent - 1
    /\ UNCHANGED <<callsVars, children, loopVars, instVars, spoiled, spent>>

-----------------------------------------------------------------------------
(* The instances *)

\* Instance i dies, and the pool it is linked to has the Exit.
InstDies(i, r) ==
    /\ state' = [state EXCEPT ![i] = "dead"]
    /\ mail' = [mail EXCEPT ![Pool] = <<ExitMsg(i, r)>> \o @]

ChildExits(i, r) ==
    /\ Pool \in up
    /\ Up(i)
    /\ spent.exits < MaxExits
    /\ spent' = [spent EXCEPT !.exits = @ + 1]
    /\ InstDies(i, r)
    /\ UNCHANGED <<plan, up, nextRef, waits, handling, calls, casts, deaths, coreVars,
                   loopVars, born, asked, spoiled>>

\* An instance that was asked to stop and traps exits does so when it likes.
ChildObeys(i) ==
    /\ Pool \in up
    /\ Up(i)
    /\ i \in asked
    /\ InstDies(i, "shutdown")
    /\ UNCHANGED <<plan, up, nextRef, waits, handling, calls, casts, deaths, coreVars,
                   loopVars, born, asked, spoiled, spent>>

Obeys(i, r) == Up(i) /\ (r = "killed" \/ ~born[i].kind.traps)

\* signal!(key, reason)
Signal(i, r) ==
    /\ asked' = asked \cup {i}
    /\ \/ Obeys(i, r) /\ InstDies(i, r)
       \/ ~Obeys(i, r) /\ UNCHANGED <<state, mail>>

-----------------------------------------------------------------------------
(* The loop *)

notTalk == <<plan, up, nextRef, waits, handling, calls, casts, deaths>>

Draining(op) ==
    /\ Pool \in up
    /\ phase = "drain"
    /\ queue # <<>>
    /\ Head(queue).op = op

\* spawn_link.  An instance that is still going is forgotten for the new one,
\* but the deadline it was given is not.
DoStart ==
    /\ Draining("start")
    /\ LET id == Head(queue).id
       IN  /\ live' = [live EXCEPT ![id] = Fresh]
           /\ state' = [state EXCEPT ![Fresh] = "up"]
           /\ born' = [born EXCEPT ![Fresh] = [id |-> id, kind |-> Head(queue).kind]]
           /\ spoiled' = IF id \in pending THEN spoiled \cup {id} ELSE spoiled
    /\ queue' = Tail(queue)
    /\ UNCHANGED <<mail, notTalk, coreVars, pending, phase, asked, spent>>

\* spawn_link fails: it is logged, and the id stays a child.
StartFails ==
    /\ Draining("start")
    /\ spent.fails < MaxFails
    /\ spent' = [spent EXCEPT !.fails = @ + 1]
    /\ spoiled' = spoiled \cup {Head(queue).id}
    /\ queue' = Tail(queue)
    /\ UNCHANGED <<callsVars, coreVars, live, pending, phase, instVars>>

StopUnknown ==
    /\ Draining("stop")
    /\ live[Head(queue).id] = NoInst
    /\ queue' = Tail(queue)
    /\ UNCHANGED <<callsVars, coreVars, live, pending, phase, instVars, spoiled, spent>>

DoStop ==
    /\ Draining("stop")
    /\ LET id == Head(queue).id
           how == Head(queue).kind.shutdown
       IN  /\ live[id] # NoInst
           /\ Signal(live[id], IF how = "brutal_kill" THEN "killed" ELSE "shutdown")
           /\ live' = IF how = "brutal_kill" THEN [live EXCEPT ![id] = NoInst] ELSE live
           /\ pending' = IF how = "timeout" THEN pending \cup {id} ELSE pending
    /\ queue' = Tail(queue)
    /\ UNCHANGED <<notTalk, coreVars, phase, born, spoiled, spent>>

\* The pool is gone.  What is linked to it and does not trap dies with it.
PoolGone(how) ==
    /\ up' = up \ {Pool}
    /\ mail' = [mail EXCEPT ![Pool] = <<>>]
    /\ phase' = how
    /\ queue' = <<>>
    /\ state' = [i \in Insts |-> IF Obeys(i, "shutdown") THEN "dead" ELSE state[i]]
    /\ UNCHANGED <<plan, nextRef, waits, handling, calls, casts, coreVars, live, pending,
                   born, asked, spoiled, spent>>

DoGiveUp ==
    /\ Draining("give_up")
    /\ PoolGone("gave_up")
    /\ UNCHANGED deaths

\* The pool is killed from outside.
PoolKilled ==
    /\ Pool \in up
    /\ deaths > 0
    /\ deaths' = deaths - 1
    /\ PoolGone("killed")

\* Everything drained: recv finds nothing and waits.
RecvWait ==
    /\ Pool \in up
    /\ phase = "drain"
    /\ queue = <<>>
    /\ mail[Pool] = <<>>
    /\ phase' = "wait"
    /\ UNCHANGED <<callsVars, coreVars, live, pending, queue, instVars, spoiled, spent>>

Recv(kind) ==
    /\ Pool \in up
    /\ phase \in {"drain", "wait"}
    /\ queue = <<>>
    /\ mail[Pool] # <<>>
    /\ Head(mail[Pool]).kind = kind
    /\ phase' = "drain"

RecvExit ==
    /\ Recv("exit")
    /\ Taken(Pool)
    /\ LET m == Head(mail[Pool])
       IN  \/ \E id \in Ids :
                 /\ live[id] = m.n
                 /\ live' = [live EXCEPT ![id] = NoInst]
                 /\ pending' = pending \ {id}
                 /\ OnChildExit(id, m.reason)
           \/ /\ \A id \in Ids : live[id] # m.n
              /\ UNCHANGED <<coreVars, live, pending, queue>>
    /\ UNCHANGED <<notTalk, instVars, spoiled, spent>>

\* start_child: refused if the id is taken.
StartChild(id, kind) ==
    IF IsChild(id) THEN UNCHANGED <<children, queue>>
    ELSE /\ children' = [children EXCEPT ![id] = kind]
         /\ queue' = <<StartAct(id, kind)>>

\* terminate_child: refused if there is no such child.
TerminateChild(id) ==
    IF ~IsChild(id) THEN UNCHANGED <<children, queue>>
    ELSE /\ children' = [children EXCEPT ![id] = NoKind]
         /\ queue' = <<StopAct(id, children[id])>>

\* The request is carried out on the core, its reply taken from the mailbox's
\* head to the caller's back, and the action left to the next drain.
ReplyAfter(k) ==
    LET rest == [mail EXCEPT ![Pool] = Tail(@)] IN
        mail' = IF calls[k].by \in up \ Far
                THEN [rest EXCEPT ![calls[k].by] = Append(@, Reply(k))] ELSE rest

\* A slip: a refused request is not answered.
RecvRequestSilent ==
    /\ Recv("request")
    /\ LET k == Head(mail[Pool]).n
           op == calls[k].op
       IN  /\ calls' = [calls EXCEPT ![k].served = @ + 1]
           /\ IF op.op = "start" THEN StartChild(op.id, op.kind) ELSE TerminateChild(op.id)
           /\ IF queue' = <<>> THEN Taken(Pool) ELSE ReplyAfter(k)
    /\ UNCHANGED <<plan, up, nextRef, waits, handling, casts, deaths, recent, live, pending,
                   instVars, spoiled, spent>>

RecvRequest ==
    /\ Recv("request")
    /\ LET k == Head(mail[Pool]).n
           op == calls[k].op
       IN  /\ calls' = [calls EXCEPT ![k].served = @ + 1]
           /\ IF op.op = "start" THEN StartChild(op.id, op.kind) ELSE TerminateChild(op.id)
           /\ ReplyAfter(k)
    /\ UNCHANGED <<plan, up, nextRef, waits, handling, casts, deaths, recent, live, pending,
                   instVars, spoiled, spent>>

\* recv times out, perhaps with a message just pushed: what is live for the ids
\* that are overdue is killed and forgotten, whichever instance that is.
RecvTimeout ==
    /\ Pool \in up
    /\ phase = "wait"
    /\ \E overdue \in SUBSET pending \ {{}} :
          LET killed == {live[id] : id \in overdue} \cap {i \in Insts : Up(i)}
          IN  /\ state' = [i \in Insts |-> IF i \in killed THEN "dead" ELSE state[i]]
              /\ mail' = [mail EXCEPT ![Pool] =
                    SetToSeq({ExitMsg(i, "killed") : i \in killed}) \o @]
              /\ asked' = asked \cup killed
              /\ live' = [id \in Ids |-> IF id \in overdue THEN NoInst ELSE live[id]]
              /\ pending' = pending \ overdue
    /\ phase' = "drain"
    /\ UNCHANGED <<notTalk, coreVars, queue, born, spoiled, spent>>

-----------------------------------------------------------------------------

PoolInit ==
    /\ children = [id \in Ids |-> NoKind]
    /\ recent = 0
    /\ live = [id \in Ids |-> NoInst]
    /\ pending = {}
    /\ queue = <<>>
    /\ phase = "drain"
    /\ state = [i \in Insts |-> "unborn"]
    /\ born = [i \in Insts |-> NoKind]
    /\ asked = {}
    /\ spoiled = {}
    /\ spent = [exits |-> 0, fails |-> 0]

PoolLoop ==
    \/ DoStart
    \/ StartFails
    \/ StopUnknown
    \/ DoStop
    \/ DoGiveUp
    \/ RecvWait
    \/ RecvExit
    \/ RecvRequest
    \/ RecvTimeout

PoolNext ==
    \/ PoolLoop
    \/ PoolKilled
    \/ WindowMoves
    \/ \E i \in Insts : ChildObeys(i) \/ \E r \in {"normal", "exception"} : ChildExits(i, r)

-----------------------------------------------------------------------------

\* The loop waits and has heard of everything.
Quiet == Pool \in up /\ phase = "wait" /\ mail[Pool] = <<>>

\* What the pool takes for its children are its children.  When the loop is
\* quiet, an id that is taken has a live instance, and an instance nobody asked
\* to stop is the live one of an id that is taken; whatever requests, exits,
\* restarts and deadlines went before.  Excepted are ids whose start has failed,
\* which stay taken with nothing behind them, and ids that were started again
\* while the deadline of their last instance was running: it kills the new one.
PoolMatchesWorld ==
    Quiet =>
        /\ \A id \in Ids \ spoiled :
              IsChild(id) => live[id] # NoInst /\ Up(live[id])
        /\ \A i \in Insts : Up(i) /\ i \notin asked =>
              IsChild(born[i].id) /\ live[born[i].id] = i

\* A pool that gives up has stopped every instance: what is still up traps exits
\* and has been asked to stop.
PoolLeavesNothing ==
    phase = "gave_up" => \A i \in Insts : Up(i) => born[i].kind.traps /\ i \in asked
=============================================================================
