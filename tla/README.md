# Plasmoid in TLA+

Plasmoid runs WebAssembly components as *particles*: processes in the manner of
Erlang, with mailboxes, links, monitors and supervisors, on nodes that form a
cluster over QUIC. This directory models its concurrent and distributed parts
from the source (paths below are relative to the repository), checks them with
TLC on small instances and proves with TLAPS, for every instance, each safety
property the passing runs check, and that the mailbox implements its abstract
specification.

## The system

| part | state | operations | what is hard about it |
|---|---|---|---|
| mailbox, `src/mailbox.rs` | a queue, a count of data, a closed flag, tokio's `Notify` | `push_*`, `recv`, `recv_ref`, `close` | the mutex is released before the wake-up is sent and before the receiver parks; signals jump the queue; `recv_ref` takes from the middle |
| registry, `src/registry.rs`, driven by `src/runtime/invoke.rs` | particles, their links, monitors and trap flag, names, the broadcast of deaths | `spawn`, `link`, `monitor`, `register_name`, `exit_particle`, exit signals | each call is several lock sections; an exit has six stages between which anybody may link, trap, register or die |
| supervisor, `plasmoid-sdk/src/supervisor.rs` and `supervise.rs` | what the core takes for running, the restart window, the loop's live children, deadlines and queue | `on_child_exit`, `give_up`, the loop of `run_supervisor!` | exits overtake the loop, starts fail in the middle of a batch, deadlines outlive what they were set for |
| cluster, `src/cluster.rs`, `cluster_reactor.rs`, `partitions.rs`, `transport.rs`, `protocol.rs` | roster, quarantine, known addresses, links, report numbers | `join`, `learn`, `announce_to`, the loss reporter, `on_lost_connection`, `on_remove_connection` | floods, reports that cross, disconnects that look like losses, links that are dropped while they drain |
| global names, `src/global.rs` | the table, locks and merge count of each node | `register`, `unregister`, `sync_with`, `answer_sync`, the death reactor | locks at every member, lost requests, merges that run at the same time, deaths during all of it |
| cross-node signals, `src/signals.rs`, with the remote branches of `invoke.rs`, `registry.rs` and `protocol.rs` | the halves each node keeps of links and monitors that cross, the deaths to forward, the losses to react to | remote `link`, `unlink`, `monitor`, `demonitor`, `exit_signal`, the handlers of their frames, the death forwarder, the node-loss reactor | neither node can write the other's half; a death races the loss of its node; the reactor works in three lock sections |
| generic servers, `plasmoid-macros/src/lib.rs` | the ref counter of each particle, the mailboxes | `call`, `cast`, the generated receive loop | refs are unique per particle only; a reply may come late; a server that calls serves nobody meanwhile |
| dynamic supervisor, `plasmoid-sdk/src/supervisor.rs` and `supervise.rs` | the children it has, the loop's live instances, deadlines and queue | `start_child`, `terminate_child`, `on_child_exit`, the loop of `run_dynamic_supervisor!` | requests cross exits, restarts and deadlines |
| application root, `src/main.rs` and `src/app.rs` | the root's pid and restart type | `watch_root`, `should_stop_node` | the death is subscribed to after the spawn; what counts as abnormal differs from the supervisor's rule |

How they meet: a host call (`invoke.rs`) works on the registry; the registry
pushes signals into mailboxes and broadcasts deaths; the supervisor is a guest
that sees nothing but its mailbox; calls are requests and replies through two
mailboxes, and a dynamic supervisor is one of the servers that are called; the
root's death, seen in the broadcast, ends the node; the death forwarder turns
deaths into frames for other nodes; the transport broadcasts the loss of a peer
to the membership reactor, the loss reporter and the signal reactor; learning
of a node starts a merge of global names; the death broadcast releases them and
the merge kills through the registry.

`PROJECT.json` lists every component, also those that are not modelled (policy,
database, logging, the client, component loading, the command line), with the
reason, and the hazards of the code with the properties that cover them.

## Modules

**`Mailbox`.** One mailbox, any number of senders and its one receiver. An
action is a lock section or a use of the `Notify`: `PushData`, `PushTagged`,
`PushSpawnReply` and `PushSystem` are followed by the sender's `NotifyOne`;
`Close` by `NotifyWaiters`; a receiving call goes through `RecvCall`,
`RecvTake` or `RecvMiss`, and `Park`, where it takes the permit or sleeps, or
`TimeoutExpires`. `want` is the ref of `recv_ref`, or `NoRef` for `recv`.
`Notify` is modelled from tokio's contract: `notify_one` wakes the waiter or
leaves one permit, `notify_waiters` only wakes. Payloads are left out; messages
carry the number of their arrival so that order and loss can be spoken of.

**`MailboxSpec`.** The promise of a mailbox to its owner: a set of accepted
messages and at most one receiving call, which gets the message that comes
first among those it asks for. No queue, no lock, no `Notify`. `Mailbox` is
shown to implement it under the mapping `Promise` (`pending` is what is queued,
`open` is `~closed`, `asking` that a call is not idle); whether a message is
returned from a closed mailbox and whether a call with a message returns are
consequences and have no property of their own.

**`Registry`.** One node. `stage[p]` is where a particle is in its life:
unborn, being named, linked and started by its spawner, up, and the stages of
`exit_particle` in the order of the code: `unname`, `publish`, `sweep`,
`deliver`, `done`; or `undone` when its spawn was rolled back. `call[t]` is the
call a task is in the middle of. `Sweep` is the one long lock section of
`exit_particle`; the deliveries and cascaded exits after it are steps of their
own, and an exit that cascades waits for the exits it started. A guest goes on
running after its particle has died, as it does in the code, and may still
call. Mailboxes are sets of signals here; their order is the business of
`Mailbox`.

**`Supervisor`.** The core's functions are operators (`OnChildExit`,
`Affected`, `Survivors`, `ToRestart`, `Remembered`, `GiveUpActions`); the loop is
actions (`DoStart`, `StartFails`, `DoStop`, `StopUnknown`, `DoGiveUp`,
`RecvWait`, `RecvExit`, `RecvTimeout`). A pass of the core over its children is
the list of a set in their order, `Ascending` or `Descending`. Children are
instances, numbered by spawn, that exit when they like; the clock moves when it
likes. `fails` and `ordered` (when each restart was ordered) are history. The
composition with `Registry` and `Mailbox` is by contract: a signal is applied
before the call that sends it returns, and an exit arrives at the front of the
mailbox.

**`Cluster`.** Any number of nodes. A link is a stream of frames that its
writer has connected or not (`up`); a dropped link drains while the next one is
open, hence `wire[n][m]` is a sequence of streams. `Dial` includes what the far
side's `accept` does; the `Handle*` actions are whole handlers of
`handle_peer_message`; `Forget` and `Report` are the two reactors;
`ConnectionEnds` and `LingeringEnds` are the watchers of `open_link`. Paths,
crashes and the idle timeout are the network's. Left out: a write that fails
again after its reconnect (`transport.rs` 377-380) and the two lock sections of
`learn`, which are one step. The branch of `on_lost_connection` for a node that
is reported lost to itself is in `Drops`, though nobody sends such a report.

**`Global`.** Any number of nodes and particles. A claim locks the members in
order (`CheckName`, then `TakeLock`: the two sections of `lock`), commits and
unlocks; each request is one step at the node it reaches, may fail before it
arrives or lose its answer. `SyncAsk` to `SyncEnds` are the stages of
`sync_with` and `answer_sync`, with the tables copied where the code copies
them. Rosters only grow here. A behaviour starts in any partition of the nodes
into parts that do not know each other, each agreed on names its own particles
have; with one part it is `whole`.

**`Signals`.** Any number of nodes, each with its particles and its half of
every relationship that crosses (`links`, `monitors`, `monitoredBy`). A host
call records its own half and queues a frame (`Link`, `Unlink`, `Monitor`,
`Demonitor`, `ExitSignal`; a target given by name leaves no half at the caller);
`Receive` is the peer link's reader with the handler of the frame it takes;
`Forward` is the death forwarder; `LossSeen`, `FireLink`, `FireMonitor` and
`Forget` are the sections of the node-loss reactor. `Dial`, `DialFails` and
`ConnEnds` are the writer and the watcher of its connection; `Crash`, `Break`
and `Heal` the world's. The stages of an exit within a node are `Registry`'s and
are one step here, as is a membership that frames are not held to. `owed` and
`loose` are history: what somebody is to be told, and pairs that cannot be
expected to agree. A guest ends itself, and signals others, with any reason of
`Given`; `OnSignal` is `apply_directed_exit`: a `kill` kills, trapping or not, and
any other reason is inherited, so that a trapping particle is pushed an Exit that
names a sender who may be alive. So that a property can tell that Exit from the
report of a death, three more histories are kept: `called`, the exit-signals
asked for; `sent` in a signal, which says that it was pushed for one; and
`losses`, which nodes' losses each node has announced. `Held` (what a half needs
for its owner to be owed a signal) asks for a half, a connection, and that the
reactor is not at work on an earlier loss of the same node: it would forget the
half without firing it. Without the third condition the proof of `LinksFire`
could not be closed, and TLC, given two faults, then showed the half that never
fires.

**`Calls`.** Clients and generic servers. `MakeCall` takes a ref from the
caller's own counter and sends the request; `CallReturns` is `recv_ref` with
the first tagged message of that ref, whoever sent it; `CallTimesOut`,
`MakeCast` and the server's `ServeRequest`, `Answer`, `ServeStray`, `ServeCast`
complete the protocol. A handler may call between `ServeRequest` and `Answer`.
`SendReply` answers only callers that `resolve` knows, those of the same node.
Payloads are left out, so raw data whose first byte happens to be the cast tag
(`lib.rs` 230) does not occur.

**`DynamicSupervisor`** extends `Calls` with its `Pool`: a server with a loop
of its own. The core is `StartChild`, `TerminateChild`, `OnChildExit`,
`ShutdownAndGiveUp`; the loop `DoStart`, `StartFails`, `DoStop`, `StopUnknown`,
`DoGiveUp`, `RecvWait`, `RecvExit`, `RecvRequest`, `RecvTimeout`. The restart
window is a count that may fall at any moment, and a deadline may pass at any
moment. `spoiled` is history: ids the loop has lost track of.

**`Application`** extends that with a node whose root is the pool: `Subscribe`
and `Watch` are `watch_root`, and a death that is published before `Subscribe`
is not in the broadcast.

**`MCRegistry`, `MCSupervisor`, `MCCluster`, `MCGlobal`, `MCSignals`,
`MCApplication`** bound and start them (see below). **`MailboxProofs`**,
**`RegistryProofs`**, **`SupervisorProofs`**, **`SignalsProofs`**,
**`ClusterProofs`**, **`GlobalProofs`** and **`ApplicationProofs`** hold the theorems, each about the module of its name
(the last about `Calls` and `DynamicSupervisor` as `Application` composes them);
**`SequenceFacts`** the lemmas about sequences that several of them need.

In each module a definition named in `map` may be preceded by a *slip*: the same
operation with a plausible mistake. Slips are used by no specification. Put in
the place of the operation, each makes the run of its property fail, which
shows that the property depends on that line of the code.

## Runs

`tlc -workers 2 -config X.cfg M`, where `M` is the module in `PROJECT.json`.

| run | instance | outcome |
|---|---|---|
| `Mailbox` | 2 senders, 2 refs, 3 pushes; 278,000 states | passes, the refinement of `MailboxSpec` included |
| `MailboxClose` | 1 sender | close does not wake a receiver that is about to park |
| `Registry` | 3 particles of which 2 are booted, 1 name, 1 ref each, a peer handler, 4 calls; 2.5 million states | passes |
| `RegistryLiveness` | 3 booted particles, 3 calls, no names | every exit finishes |
| `Supervisor` | 2 children out of 4 kinds, 3 strategies, 6 instances, 1 failed start, 3 instants; 690,000 states | passes |
| `SupervisorDeadline` | 2 default children | a permanent child stays down |
| `Cluster` | 4 nodes, 5 scenarios; 57,000 states | passes |
| `ClusterCascade` | 3 nodes, one path breaks | remove-connection is sent for ever |
| `Global` | 3 nodes, 3 particles, 1 name, 2 tries, 4 scenarios; 328,000 states | passes |
| `GlobalOneNode` | 2 nodes, 2 particles on the first | two owners |
| `Signals` | 2 nodes, 2 particles on one (one traps exits) and 1 on the other, 5 starts, 3 reasons to exit and to signal with; 352,000 states | passes |
| `Application` | 2 clients (one on another node), 2 servers that call each other, or a pool with 2 ids, 3 kinds and 2 clients; 196,000 states | passes |

**Bounds.** `MaxPushes` = 3: every order of two messages with one in between,
which is what a removal from the middle and a permit that is taken by the wrong
wake-up need. `MaxCalls` = 4 with two booted particles: link, trap, a third
particle's spawn and a signal, so that cascades meet other exits; whatever has
begun runs on without a bound, so liveness is not cut short. Particles are
symmetric in the safety run. `MaxInst` = 6 and `Intensity` = 2: two full
fan-outs of two children before the brake. `MaxNow` = 2 with a period of 1: one
instant outside the window. The scenarios of `MCCluster` fix how often each
thing outside the nodes happens; `MaxPending` = 1 bounds only the endless
exchange that `ClusterCascade` shows, and `prompt` scenarios do the chores of a
node (forgetting a node, dropping what cannot be sent) before anything else.
`Retries` is 2 where the code has 3, with up to 3 claims of one name. Of nodes
that nothing tells apart, the path that breaks and the node that crashes are
fixed. `MCSignals` starts from nothing (three calls, or two and a death: link,
unlink and monitor in every order and crossing), or from relationships that are
made and settled, with a fault and a call or a death, so that the loss reactor
meets frames under way, new relationships and a chain of links over both nodes;
what nodes do by themselves is free. `Given` is `normal`, which does nothing to
a particle that does not trap, `exception`, which kills it, and `kill`, which is
untrappable when sent and not when inherited; the other reasons behave as
`exception` does. In `MCApplication` two servers and two
clients make three calls, enough for a request to be taken by a server's own
call; a pool gets three requests, two exits of children and a failed start with
`Intensity` = 1, so that one restart is allowed and the next gives up, and a
terminated id can be started again under its deadline. `CHECK_DEADLOCK FALSE`
because all of these systems may come to rest: nobody has to send, claim or join.

**Fairness.** Weak, and only for what tokio's scheduler or the guest's loop
does once it has begun: a sender's wake-up, a receiver that is not parked, the
next step of a call or an exit (no lock is held across another call), the
supervisors' loops, the writers, handlers, forwarders and reactors of a node and
the end of idle connections, a receiving call whose message is there or whose
time is over, and `watch_root`. Of a server it is assumed that its handlers
return, which is the guest's part. No guest has to call, no child to exit, no path to break or
heal, no quarantine to be over, no timeout to be on time. `Global` states no
liveness and no fairness.

**What the passing runs show.** No push is slept through, and a call with
something to take returns. Links stay mutual, deaths reach links and watchers
and are published once, through every interleaving of exits; a sent kill is
never trappable; names do not change hands. The supervisor never orders more
restarts in a window than it may, keeps the order of its children, loses no
permanent child to exits and failed starts, and runs none twice, with the
exceptions stated in the properties. A deliberate disconnect never comes back
as a report, floods end, and rosters settle in fully connected parts when
nothing comes back meanwhile. A name granted in a cluster that agrees on its
members is in every table, among claims of a free name one succeeds, and parts
that meet agree on the lowest pid and kill only the others. A relationship
across nodes that held when its other end died, or went with its node or path,
fires, whether the death was forwarded in time or the loss reactor had to. The
Exit of an exit-signal is one its sender asked for and never a kill; every other
signal blames nobody for a death it did not die, nor for the loss of a node that
was not lost; and signalling comes to rest. A client's call never returns
another call's reply, a call that returns
has been served once and after the casts before it, and calls return. What a
pool takes for its children are its running children, a pool that gives up
leaves nothing behind that was not told to stop, and its node follows it.

Some of these carry conditions that matter:

* `OneInstance` and `CoreMatchesWorld` leave out children with a timeout under
  `one_for_all` and `rest_for_one`, which `SupervisorDeadline` shows to go
  wrong, and `OneInstance` two failed starts, which can queue a child twice.
  `GivesUpCleanly` leaves out the instance that is then forgotten. The run has
  one failed start; with two or more the properties rest on their proofs.
* `Reconverges` speaks of behaviours without heals. When a path heals and is
  used while the reports of its loss are still passing, one side lets the other
  in again and a third does not: overlapping partitions remain until the
  quarantines end and somebody joins.
* `GrantedEverywhere` leaves out a lost commit, whose failure `register`
  ignores: the member that missed it grants the name again.
* `SomebodyWins` speaks of names nobody had at the start: a claim of a name that
  is taken fails for its holder.
* `EntriesYield` speaks of a cluster that agrees on its members and lost no
  commit, or of merges without claims and deaths. Elsewhere an entry may be
  overwritten: where a commit is lost and a second request fails, or where the
  tables a merge has copied are older than a claim or a death. The proof attempt
  showed this; two faults, or claims beside a merge, are needed to see it in TLC.
* `LinksFire` and `MonitorsFire` speak of halves recorded on a node that was
  connected to the other. A relationship made while the loss reactor is at work,
  or to a node that cannot be reached, is dropped without ever firing. An Exit
  that an exit-signal has pushed does not count as the one that was owed.
* `CallsReturn` excuses callers on other nodes, requests that a server's own
  call has taken for its reply, and servers that wait for one another.
* `PoolMatchesWorld` leaves out ids whose start failed and ids started again
  under the deadline of their last instance.
* `NodeFollowsRoot` begins when the root's death is in the broadcast; a root
  that dies between its spawn and `subscribe_deaths` is not seen, and the node
  runs on.

**What the violations show** is in `PROJECT.json` under `findings`, each with
the line of a comment, a test or `wit/world.wit` that says otherwise.

**Other divergences**, met while modelling and reproduced by the modules, without
a run of their own:

* `monitor` on the pid of a particle that has died is never answered
  (`registry.rs` 241-249); `wit/world.wit` 124-125 says "A target that does not
  exist produces an immediate down signal carrying `noproc`". On another node the
  same holds of `Link` and `Monitor` frames for a dead pid (`protocol.rs` 345
  and 369).
* The guest of a killed particle, or a spawn whose particle was killed before its
  name went in, leaves a name with a dead holder (`registry.rs` 573 and 179); the
  test at `registry.rs` 1381 says "a dead particle must not keep its name".
* A link to a name on another node is recorded there and not at the caller
  (`invoke.rs` 508), so it works in one direction; `CONTEXT.md` 32 calls a link
  "a bidirectional relationship".
* Refs are counted per particle, and a server in a call of its own takes a
  client's request with the same ref for its reply; the design notes of 2026-02-21
  (line 255) say that a "per-process counter is sufficient".
* A request from another node is handled and never answered, since `resolve`
  knows only local particles (`plasmoid-macros/src/lib.rs` 211).
* `demonitor` sends no frame, though there is one with a handler
  (`protocol.rs` 382): a `Down` may come after it.
* A dynamic child that fails to start keeps its id (`supervise.rs` 280), which
  `supervisor.rs` 651 describes as "already in use by a live child"; and a
  deadline outlives its instance in the pool as in the static supervisor.
* A linked particle that cannot be instantiated stays registered, named and
  linked, while its spawner is told `InitFailed` (`invoke.rs` 179).

## Proofs

`tlapm M.tla` for each of `MailboxProofs`, `RegistryProofs`, `SequenceFacts`,
`SupervisorProofs`, `SignalsProofs`, `ClusterProofs`, `GlobalProofs` and
`ApplicationProofs`; the longest take some minutes. What is assumed is the named assumption of the module
a theorem is about, and nothing else but for one hypothesis named below:

* the model values that stand for nothing are not values, and the exit reasons
  and restart types are those of the code;
* `SignalsAssumption`: finitely many particles (the reactors list what they have
  found, and only a finite set can be listed), each with a node, and guests
  that give reasons of the code's;
* `GlobalAssumption`: finitely many nodes and particles, numbered in the order
  in which the code compares pids, node first;
* `PoolAssumption`: finitely many ids, since a pool that gives up lists its
  children;
* `SupervisorAssumption`: the number of children, the intensity, the times and
  the bounds are naturals, the strategies and kinds of children those of the code.

Senders, refs, names, tasks, nodes of a cluster, clients, servers, kinds of
children and all the bounds on calls, faults, claims and deaths are arbitrary.

* `MailboxTypeOK`, `MailboxNoLostWakeup`, `MailboxQueueOrder`. `NoLostWakeup` is
  inductive with the types: it says of the receiver at both places of its way to
  sleep who still owes it a wake-up. `QueueOrder` needs that all numbers in the
  queue are below the next one (`IdsBelowNext`): otherwise a push could not be
  known to be the newest. `RemoveAt` from the middle is dealt with once, in a
  lemma about how positions move.
* `MailboxImplementsPromise`: `Spec => Promise!ASafety`, the safety half of
  `ImplementsPromise`. Pushes map to `Accept`, `RecvTake` to `Give`, a miss in a
  closed mailbox and a timeout to `GiveUp`, wake-ups and parking to nothing. The
  one hard step is `RecvTake`: the first match in the queue is the preferred
  message, which is `QueueOrder` read as an order on messages, and taking it out
  of the queue takes it out of the set, for which no id may occur twice.
* `MailboxConservation`. `Without` says that one queue is another less the
  message at one place, which is what each push and each receive does to it; a
  new id, or one that is taken out, then changes the set of ids, and the set of
  counted messages, by exactly one, since no id occurs twice. `Kept` adds that
  the counted messages are finitely many, for their number to be defined.
* `RegistryTypeOK`. Every theorem about the registry rests on it.
* `RegistryDeathPublishedOnce`, from `LifeCycle`: each step moves each particle
  one stage on or not at all, and the count of its deaths moves exactly with
  `publish`.
* `RegistryLinksAreMutual` needs `NothingUnborn` (nobody is linked to, watched
  by or called on a particle that is not spawned yet), without which a spawn
  could bring a particle to life into a link it does not hold, and
  `DeadLinksFixed`: what an exit took along no longer changes.
* `RegistryAbnormalDeath`, `RegistryDeathReachesWatchers`: the sweep puts every
  live relation into one of the lists of what the exit still owes, an item
  leaves a list only by being done (`OwedIsDone`), and a signal once in a
  mailbox stays there (`InboxGrows`; receiving is `Mailbox`'s).
* `RegistrySentKill`: every signal in a mailbox comes from a dead particle's
  legacy or from a directed exit, and the latter turns a kill into an exit of
  the target before the trap flag is looked at.
* `RegistryNamesKeepTheirHolder`, an action property, directly from `Next`.

* `SupervisorTypes`, from `Typed`: the table of the loop and the Exits in its
  mailbox name instances that have been spawned, of the right child, and whoever
  an Exit tells of is dead. Each step of the loop is first put into a form of its
  own for the child it is about (`Starts`, `Fails`, `Stops`, `Hears`), and each
  decision of the core into one of three (`Ends`, `FansOut`, `Quits`, with what
  `Fan` and `Quit` say of the actions queued); all that follows is proved of those.
* `SupervisorBrakeHolds`, from `Remembering`. The core drops restarts, and counts
  some for a fan-out that it then gives up instead of ordering. Counted from the
  end (`Trace`), each restart of the history either has one in the memory that is
  no older, or is out of the window. When restarts are ordered, the memory is no
  longer than the intensity, so that one which lies `Intensity` behind the last
  has none there.
* `SupervisorCoreMatchesWorld`, from `Patient` (deadlines run only for children
  that are given time, and under `one_for_one` for nobody before the supervisor
  gives up) and `Matching`: while it goes on, a child taken for running is due to
  be started, behind any stop of it, or nothing is queued of it and its live
  instance is up or has its Exit in the mailbox. An empty queue and an empty
  mailbox leave only the instance.
* `SupervisorLaterChildIsYounger`, from `Younger`: of two live children, the
  later one returning, the later is younger or is to be started again; and
  behind each queued start of the first there is one of the second (`Promised`),
  in whatever mixture of batches a failed start has left.
* `SupervisorOneInstance`, from `Sole`, `One` and `Believed`, which need each
  other: a child that runs once is not started before its stop (`Cleared`), and
  not twice without a stop in between (`Apart`); the core knows that it runs, or
  it would not stop it; and only a start that failed queues it twice (`Sole`).
* `SupervisorGivesUpCleanly`, from those and `Leaving`: of a child that is killed
  to be stopped, the last that is queued before the first `GiveUp` is its stop, if
  it runs or is started before (`Swept`, `StartsEnd`). A start that fails behind a
  `GiveUp` makes the core decide once more, but queues its answer behind it. The
  conditions of the property are real: a temporary child whose stop was thrown
  away with the fan-out that went over the intensity outlives its supervisor if
  it traps exits, `brutal_kill` or not, and so may a child that was queued twice.
  The run's bound of one failed start hides the second; the proof needed it.

* `SignalsTypes`, `SignalsTellTheTruth`. `Truth` carries the cause of a signal
  (`HasCause`) back to where it came from: a frame on the wire that tells of a
  death, or carries what somebody asked for (`FramesAreTrue`); a published death
  that was not forwarded yet (`DeathsAreTrue`); a loss that its own node has
  announced, of the other's node, with the reactor waiting for it or firing it
  (`LossesAreTrue`). The histories only grow, so a cause is never taken back.
* `LinksDoFire`, `MonitorsDoFire`. `Firing` adds `OwedIsDue`: whatever is owed
  was told already, or is on the reactor's list, or is `Coming` (its death is
  published and not forwarded, or its frame is on the wire) with nothing to stop
  it, or is watched by its own node, which is connected to a node that it will
  find lost or has found lost. Each action moves what is owed one place on and
  drops none, and when all is quiet no place is left but the mailbox.
* `LinksDoSettle`. `Settling` adds `HalvesAgree`: of two live particles, each
  half will, once the frames on their way to it are handled, be as the other, so
  that on an empty wire they are equal. A pair whose calls crossed or went by
  name is `loose` and exempt.
* `ClusterTypes` with `Typed`, which also says that no node is its own member.
  `DisconnectsDoNotEcho` from `Accounted`: the losses a node may still report,
  and those it has reported, together are no more than the connections that
  ended without its doing. A deliberate disconnect removes a loss from the first
  (it quarantines before the event is looked at) and never adds one.
  `MeshedClusterTypes` and `MeshedDisconnectsDoNotEcho` are the same from the
  starts the runs use, where some nodes have met and some are absent.
* `GlobalTypes`, from `Typed`: the merge count is the number of merges under
  way, asked for or answered.
* `GrantedStays` and `EntriesOnlyYield` from `WholeInv`: rosters are complete,
  claims have asked the members before them, each lock has an owner that is at
  work or was left behind by a lost answer, and a name that was granted is in
  each table, so that nobody else can find it free. `ClaimsDoNotAllFail` from
  `WinInv`: when a claim of a free name has failed, the name is won or another
  claim leads, with a lock it will not lose (`FailuresYield`), because everybody
  locks the lowest node first; that there is a lowest is `LeastMember`, the
  well-foundedness of the naturals without an operator as a parameter. These three have the hypothesis `OnePerNode`: no two claimants on one node.
  `handle_global` compares the node of a lock with that of the request, so that
  two claimants of one node pass through each other's locks, which is what
  `GlobalOneNode` shows. TLC's instance has one claimant on each node too.
* `PartsAgree` from `MergeInv`, without that hypothesis: entries only go down,
  each pid in a table, or in a copy that a merge carries, is one somebody had at
  the start (`Inherited`), a finished merge has left a table at or below what its
  other side had (`Lowered`), and who is dead, or is to lose, has lost its entry
  at home first, while who is alive has it or is about to lose
  (`LosersBeaten`, `Survivors`).
* `RepliesAreTheCallsOwn`, from `Answering`: each mailbox is `Sound`, i.e. a
  request is in at most one place, of a call not yet served and behind the casts
  made before it (unless they are done), a reply fits its call's ref and caller;
  and a caller's refs are below its counter and used once each. A server that
  calls can still take a foreign request for its reply, so this is about clients.
* `PoolKnowsItsChildren` and `GivingUpStopsAll`, from `Minding`. The queue has
  one of four shapes (`QueueShape`); what nobody asked to stop is live for an id
  that is a child or about to be stopped (`Kept`); and a child is up, or its exit
  is on its way, or its start is queued (`Heard`). `RoomLeft` counts: instances,
  those that may be restarted, and queued acts are no more than the requests
  served and the exits. Without it, a start might find no fresh instance: the
  bound on instances would cut behaviours off, and it proves that it does not.

Only model-checked:

* all liveness (the fairness of `ImplementsPromise`, `ExitsFinish`,
  `PermanentReturns`, `FloodEnds`, `Reconverges`, `ComesToRest`, `CallsReturn`,
  `NodeFollowsRoot`), since fairness and `ENABLED` are out of the proof system's
  reach;
* what the findings refute, by its nature.

## Not modelled

Wasm execution, component loading, capabilities, the database, logging, the
client, manifests and the command line have no protocol of their own: they are
sequential, or one request and its answer. Remote spawn is the registry's
`Spawn` by an outside task. Encoding of frames
and pids is left out: a frame is what its handler sees. Capacities of the two
broadcasts (1024 deaths, 256 losses) and durations are left out, and listed as
hazards where they bite. The two lock sections of `Cluster::learn` are one step,
and claims of global names do not race with a join. A killed guest runs on until
it returns: `Registry` has that, with host calls of a dead particle, and so does
`Signals`. `Calls`, `Supervisor` and `DynamicSupervisor` take a killed particle
for gone at once. In the code a client or server that is killed may still send
what it was about to, and a killed supervisor's loop drains the starts and stops
that are queued, then, its mailbox closed, takes the `None` of each `recv` for a
timeout, which still kills children whose deadline has passed. What those modules
say of a particle that was killed from outside, and of the children it leaves
behind, is said of the code only up to that.

## Plan

1. An abstract specification of global names (one owner or none, changed by
   claim, release and death), which `Global` with its whole cluster implements.
2. `learn` in its two sections; claims that race with a join in `Global`.
