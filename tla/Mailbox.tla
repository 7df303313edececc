------------------------------ MODULE Mailbox ------------------------------
(***************************************************************************)
(* A particle's mailbox (src/mailbox.rs): one queue behind an async mutex, *)
(* and a tokio Notify the receiver parks on.                               *)
(*                                                                         *)
(* An action is what runs between two points where another task may get    *)
(* in: the mutex is released before notify_one, before notify_waiters and  *)
(* before notified() is created, so each operation is split there.         *)
(* The Notify itself is external (tokio): a permit that at most one        *)
(* notify_one leaves behind when nobody waits, and the wait of the one     *)
(* receiver; notify_waiters leaves no permit.                              *)
(*                                                                         *)
(* There is one receiver: only the particle's own task calls recv and      *)
(* recv_ref, one call at a time.  Payloads are left out; a message is its  *)
(* kind, its ref and an id that orders the accepted pushes.                *)
(***************************************************************************)
EXTENDS Integers, Sequences, FiniteSets, SequencesExt

CONSTANTS
    Senders,    \* tasks that push: other particles, peer-link handlers, exits
    Refs,       \* refs of tagged messages, monitors and spawn requests
    NoRef,      \* what a message without a ref carries, and what recv asks for
    MaxPushes   \* bound on the pushes of a behaviour

ASSUME MailboxAssumption ==
    /\ NoRef \notin Refs
    /\ MaxPushes \in Nat

VARIABLES
    queue,      \* Inner.queue
    dataCount,  \* Inner.data_count
    closed,     \* Inner.closed
    permit,     \* the permit stored in the Notify
    spc,        \* per sender: "idle", or "notify" between unlock and notify_one
    cpc,        \* close(): "open", "notify" (closed, waiters not woken), "done"
    rpc,        \* the receiver: "idle", "check", "gap" or "waiting"
    want,       \* the ref recv_ref waits for, NoRef in recv
    timed,      \* whether the receiving call has a timeout
    nextId,     \* id of the next accepted push (history)
    taken       \* ids that receiving calls returned (history)

vars == <<queue, dataCount, closed, permit, spc, cpc, rpc, want, timed, nextId, taken>>

AppendedKinds == {"data", "tagged", "spawn_reply"}
SystemKinds == {"exit", "down"}
Msgs == [kind : AppendedKinds \cup SystemKinds, ref : Refs \cup {NoRef}, id : Nat]

\* Data and Tagged are what data_count counts.
Counted(m) == m.kind \in {"data", "tagged"}

\* What a receiving call would take: recv anything, recv_ref a Tagged, Down or
\* SpawnReply with its ref.
Matches(m, w) ==
    \/ w = NoRef
    \/ m.kind \in {"tagged", "down", "spawn_reply"} /\ m.ref = w

HasMatch(q, w) == \E i \in DOMAIN q : Matches(q[i], w)

IsFirstMatch(q, w, i) ==
    /\ i \in DOMAIN q
    /\ Matches(q[i], w)
    /\ \A j \in 1..(i - 1) : ~Matches(q[j], w)

-----------------------------------------------------------------------------

Init ==
    /\ queue = <<>>
    /\ dataCount = 0
    /\ closed = FALSE
    /\ permit = FALSE
    /\ spc = [s \in Senders |-> "idle"]
    /\ cpc = "open"
    /\ rpc = "idle"
    /\ want = NoRef
    /\ timed = FALSE
    /\ nextId = 1
    /\ taken = {}

\* The part every push has in common: the message has been queued, the mutex
\* is released, notify_one is still to come.
Accepted(s) ==
    /\ spc[s] = "idle"
    /\ nextId <= MaxPushes
    /\ spc' = [spc EXCEPT ![s] = "notify"]
    /\ nextId' = nextId + 1
    /\ UNCHANGED <<closed, permit, cpc, rpc, want, timed, taken>>

\* A slip: the message has no ref field to look at.
PushDataNoRef(s) ==
    /\ ~closed
    /\ queue' = Append(queue, [kind |-> "data", id |-> nextId])
    /\ dataCount' = dataCount + 1
    /\ Accepted(s)

\* push_data.  On a closed mailbox it returns Err(NoParticle) and changes nothing.
PushData(s) ==
    /\ ~closed
    /\ queue' = Append(queue, [kind |-> "data", ref |-> NoRef, id |-> nextId])
    /\ dataCount' = dataCount + 1
    /\ Accepted(s)

PushTagged(s, r) ==
    /\ ~closed
    /\ queue' = Append(queue, [kind |-> "tagged", ref |-> r, id |-> nextId])
    /\ dataCount' = dataCount + 1
    /\ Accepted(s)

PushSpawnReply(s, r) ==
    /\ ~closed
    /\ queue' = Append(queue, [kind |-> "spawn_reply", ref |-> r, id |-> nextId])
    /\ UNCHANGED dataCount
    /\ Accepted(s)

\* A slip: the signal goes to the back.
PushSystemBack(s, r) ==
    /\ queue' = Append(queue, [kind |-> IF r = NoRef THEN "exit" ELSE "down",
                               ref |-> r, id |-> nextId])
    /\ UNCHANGED dataCount
    /\ Accepted(s)

\* push_system, an Exit (no ref) or a Down (the monitor's ref): inserted at the
\* front, and with no look at closed.
PushSystem(s, r) ==
    /\ queue' = <<[kind |-> IF r = NoRef THEN "exit" ELSE "down",
                   ref |-> r, id |-> nextId]>> \o queue
    /\ UNCHANGED dataCount
    /\ Accepted(s)

\* A slip: notify_waiters in place of notify_one, which leaves no permit.
NotifyOneNoPermit(s) ==
    /\ spc[s] = "notify"
    /\ spc' = [spc EXCEPT ![s] = "idle"]
    /\ rpc' = IF rpc = "waiting" THEN "check" ELSE rpc
    /\ UNCHANGED <<queue, dataCount, closed, permit, cpc, want, timed, nextId, taken>>

\* notify_one: wake the parked receiver, or leave a permit.
NotifyOne(s) ==
    /\ spc[s] = "notify"
    /\ spc' = [spc EXCEPT ![s] = "idle"]
    /\ \/ /\ rpc = "waiting"
          /\ rpc' = "check"
          /\ UNCHANGED permit
       \/ /\ rpc # "waiting"
          /\ permit' = TRUE
          /\ UNCHANGED rpc
    /\ UNCHANGED <<queue, dataCount, closed, cpc, want, timed, nextId, taken>>

-----------------------------------------------------------------------------

\* close, first half.  exit_particle closes the mailbox it took out of the
\* registry, so it happens at most once.
Close ==
    /\ cpc = "open"
    /\ closed' = TRUE
    /\ cpc' = "notify"
    /\ UNCHANGED <<queue, dataCount, permit, spc, rpc, want, timed, nextId, taken>>

\* close, second half: notify_waiters wakes whoever is parked now and leaves no
\* permit for anybody else.
NotifyWaiters ==
    /\ cpc = "notify"
    /\ cpc' = "done"
    /\ rpc' = IF rpc = "waiting" THEN "check" ELSE rpc
    /\ UNCHANGED <<queue, dataCount, closed, permit, spc, want, timed, nextId, taken>>

-----------------------------------------------------------------------------

\* The particle calls recv (w = NoRef) or recv_ref.
RecvCall(w, t) ==
    /\ rpc = "idle"
    /\ rpc' = "check"
    /\ want' = w
    /\ timed' = t
    /\ UNCHANGED <<queue, dataCount, closed, permit, spc, cpc, nextId, taken>>

\* A slip: recv_ref forgets that a Tagged message was counted.
RecvTakeMiscounts ==
    /\ rpc = "check"
    /\ \E i \in DOMAIN queue :
          /\ IsFirstMatch(queue, want, i)
          /\ queue' = RemoveAt(queue, i)
          /\ dataCount' = IF queue[i].kind = "data" THEN dataCount - 1 ELSE dataCount
          /\ taken' = taken \cup {queue[i].id}
    /\ rpc' = "idle"
    /\ UNCHANGED <<closed, permit, spc, cpc, want, timed, nextId>>

\* A slip: the search for a match runs from the back.
RecvTakeLast ==
    /\ rpc = "check"
    /\ \E i \in DOMAIN queue :
          /\ Matches(queue[i], want)
          /\ \A j \in DOMAIN queue : j > i => ~Matches(queue[j], want)
          /\ queue' = RemoveAt(queue, i)
          /\ dataCount' = IF Counted(queue[i]) THEN dataCount - 1 ELSE dataCount
          /\ taken' = taken \cup {queue[i].id}
    /\ rpc' = "idle"
    /\ UNCHANGED <<closed, permit, spc, cpc, want, timed, nextId>>

\* Under the mutex: the first matching message is removed and returned.
RecvTake ==
    /\ rpc = "check"
    /\ \E i \in DOMAIN queue :
          /\ IsFirstMatch(queue, want, i)
          /\ queue' = RemoveAt(queue, i)
          /\ dataCount' = IF Counted(queue[i]) THEN dataCount - 1 ELSE dataCount
          /\ taken' = taken \cup {queue[i].id}
    /\ rpc' = "idle"
    /\ UNCHANGED <<closed, permit, spc, cpc, want, timed, nextId>>

\* Under the mutex: nothing matches.  A closed mailbox answers None; otherwise
\* the mutex is released and the call goes on to wait.
RecvMiss ==
    /\ rpc = "check"
    /\ ~HasMatch(queue, want)
    /\ rpc' = IF closed THEN "idle" ELSE "gap"
    /\ UNCHANGED <<queue, dataCount, closed, permit, spc, cpc, want, timed, nextId, taken>>

\* notified() is created and polled: a stored permit is consumed and the loop
\* goes round, otherwise the receiver is registered as waiting.
Park ==
    /\ rpc = "gap"
    /\ rpc' = IF permit THEN "check" ELSE "waiting"
    /\ permit' = FALSE
    /\ UNCHANGED <<queue, dataCount, closed, spc, cpc, want, timed, nextId, taken>>

\* The timeout of the receiving call expires while it is parked: it returns None.
TimeoutExpires ==
    /\ rpc = "waiting"
    /\ timed
    /\ rpc' = "idle"
    /\ UNCHANGED <<queue, dataCount, closed, permit, spc, cpc, want, timed, nextId, taken>>

-----------------------------------------------------------------------------

Push(s) ==
    \/ PushData(s)
    \/ \E r \in Refs : PushTagged(s, r)
    \/ \E r \in Refs : PushSpawnReply(s, r)
    \/ \E r \in Refs \cup {NoRef} : PushSystem(s, r)

Receiver ==
    \/ RecvTake
    \/ RecvMiss
    \/ Park

Next ==
    \/ \E s \in Senders : Push(s)
    \/ \E s \in Senders : NotifyOne(s)
    \/ Close
    \/ NotifyWaiters
    \/ \E w \in Refs \cup {NoRef}, t \in BOOLEAN : RecvCall(w, t)
    \/ Receiver
    \/ TimeoutExpires

\* A task that holds no lock and is not parked is run by the tokio scheduler:
\* pushes and close finish once begun, and the receiving call takes its steps.
\* Nothing forces a push, a close, a receiving call or a timeout to happen.
Fairness ==
    /\ \A s \in Senders : WF_vars(NotifyOne(s))
    /\ WF_vars(NotifyWaiters)
    /\ WF_vars(Receiver)

Spec == Init /\ [][Next]_vars /\ Fairness

-----------------------------------------------------------------------------

\* The variables have their types: whatever is pushed, the queue holds messages
\* with the parts of their kind, a ref where recv_ref looks for one.
TypeOK ==
    /\ queue \in Seq(Msgs)
    /\ dataCount \in Int
    /\ closed \in BOOLEAN
    /\ permit \in BOOLEAN
    /\ spc \in [Senders -> {"idle", "notify"}]
    /\ cpc \in {"open", "notify", "done"}
    /\ rpc \in {"idle", "check", "gap", "waiting"}
    /\ want \in Refs \cup {NoRef}
    /\ timed \in BOOLEAN
    /\ nextId \in Nat \ {0}
    /\ taken \subseteq Nat

\* While a receiving call is on its way to sleep, or asleep, a message it would
\* take is never in the queue without somebody still bound to wake it: a sender
\* between its unlock and its notify_one, or (before it is asleep) the permit.
\* This is what dropping the mutex before notify_one and before notified()
\* (mailbox.rs 93, 166) puts at risk.
NoLostWakeup ==
    /\ rpc = "gap" /\ HasMatch(queue, want) =>
          permit \/ \E s \in Senders : spc[s] = "notify"
    /\ rpc = "waiting" /\ HasMatch(queue, want) =>
          \E s \in Senders : spc[s] = "notify"

\* Exit and Down stand ahead of every queued Data, Tagged and SpawnReply,
\* newest first, and those stay in arrival order: what push_front and push_back
\* promise together with removals from the middle by recv_ref.
QueueOrder ==
    \A i, j \in DOMAIN queue : i < j =>
        \/ queue[i].kind \in SystemKinds /\ queue[j].kind \in AppendedKinds
        \/ /\ queue[i].kind \in SystemKinds /\ queue[j].kind \in SystemKinds
           /\ queue[i].id > queue[j].id
        \/ /\ queue[i].kind \in AppendedKinds /\ queue[j].kind \in AppendedKinds
           /\ queue[i].id < queue[j].id

\* What is queued, without the order.
Queued == {queue[i] : i \in DOMAIN queue}

\* Every accepted message is in the queue once, or was returned once, never
\* both and never neither: a closed mailbox still drains, and recv_ref leaves
\* what it skips.  data_count is the number of queued Data and Tagged messages.
Conservation ==
    /\ {queue[i].id : i \in DOMAIN queue} \cup taken = 1..(nextId - 1)
    /\ {queue[i].id : i \in DOMAIN queue} \cap taken = {}
    /\ \A i, j \in DOMAIN queue : queue[i].id = queue[j].id => i = j
    /\ dataCount = Cardinality({m \in Queued : Counted(m)})

\* The mailbox without its queue, its lock and its Notify: what is queued, and
\* whether a receiving call is under way.
Promise == INSTANCE MailboxSpec WITH
    pending <- Queued,
    arrivals <- nextId,
    open <- ~closed,
    asking <- rpc # "idle"

\* The mailbox implements MailboxSpec: whatever senders, close and timeouts do in
\* between, a receiving call gets the one message the promise entitles it to
\* (the newest signal, else the oldest that matches; mailbox.rs 145 and 196),
\* gets nothing only where the promise allows, and returns if its message stays.
ImplementsPromise == Promise!ASpec

\* "Close the mailbox, waking any blocked recv" (mailbox.rs 223): once the
\* mailbox is closed, a receiving call returns.
CloseWakesReceiver ==
    (closed /\ rpc # "idle") ~> (rpc = "idle")
=============================================================================
