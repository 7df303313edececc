-------------------------------- MODULE Calls --------------------------------
(***************************************************************************)
(* Requests and replies between particles: the call and cast that          *)
(* #[gen_server] generates for the callers of a server, and the receive    *)
(* loop it generates for the server (crates/plasmoid-macros).              *)
(*                                                                         *)
(* A call takes a ref from the caller's own counter (HostState.next_ref),  *)
(* sends the request with it and its own pid, and waits in recv_ref for    *)
(* any tagged message with that ref.  A server's handler may call other    *)
(* servers before it answers.  A guest is sequential: one that waits for a *)
(* reply receives nothing else.                                            *)
(*                                                                         *)
(* Payloads are left out: a message names the call it belongs to.  A       *)
(* mailbox is a sequence in which a sent message goes to the back; what    *)
(* recv and recv_ref take from it, and that a timeout may come whatever is *)
(* queued, is Mailbox's contract.  A particle that dies takes its mailbox  *)
(* and its open call along.                                                *)
(***************************************************************************)
EXTENDS Naturals, Sequences, SequencesExt, FiniteSetsExt

CONSTANTS
    Clients,    \* particles that only call
    Far,        \* the clients that live on another node
    Servers,    \* generic servers
    Pool,       \* a server with a loop of its own (DynamicSupervisor)
    Ops,        \* what may be asked of the pool
    NoOp,       \* what is asked of a generic server
    MaxCalls,   \* bound on the calls of a behaviour
    MaxCasts    \* bound on its casts

ASSUME CallsAssumption ==
    /\ {MaxCalls, MaxCasts} \subseteq Nat
    /\ Pool \notin Clients \cup Servers
    /\ Clients \cap Servers = {}
    /\ Far \subseteq Clients
    /\ NoOp \notin Ops

Particles == Clients \cup Servers \cup {Pool}
NoCall == 0

VARIABLES
    plan,       \* fixed: who may call whom, with a timeout or not, and how often
    up,         \* the particles that live
    mail,       \* the mailbox of each
    nextRef,    \* HostState.next_ref of each
    waits,      \* the call each waits for in recv_ref, or NoCall
    handling,   \* the call whose request a server's handler is at, or NoCall
    calls,      \* the calls made so far (history)
    casts,      \* the casts made so far (history)
    deaths      \* how many may still die other than by stopping (bound)

talkVars == <<mail, nextRef, waits, handling, calls, casts>>
callsVars == <<plan, up, talkVars, deaths>>

\* The three kinds of message this is about.  Requests and replies are tagged,
\* and nothing but their payload tells them apart.
Request(k) == [kind |-> "request", ref |-> calls'[k].ref, n |-> k]
Reply(k) == [kind |-> "reply", ref |-> calls[k].ref, n |-> k]
CastMsg(n) == [kind |-> "cast", ref |-> 0, n |-> n]
Tagged(m) == m.kind \in {"request", "reply"}

\* send and send_ref: fire and forget; what is sent to the dead is dropped.
Send(q, m) ==
    mail' = IF q \in up THEN [mail EXCEPT ![q] = Append(@, m)] ELSE mail

-----------------------------------------------------------------------------
(* The caller *)

\* The guest runs, and it is the program of a client or a server's handler.
Free(p) ==
    /\ p \in up
    /\ waits[p] = NoCall
    /\ p \in Clients \/ (p \in Servers /\ handling[p] # NoCall)

CastsBefore(p, q) == {n \in DOMAIN casts : casts[n].by = p /\ casts[n].to = q}

\* A slip: one ref is enough for a particle that makes one call at a time.
TakeRefAgain(p) == UNCHANGED nextRef

\* next_ref: each particle counts for itself, from one.
TakeRef(p) == nextRef' = [nextRef EXCEPT ![p] = @ + 1]

MakeCall(p, q, op, timed) ==
    /\ Free(p)
    /\ <<p, q, timed>> \in plan.talk
    /\ Len(calls) < plan.calls
    /\ TakeRef(p)
    /\ calls' = Append(calls,
          [by |-> p, to |-> q, op |-> op, timed |-> timed, ref |-> nextRef[p],
           behind |-> CastsBefore(p, q), served |-> 0, result |-> "open"])
    /\ Send(q, Request(Len(calls) + 1))
    /\ waits' = [waits EXCEPT ![p] = Len(calls) + 1]
    /\ UNCHANGED <<plan, up, handling, casts, deaths>>

\* The message recv_ref finds: the first tagged one with the ref of the call.
Matching(p) ==
    {i \in DOMAIN mail[p] :
        Tagged(mail[p][i]) /\ mail[p][i].ref = calls[waits[p]].ref}

\* The call has its message: its own reply, or something else of that ref,
\* which is decoded as a reply or fails to be.
CallReturns(p) ==
    /\ p \in up
    /\ waits[p] # NoCall
    /\ Matching(p) # {}
    /\ LET i == Min(Matching(p))
           k == waits[p]
           own == mail[p][i].kind = "reply" /\ mail[p][i].n = k
       IN  /\ mail' = [mail EXCEPT ![p] = RemoveAt(@, i)]
           /\ calls' = [calls EXCEPT ![k].result = IF own THEN "ok" ELSE "foreign"]
    /\ waits' = [waits EXCEPT ![p] = NoCall]
    /\ UNCHANGED <<plan, up, nextRef, handling, casts, deaths>>

CallTimesOut(p) ==
    /\ p \in up
    /\ waits[p] # NoCall
    /\ calls[waits[p]].timed
    /\ calls' = [calls EXCEPT ![waits[p]].result = "timeout"]
    /\ waits' = [waits EXCEPT ![p] = NoCall]
    /\ UNCHANGED <<plan, up, mail, nextRef, handling, casts, deaths>>

MakeCast(p, q, stop) ==
    /\ Free(p)
    /\ \E timed \in BOOLEAN : <<p, q, timed>> \in plan.talk
    /\ Len(casts) < MaxCasts
    /\ casts' = Append(casts, [by |-> p, to |-> q, stop |-> stop, done |-> FALSE])
    /\ Send(q, CastMsg(Len(casts) + 1))
    /\ UNCHANGED <<plan, up, nextRef, waits, handling, calls, deaths>>

-----------------------------------------------------------------------------
(* The server *)

\* The loop is in recv and a message is there.
Receives(q) ==
    /\ q \in up
    /\ waits[q] = NoCall
    /\ handling[q] = NoCall
    /\ mail[q] # <<>>

Taken(q) == mail' = [mail EXCEPT ![q] = Tail(@)]

ServeRequest(q) ==
    /\ Receives(q)
    /\ Head(mail[q]).kind = "request"
    /\ LET k == Head(mail[q]).n
       IN  /\ handling' = [handling EXCEPT ![q] = k]
           /\ calls' = [calls EXCEPT ![k].served = @ + 1]
    /\ Taken(q)
    /\ UNCHANGED <<plan, up, nextRef, waits, casts, deaths>>

\* Answer the call with its ref, if resolve finds the pid in the request: it
\* knows the live particles of its own node only.
SendReply(k) ==
    IF calls[k].by \in Far THEN UNCHANGED mail ELSE Send(calls[k].by, Reply(k))

\* The handler is done and its answer is sent.
Answer(q) ==
    /\ q \in up
    /\ handling[q] # NoCall
    /\ waits[q] = NoCall
    /\ SendReply(handling[q])
    /\ handling' = [handling EXCEPT ![q] = NoCall]
    /\ UNCHANGED <<plan, up, nextRef, waits, calls, casts, deaths>>

\* A tagged message that is no request, such as the reply to a call that had
\* timed out: it does not decode, and the loop continues.
ServeStray(q) ==
    /\ Receives(q)
    /\ Head(mail[q]).kind = "reply"
    /\ Taken(q)
    /\ UNCHANGED <<plan, up, nextRef, waits, handling, calls, casts, deaths>>

\* A particle is gone, with its mailbox, its call and its handler.
Gone(p) ==
    /\ up' = up \ {p}
    /\ mail' = [mail EXCEPT ![p] = <<>>]
    /\ waits' = [waits EXCEPT ![p] = NoCall]
    /\ handling' = [handling EXCEPT ![p] = NoCall]

\* handle_cast, after which the loop goes on or returns.
ServeCast(q) ==
    /\ Receives(q)
    /\ Head(mail[q]).kind = "cast"
    /\ LET n == Head(mail[q]).n
       IN  /\ casts' = [casts EXCEPT ![n].done = TRUE]
           /\ \/ ~casts[n].stop /\ Taken(q) /\ UNCHANGED <<up, waits, handling>>
              \/ casts[n].stop /\ Gone(q)
    /\ UNCHANGED <<plan, nextRef, calls, deaths>>

\* A particle fails, is killed, or its program ends.
Dies(p) ==
    /\ p \in up
    /\ deaths > 0
    /\ deaths' = deaths - 1
    /\ Gone(p)
    /\ UNCHANGED <<plan, nextRef, calls, casts>>

-----------------------------------------------------------------------------

CallsInit ==
    /\ mail = [p \in Particles |-> <<>>]
    /\ nextRef = [p \in Particles |-> 1]
    /\ waits = [p \in Particles |-> NoCall]
    /\ handling = [p \in Particles |-> NoCall]
    /\ calls = <<>>
    /\ casts = <<>>

Caller(p) ==
    \/ \E q \in Servers, timed \in BOOLEAN : MakeCall(p, q, NoOp, timed)
    \/ \E op \in Ops, timed \in BOOLEAN : MakeCall(p, Pool, op, timed)
    \/ \E q \in Servers, stop \in BOOLEAN : MakeCast(p, q, stop)

Waiter(p) == CallReturns(p) \/ CallTimesOut(p)

Server(q) == ServeRequest(q) \/ Answer(q) \/ ServeStray(q) \/ ServeCast(q)

CallsNext ==
    \/ \E p \in Clients \cup Servers : Caller(p) \/ Waiter(p) \/ Dies(p)
    \/ \E q \in Servers : Server(q)

\* recv_ref returns what is there or when its time is over, a loop receives
\* what is there, and a handler returns: the last is the guest's part.  Nobody
\* has to call.
CallsFairness ==
    /\ \A p \in Clients \cup Servers : WF_callsVars(Waiter(p))
    /\ \A q \in Servers : WF_callsVars(Server(q))

-----------------------------------------------------------------------------

\* A client's call never returns anything but the reply to itself, whatever it
\* gave up waiting for before: a late reply has an old ref (call, recv_ref).
\* When it has its reply, the server has handled the request once, and before
\* it everything the client had cast to it.
CallsAreAnswered ==
    \A k \in DOMAIN calls : LET c == calls[k] IN
        /\ c.by \in Clients => c.result # "foreign"
        /\ c.result = "ok" =>
              /\ c.served = 1
              /\ \A n \in c.behind : casts[n].done

Open(k) == k \in DOMAIN calls /\ calls[k].result = "open"

\* The request of call k is neither queued nor handled any more, though it was
\* never served: a server in a call of its own has taken it for a reply.
Stolen(k) ==
    /\ calls[k].served = 0
    /\ \A i \in DOMAIN mail[calls[k].to] :
          mail[calls[k].to][i].kind # "request" \/ mail[calls[k].to][i].n # k

\* What may keep a call without a timeout waiting: one of the two has died, the
\* caller is on another node, the server has lost the request or waits for a
\* server itself.
Excused(k) ==
    /\ ~calls[k].timed
    /\ \/ {calls[k].by, calls[k].to} \ up # {}
       \/ calls[k].by \in Far
       \/ Stolen(k)
       \/ waits[calls[k].to] # NoCall

\* Every call returns: one with a timeout always, one without unless it is
\* excused; in particular a refused request is answered too.
CallsReturn ==
    \A k \in 1..MaxCalls :
        Open(k) ~> (~Open(k) \/ calls[k].by \notin up \/ Excused(k))
=============================================================================
