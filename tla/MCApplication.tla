---------------------------- MODULE MCApplication ----------------------------
(***************************************************************************)
(* Application with a few kinds of children and two populations: one of    *)
(* generic servers and their clients, one of a pool and its clients.       *)
(***************************************************************************)
EXTENDS Application

CONSTANTS c1, c2, s1, s2, pool, a, b

Kind(r, s, t) == [restart |-> r, shutdown |-> s, traps |-> t]

\* Every restart type and every way to be stopped; the first two trap exits, so
\* that only a kill is sure to end them.
Stubborn == Kind("permanent", "timeout", TRUE)
Job == Kind("temporary", "brutal_kill", TRUE)
Worker == Kind("transient", "infinity", FALSE)

MCKinds == {Stubborn, Job, Worker}

\* Two children that may be restarted, and one beside them that is not.
MCOps == {[op |-> "start", id |-> a, kind |-> Stubborn],
          [op |-> "start", id |-> a, kind |-> Worker],
          [op |-> "start", id |-> b, kind |-> Job],
          [op |-> "terminate", id |-> a, kind |-> Job]}

\* Clients of a server that calls another one, which calls it back.
TwoServers ==
    [up |-> {c1, c2, s1, s2}, deaths |-> 1, rootType |-> "permanent",
     plan |-> [talk |-> {<<c1, s1, TRUE>>, <<c1, s1, FALSE>>, <<c2, s1, FALSE>>,
                         <<s1, s2, FALSE>>, <<s2, s1, TRUE>>},
               calls |-> 3]]

\* A pool and clients that wait for its answers.
APool(type, clients, n, m) ==
    [up |-> clients \cup {pool}, deaths |-> m, rootType |-> type,
     plan |-> [talk |-> {<<c, pool, FALSE>> : c \in clients}, calls |-> n]]

MCStarts == {TwoServers, APool("permanent", {c1}, 3, 0),
             APool("transient", {c1, c2}, 2, 1), APool("temporary", {c1}, 2, 0)}
=============================================================================
