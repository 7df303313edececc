----------------------------- MODULE MCSignals -----------------------------
(***************************************************************************)
(* Signals between particles a and c of one node and b of another, from    *)
(* two kinds of start: relations that have been made and settled, for what *)
(* happens when something fails, and none at all, for how they are made.   *)
(*                                                                         *)
(* Settled(ps, ls, ws) is the state Signals reaches from Init when the     *)
(* links of ls and the monitors of ws are made, their frames handled, and  *)
(* the particles outside ps long gone.  A behaviour has a budget of guest  *)
(* calls, of particles that return and of faults; everything the nodes do  *)
(* by themselves is free.                                                  *)
(***************************************************************************)
EXTENDS Signals, TLC

CONSTANTS a, b, c, n1, n2

VARIABLE budget

MCHome == [p \in Pids |-> IF p = b THEN n2 ELSE n1]

Settled(ps, ls, ws) ==
    /\ alive = ps
    /\ running = ps
    /\ reason = [p \in Pids |-> "none"]
    /\ links = [p \in Pids |-> {q \in Pids : {p, q} \in ls}]
    /\ monitors = ws
    /\ monitoredBy = ws
    /\ nextRef = [p \in Pids |-> IF \E x \in ws : x.who = p THEN 2 ELSE 1]
    /\ deaths = [n \in Nodes |-> <<>>]
    /\ conn = [n \in Nodes |-> Nodes \ {n}]
    /\ wire = [n \in Nodes |-> [m \in Nodes |-> <<>>]]
    /\ lost = [n \in Nodes |-> <<>>]
    /\ firing = [n \in Nodes |-> NotFiring]
    /\ inbox = [p \in Pids |-> {}]
    /\ down = {}
    /\ broken = {}
    /\ faultless = TRUE
    /\ loose = {}
    /\ owed = {}
    /\ called = {}
    /\ losses = {}

Budget(k, r, f) == budget = [calls |-> k, returns |-> r, faults |-> f]

MCInit ==
    \/ Settled({a, b}, {}, {}) /\ (Budget(3, 0, 0) \/ Budget(2, 1, 0))
    \/ Settled({a, b}, {{a, b}}, {MonitorOf(a, b, 1)}) /\ Budget(1, 0, 1)
    \/ Settled({a, b}, {}, {MonitorOf(a, b, 1)}) /\ Budget(1, 1, 1)
    \/ Settled({a, b, c}, {{a, b}, {b, c}}, {MonitorOf(c, b, 1)}) /\ Budget(0, 1, 1)

Spend(what) ==
    /\ budget[what] > 0
    /\ budget' = [budget EXCEPT ![what] = @ - 1]

Works ==
    \/ \E n \in Nodes : Forward(n)
    \/ \E n \in Nodes : React(n)
    \/ \E n \in Nodes : \E m \in Nodes \ {n} : Transport(n, m)
    \/ \E n, m \in Nodes : Heal(n, m)

MCNext ==
    \/ Spend("calls") /\ \E p \in Pids : Guest(p)
    \/ Spend("returns") /\ \E p \in Pids, why \in Given : GuestReturn(p, why)
    \/ Spend("faults") /\ Fault
    \/ Works /\ UNCHANGED budget

MCSpec == MCInit /\ [][MCNext]_<<vars, budget>> /\ Fairness
=============================================================================
