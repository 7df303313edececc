----------------------------- MODULE MCRegistry -----------------------------
(***************************************************************************)
(* Registry from a node that has booted some number of particles, with a   *)
(* budget of calls.                                                        *)
(*                                                                         *)
(* Booted(up) is the state Registry reaches when the node's own task       *)
(* spawns the particles of `up`, unnamed.  A behaviour then starts at      *)
(* most MaxCalls calls (spawns and signals of any task, guest calls);      *)
(* whatever has begun runs on freely, so fairness and liveness mean what   *)
(* they mean in Registry.                                                  *)
(***************************************************************************)
EXTENDS Registry, TLC

CONSTANTS
    Boots,      \* how many particles may have been booted
    MaxCalls    \* the budget

VARIABLE budget

Booted(up) ==
    /\ stage = [p \in Pids |-> IF p \in up THEN "up" ELSE "unborn"]
    /\ running = up
    /\ links = [p \in Pids |-> {}]
    /\ monitors = [p \in Pids |-> {}]
    /\ monitoredBy = [p \in Pids |-> {}]
    /\ trapExit = [p \in Pids |-> FALSE]
    /\ nextRef = [p \in Pids |-> 1]
    /\ names = [n \in Names |-> NoPid]
    /\ reason = [p \in Pids |-> "normal"]
    /\ exitTo = [p \in Pids |-> {}]
    /\ downTo = [p \in Pids |-> {}]
    /\ killing = [p \in Pids |-> {}]
    /\ child = [p \in Pids |-> NoPid]
    /\ deaths = [p \in Pids |-> 0]
    /\ inbox = [p \in Pids |-> {}]
    /\ call = [t \in Tasks |-> Idle]

MCInit ==
    /\ \E up \in SUBSET Pids : Cardinality(up) \in Boots /\ Booted(up)
    /\ budget = MaxCalls

Starts ==
    \/ \E m \in Tasks : AnyTask(m)
    \/ \E m \in Pids : Guest(m)

Goes ==
    \/ \E m \in Tasks : Proceed(m)
    \/ \E p \in Pids : ExitStep(p)

MCNext ==
    \/ budget > 0 /\ budget' = budget - 1 /\ Starts
    \/ budget' = budget /\ Goes

\* Pids are interchangeable: nothing here orders them.  Used for safety only.
Symmetry == Permutations(Pids)

MCSpec == MCInit /\ [][MCNext]_<<vars, budget>> /\ Fairness
=============================================================================
