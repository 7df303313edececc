----------------------------- MODULE Application -----------------------------
(***************************************************************************)
(* A node with an application: a dynamic supervisor is its root, clients   *)
(* and generic servers run beside it, and the node's fate is the root's    *)
(* (cmd_start and watch_root in src/main.rs, RestartType in src/app.rs).   *)
(* The root is spawned first and its death is subscribed to afterwards;    *)
(* the broadcast holds what is published from then on.  What still runs    *)
(* while the process exits is not stopped here.                            *)
(***************************************************************************)
EXTENDS DynamicSupervisor

CONSTANT
    Starts      \* what a node may start with: its particles, their plan of
                \* calls, how many of them die, and the type of its root

ASSUME ApplicationAssumption ==
    Starts \subseteq [up : SUBSET Particles,
                       plan : [talk : SUBSET (Particles \X Particles \X BOOLEAN),
                               calls : 0..MaxCalls],
                       deaths : Nat,
                       rootType : {"permanent", "transient", "temporary"}]

VARIABLES
    rootType,   \* Manifest.type
    fate,       \* "starting", "watching", "continues", "exit0" or "exit1"
    news        \* the reason of the root's death in the broadcast, or "none"

rootVars == <<rootType, fate, news>>
vars == <<poolSpecVars, rootVars>>

\* watch_root subscribes to the deaths.
Subscribe ==
    /\ fate = "starting"
    /\ fate' = "watching"
    /\ UNCHANGED <<poolSpecVars, rootType, news>>

\* A slip: clean is what a transient child need not be restarted for.
AbnormalLikeRestart(r) == WarrantsRestart(r)

Abnormal(r) == r # "normal"

ShouldStopNode(r) ==
    \/ rootType = "permanent"
    \/ rootType = "transient" /\ Abnormal(r)

\* watch_root receives the root's death and decides.
Watch ==
    /\ fate = "watching"
    /\ news # "none"
    /\ fate' = IF ~ShouldStopNode(news) THEN "continues"
               ELSE IF Abnormal(news) THEN "exit1" ELSE "exit0"
    /\ UNCHANGED <<poolSpecVars, rootType, news>>

\* The reason the pool has died of.
RootReason == IF phase' = "gave_up" THEN "shutdown" ELSE "killed"

\* The rest of the node takes a step; the root's death is broadcast.
NodeSteps ==
    /\ \/ CallsNext /\ UNCHANGED poolVars
       \/ PoolNext
    /\ news' = IF Pool \in up \ up' /\ fate = "watching" THEN RootReason ELSE news
    /\ UNCHANGED <<rootType, fate>>

Init ==
    /\ CallsInit
    /\ PoolInit
    /\ \E s \in Starts :
          /\ up = s.up
          /\ plan = s.plan
          /\ deaths = s.deaths
          /\ rootType = s.rootType
    /\ fate = IF Pool \in up THEN "starting" ELSE "continues"
    /\ news = "none"

Next == NodeSteps \/ Subscribe \/ Watch

\* The pool's loop is a running guest, and watch_root a task that is polled.
Fairness ==
    /\ CallsFairness
    /\ WF_poolSpecVars(PoolLoop)
    /\ WF_vars(Subscribe)
    /\ WF_vars(Watch)

Spec == Init /\ [][Next]_vars /\ Fairness

-----------------------------------------------------------------------------

\* Once it is watched, a root that gives up takes the node with it, and the
\* process fails, so that whatever supervises it sees the collapse; only under
\* a temporary root the node runs on.  A root that is killed counts the same.
NodeFollowsRoot ==
    (news # "none") ~>
        (fate = IF rootType = "temporary" THEN "continues" ELSE "exit1")
=============================================================================
