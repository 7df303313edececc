----------------------------- MODULE MCCluster -----------------------------
(***************************************************************************)
(* Cluster under scenarios: which nodes are there and meshed at first, and *)
(* how often what is not up to them may happen.                            *)
(***************************************************************************)
EXTENDS Cluster

CONSTANT Scenarios

VARIABLES
    budget,     \* what may still happen
    prompt      \* whether a node's chores are done before anything else

Budget(j, d, e, b, h, c) ==
    [joins |-> j, delivers |-> d, expires |-> e, breaks |-> b, heals |-> h, crashes |-> c]

Scenario(absent, mesh, p, b) ==
    [absent |-> absent, mesh |-> mesh, prompt |-> p, budget |-> b]

\* Nothing tells the nodes that are meshed apart: which of them crashes, and
\* between which two the path breaks, does not matter.
Some == CHOOSE n \in Nodes : TRUE
Others == Nodes \ {Some}
Other == CHOOSE n \in Others : TRUE
Third == CHOOSE n \in Others \ {Other} : TRUE

\* Three nodes join each other; one of three loses the path to another; one of
\* four crashes; a path comes back and is used again, or a quarantine ends.
Joining == Scenario({Some}, {}, FALSE, Budget(2, 0, 0, 0, 0, 0))
OnePath == Scenario({Some}, Others, FALSE, Budget(0, 0, 0, 1, 0, 0))
OneNode == Scenario({}, Nodes, TRUE, Budget(0, 0, 0, 0, 0, 1))
UsedAgain == Scenario({Some}, Others, TRUE, Budget(0, 1, 0, 1, 1, 0))
LetIn == Scenario({Some}, Others, TRUE, Budget(0, 0, 1, 1, 1, 0))

Convergence == {Joining, OnePath, OneNode, UsedAgain, LetIn}
Break == {[OnePath EXCEPT !.prompt = TRUE]}

MCInit ==
    \E s \in Scenarios :
        /\ Untroubled(s.absent)
        /\ Meshed(s.mesh)
        /\ budget = s.budget
        /\ prompt = s.prompt

\* What a prompt node does first: forgetting who left, passing over the loss of
\* a quarantined node, and dropping what cannot be sent.
Skips(n) == losses[n] # <<>> /\ Head(losses[n]) \in quarantined[n]

Unsendable(n, m, k) ==
    ~Path(n, m) /\ ~wire[n][m][k].up /\ wire[n][m][k].frames # <<>>

Chores ==
    \/ \E n \in Alive, m \in Nodes : Forget(n, m)
    \/ \E n \in Alive, m \in Nodes : Skips(n) /\ Report(n, m)
    \/ \E n \in Alive, m \in Nodes : \E k \in DOMAIN wire[n][m] : DialFails(n, m, k)

HasChores ==
    \E n \in Alive :
        \/ leaving[n] # <<>>
        \/ Skips(n)
        \/ \E m \in Nodes : \E k \in DOMAIN wire[n][m] : Unsendable(n, m, k)

Spends(what) ==
    /\ budget[what] > 0
    /\ budget' = [budget EXCEPT ![what] = @ - 1]

Anything ==
    \/ budget' = budget /\ Goes
    \/ Spends("joins") /\ \E n, p \in Alive, byAddr \in BOOLEAN : Join(n, p, byAddr)
    \/ Spends("delivers") /\ Delivers
    \/ Spends("expires") /\ Expires
    \/ Spends("breaks") /\ PathBreaks(Other, Third)
    \/ Spends("heals") /\ PathHeals(Other, Third)
    \/ Spends("crashes") /\ Crash(Some)

MCNext ==
    /\ prompt' = prompt
    /\ \/ prompt /\ HasChores /\ Chores /\ budget' = budget
       \/ ~(prompt /\ HasChores) /\ Anything

MCSpec == MCInit /\ [][MCNext]_<<vars, budget, prompt>> /\ Fairness

\* The reason for the deliberate disconnects: whoever joins, loses a path or
\* crashes, the rosters end up as partitions that are fully connected, provided
\* that nobody comes back (heals and expires are what may happen, at first).
Reconverges ==
    (budget.heals = 0 /\ budget.expires = 0) => <>[]FullyConnected
=============================================================================
