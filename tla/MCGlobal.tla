------------------------------ MODULE MCGlobal ------------------------------
(***************************************************************************)
(* Global in a whole cluster, where names are claimed and given up and     *)
(* particles die, and in one whose parts, each with its names, meet.       *)
(***************************************************************************)
EXTENDS Global

CONSTANT Scenarios

VARIABLES
    cap,    \* how many claims, faults and particles that quit there may be
    once    \* whether all learn of each other first, and merge one way around only

Scenario(sides, o, c, f, q) ==
    [sides |-> sides, once |-> o, cap |-> [claims |-> c, faults |-> f, quit |-> q]]

\* One particle on each node, or two on the first.
Apart == [p \in Pids |-> p]
Together == [p \in Pids |-> IF p < 3 THEN 1 ELSE p - 1]

Final == Max(Nodes)

\* All claim the name; one claims it from another that dies or gives it up, and
\* a request fails.
Contest == Scenario({Nodes}, FALSE, 3, 0, 0)
Succession == Scenario({Nodes}, FALSE, 2, 1, 1)

\* All were alone, or only the last was and a merge fails.
Strangers == Scenario({{n} : n \in Nodes}, TRUE, 0, 0, 0)
Split == Scenario({Nodes \ {Final}, {Final}}, FALSE, 0, 1, 0)

Contests == {Contest}
ClaimsAndMerges == {Contest, Succession, Strangers, Split}

MCInit ==
    \E s \in Scenarios :
        /\ Quiet
        /\ Parts(s.sides)
        /\ whole => \A n \in Nodes, x \in Names : first[n][x] = NoPid
        /\ cap = s.cap
        /\ once = s.once

Unmet == {pair \in Nodes \X Nodes : pair[1] # pair[2] /\ pair[2] \notin members[pair[1]]}

\* The pair that is next learns of each other, the one or the other by id.
LearnFirst ==
    LET pair == CHOOSE pair \in Unmet : TRUE
        loud == sync[pair[2]][pair[1]].stage # "none"
    IN  \E byId \in (IF pair[1] \in members[pair[2]] THEN {loud} ELSE BOOLEAN) :
            Learn(pair[1], pair[2], byId)

MCNext ==
    /\ IF once /\ Unmet # {} THEN LearnFirst ELSE Next
    /\ claims' <= cap.claims
    /\ faults' <= cap.faults
    /\ Cardinality(quit') <= cap.quit
    /\ UNCHANGED <<cap, once>>

MCSpec == MCInit /\ [][MCNext]_<<vars, cap, once>>
=============================================================================
