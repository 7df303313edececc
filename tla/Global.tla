------------------------------- MODULE Global -------------------------------
(***************************************************************************)
(* Cluster-wide names (src/global.rs): claiming a name by locking it at    *)
(* every member, giving it up, its release when its particle dies, and the *)
(* merge of two tables when two nodes learn of each other.                 *)
(*                                                                         *)
(* A request to another node (ask) is one step at that node; the caller    *)
(* does nothing until it is answered.  It may fail before it arrives, or   *)
(* have its answer lost.  The guest of a dead particle goes on running, so *)
(* the claims of dead particles go on and may be begun.                    *)
(*                                                                         *)
(* Left out: rosters that shrink (Cluster) and lookups, which change       *)
(* nothing: peek reads the table, and lookup waits for merges to be 0.     *)
(***************************************************************************)
EXTENDS Naturals, Sequences, SequencesExt, FiniteSets, FiniteSetsExt

CONSTANTS
    Nodes,      \* the nodes, numbered in the order of their EndpointId
    Pids,       \* the particles, numbered in the order of Pid
    NodeOf,     \* where each particle lives
    Names,
    Retries,    \* CLAIM_RETRIES
    MaxClaims,  \* bound on the calls of register
    MaxFaults   \* bound on the requests that fail

NoPid == 0
NoNode == 0

ASSUME GlobalAssumption ==
    /\ Nodes \subseteq Nat \ {NoNode} /\ IsFiniteSet(Nodes)
    /\ Pids \subseteq Nat \ {NoPid} /\ IsFiniteSet(Pids)
    /\ Names # {}
    /\ NodeOf \in [Pids -> Nodes]
    /\ \A p, q \in Pids : NodeOf[p] < NodeOf[q] => p < q
    /\ Retries \in Nat \ {0} /\ {MaxClaims, MaxFaults} \subseteq Nat

VARIABLES
    table,      \* GlobalNames.names of each node
    locks,      \* GlobalNames.locks
    merges,     \* GlobalNames.merges
    members,    \* Cluster.members
    claim,      \* the register or unregister call each particle is in
    sync,       \* sync_with at one node of another, and its answer_sync
    deaths,     \* what the death reactor has not received yet
    reactor,    \* what it is giving up
    alive,      \* the particles that are alive
    whole,      \* whether all nodes were members at the beginning (history)
    first,      \* the tables at the beginning (history)
    claims,     \* how many claims were made (history)
    faults,     \* how many requests failed (history)
    lostCommit, \* whether a commit was among them (history)
    quit,       \* particles that died by themselves or gave a name up (history)
    exchanged   \* the pairs of nodes that merged both ways (history)

nameVars == <<table, locks>>
taskVars == <<claim, sync, deaths, reactor>>
history == <<whole, first, claims, faults, lostCommit, quit, exchanged>>
vars == <<nameVars, merges, members, taskVars, alive, history>>

Home(p) == NodeOf[p]

\* One request more has failed.
Faulty ==
    /\ faults < MaxFaults
    /\ faults' = faults + 1

\* A request of n to m: it arrives, or m is not n and it fails.
Asks(n, m, arrives) ==
    \/ arrives /\ UNCHANGED faults
    \/ ~arrives /\ n # m /\ Faulty

-----------------------------------------------------------------------------
(* register *)

NoClaim == [pc |-> "idle", name |-> CHOOSE x \in Names : TRUE, left |-> {},
            held |-> {}, tries |-> 0, end |-> "none"]

\* A try starts from the roster of the moment, in the order of the nodes.
Try(p, x, tries) ==
    [pc |-> "lock", name |-> x, left |-> members[Home(p)] \cup {Home(p)},
     held |-> {}, tries |-> tries, end |-> "none"]

\* A slip: every claimant asks itself first.
AtOwn(p) ==
    IF Home(p) \in claim[p].left THEN Home(p) ELSE Min(claim[p].left)

\* The node whose turn it is.
At(p) == Min(claim[p].left)

\* register refuses to begin while a merge is under way, or for a particle that
\* has a name.
Register(p, x) ==
    /\ claim[p].pc = "idle"
    /\ claims < MaxClaims
    /\ merges[Home(p)] = 0
    /\ \A y \in Names : table[Home(p)][y] # p
    /\ claims' = claims + 1
    /\ claim' = [claim EXCEPT ![p] = Try(p, x, 1)]
    /\ UNCHANGED <<nameVars, merges, members, sync, deaths, reactor, alive,
                   whole, first, faults, lostCommit, quit, exchanged>>

\* The locks taken so far are released, and then the try has ended.
Abandoned(p, end) ==
    [claim EXCEPT ![p].pc = "unlock", ![p].left = claim[p].held, ![p].end = end]

\* lock, at the node whose turn it is: first the name table is looked at ...
CheckName(p) ==
    /\ claim[p].pc = "lock"
    /\ \/ /\ table[At(p)][claim[p].name] # NoPid
          /\ claim' = Abandoned(p, "taken")
       \/ /\ table[At(p)][claim[p].name] = NoPid
          /\ claim' = [claim EXCEPT ![p].pc = "take"]
    /\ UNCHANGED <<nameVars, merges, members, sync, deaths, reactor, alive, history>>

\* A slip: a lock is there for the taking.
FreeAlways(n, x, holder) == n \in Nodes

\* A lock is free for the node that holds it, too.
Free(n, x, holder) == locks[n][x] \in {NoNode, holder}

\* ... and then, under another lock, the table of locks.  Once every member is
\* locked, the commits begin.
TakeLock(p) ==
    /\ claim[p].pc = "take"
    /\ LET n == At(p)
           x == claim[p].name
           left == claim[p].left \ {n}
           held == claim[p].held \cup {n}
       IN  \/ /\ ~Free(n, x, Home(p))
              /\ claim' = Abandoned(p, "unsettled")
              /\ UNCHANGED locks
           \/ /\ Free(n, x, Home(p))
              /\ locks' = [locks EXCEPT ![n][x] = Home(p)]
              /\ claim' = [claim EXCEPT
                    ![p].pc = IF left = {} THEN "commit" ELSE "lock",
                    ![p].left = IF left = {} THEN held ELSE left,
                    ![p].held = held]
    /\ UNCHANGED <<table, merges, members, sync, deaths, reactor, alive, history>>

\* The request to lock does not arrive, or its answer is lost: then the lock is
\* taken and nobody will release it.
LockFails(p) ==
    /\ claim[p].pc \in {"lock", "take"}
    /\ At(p) # Home(p)
    /\ Faulty
    /\ claim' = Abandoned(p, "unsettled")
    /\ locks' = IF claim[p].pc = "take" /\ Free(At(p), claim[p].name, Home(p))
                THEN [locks EXCEPT ![At(p)][claim[p].name] = Home(p)] ELSE locks
    /\ UNCHANGED <<table, merges, members, sync, deaths, reactor, alive, whole, first, claims,
                   lostCommit, quit, exchanged>>

\* commit does not look at what it overwrites, and whether it arrived is not
\* looked at either.
Commit(p, arrives) ==
    /\ claim[p].pc = "commit"
    /\ Asks(Home(p), At(p), arrives)
    /\ LET n == At(p)
           left == claim[p].left \ {n}
       IN  /\ table' = IF arrives THEN [table EXCEPT ![n][claim[p].name] = p] ELSE table
           /\ claim' = IF left = {} THEN Abandoned(p, "ok")
                       ELSE [claim EXCEPT ![p].left = left]
    /\ lostCommit' = (lostCommit \/ ~arrives)
    /\ UNCHANGED <<locks, merges, members, sync, deaths, reactor, alive, whole, first, claims,
                   quit, exchanged>>

Unlock(p, arrives) ==
    /\ claim[p].pc = "unlock"
    /\ claim[p].left # {}
    /\ Asks(Home(p), At(p), arrives)
    /\ LET n == At(p)
           x == claim[p].name
       IN  /\ locks' = IF arrives /\ locks[n][x] = Home(p)
                       THEN [locks EXCEPT ![n][x] = NoNode] ELSE locks
           /\ claim' = [claim EXCEPT ![p].left = @ \ {n}]
    /\ UNCHANGED <<table, merges, members, sync, deaths, reactor, alive, whole, first, claims,
                   lostCommit, quit, exchanged>>

\* register returns, or tries again what did not settle.
EndTry(p) ==
    /\ claim[p].pc = "unlock"
    /\ claim[p].left = {}
    /\ claim' = IF claim[p].end = "unsettled" /\ claim[p].tries < Retries
                THEN [claim EXCEPT ![p] = Try(p, claim[p].name, claim[p].tries + 1)]
                ELSE [claim EXCEPT ![p].pc = "idle", ![p].held = {}]
    /\ UNCHANGED <<nameVars, merges, members, sync, deaths, reactor, alive, history>>

-----------------------------------------------------------------------------
(* unregister, by the guest or by the death reactor *)

Released(t, n, x, p) == IF t[n][x] = p THEN [t EXCEPT ![n][x] = NoPid] ELSE t

\* The local entry goes at once, the others one by one.
Unregister(p, x) ==
    /\ claim[p].pc = "idle"
    /\ table[Home(p)][x] = p
    /\ table' = Released(table, Home(p), x, p)
    /\ claim' = [claim EXCEPT ![p].pc = "release", ![p].name = x,
                              ![p].left = members[Home(p)]]
    /\ quit' = quit \cup {p}
    /\ UNCHANGED <<locks, merges, members, sync, deaths, reactor, alive, whole, first, claims,
                   faults, lostCommit, exchanged>>

Release(p, arrives) ==
    /\ claim[p].pc = "release"
    /\ claim[p].left # {}
    /\ Asks(Home(p), At(p), arrives)
    /\ table' = IF arrives THEN Released(table, At(p), claim[p].name, p) ELSE table
    /\ claim' = [claim EXCEPT ![p].left = @ \ {At(p)}]
    /\ UNCHANGED <<locks, merges, members, sync, deaths, reactor, alive, whole, first, claims,
                   lostCommit, quit, exchanged>>

EndRelease(p) ==
    /\ claim[p].pc = "release"
    /\ claim[p].left = {}
    /\ claim' = [claim EXCEPT ![p].pc = "idle"]
    /\ UNCHANGED <<nameVars, merges, members, sync, deaths, reactor, alive, history>>

\* exit_particle publishes the death.
Dies(ps) ==
    /\ alive' = alive \ ps
    /\ deaths' = [n \in Nodes |-> deaths[n] \o
          SetToSeq({p \in ps \cap alive : Home(p) = n})]

Die(p) ==
    /\ p \in alive
    /\ Dies({p})
    /\ quit' = quit \cup {p}
    /\ UNCHANGED <<nameVars, merges, members, claim, sync, reactor, whole, first, claims,
                   faults, lostCommit, exchanged>>

NoRelease == [pid |-> NoPid, name |-> CHOOSE x \in Names : TRUE, left |-> {}]

\* A slip: what goes is the name the particle once had, whoever has it now.
ReceiveByOldName(n) ==
    /\ reactor[n].left = {}
    /\ deaths[n] # <<>>
    /\ deaths' = [deaths EXCEPT ![n] = Tail(@)]
    /\ table' = [table EXCEPT ![n] =
          [x \in Names |-> IF first[n][x] = Head(deaths[n]) THEN NoPid ELSE @[x]]]
    /\ UNCHANGED <<locks, merges, members, claim, sync, reactor, alive, history>>

\* The death reactor looks for the name of the dead particle, once.
Receive(n) ==
    /\ reactor[n].left = {}
    /\ deaths[n] # <<>>
    /\ deaths' = [deaths EXCEPT ![n] = Tail(@)]
    /\ LET p == Head(deaths[n])
       IN  \/ /\ \A x \in Names : table[n][x] # p
              /\ UNCHANGED <<table, reactor>>
           \/ \E x \in Names :
                 /\ table[n][x] = p
                 /\ table' = Released(table, n, x, p)
                 /\ reactor' = [reactor EXCEPT ![n] =
                       [pid |-> p, name |-> x, left |-> members[n]]]
    /\ UNCHANGED <<locks, merges, members, claim, sync, alive, history>>

ReactorRelease(n, arrives) ==
    /\ reactor[n].left # {}
    /\ LET m == Min(reactor[n].left)
       IN  /\ Asks(n, m, arrives)
           /\ table' = IF arrives
                       THEN Released(table, m, reactor[n].name, reactor[n].pid) ELSE table
           /\ reactor' = [reactor EXCEPT ![n].left = @ \ {m}]
    /\ UNCHANGED <<locks, merges, members, claim, sync, deaths, alive, whole, first, claims,
                   lostCommit, quit, exchanged>>

-----------------------------------------------------------------------------
(* Merging *)

Unnamed == [x \in Names |-> NoPid]
NoSync == [stage |-> "none", asked |-> Unnamed, reply |-> Unnamed, losers |-> {}]

\* n learns of m and merges with it in the background; but not when it learns
\* of m by joining it by its id.
Learn(n, m, byId) ==
    /\ n # m
    /\ m \notin members[n]
    /\ members' = [members EXCEPT ![n] = @ \cup {m}]
    /\ sync' = IF byId THEN sync ELSE [sync EXCEPT ![n][m].stage = "spawned"]
    /\ UNCHANGED <<nameVars, merges, claim, deaths, reactor, alive, history>>

\* A slip: what the other side says goes.
WinnerTheirs(ours, theirs) == theirs

\* The lower pid wins.
Winner(ours, theirs) == IF ours < theirs THEN ours ELSE theirs

\* merge, into n's table: what it becomes, and who loses and lives here.
Merged(n, theirs) ==
    [x \in Names |->
        IF NoPid \in {table[n][x], theirs[x]}
        THEN table[n][x] + theirs[x] ELSE Winner(table[n][x], theirs[x])]

Losers(n, theirs) ==
    {p \in Pids : /\ Home(p) = n
                  /\ \E x \in Names :
                        /\ NoPid \notin {table[n][x], theirs[x]}
                        /\ p \in {table[n][x], theirs[x]} \ {Merged(n, theirs)[x]}}

\* sync_with: from here to its end the merge is under way at n.
SyncAsk(n, m) ==
    /\ sync[n][m].stage = "spawned"
    /\ merges' = [merges EXCEPT ![n] = @ + 1]
    /\ sync' = [sync EXCEPT ![n][m].stage = "asked", ![n][m].asked = table[n]]
    /\ UNCHANGED <<nameVars, members, claim, deaths, reactor, alive, history>>

\* answer_sync at m: the reply is its table before the merge ...
SyncArrives(n, m) ==
    /\ sync[n][m].stage = "asked"
    /\ merges' = [merges EXCEPT ![m] = @ + 1]
    /\ sync' = [sync EXCEPT ![n][m].stage = "arrived", ![n][m].reply = table[m]]
    /\ UNCHANGED <<nameVars, members, claim, deaths, reactor, alive, history>>

\* ... the merge takes the table's lock anew ...
SyncMerges(n, m) ==
    /\ sync[n][m].stage = "arrived"
    /\ merges' = [merges EXCEPT ![m] = @ - 1]
    /\ table' = [table EXCEPT ![m] = Merged(m, sync[n][m].asked)]
    /\ sync' = [sync EXCEPT ![n][m].stage = "merged",
                            ![n][m].losers = Losers(m, sync[n][m].asked)]
    /\ UNCHANGED <<locks, members, claim, deaths, reactor, alive, history>>

\* ... and the losers are killed before the answer is sent.
SyncReplies(n, m) ==
    /\ sync[n][m].stage = "merged"
    /\ Dies(sync[n][m].losers)
    /\ sync' = [sync EXCEPT ![n][m].stage = "replied", ![n][m].losers = {}]
    /\ UNCHANGED <<nameVars, merges, members, claim, reactor, history>>

\* Back at n.
SyncAnswered(n, m) ==
    /\ sync[n][m].stage = "replied"
    /\ merges' = [merges EXCEPT ![n] = @ - 1]
    /\ table' = [table EXCEPT ![n] = Merged(n, sync[n][m].reply)]
    /\ sync' = [sync EXCEPT ![n][m].stage = "kill",
                            ![n][m].losers = Losers(n, sync[n][m].reply)]
    /\ exchanged' = exchanged \cup {{n, m}}
    /\ UNCHANGED <<locks, members, claim, deaths, reactor, alive, whole, first, claims,
                   faults, lostCommit, quit>>

SyncEnds(n, m) ==
    /\ sync[n][m].stage = "kill"
    /\ Dies(sync[n][m].losers)
    /\ sync' = [sync EXCEPT ![n][m] = NoSync]
    /\ UNCHANGED <<nameVars, merges, members, claim, reactor, history>>

\* A slip: merge_end is missing on the early return.
SyncFailsOpen(n, m) ==
    /\ sync[n][m].stage \in {"asked", "replied"}
    /\ Faulty
    /\ sync' = [sync EXCEPT ![n][m] = NoSync]
    /\ UNCHANGED <<nameVars, merges, members, claim, deaths, reactor, alive, whole, first,
                   claims, lostCommit, quit, exchanged>>

\* The request or its answer is lost: n is through, and does not try again.
SyncFails(n, m) ==
    /\ sync[n][m].stage \in {"asked", "replied"}
    /\ Faulty
    /\ merges' = [merges EXCEPT ![n] = @ - 1]
    /\ sync' = [sync EXCEPT ![n][m] = NoSync]
    /\ UNCHANGED <<nameVars, members, claim, deaths, reactor, alive, whole, first, claims,
                   lostCommit, quit, exchanged>>

-----------------------------------------------------------------------------

Partitions ==
    {sides \in SUBSET (SUBSET Nodes \ {{}}) :
        /\ UNION sides = Nodes
        /\ \A s, t \in sides : s # t => s \cap t = {}}

\* A cluster in parts, each fully connected, with the names claimed in each.
Parts(sides) ==
    /\ whole = (sides = {Nodes})
    /\ members = [n \in Nodes |-> UNION {s \ {n} : s \in {t \in sides : n \in t}}]
    /\ first \in [Nodes -> [Names -> Pids \cup {NoPid}]]
    /\ \A s \in sides : \A n \in s : \A x \in Names :
          /\ first[n][x] # NoPid => Home(first[n][x]) \in s
          /\ \A m \in s : first[m][x] = first[n][x]
    /\ \A n \in Nodes : \A x, y \in Names :
          x # y /\ first[n][x] = first[n][y] => first[n][x] = NoPid
    /\ table = first

Quiet ==
    /\ locks = [n \in Nodes |-> [x \in Names |-> NoNode]]
    /\ merges = [n \in Nodes |-> 0]
    /\ claim = [p \in Pids |-> NoClaim]
    /\ sync = [n \in Nodes |-> [m \in Nodes |-> NoSync]]
    /\ deaths = [n \in Nodes |-> <<>>]
    /\ reactor = [n \in Nodes |-> NoRelease]
    /\ alive = Pids
    /\ claims = 0
    /\ faults = 0
    /\ lostCommit = FALSE
    /\ quit = {}
    /\ exchanged = {}

Init == Quiet /\ \E sides \in Partitions : Parts(sides)

ClaimStep(p) ==
    \/ CheckName(p)
    \/ TakeLock(p)
    \/ LockFails(p)
    \/ \E arrives \in BOOLEAN : Commit(p, arrives)
    \/ \E arrives \in BOOLEAN : Unlock(p, arrives)
    \/ EndTry(p)
    \/ \E arrives \in BOOLEAN : Release(p, arrives)
    \/ EndRelease(p)

ReactorStep(n) ==
    \/ Receive(n)
    \/ \E arrives \in BOOLEAN : ReactorRelease(n, arrives)

SyncStep(n, m) ==
    \/ SyncAsk(n, m)
    \/ SyncArrives(n, m)
    \/ SyncMerges(n, m)
    \/ SyncReplies(n, m)
    \/ SyncAnswered(n, m)
    \/ SyncEnds(n, m)
    \/ SyncFails(n, m)

Calls ==
    \/ \E p \in Pids, x \in Names : Register(p, x)
    \/ \E p \in Pids, x \in Names : Unregister(p, x)

Goes ==
    \/ \E p \in Pids : ClaimStep(p)
    \/ \E n \in Nodes : ReactorStep(n)
    \/ \E n, m \in Nodes : SyncStep(n, m)

Deaths == \E p \in Pids : Die(p)

Learns == \E n, m \in Nodes, byId \in BOOLEAN : Learn(n, m, byId)

Next == Calls \/ Goes \/ Deaths \/ Learns

Spec == Init /\ [][Next]_vars

-----------------------------------------------------------------------------

Claims ==
    [pc : {"idle", "lock", "take", "commit", "unlock", "release"}, name : Names,
     left : SUBSET Nodes, held : SUBSET Nodes, tries : 0..Retries,
     end : {"none", "ok", "taken", "unsettled"}]

Tables == [Names -> Pids \cup {NoPid}]

Syncs ==
    [stage : {"none", "spawned", "asked", "arrived", "merged", "replied", "kill"},
     asked : Tables, reply : Tables, losers : SUBSET Pids]

\* The nodes n is merging with: those it asked, and those it is answering.
Asked(n) ==
    {m \in Nodes : sync[n][m].stage \in {"asked", "arrived", "merged", "replied"}}

Answering(n) == {m \in Nodes : sync[m][n].stage = "arrived"}

\* The variables have their types; merges in particular counts what is under
\* way, so that a lookup waits neither for ever nor too short (merge_begin and
\* merge_end come in pairs on every path).
TypeOK ==
    /\ table \in [Nodes -> Tables]
    /\ locks \in [Nodes -> [Names -> Nodes \cup {NoNode}]]
    /\ members \in [Nodes -> SUBSET Nodes]
    /\ claim \in [Pids -> Claims]
    /\ sync \in [Nodes -> [Nodes -> Syncs]]
    /\ deaths \in [Nodes -> Seq(Pids)]
    /\ reactor \in [Nodes -> [pid : Pids \cup {NoPid}, name : Names, left : SUBSET Nodes]]
    /\ alive \subseteq Pids
    /\ whole \in BOOLEAN
    /\ first \in [Nodes -> Tables]
    /\ claims \in 0..MaxClaims
    /\ faults \in 0..MaxFaults
    /\ lostCommit \in BOOLEAN
    /\ quit \subseteq Pids
    /\ exchanged \subseteq SUBSET Nodes
    /\ merges = [n \in Nodes |-> Cardinality(Asked(n)) + Cardinality(Answering(n))]

\* The particles that were told that a name is theirs and have not given it up.
Owners(x) ==
    {p \in alive \ quit : claim[p].pc = "idle" /\ claim[p].end = "ok" /\ claim[p].name = x}

\* In a cluster whose members agree who they are, a name that was granted is in
\* every table: no claim that was begun before, during or after, no lock taken
\* after a look at the table that was stale by then, no lock that a lost answer
\* left behind and no release for a particle that died or gave up that name
\* takes it away.  (A commit that is lost is another matter, and ignored.)
GrantedEverywhere ==
    whole /\ ~lostCommit =>
        \A x \in Names : \A p \in Owners(x) : \A n \in Nodes : table[n][x] = p

\* Whether nobody had the name at the beginning.
WasFree(x) == \A n \in Nodes : first[n][x] = NoPid

\* Nobody's claim fails for others that fail: when claims of a free name are
\* through, one of them was granted, because locks are taken in one order.
SomebodyWins ==
    whole /\ faults = 0 /\ quit = {} /\ (\A p \in Pids : claim[p].pc = "idle") =>
        \A p \in Pids : claim[p].end # "none" /\ WasFree(claim[p].name) =>
            Owners(claim[p].name) # {}

\* An entry for a particle goes only when that particle has died or given its
\* name up, or to a lower pid: a loser does not take the winner's registration
\* with it, and no claim overwrites a registration.  (Not so where claims, or
\* deaths, race with a merge, nor where a commit is lost.)
EntriesYield ==
    [][(whole /\ ~lostCommit') \/ (claims' = 0 /\ quit' = {}) =>
          \A n \in Nodes, x \in Names :
              table[n][x] # NoPid /\ table'[n][x] # table[n][x] =>
                  \/ table[n][x] \in quit'
                  \/ table'[n][x] # NoPid /\ table'[n][x] < table[n][x]]_vars

\* Every two nodes have merged, and nothing is under way.
AllMerged ==
    /\ \A n, m \in Nodes : n # m => {n, m} \in exchanged
    /\ \A n, m \in Nodes : sync[n][m].stage = "none"
    /\ \A n \in Nodes : deaths[n] = <<>> /\ reactor[n].left = {}

\* Parts that meet agree without an arbiter: whatever merges run at the same
\* time, the lowest pid that had a name is never killed for it, and once every
\* two nodes have merged at least one way around, all tables name it and the
\* other particles that had the name are dead.
MergesAgree ==
    claims = 0 /\ quit = {} =>
        \A x \in Names :
            LET had == {first[n][x] : n \in Nodes} \ {NoPid}
            IN  had # {} => /\ Min(had) \in alive
                            /\ AllMerged => /\ \A n \in Nodes : table[n][x] = Min(had)
                                            /\ had \cap alive = {Min(had)}

\* world.wit 84, of global-register: "Claim a name across the whole cluster, so
\* exactly one particle holds it."  Two are never both told that it is theirs.
ExclusiveClaim ==
    whole => \A x \in Names : Cardinality(Owners(x)) <= 1
=============================================================================
