---------------------------- MODULE GlobalProofs ----------------------------
(***************************************************************************)
(* Proofs about Global for any number of nodes, particles, names, claims   *)
(* and faults: its types; in a whole cluster with one claimant on each     *)
(* node, that what was granted stays and that somebody wins; and where     *)
(* parts meet, that their tables agree on the lowest pid.                  *)
(***************************************************************************)
EXTENDS Global, SequenceFacts

-----------------------------------------------------------------------------
(* Facts about the numbers that nodes and particles are *)

LEMMA NodeFacts ==
    /\ Nodes \subseteq Nat /\ NoNode \notin Nodes
    /\ Pids \subseteq Nat /\ NoPid \notin Pids
    /\ \A p \in Pids : Home(p) \in Nodes
    /\ (CHOOSE x \in Names : TRUE) \in Names
  BY GlobalAssumption DEF Home, NoNode, NoPid

LEMMA LeastNode ==
    ASSUME NEW S \in SUBSET Nodes, S # {}
    PROVE  Min(S) \in S /\ Min(S) \in Nodes /\ \A y \in S : Min(S) <= y
<1>1. S \in SUBSET Nat
  BY NodeFacts
<1> QED
  BY <1>1, LeastMember

-----------------------------------------------------------------------------
(* The inductive invariant of the types: who is taking locks or committing   *)
(* is not through.                                                           *)

Busy ==
    \A p \in Pids : claim[p].pc \in {"lock", "take", "commit"} => claim[p].left # {}

\* The types, but for the count of the merges.
Types ==
    /\ table \in [Nodes -> Tables]
    /\ locks \in [Nodes -> [Names -> Nodes \cup {NoNode}]]
    /\ members \in [Nodes -> SUBSET Nodes]
    /\ claim \in [Pids -> Claims]
    /\ sync \in [Nodes -> [Nodes -> Syncs]]
    /\ deaths \in [Nodes -> Seq(Pids)]
    /\ reactor \in [Nodes -> [pid : Pids \cup {NoPid}, name : Names, left : SUBSET Nodes]]

Pasts ==
    /\ alive \subseteq Pids
    /\ whole \in BOOLEAN
    /\ first \in [Nodes -> Tables]
    /\ claims \in 0..MaxClaims
    /\ faults \in 0..MaxFaults
    /\ lostCommit \in BOOLEAN
    /\ quit \subseteq Pids
    /\ exchanged \subseteq SUBSET Nodes

Counted == merges = [n \in Nodes |-> Cardinality(Asked(n)) + Cardinality(Answering(n))]

\* Whom a node merges with is its member: it is not learned of again meanwhile.
Met == \A n, m \in Nodes : sync[n][m].stage # "none" => m \in members[n]

Typed == Types /\ Pasts /\ Counted /\ Busy /\ Met

LEMMA TypedImpliesTypeOK == Typed => TypeOK
  BY DEF Typed, TypeOK, Types, Pasts, Counted

\* The node whose turn it is, while there is one.
LEMMA AtFacts ==
    ASSUME Typed, NEW p \in Pids, claim[p].left # {}
    PROVE  /\ At(p) \in claim[p].left
           /\ At(p) \in Nodes
           /\ \A y \in claim[p].left : At(p) <= y
<1>1. claim[p].left \in SUBSET Nodes
  BY DEF Typed, Types, Claims
<1> QED
  BY <1>1, LeastNode DEF At

-----------------------------------------------------------------------------
(* What the steps of a claim do to it, field by field *)

Others(p) == \A q \in Pids : q # p => claim'[q] = claim[q]

\* The claim of p is given up for `end`: its locks are to be released.
GivesUp(p, end) ==
    /\ claim'[p].pc = "unlock"
    /\ claim'[p].name = claim[p].name
    /\ claim'[p].left = claim[p].held
    /\ claim'[p].held = claim[p].held
    /\ claim'[p].tries = claim[p].tries
    /\ claim'[p].end = end

LEMMA AbandonedFacts ==
    ASSUME Typed, NEW p \in Pids, NEW end \in {"ok", "taken", "unsettled"},
           claim' = Abandoned(p, end)
    PROVE  claim' \in [Pids -> Claims] /\ Others(p) /\ GivesUp(p, end)
<1>1. claim \in [Pids -> Claims] /\ claim[p] \in Claims
  BY DEF Typed, Types
<1>2. PICK c \in Claims : c = claim[p]
  BY <1>1
<1>3. claim' = [claim EXCEPT ![p] = [c EXCEPT !.pc = "unlock", !.left = c.held, !.end = end]]
  BY <1>1, <1>2 DEF Abandoned
<1>4. [c EXCEPT !.pc = "unlock", !.left = c.held, !.end = end] \in Claims
  BY DEF Claims
<1>5. claim' \in [Pids -> Claims] /\ Others(p)
  BY <1>1, <1>3, <1>4 DEF Others
<1>6. claim'[p] = [c EXCEPT !.pc = "unlock", !.left = c.held, !.end = end]
  BY <1>1, <1>3
<1>7. GivesUp(p, end)
  BY <1>2, <1>6 DEF GivesUp, Claims
<1> QED
  BY <1>5, <1>7

\* A try begins.
Begins(p, x, tries) ==
    /\ claim'[p].pc = "lock"
    /\ claim'[p].name = x
    /\ claim'[p].left = members[Home(p)] \cup {Home(p)}
    /\ claim'[p].held = {}
    /\ claim'[p].tries = tries
    /\ claim'[p].end = "none"

LEMMA TryFacts ==
    ASSUME Typed, NEW p \in Pids, NEW x \in Names, NEW tries \in 0..Retries,
           claim' = [claim EXCEPT ![p] = Try(p, x, tries)]
    PROVE  claim' \in [Pids -> Claims] /\ Others(p) /\ Begins(p, x, tries)
<1>1. claim \in [Pids -> Claims] /\ members \in [Nodes -> SUBSET Nodes] /\ Home(p) \in Nodes
  BY NodeFacts DEF Typed, Types
<1>2. members[Home(p)] \cup {Home(p)} \in SUBSET Nodes
  BY <1>1
<1>3. Try(p, x, tries) \in Claims
  BY <1>2 DEF Try, Claims
<1>4. claim'[p] = Try(p, x, tries)
  BY <1>1
<1> QED
  BY <1>1, <1>3, <1>4 DEF Begins, Try, Others

LEMMA RegisterFacts ==
    ASSUME Typed, NEW p \in Pids, NEW x \in Names, Register(p, x)
    PROVE  claim' \in [Pids -> Claims] /\ Others(p) /\ Begins(p, x, 1)
<1>1. 1 \in 0..Retries
  BY GlobalAssumption
<1> QED
  BY <1>1, TryFacts DEF Register

LEMMA CheckNameFacts ==
    ASSUME Typed, NEW p \in Pids, CheckName(p)
    PROVE  /\ claim' \in [Pids -> Claims] /\ Others(p)
           /\ At(p) \in claim[p].left /\ At(p) \in Nodes
           /\ \/ table[At(p)][claim[p].name] # NoPid /\ GivesUp(p, "taken")
              \/ /\ table[At(p)][claim[p].name] = NoPid
                 /\ claim'[p] = [claim[p] EXCEPT !.pc = "take"]
                 /\ claim'[p].pc = "take"
                 /\ claim'[p].name = claim[p].name
                 /\ claim'[p].left = claim[p].left
                 /\ claim'[p].held = claim[p].held
                 /\ claim'[p].end = claim[p].end
<1>1. claim \in [Pids -> Claims] /\ claim[p] \in Claims
  BY DEF Typed, Types
<1>2. At(p) \in claim[p].left /\ At(p) \in Nodes
  BY AtFacts DEF CheckName, Typed, Busy
<1>3. CASE /\ table[At(p)][claim[p].name] # NoPid
           /\ claim' = Abandoned(p, "taken")
  BY <1>2, <1>3, AbandonedFacts
<1>4. CASE /\ table[At(p)][claim[p].name] = NoPid
           /\ claim' = [claim EXCEPT ![p].pc = "take"]
  <2>1. PICK c \in Claims : c = claim[p]
    BY <1>1
  <2>2. [c EXCEPT !.pc = "take"] \in Claims
    BY DEF Claims
  <2>3. claim' = [claim EXCEPT ![p] = [c EXCEPT !.pc = "take"]]
    BY <1>1, <1>4, <2>1
  <2>4. claim' \in [Pids -> Claims] /\ Others(p) /\ claim'[p] = [c EXCEPT !.pc = "take"]
    BY <1>1, <2>2, <2>3 DEF Others
  <2> QED
    BY <1>2, <1>4, <2>1, <2>4 DEF Claims
<1> QED
  BY <1>3, <1>4 DEF CheckName

\* The lock of the node whose turn it is, is taken.
Takes(p) ==
    /\ locks' = [locks EXCEPT ![At(p)][claim[p].name] = Home(p)]
    /\ claim'[p].name = claim[p].name
    /\ claim'[p].held = claim[p].held \cup {At(p)}
    /\ claim'[p].tries = claim[p].tries
    /\ claim'[p].end = claim[p].end
    /\ \/ /\ claim[p].left = {At(p)}
          /\ claim'[p].pc = "commit"
          /\ claim'[p].left = claim[p].held \cup {At(p)}
       \/ /\ claim[p].left # {At(p)}
          /\ claim'[p].pc = "lock"
          /\ claim'[p].left = claim[p].left \ {At(p)}
          /\ claim'[p].left # {}

LEMMA TakeLockFacts ==
    ASSUME Typed, NEW p \in Pids, TakeLock(p)
    PROVE  /\ claim' \in [Pids -> Claims] /\ Others(p)
           /\ At(p) \in claim[p].left /\ At(p) \in Nodes
           /\ \/ /\ ~Free(At(p), claim[p].name, Home(p))
                 /\ GivesUp(p, "unsettled")
                 /\ UNCHANGED locks
              \/ /\ Free(At(p), claim[p].name, Home(p))
                 /\ Takes(p)
<1>1. claim \in [Pids -> Claims] /\ claim[p] \in Claims
  BY DEF Typed, Types
<1>2. At(p) \in claim[p].left /\ At(p) \in Nodes
  BY AtFacts DEF TakeLock, Typed, Busy
<1>3. CASE ~Free(At(p), claim[p].name, Home(p))
  <2>1. claim' = Abandoned(p, "unsettled") /\ UNCHANGED locks
    BY <1>3 DEF TakeLock
  <2> QED
    BY <1>2, <1>3, <2>1, AbandonedFacts
<1>4. CASE Free(At(p), claim[p].name, Home(p))
  <2>1. PICK c \in Claims : c = claim[p]
    BY <1>1
  <2>2. PICK n \in Nodes : n = At(p)
    BY <1>2
  <2>3. PICK left \in SUBSET Nodes : left = c.left \ {n}
    BY DEF Claims
  <2>4. PICK held \in SUBSET Nodes : held = c.held \cup {n}
    BY DEF Claims
  <2>5. PICK pc \in {"commit", "lock"} : pc = IF left = {} THEN "commit" ELSE "lock"
    OBVIOUS
  <2>6. PICK rest \in SUBSET Nodes : rest = IF left = {} THEN held ELSE left
    OBVIOUS
  <2>7. /\ locks' = [locks EXCEPT ![n][c.name] = Home(p)]
        /\ claim' = [claim EXCEPT ![p].pc = pc, ![p].left = rest, ![p].held = held]
    BY <1>4, <2>1, <2>2, <2>3, <2>4, <2>5, <2>6 DEF TakeLock
  <2>8. claim' = [claim EXCEPT ![p] = [c EXCEPT !.pc = pc, !.left = rest, !.held = held]]
    BY <1>1, <2>1, <2>7
  <2>9. [c EXCEPT !.pc = pc, !.left = rest, !.held = held] \in Claims
    BY DEF Claims
  <2>10. /\ claim' \in [Pids -> Claims] /\ Others(p)
         /\ claim'[p] = [c EXCEPT !.pc = pc, !.left = rest, !.held = held]
    BY <1>1, <2>8, <2>9 DEF Others
  <2>11. /\ claim'[p].pc = pc /\ claim'[p].left = rest /\ claim'[p].held = held
         /\ claim'[p].name = c.name /\ claim'[p].tries = c.tries /\ claim'[p].end = c.end
    BY <2>10 DEF Claims
  <2>12. Takes(p)
    <3>1. left = {} <=> c.left = {n}
      BY <1>2, <2>1, <2>2, <2>3
    <3> QED
      BY <2>1, <2>2, <2>3, <2>4, <2>5, <2>6, <2>7, <2>11, <3>1 DEF Takes
  <2> QED
    BY <1>2, <1>4, <2>10, <2>12
<1> QED
  BY <1>3, <1>4


LEMMA LockFailsFacts ==
    ASSUME Typed, NEW p \in Pids, LockFails(p)
    PROVE  /\ claim' \in [Pids -> Claims] /\ Others(p) /\ GivesUp(p, "unsettled")
           /\ At(p) \in claim[p].left /\ At(p) \in Nodes
           /\ \/ UNCHANGED locks
              \/ /\ Free(At(p), claim[p].name, Home(p))
                 /\ locks' = [locks EXCEPT ![At(p)][claim[p].name] = Home(p)]
<1>1. At(p) \in claim[p].left /\ At(p) \in Nodes
  BY AtFacts DEF LockFails, Typed, Busy
<1>2. claim' = Abandoned(p, "unsettled")
  BY DEF LockFails
<1> QED
  BY <1>1, <1>2, AbandonedFacts DEF LockFails

LEMMA CommitFacts ==
    ASSUME Typed, NEW p \in Pids, NEW arrives \in BOOLEAN, Commit(p, arrives)
    PROVE  /\ claim' \in [Pids -> Claims] /\ Others(p)
           /\ At(p) \in claim[p].left /\ At(p) \in Nodes
           /\ \/ claim[p].left = {At(p)} /\ GivesUp(p, "ok")
              \/ /\ claim[p].left # {At(p)}
                 /\ claim'[p].pc = "commit"
                 /\ claim'[p].name = claim[p].name
                 /\ claim'[p].left = claim[p].left \ {At(p)}
                 /\ claim'[p].left # {}
                 /\ claim'[p].held = claim[p].held
                 /\ claim'[p].end = claim[p].end
<1>1. claim \in [Pids -> Claims] /\ claim[p] \in Claims
  BY DEF Typed, Types
<1>2. At(p) \in claim[p].left /\ At(p) \in Nodes
  BY AtFacts DEF Commit, Typed, Busy
<1>3. CASE claim[p].left = {At(p)}
  <2>1. claim' = Abandoned(p, "ok")
    BY <1>3 DEF Commit
  <2> QED
    BY <1>2, <1>3, <2>1, AbandonedFacts
<1>4. CASE claim[p].left # {At(p)}
  <2>1. PICK c \in Claims : c = claim[p]
    BY <1>1
  <2>2. PICK left \in SUBSET Nodes : left = c.left \ {At(p)}
    BY DEF Claims
  <2>3. left # {}
    BY <1>2, <1>4, <2>1, <2>2
  <2>4. claim' = [claim EXCEPT ![p].left = left]
    BY <2>1, <2>2, <2>3 DEF Commit
  <2>5. claim' = [claim EXCEPT ![p] = [c EXCEPT !.left = left]]
    BY <1>1, <2>1, <2>4
  <2>6. [c EXCEPT !.left = left] \in Claims
    BY DEF Claims
  <2>7. claim' \in [Pids -> Claims] /\ Others(p) /\ claim'[p] = [c EXCEPT !.left = left]
    BY <1>1, <2>5, <2>6 DEF Others
  <2>8. c.pc = "commit"
    BY <2>1 DEF Commit
  <2> QED
    BY <1>2, <1>4, <2>1, <2>2, <2>3, <2>7, <2>8 DEF Claims
<1> QED
  BY <1>3, <1>4

\* A step that takes the node whose turn it is off what is left, and no more.
Strikes(p) ==
    /\ At(p) \in claim[p].left
    /\ At(p) \in Nodes
    /\ claim'[p].pc = claim[p].pc
    /\ claim'[p].name = claim[p].name
    /\ claim'[p].left = claim[p].left \ {At(p)}
    /\ claim'[p].held = claim[p].held
    /\ claim'[p].end = claim[p].end

LEMMA StrikesFacts ==
    ASSUME Typed, NEW p \in Pids, NEW arrives \in BOOLEAN,
           Unlock(p, arrives) \/ Release(p, arrives)
    PROVE  claim' \in [Pids -> Claims] /\ Others(p) /\ Strikes(p)
<1>1. claim \in [Pids -> Claims] /\ claim[p] \in Claims
  BY DEF Typed, Types
<1>2. At(p) \in claim[p].left /\ At(p) \in Nodes
  BY AtFacts DEF Unlock, Release
<1>3. PICK c \in Claims : c = claim[p]
  BY <1>1
<1>4. PICK left \in SUBSET Nodes : left = c.left \ {At(p)}
  BY DEF Claims
<1>5. claim' = [claim EXCEPT ![p] = [c EXCEPT !.left = left]]
  BY <1>1, <1>3, <1>4 DEF Unlock, Release
<1>6. [c EXCEPT !.left = left] \in Claims
  BY DEF Claims
<1>7. claim' \in [Pids -> Claims] /\ Others(p) /\ claim'[p] = [c EXCEPT !.left = left]
  BY <1>1, <1>5, <1>6 DEF Others
<1> QED
  BY <1>2, <1>3, <1>4, <1>7 DEF Strikes, Claims

\* The call returns.
Returns(p) ==
    /\ claim'[p].pc = "idle"
    /\ claim'[p].name = claim[p].name
    /\ claim'[p].left = claim[p].left
    /\ claim'[p].end = claim[p].end

LEMMA EndTryFacts ==
    ASSUME Typed, NEW p \in Pids, EndTry(p)
    PROVE  /\ claim' \in [Pids -> Claims] /\ Others(p)
           /\ \/ /\ claim[p].end = "unsettled"
                 /\ Begins(p, claim[p].name, claim[p].tries + 1)
              \/ Returns(p)
<1>1. claim \in [Pids -> Claims] /\ claim[p] \in Claims
  BY DEF Typed, Types
<1>2. CASE claim[p].end = "unsettled" /\ claim[p].tries < Retries
  <2>1. claim[p].tries + 1 \in 0..Retries /\ claim[p].name \in Names
    BY <1>1, <1>2, GlobalAssumption DEF Claims
  <2>2. claim' = [claim EXCEPT ![p] = Try(p, claim[p].name, claim[p].tries + 1)]
    BY <1>2 DEF EndTry
  <2> QED
    BY <1>2, <2>1, <2>2, TryFacts
<1>3. CASE ~(claim[p].end = "unsettled" /\ claim[p].tries < Retries)
  <2>1. PICK c \in Claims : c = claim[p]
    BY <1>1
  <2>2. claim' = [claim EXCEPT ![p].pc = "idle", ![p].held = {}]
    BY <1>3 DEF EndTry
  <2>3. claim' = [claim EXCEPT ![p] = [c EXCEPT !.pc = "idle", !.held = {}]]
    BY <1>1, <2>1, <2>2
  <2>4. [c EXCEPT !.pc = "idle", !.held = {}] \in Claims
    BY DEF Claims
  <2>5. /\ claim' \in [Pids -> Claims] /\ Others(p)
        /\ claim'[p] = [c EXCEPT !.pc = "idle", !.held = {}]
    BY <1>1, <2>3, <2>4 DEF Others
  <2>6. Returns(p)
    BY <2>1, <2>5 DEF Returns, Claims
  <2> QED
    BY <2>5, <2>6
<1> QED
  BY <1>2, <1>3

LEMMA EndReleaseFacts ==
    ASSUME Typed, NEW p \in Pids, EndRelease(p)
    PROVE  claim' \in [Pids -> Claims] /\ Others(p) /\ Returns(p)
<1>1. claim \in [Pids -> Claims] /\ claim[p] \in Claims
  BY DEF Typed, Types
<1>2. PICK c \in Claims : c = claim[p]
  BY <1>1
<1>3. claim' = [claim EXCEPT ![p] = [c EXCEPT !.pc = "idle"]]
  BY <1>1, <1>2 DEF EndRelease
<1>4. [c EXCEPT !.pc = "idle"] \in Claims
  BY DEF Claims
<1>5. claim' \in [Pids -> Claims] /\ Others(p) /\ claim'[p] = [c EXCEPT !.pc = "idle"]
  BY <1>1, <1>3, <1>4 DEF Others
<1> QED
  BY <1>2, <1>5 DEF Returns, Claims

LEMMA UnregisterFacts ==
    ASSUME Typed, NEW p \in Pids, NEW x \in Names, Unregister(p, x)
    PROVE  claim' \in [Pids -> Claims] /\ Others(p) /\ claim'[p].pc = "release"
<1>1. claim \in [Pids -> Claims] /\ claim[p] \in Claims
  BY DEF Typed, Types
<1>2. PICK c \in Claims : c = claim[p]
  BY <1>1
<1>3. PICK left \in SUBSET Nodes : left = members[Home(p)]
  BY NodeFacts DEF Typed, Types
<1>4. claim' = [claim EXCEPT ![p] = [c EXCEPT !.pc = "release", !.name = x, !.left = left]]
  BY <1>1, <1>2, <1>3 DEF Unregister
<1>5. [c EXCEPT !.pc = "release", !.name = x, !.left = left] \in Claims
  BY DEF Claims
<1>6. /\ claim' \in [Pids -> Claims] /\ Others(p)
      /\ claim'[p] = [c EXCEPT !.pc = "release", !.name = x, !.left = left]
  BY <1>1, <1>4, <1>5 DEF Others
<1> QED
  BY <1>6 DEF Claims

-----------------------------------------------------------------------------
(* Tables, locks and queues keep their types *)

LEMMA ReleasedFacts ==
    ASSUME NEW t \in [Nodes -> Tables], NEW n \in Nodes, NEW x \in Names, NEW p
    PROVE  /\ Released(t, n, x, p) \in [Nodes -> Tables]
           /\ \A m \in Nodes, y \in Names :
                 Released(t, n, x, p)[m][y] =
                     IF m = n /\ y = x /\ t[m][y] = p THEN NoPid ELSE t[m][y]
<1>1. CASE t[n][x] = p
  <2>1. Released(t, n, x, p) = [t EXCEPT ![n][x] = NoPid]
    BY <1>1 DEF Released
  <2>2. t[n] \in Tables
    OBVIOUS
  <2>3. [t[n] EXCEPT ![x] = NoPid] \in Tables
    BY <2>2 DEF Tables
  <2>4. [t EXCEPT ![n][x] = NoPid] = [t EXCEPT ![n] = [t[n] EXCEPT ![x] = NoPid]]
    OBVIOUS
  <2> QED
    BY <1>1, <2>1, <2>2, <2>3, <2>4 DEF Tables
<1>2. CASE t[n][x] # p
  BY <1>2 DEF Released
<1> QED
  BY <1>1, <1>2

LEMMA LocksTyped ==
    ASSUME Typed, NEW n \in Nodes, NEW x \in Names, NEW h \in Nodes \cup {NoNode},
           locks' = [locks EXCEPT ![n][x] = h]
    PROVE  /\ locks' \in [Nodes -> [Names -> Nodes \cup {NoNode}]]
           /\ \A m \in Nodes, y \in Names :
                 locks'[m][y] = IF m = n /\ y = x THEN h ELSE locks[m][y]
<1>1. locks \in [Nodes -> [Names -> Nodes \cup {NoNode}]]
  BY DEF Typed, Types
<1>2. [locks[n] EXCEPT ![x] = h] \in [Names -> Nodes \cup {NoNode}]
  BY <1>1
<1>3. locks' = [locks EXCEPT ![n] = [locks[n] EXCEPT ![x] = h]]
  BY <1>1
<1> QED
  BY <1>1, <1>2, <1>3

LEMMA CommittedFacts ==
    ASSUME Typed, NEW n \in Nodes, NEW x \in Names, NEW p \in Pids,
           table' = [table EXCEPT ![n][x] = p]
    PROVE  /\ table' \in [Nodes -> Tables]
           /\ \A m \in Nodes, y \in Names :
                 table'[m][y] = IF m = n /\ y = x THEN p ELSE table[m][y]
<1>1. table \in [Nodes -> Tables] /\ table[n] \in Tables
  BY DEF Typed, Types
<1>2. [table[n] EXCEPT ![x] = p] \in Tables
  BY <1>1 DEF Tables
<1>3. table' = [table EXCEPT ![n] = [table[n] EXCEPT ![x] = p]]
  BY <1>1
<1> QED
  BY <1>1, <1>2, <1>3 DEF Tables

LEMMA DiesTyped ==
    ASSUME Typed, NEW ps \in SUBSET Pids, Dies(ps)
    PROVE  alive' \subseteq Pids /\ deaths' \in [Nodes -> Seq(Pids)]
<1>1. alive \subseteq Pids /\ deaths \in [Nodes -> Seq(Pids)]
  BY DEF Typed, Types, Pasts
<1>2. ASSUME NEW n \in Nodes
      PROVE  deaths[n] \o SetToSeq({p \in ps \cap alive : Home(p) = n}) \in Seq(Pids)
  <2>1. PICK T \in SUBSET Pids : T = {p \in ps \cap alive : Home(p) = n}
    OBVIOUS
  <2>2. IsFiniteSet(T)
    BY GlobalAssumption, FS_Subset
  <2>3. SetToSeq(T) \in Seq(T)
    BY <2>2, SetToSeqFacts
  <2>4. SetToSeq(T) \in Seq(Pids)
    BY <2>3, SeqMonotonic
  <2>5. deaths[n] \in Seq(Pids)
    BY <1>1
  <2>6. deaths[n] \o SetToSeq(T) \in Seq(Pids)
    BY <2>4, <2>5
  <2> QED
    BY <2>1, <2>6
<1> QED
  BY <1>1, <1>2 DEF Dies

LEMMA MergedTyped ==
    ASSUME Typed, NEW n \in Nodes, NEW theirs \in Tables
    PROVE  Merged(n, theirs) \in Tables /\ Losers(n, theirs) \in SUBSET Pids
<1>1. table[n] \in Tables
  BY DEF Typed, Types
<1>2. \A x \in Names : table[n][x] \in Pids \cup {NoPid} /\ theirs[x] \in Pids \cup {NoPid}
  BY <1>1 DEF Tables
<1>3. \A x \in Names : Merged(n, theirs)[x] \in Pids \cup {NoPid}
  BY <1>2, NodeFacts DEF Merged, Winner, NoPid
<1> QED
  BY <1>3 DEF Merged, Losers, Tables


-----------------------------------------------------------------------------
(* The types *)

LEMMA InitTyped == Init => Typed
<1> SUFFICES ASSUME Quiet, NEW sides \in Partitions, Parts(sides)
             PROVE  Typed
  BY DEF Init
<1>1. table \in [Nodes -> Tables] /\ first \in [Nodes -> Tables]
  BY DEF Parts, Tables
<1>2. locks \in [Nodes -> [Names -> Nodes \cup {NoNode}]]
  BY DEF Quiet
<1>3. members \in [Nodes -> SUBSET Nodes]
  <2>1. sides \subseteq SUBSET Nodes
    BY DEF Partitions
  <2> QED
    BY <2>1 DEF Parts
<1>4. claim \in [Pids -> Claims]
  <2>1. NoClaim \in Claims
    BY NodeFacts, GlobalAssumption DEF NoClaim, Claims
  <2> QED
    BY <2>1 DEF Quiet
<1>5. sync \in [Nodes -> [Nodes -> Syncs]]
  <2>1. Unnamed \in Tables
    BY DEF Unnamed, Tables
  <2>2. NoSync \in Syncs
    BY <2>1 DEF NoSync, Syncs
  <2> QED
    BY <2>2 DEF Quiet
<1>6. deaths \in [Nodes -> Seq(Pids)]
  BY DEF Quiet
<1>7. reactor \in [Nodes -> [pid : Pids \cup {NoPid}, name : Names, left : SUBSET Nodes]]
  <2>1. NoRelease \in [pid : Pids \cup {NoPid}, name : Names, left : SUBSET Nodes]
    BY NodeFacts DEF NoRelease
  <2> QED
    BY <2>1 DEF Quiet
<1>8. Pasts
  <2>1. whole \in BOOLEAN
    BY DEF Parts
  <2>2. claims \in 0..MaxClaims /\ faults \in 0..MaxFaults
    BY GlobalAssumption DEF Quiet
  <2>3. alive \subseteq Pids /\ lostCommit \in BOOLEAN /\ quit \subseteq Pids
        /\ exchanged \subseteq SUBSET Nodes
    BY DEF Quiet
  <2> QED
    BY <1>1, <2>1, <2>2, <2>3 DEF Pasts
<1>9. Counted
  <2>1. \A n, m \in Nodes : sync[n][m].stage = "none"
    BY DEF Quiet, NoSync
  <2>2. \A n \in Nodes : Asked(n) = {} /\ Answering(n) = {}
    BY <2>1 DEF Asked, Answering
  <2>3. Cardinality({}) = 0
    BY FS_EmptySet
  <2>4. merges = [n \in Nodes |-> 0]
    BY DEF Quiet
  <2> QED
    BY <2>2, <2>3, <2>4 DEF Counted
<1>10. Busy
  BY DEF Busy, Quiet, NoClaim
<1>11. Met
  BY DEF Met, Quiet, NoSync
<1> QED
  BY <1>1, <1>2, <1>3, <1>4, <1>5, <1>6, <1>7, <1>8, <1>9, <1>10, <1>11 DEF Typed, Types

\* While no merge begins or ends and nobody is learned of, what counts them stays.
LEMMA CountedStays ==
    ASSUME Counted, Met, UNCHANGED <<sync, merges, members>>
    PROVE  Counted' /\ Met'
  BY DEF Counted, Met, Asked, Answering

LEMMA FaultTyped ==
    ASSUME Pasts, UNCHANGED faults \/ Faulty
    PROVE  faults' \in 0..MaxFaults
  BY GlobalAssumption DEF Pasts, Faulty

LEMMA AsksFaults ==
    ASSUME NEW n, NEW m, NEW arrives \in BOOLEAN, Asks(n, m, arrives)
    PROVE  UNCHANGED faults \/ Faulty
  BY DEF Asks

\* The calls and their steps.
LEMMA ClaimTyped ==
    ASSUME Typed, NEW p \in Pids,
           \/ \E x \in Names : Register(p, x)
           \/ \E x \in Names : Unregister(p, x)
           \/ ClaimStep(p)
    PROVE  Typed'
<1>0. claim[p] \in Claims /\ claim[p].name \in Names /\ Home(p) \in Nodes
  BY NodeFacts DEF Typed, Types, Claims
<1>1. ASSUME NEW x \in Names, Register(p, x)
      PROVE  Typed'
  <2>1. claim' \in [Pids -> Claims] /\ Others(p) /\ Begins(p, x, 1)
    BY <1>1, RegisterFacts
  <2>2. Busy'
    BY <2>1 DEF Typed, Busy, Others, Begins
  <2>3. Types'
    BY <1>1, <2>1 DEF Register, Typed, Types, nameVars
  <2>4. Pasts'
    BY <1>1, GlobalAssumption DEF Register, Typed, Pasts
  <2>5. Counted' /\ Met'
    BY <1>1, CountedStays DEF Register, Typed
  <2> QED
    BY <2>2, <2>3, <2>4, <2>5 DEF Typed
<1>2. ASSUME NEW x \in Names, Unregister(p, x)
      PROVE  Typed'
  <2>1. claim' \in [Pids -> Claims] /\ Others(p) /\ claim'[p].pc = "release"
    BY <1>2, UnregisterFacts
  <2>2. Busy'
    BY <2>1 DEF Typed, Busy, Others
  <2>3. table' \in [Nodes -> Tables]
    BY <1>0, <1>2, ReleasedFacts DEF Unregister, Typed, Types
  <2>4. Types'
    BY <1>2, <2>1, <2>3 DEF Unregister, Typed, Types
  <2>5. Pasts'
    BY <1>2 DEF Unregister, Typed, Pasts
  <2>6. Counted' /\ Met'
    BY <1>2, CountedStays DEF Unregister, Typed
  <2> QED
    BY <2>2, <2>4, <2>5, <2>6 DEF Typed
<1>3. CASE CheckName(p)
  <2>1. /\ claim' \in [Pids -> Claims] /\ Others(p) /\ claim[p].left # {}
        /\ GivesUp(p, "taken") \/ claim'[p].left = claim[p].left
    BY <1>3, CheckNameFacts
  <2>2. Busy'
    BY <2>1 DEF Typed, Busy, Others, GivesUp
  <2>3. Types'
    BY <1>3, <2>1 DEF CheckName, Typed, Types, nameVars
  <2>4. Pasts' /\ Counted' /\ Met'
    BY <1>3, CountedStays DEF CheckName, Typed, Pasts, history
  <2> QED
    BY <2>2, <2>3, <2>4 DEF Typed
<1>4. CASE TakeLock(p)
  <2>1. /\ claim' \in [Pids -> Claims] /\ Others(p) /\ At(p) \in Nodes
        /\ \/ GivesUp(p, "unsettled") /\ UNCHANGED locks
           \/ Takes(p)
    BY <1>4, TakeLockFacts
  <2>2. Busy'
    BY <2>1 DEF Typed, Busy, Others, GivesUp, Takes
  <2>3. locks' \in [Nodes -> [Names -> Nodes \cup {NoNode}]]
    <3>1. CASE UNCHANGED locks
      BY <3>1 DEF Typed, Types
    <3>2. CASE Takes(p)
      <4>1. locks' = [locks EXCEPT ![At(p)][claim[p].name] = Home(p)]
        BY <3>2 DEF Takes
      <4>2. Home(p) \in Nodes \cup {NoNode}
        BY <1>0
      <4> QED
        BY <1>0, <2>1, <4>1, <4>2, LocksTyped
    <3> QED
      BY <2>1, <3>1, <3>2
  <2>4. Types'
    BY <1>4, <2>1, <2>3 DEF TakeLock, Typed, Types
  <2>5. Pasts' /\ Counted' /\ Met'
    BY <1>4, CountedStays DEF TakeLock, Typed, Pasts, history
  <2> QED
    BY <2>2, <2>4, <2>5 DEF Typed
<1>5. CASE LockFails(p)
  <2>1. /\ claim' \in [Pids -> Claims] /\ Others(p) /\ GivesUp(p, "unsettled") /\ At(p) \in Nodes
        /\ \/ UNCHANGED locks
           \/ locks' = [locks EXCEPT ![At(p)][claim[p].name] = Home(p)]
    BY <1>5, LockFailsFacts
  <2>2. Busy'
    BY <2>1 DEF Typed, Busy, Others, GivesUp
  <2>3. locks' \in [Nodes -> [Names -> Nodes \cup {NoNode}]]
    <3>1. CASE UNCHANGED locks
      BY <3>1 DEF Typed, Types
    <3>2. CASE locks' = [locks EXCEPT ![At(p)][claim[p].name] = Home(p)]
      <4>1. Home(p) \in Nodes \cup {NoNode}
        BY <1>0
      <4> QED
        BY <1>0, <2>1, <3>2, <4>1, LocksTyped
    <3> QED
      BY <2>1, <3>1, <3>2
  <2>4. Types'
    BY <1>5, <2>1, <2>3 DEF LockFails, Typed, Types
  <2>5. faults' \in 0..MaxFaults
    BY <1>5, FaultTyped DEF LockFails, Typed
  <2>6. Pasts' /\ Counted' /\ Met'
    BY <1>5, <2>5, CountedStays DEF LockFails, Typed, Pasts
  <2> QED
    BY <2>2, <2>4, <2>6 DEF Typed
<1>6. ASSUME NEW arrives \in BOOLEAN, Commit(p, arrives)
      PROVE  Typed'
  <2>1. /\ claim' \in [Pids -> Claims] /\ Others(p) /\ At(p) \in Nodes
        /\ GivesUp(p, "ok") \/ claim'[p].left # {}
    BY <1>6, CommitFacts
  <2>2. Busy'
    BY <2>1 DEF Typed, Busy, Others, GivesUp
  <2>3. table' \in [Nodes -> Tables]
    <3>1. CASE arrives
      <4>1. table' = [table EXCEPT ![At(p)][claim[p].name] = p]
        BY <1>6, <3>1 DEF Commit
      <4> QED
        BY <1>0, <2>1, <4>1, CommittedFacts
    <3>2. CASE ~arrives
      BY <1>6, <3>2 DEF Commit, Typed, Types
    <3> QED
      BY <3>1, <3>2
  <2>4. Types'
    BY <1>6, <2>1, <2>3 DEF Commit, Typed, Types
  <2>5. faults' \in 0..MaxFaults
    BY <1>6, FaultTyped, AsksFaults DEF Commit, Typed
  <2>6. lostCommit' \in BOOLEAN
    BY <1>6 DEF Commit
  <2>7. Pasts' /\ Counted' /\ Met'
    BY <1>6, <2>5, <2>6, CountedStays DEF Commit, Typed, Pasts
  <2> QED
    BY <2>2, <2>4, <2>7 DEF Typed
<1>7. ASSUME NEW arrives \in BOOLEAN, Unlock(p, arrives)
      PROVE  Typed'
  <2>1. claim' \in [Pids -> Claims] /\ Others(p) /\ Strikes(p)
    BY <1>7, StrikesFacts
  <2>2. claim[p].pc = "unlock"
    BY <1>7 DEF Unlock
  <2>3. Busy'
    BY <2>1, <2>2 DEF Typed, Busy, Others, Strikes
  <2>4. locks' \in [Nodes -> [Names -> Nodes \cup {NoNode}]]
    <3>1. CASE locks' = locks
      BY <3>1 DEF Typed, Types
    <3>2. CASE locks' = [locks EXCEPT ![At(p)][claim[p].name] = NoNode]
      BY <1>0, <2>1, <3>2, LocksTyped DEF Strikes
    <3> QED
      BY <1>7, <3>1, <3>2 DEF Unlock
  <2>5. Types'
    BY <1>7, <2>1, <2>4 DEF Unlock, Typed, Types
  <2>6. faults' \in 0..MaxFaults
    BY <1>7, FaultTyped, AsksFaults DEF Unlock, Typed
  <2>7. Pasts' /\ Counted' /\ Met'
    BY <1>7, <2>6, CountedStays DEF Unlock, Typed, Pasts
  <2> QED
    BY <2>3, <2>5, <2>7 DEF Typed
<1>8. CASE EndTry(p)
  <2>1. /\ claim' \in [Pids -> Claims] /\ Others(p)
        /\ \/ \E t : Begins(p, claim[p].name, t)
           \/ Returns(p)
    BY <1>8, EndTryFacts
  <2>2. Busy'
    BY <2>1 DEF Typed, Busy, Others, Begins, Returns
  <2>3. Types'
    BY <1>8, <2>1 DEF EndTry, Typed, Types, nameVars
  <2>4. Pasts' /\ Counted' /\ Met'
    BY <1>8, CountedStays DEF EndTry, Typed, Pasts, history
  <2> QED
    BY <2>2, <2>3, <2>4 DEF Typed
<1>9. ASSUME NEW arrives \in BOOLEAN, Release(p, arrives)
      PROVE  Typed'
  <2>1. claim' \in [Pids -> Claims] /\ Others(p) /\ Strikes(p)
    BY <1>9, StrikesFacts
  <2>2. claim[p].pc = "release"
    BY <1>9 DEF Release
  <2>3. Busy'
    BY <2>1, <2>2 DEF Typed, Busy, Others, Strikes
  <2>4. table' \in [Nodes -> Tables]
    <3>1. table' = table \/ table' = Released(table, At(p), claim[p].name, p)
      BY <1>9 DEF Release
    <3>2. table \in [Nodes -> Tables] /\ At(p) \in Nodes
      BY <2>1 DEF Strikes, Typed, Types
    <3>3. Released(table, At(p), claim[p].name, p) \in [Nodes -> Tables]
      BY <1>0, <3>2, ReleasedFacts
    <3> QED
      BY <3>1, <3>2, <3>3
  <2>5. Types'
    BY <1>9, <2>1, <2>4 DEF Release, Typed, Types
  <2>6. faults' \in 0..MaxFaults
    BY <1>9, FaultTyped, AsksFaults DEF Release, Typed
  <2>7. Pasts' /\ Counted' /\ Met'
    BY <1>9, <2>6, CountedStays DEF Release, Typed, Pasts
  <2> QED
    BY <2>3, <2>5, <2>7 DEF Typed
<1>10. CASE EndRelease(p)
  <2>1. claim' \in [Pids -> Claims] /\ Others(p) /\ Returns(p)
    BY <1>10, EndReleaseFacts
  <2>2. Busy'
    BY <2>1 DEF Typed, Busy, Others, Returns
  <2>3. Types'
    BY <1>10, <2>1 DEF EndRelease, Typed, Types, nameVars
  <2>4. Pasts' /\ Counted' /\ Met'
    BY <1>10, CountedStays DEF EndRelease, Typed, Pasts, history
  <2> QED
    BY <2>2, <2>3, <2>4 DEF Typed
<1> QED
  BY <1>1, <1>2, <1>3, <1>4, <1>5, <1>6, <1>7, <1>8, <1>9, <1>10 DEF ClaimStep


-----------------------------------------------------------------------------
(* The count of the merges *)

OneAsked(s) == IF s.stage \in {"asked", "arrived", "merged", "replied"} THEN 1 ELSE 0
OneAnswered(s) == IF s.stage = "arrived" THEN 1 ELSE 0

\* A set of nodes that gains or loses one, or neither.
LEMMA OneMoreOrLess ==
    ASSUME NEW S \in SUBSET Nodes, NEW m \in Nodes, NEW i \in {0, 1}, NEW T,
           T = IF i = 1 THEN S \cup {m} ELSE S \ {m}
    PROVE  /\ Cardinality(S) \in Nat
           /\ Cardinality(T) = Cardinality(S) + i - (IF m \in S THEN 1 ELSE 0)
<1>1. IsFiniteSet(S) /\ Cardinality(S) \in Nat
  BY GlobalAssumption, FS_Subset, FS_CardinalityType
<1>2. Cardinality(S \cup {m}) = IF m \in S THEN Cardinality(S) ELSE Cardinality(S) + 1
  BY <1>1, FS_AddElement
<1>3. Cardinality(S \ {m}) = IF m \in S THEN Cardinality(S) - 1 ELSE Cardinality(S)
  BY <1>1, FS_RemoveElement
<1>4. CASE i = 1
  BY <1>1, <1>2, <1>4
<1>5. CASE i = 0
  BY <1>1, <1>3, <1>5
<1> QED
  BY <1>4, <1>5

LEMMA CountedNat ==
    ASSUME Counted, NEW a \in Nodes
    PROVE  merges[a] \in Nat
<1>1. Asked(a) \in SUBSET Nodes /\ Answering(a) \in SUBSET Nodes
  BY DEF Asked, Answering
<1>2. Cardinality(Asked(a)) \in Nat /\ Cardinality(Answering(a)) \in Nat
  BY <1>1, GlobalAssumption, FS_Subset, FS_CardinalityType
<1> QED
  BY <1>2 DEF Counted

\* The count follows a merge of n with m that goes from s to d.
Adjusted(n, m, s, d) ==
    /\ merges' = [a \in Nodes |-> merges'[a]]
    /\ \A a \in Nodes :
          merges'[a] = merges[a] + (IF a = n THEN OneAsked(d) - OneAsked(s) ELSE 0)
                                 + (IF a = m THEN OneAnswered(d) - OneAnswered(s) ELSE 0)

LEMMA SyncCounted ==
    ASSUME Typed, NEW n \in Nodes, NEW m \in Nodes, NEW s \in Syncs, s = sync[n][m],
           NEW d \in Syncs, sync' = [sync EXCEPT ![n][m] = d],
           Adjusted(n, m, s, d),
           \A a \in Nodes : members[a] \subseteq members'[a],
           m \in members'[n]
    PROVE  sync' \in [Nodes -> [Nodes -> Syncs]] /\ Counted' /\ Met'
<1>1. sync \in [Nodes -> [Nodes -> Syncs]]
  BY DEF Typed, Types
<1>2. /\ sync' \in [Nodes -> [Nodes -> Syncs]]
      /\ \A a, b \in Nodes : sync'[a][b] = IF a = n /\ b = m THEN d ELSE sync[a][b]
  BY <1>1
<1>3. Met'
  BY <1>2 DEF Typed, Met
<1>4. ASSUME NEW a \in Nodes
      PROVE  merges'[a] = Cardinality(Asked(a)') + Cardinality(Answering(a)')
  <2>1. PICK A \in SUBSET Nodes, B \in SUBSET Nodes : A = Asked(a) /\ B = Answering(a)
    BY DEF Asked, Answering
  <2>2. PICK A2 \in SUBSET Nodes, B2 \in SUBSET Nodes : A2 = Asked(a)' /\ B2 = Answering(a)'
    BY DEF Asked, Answering
  <2>3. Cardinality(A) \in Nat /\ Cardinality(B) \in Nat
    BY GlobalAssumption, FS_Subset, FS_CardinalityType
  <2>4. merges[a] = Cardinality(A) + Cardinality(B)
    BY <2>1 DEF Typed, Counted
  <2>5. Cardinality(A2) = Cardinality(A) + (IF a = n THEN OneAsked(d) - OneAsked(s) ELSE 0)
    <3>1. CASE a # n
      <4>1. A2 = A
        BY <1>2, <2>1, <2>2, <3>1 DEF Asked
      <4> QED
        BY <2>3, <3>1, <4>1
    <3>2. CASE a = n
      <4>1. PICK i \in {0, 1} : i = OneAsked(d)
        BY DEF OneAsked
      <4>2. A2 = IF i = 1 THEN A \cup {m} ELSE A \ {m}
        BY <1>2, <2>1, <2>2, <3>2, <4>1 DEF Asked, OneAsked
      <4>3. OneAsked(s) = IF m \in A THEN 1 ELSE 0
        BY <2>1, <3>2 DEF Asked, OneAsked
      <4>4. Cardinality(A2) = Cardinality(A) + i - (IF m \in A THEN 1 ELSE 0)
        BY <4>2, OneMoreOrLess
      <4> QED
        BY <2>3, <3>2, <4>1, <4>3, <4>4
    <3> QED
      BY <3>1, <3>2
  <2>6. Cardinality(B2) = Cardinality(B) + (IF a = m THEN OneAnswered(d) - OneAnswered(s) ELSE 0)
    <3>1. CASE a # m
      <4>1. B2 = B
        BY <1>2, <2>1, <2>2, <3>1 DEF Answering
      <4> QED
        BY <2>3, <3>1, <4>1
    <3>2. CASE a = m
      <4>1. PICK i \in {0, 1} : i = OneAnswered(d)
        BY DEF OneAnswered
      <4>2. B2 = IF i = 1 THEN B \cup {n} ELSE B \ {n}
        BY <1>2, <2>1, <2>2, <3>2, <4>1 DEF Answering, OneAnswered
      <4>3. OneAnswered(s) = IF n \in B THEN 1 ELSE 0
        BY <2>1, <3>2 DEF Answering, OneAnswered
      <4>4. Cardinality(B2) = Cardinality(B) + i - (IF n \in B THEN 1 ELSE 0)
        BY <4>2, OneMoreOrLess
      <4> QED
        BY <2>3, <3>2, <4>1, <4>3, <4>4
    <3> QED
      BY <3>1, <3>2
  <2>7. /\ OneAsked(d) \in {0, 1} /\ OneAsked(s) \in {0, 1}
        /\ OneAnswered(d) \in {0, 1} /\ OneAnswered(s) \in {0, 1}
    BY DEF OneAsked, OneAnswered
  <2>8. merges'[a] = Cardinality(A2) + Cardinality(B2)
    BY <2>3, <2>4, <2>5, <2>6, <2>7 DEF Adjusted
  <2> QED
    BY <2>2, <2>8
<1>5. Counted'
  BY <1>4 DEF Counted, Adjusted
<1> QED
  BY <1>2, <1>3, <1>5

\* The death reactor, deaths and what a node learns.
LEMMA ReactorTyped ==
    ASSUME Typed,
           \/ \E n \in Nodes : ReactorStep(n)
           \/ \E p \in Pids : Die(p)
           \/ \E n, m \in Nodes, byId \in BOOLEAN : Learn(n, m, byId)
    PROVE  Typed'
<1>1. ASSUME NEW n \in Nodes, Receive(n)
      PROVE  Typed'
  <2>1. deaths \in [Nodes -> Seq(Pids)] /\ deaths[n] # <<>>
    BY <1>1 DEF Receive, Typed, Types
  <2>2. PICK p \in Pids : p = Head(deaths[n])
    BY <2>1
  <2>3. Tail(deaths[n]) \in Seq(Pids)
    BY <2>1
  <2>4. deaths' \in [Nodes -> Seq(Pids)]
    BY <1>1, <2>1, <2>3 DEF Receive
  <2>5. table \in [Nodes -> Tables] /\ members[n] \in SUBSET Nodes
    BY DEF Typed, Types
  <2>6. /\ table' \in [Nodes -> Tables]
        /\ reactor' \in [Nodes -> [pid : Pids \cup {NoPid}, name : Names, left : SUBSET Nodes]]
    <3>1. CASE UNCHANGED <<table, reactor>>
      BY <3>1 DEF Typed, Types
    <3>2. ASSUME NEW x \in Names, table' = Released(table, n, x, p),
                 reactor' = [reactor EXCEPT ![n] = [pid |-> p, name |-> x, left |-> members[n]]]
          PROVE  /\ table' \in [Nodes -> Tables]
                 /\ reactor' \in [Nodes -> [pid : Pids \cup {NoPid}, name : Names,
                                            left : SUBSET Nodes]]
      <4>1. table' \in [Nodes -> Tables]
        BY <2>5, <3>2, ReleasedFacts
      <4> QED
        BY <2>5, <3>2, <4>1 DEF Typed, Types
    <3> QED
      BY <1>1, <2>2, <3>1, <3>2 DEF Receive
  <2>7. Types'
    BY <1>1, <2>4, <2>6 DEF Receive, Typed, Types
  <2>8. Pasts' /\ Counted' /\ Met'
    BY <1>1, CountedStays DEF Receive, Typed, Pasts, history
  <2>9. Busy'
    BY <1>1 DEF Receive, Typed, Busy
  <2> QED
    BY <2>7, <2>8, <2>9 DEF Typed
<1>2. ASSUME NEW n \in Nodes, NEW arrives \in BOOLEAN, ReactorRelease(n, arrives)
      PROVE  Typed'
  <2>1. PICK r \in [pid : Pids \cup {NoPid}, name : Names, left : SUBSET Nodes] : r = reactor[n]
    BY DEF Typed, Types
  <2>2. r.left # {} /\ r.left \in SUBSET Nodes
    BY <1>2, <2>1 DEF ReactorRelease
  <2>3. PICK m \in Nodes : m = Min(r.left)
    BY <2>2, LeastNode
  <2>4. PICK left \in SUBSET Nodes : left = r.left \ {m}
    BY <2>2
  <2>5. reactor' = [reactor EXCEPT ![n].left = left]
    BY <1>2, <2>1, <2>3, <2>4 DEF ReactorRelease
  <2>6. reactor' = [reactor EXCEPT ![n] = [r EXCEPT !.left = left]]
    BY <2>1, <2>5 DEF Typed, Types
  <2>7. reactor' \in [Nodes -> [pid : Pids \cup {NoPid}, name : Names, left : SUBSET Nodes]]
    BY <2>6 DEF Typed, Types
  <2>8. table' \in [Nodes -> Tables]
    <3>1. table' = table \/ table' = Released(table, m, r.name, r.pid)
      BY <1>2, <2>1, <2>3 DEF ReactorRelease
    <3>2. table \in [Nodes -> Tables]
      BY DEF Typed, Types
    <3>3. Released(table, m, r.name, r.pid) \in [Nodes -> Tables]
      BY <3>2, ReleasedFacts
    <3> QED
      BY <3>1, <3>2, <3>3
  <2>9. Types'
    BY <1>2, <2>7, <2>8 DEF ReactorRelease, Typed, Types
  <2>10. faults' \in 0..MaxFaults
    BY <1>2, FaultTyped, AsksFaults DEF ReactorRelease, Typed
  <2>11. Pasts' /\ Counted' /\ Met'
    BY <1>2, <2>10, CountedStays DEF ReactorRelease, Typed, Pasts
  <2>12. Busy'
    BY <1>2 DEF ReactorRelease, Typed, Busy
  <2> QED
    BY <2>9, <2>11, <2>12 DEF Typed
<1>3. ASSUME NEW p \in Pids, Die(p)
      PROVE  Typed'
  <2>1. alive' \subseteq Pids /\ deaths' \in [Nodes -> Seq(Pids)]
    BY <1>3, DiesTyped DEF Die
  <2>2. Types'
    BY <1>3, <2>1 DEF Die, Typed, Types, nameVars
  <2>3. Pasts' /\ Counted' /\ Met'
    BY <1>3, <2>1, CountedStays DEF Die, Typed, Pasts
  <2>4. Busy'
    BY <1>3 DEF Die, Typed, Busy
  <2> QED
    BY <2>2, <2>3, <2>4 DEF Typed
<1>4. ASSUME NEW n \in Nodes, NEW m \in Nodes, NEW byId \in BOOLEAN, Learn(n, m, byId)
      PROVE  Typed'
  <2>1. PICK s \in Syncs : s = sync[n][m]
    BY DEF Typed, Types
  <2>2. s.stage = "none"
    BY <1>4, <2>1 DEF Learn, Typed, Met
  <2>3. members' \in [Nodes -> SUBSET Nodes] /\ \A a \in Nodes : members[a] \subseteq members'[a]
    BY <1>4 DEF Learn, Typed, Types
  <2>4. m \in members'[n] /\ UNCHANGED merges
    BY <1>4 DEF Learn, Typed, Types
  <2>5. Pasts' /\ Busy'
    BY <1>4 DEF Learn, Typed, Pasts, Busy, history
  <2>6. \E e \in Syncs : /\ sync' = [sync EXCEPT ![n][m] = e]
                         /\ e.stage \in {"none", "spawned"}
    <3>1. [s EXCEPT !.stage = "spawned"] \in Syncs /\ [s EXCEPT !.stage = "spawned"].stage = "spawned"
      BY DEF Syncs
    <3>2. sync = [sync EXCEPT ![n][m] = s]
      BY <2>1 DEF Typed, Types
    <3>3. [sync EXCEPT ![n][m].stage = "spawned"] = [sync EXCEPT ![n][m] = [s EXCEPT !.stage = "spawned"]]
      BY <2>1 DEF Typed, Types
    <3>4. sync' = sync \/ sync' = [sync EXCEPT ![n][m].stage = "spawned"]
      BY <1>4 DEF Learn
    <3> QED
      BY <2>2, <3>1, <3>2, <3>3, <3>4
  <2>8. PICK e \in Syncs : sync' = [sync EXCEPT ![n][m] = e] /\ e.stage \in {"none", "spawned"}
    BY <2>6
  <2>9. sync' \in [Nodes -> [Nodes -> Syncs]] /\ Counted' /\ Met'
    <3>1. OneAsked(s) = 0 /\ OneAsked(e) = 0 /\ OneAnswered(s) = 0 /\ OneAnswered(e) = 0
      BY <2>2, <2>8 DEF OneAsked, OneAnswered
    <3>2. \A a \in Nodes : merges[a] \in Nat
      BY CountedNat DEF Typed
    <3>3. merges = [a \in Nodes |-> merges[a]]
      BY DEF Typed, Counted
    <3>4. Adjusted(n, m, s, e)
      BY <2>4, <3>1, <3>2, <3>3 DEF Adjusted
    <3> QED
      BY <2>1, <2>3, <2>4, <2>8, <3>4, SyncCounted
  <2>10. Types'
    BY <1>4, <2>3, <2>9 DEF Learn, Typed, Types, nameVars
  <2> QED
    BY <2>5, <2>9, <2>10 DEF Typed
<1> QED
  BY <1>1, <1>2, <1>3, <1>4 DEF ReactorStep


\* What a step of a merge does to it, field by field.
Moves(n, m, d) ==
    /\ sync' \in [Nodes -> [Nodes -> Syncs]]
    /\ \A a, b \in Nodes : ~(a = n /\ b = m) => sync'[a][b] = sync[a][b]
    /\ sync'[n][m] = d

LEMMA MovesTyped ==
    ASSUME Typed, NEW n \in Nodes, NEW m \in Nodes, sync[n][m].stage # "none",
           NEW d \in Syncs, sync' = [sync EXCEPT ![n][m] = d], UNCHANGED members,
           Adjusted(n, m, sync[n][m], d)
    PROVE  Moves(n, m, d) /\ Counted' /\ Met'
<1>1. PICK s \in Syncs : s = sync[n][m]
  BY DEF Typed, Types
<1>2. \A a \in Nodes : members[a] \subseteq members'[a]
  OBVIOUS
<1>3. m \in members'[n]
  BY DEF Typed, Met
<1>4. Adjusted(n, m, s, d)
  BY <1>1
<1>5. sync' \in [Nodes -> [Nodes -> Syncs]] /\ Counted' /\ Met'
  BY <1>1, <1>2, <1>3, <1>4, SyncCounted
<1> QED
  BY <1>5 DEF Moves, Typed, Types

\* The steps that begin or end a merge at a node, and those that do neither.
LEMMA AdjustedFacts ==
    ASSUME Typed, NEW n \in Nodes, NEW m \in Nodes, NEW s \in Syncs, NEW d \in Syncs,
           \/ /\ s.stage = "spawned" /\ d.stage = "asked"
              /\ merges' = [merges EXCEPT ![n] = @ + 1]
           \/ /\ s.stage = "asked" /\ d.stage = "arrived"
              /\ merges' = [merges EXCEPT ![m] = @ + 1]
           \/ /\ s.stage = "arrived" /\ d.stage = "merged"
              /\ merges' = [merges EXCEPT ![m] = @ - 1]
           \/ /\ s.stage = "merged" /\ d.stage = "replied" /\ UNCHANGED merges
           \/ /\ s.stage = "replied" /\ d.stage = "kill"
              /\ merges' = [merges EXCEPT ![n] = @ - 1]
           \/ /\ s.stage \in {"asked", "replied"} /\ d.stage = "none"
              /\ merges' = [merges EXCEPT ![n] = @ - 1]
           \/ /\ s.stage = "kill" /\ d.stage = "none" /\ UNCHANGED merges
    PROVE  Adjusted(n, m, s, d)
<1>1. \A a \in Nodes : merges[a] \in Nat
  BY CountedNat DEF Typed
<1>2. merges = [a \in Nodes |-> merges[a]]
  BY DEF Typed, Counted
<1>3. merges' = [a \in Nodes |-> merges'[a]]
  BY <1>2
<1> QED
  BY <1>1, <1>2, <1>3 DEF Adjusted, OneAsked, OneAnswered

\* What each step of a merge leaves it as, and that it keeps its type.
SyncMoves(n, m, d) ==
    \/ SyncAsk(n, m) /\ d = [sync[n][m] EXCEPT !.stage = "asked", !.asked = table[n]]
    \/ SyncArrives(n, m) /\ d = [sync[n][m] EXCEPT !.stage = "arrived", !.reply = table[m]]
    \/ SyncMerges(n, m) /\ d = [sync[n][m] EXCEPT !.stage = "merged",
                                    !.losers = Losers(m, sync[n][m].asked)]
    \/ SyncReplies(n, m) /\ d = [sync[n][m] EXCEPT !.stage = "replied", !.losers = {}]
    \/ SyncAnswered(n, m) /\ d = [sync[n][m] EXCEPT !.stage = "kill",
                                      !.losers = Losers(n, sync[n][m].reply)]
    \/ (SyncEnds(n, m) \/ SyncFails(n, m)) /\ d = NoSync

LEMMA SyncFacts ==
    ASSUME Typed, NEW n \in Nodes, NEW m \in Nodes, SyncStep(n, m)
    PROVE  \E d \in Syncs : SyncMoves(n, m, d) /\ Moves(n, m, d) /\ Counted' /\ Met'
<1>1. PICK s \in Syncs : s = sync[n][m]
  BY DEF Typed, Types
<1>2. sync \in [Nodes -> [Nodes -> Syncs]]
  BY DEF Typed, Types
<1>3. /\ table[n] \in Tables /\ table[m] \in Tables /\ s.asked \in Tables /\ s.reply \in Tables
      /\ Losers(m, s.asked) \in SUBSET Pids /\ Losers(n, s.reply) \in SUBSET Pids
  <2>1. /\ table[n] \in Tables /\ table[m] \in Tables
        /\ s.asked \in Tables /\ s.reply \in Tables
    BY DEF Typed, Types, Syncs
  <2> QED
    BY <2>1, MergedTyped
<1>4. ASSUME NEW d \in Syncs, sync' = [sync EXCEPT ![n][m] = d], s.stage # "none",
             UNCHANGED members, Adjusted(n, m, s, d)
      PROVE  Moves(n, m, d) /\ Counted' /\ Met'
  BY <1>1, <1>4, MovesTyped
<1>5. CASE SyncAsk(n, m)
  <2>1. PICK d \in Syncs : d = [s EXCEPT !.stage = "asked", !.asked = table[n]]
    <3>1. [s EXCEPT !.stage = "asked", !.asked = table[n]] \in Syncs
      BY <1>3 DEF Syncs
    <3> QED
      BY <3>1
  <2>2. /\ s.stage = "spawned" /\ d.stage = "asked" /\ UNCHANGED members
        /\ merges' = [merges EXCEPT ![n] = @ + 1]
        /\ sync' = [sync EXCEPT ![n][m] = d]
    BY <1>1, <1>2, <1>5, <2>1 DEF SyncAsk, Syncs
  <2>3. Adjusted(n, m, s, d)
    BY <2>2, AdjustedFacts
  <2>4. SyncMoves(n, m, d)
    BY <1>1, <1>5, <2>1 DEF SyncMoves
  <2> QED
    BY <1>4, <2>2, <2>3, <2>4
<1>6. CASE SyncArrives(n, m)
  <2>1. PICK d \in Syncs : d = [s EXCEPT !.stage = "arrived", !.reply = table[m]]
    <3>1. [s EXCEPT !.stage = "arrived", !.reply = table[m]] \in Syncs
      BY <1>3 DEF Syncs
    <3> QED
      BY <3>1
  <2>2. /\ s.stage = "asked" /\ d.stage = "arrived" /\ UNCHANGED members
        /\ merges' = [merges EXCEPT ![m] = @ + 1]
        /\ sync' = [sync EXCEPT ![n][m] = d]
    BY <1>1, <1>2, <1>6, <2>1 DEF SyncArrives, Syncs
  <2>3. Adjusted(n, m, s, d)
    BY <2>2, AdjustedFacts
  <2>4. SyncMoves(n, m, d)
    BY <1>1, <1>6, <2>1 DEF SyncMoves
  <2> QED
    BY <1>4, <2>2, <2>3, <2>4
<1>7. CASE SyncMerges(n, m)
  <2>1. PICK d \in Syncs : d = [s EXCEPT !.stage = "merged", !.losers = Losers(m, s.asked)]
    <3>1. [s EXCEPT !.stage = "merged", !.losers = Losers(m, s.asked)] \in Syncs
      BY <1>3 DEF Syncs
    <3> QED
      BY <3>1
  <2>2. /\ s.stage = "arrived" /\ d.stage = "merged" /\ UNCHANGED members
        /\ merges' = [merges EXCEPT ![m] = @ - 1]
        /\ sync' = [sync EXCEPT ![n][m] = d]
    BY <1>1, <1>2, <1>7, <2>1 DEF SyncMerges, Syncs
  <2>3. Adjusted(n, m, s, d)
    BY <2>2, AdjustedFacts
  <2>4. SyncMoves(n, m, d)
    BY <1>1, <1>7, <2>1 DEF SyncMoves
  <2> QED
    BY <1>4, <2>2, <2>3, <2>4
<1>8. CASE SyncReplies(n, m)
  <2>1. PICK d \in Syncs : d = [s EXCEPT !.stage = "replied", !.losers = {}]
    <3>1. [s EXCEPT !.stage = "replied", !.losers = {}] \in Syncs
      BY DEF Syncs
    <3> QED
      BY <3>1
  <2>2. /\ s.stage = "merged" /\ d.stage = "replied" /\ UNCHANGED <<members, merges>>
        /\ sync' = [sync EXCEPT ![n][m] = d]
    BY <1>1, <1>2, <1>8, <2>1 DEF SyncReplies, Syncs
  <2>3. Adjusted(n, m, s, d)
    BY <2>2, AdjustedFacts
  <2>4. SyncMoves(n, m, d)
    BY <1>1, <1>8, <2>1 DEF SyncMoves
  <2> QED
    BY <1>4, <2>2, <2>3, <2>4
<1>9. CASE SyncAnswered(n, m)
  <2>1. PICK d \in Syncs : d = [s EXCEPT !.stage = "kill", !.losers = Losers(n, s.reply)]
    <3>1. [s EXCEPT !.stage = "kill", !.losers = Losers(n, s.reply)] \in Syncs
      BY <1>3 DEF Syncs
    <3> QED
      BY <3>1
  <2>2. /\ s.stage = "replied" /\ d.stage = "kill" /\ UNCHANGED members
        /\ merges' = [merges EXCEPT ![n] = @ - 1]
        /\ sync' = [sync EXCEPT ![n][m] = d]
    BY <1>1, <1>2, <1>9, <2>1 DEF SyncAnswered, Syncs
  <2>3. Adjusted(n, m, s, d)
    BY <2>2, AdjustedFacts
  <2>4. SyncMoves(n, m, d)
    BY <1>1, <1>9, <2>1 DEF SyncMoves
  <2> QED
    BY <1>4, <2>2, <2>3, <2>4
<1>10. CASE SyncEnds(n, m) \/ SyncFails(n, m)
  <2>1. PICK d \in Syncs : d = NoSync
    <3>1. Unnamed \in Tables
      BY DEF Unnamed, Tables
    <3>2. NoSync \in Syncs
      BY <3>1 DEF NoSync, Syncs
    <3> QED
      BY <3>2
  <2>2. /\ d.stage = "none" /\ UNCHANGED members
        /\ sync' = [sync EXCEPT ![n][m] = d]
    BY <1>10, <2>1 DEF SyncEnds, SyncFails, NoSync
  <2>3. /\ s.stage # "none"
        /\ \/ s.stage = "kill" /\ UNCHANGED merges
           \/ s.stage \in {"asked", "replied"} /\ merges' = [merges EXCEPT ![n] = @ - 1]
    BY <1>1, <1>10 DEF SyncEnds, SyncFails
  <2>4. Adjusted(n, m, s, d)
    BY <2>2, <2>3, AdjustedFacts
  <2>5. SyncMoves(n, m, d)
    BY <1>10, <2>1 DEF SyncMoves
  <2> QED
    BY <1>4, <2>2, <2>3, <2>4, <2>5
<1> QED
  BY <1>5, <1>6, <1>7, <1>8, <1>9, <1>10 DEF SyncStep

LEMMA SyncTyped ==
    ASSUME Typed, NEW n \in Nodes, NEW m \in Nodes, SyncStep(n, m)
    PROVE  Typed'
<1>1. Counted' /\ Met' /\ sync' \in [Nodes -> [Nodes -> Syncs]]
  BY SyncFacts DEF Moves
<1>2. sync[n][m] \in Syncs /\ sync[n][m].losers \in SUBSET Pids
      /\ sync[n][m].asked \in Tables /\ sync[n][m].reply \in Tables
  BY DEF Typed, Types, Syncs
<1>3. UNCHANGED <<locks, members, claim, reactor, whole, first, claims, lostCommit, quit>>
  BY DEF SyncStep, SyncAsk, SyncArrives, SyncMerges, SyncReplies, SyncAnswered, SyncEnds,
         SyncFails, nameVars, history
<1>4. table' \in [Nodes -> Tables]
  <2>1. table \in [Nodes -> Tables]
    BY DEF Typed, Types
  <2>2. /\ Merged(m, sync[n][m].asked) \in Tables
        /\ Merged(n, sync[n][m].reply) \in Tables
    BY <1>2, MergedTyped
  <2>3. \/ table' = table
        \/ table' = [table EXCEPT ![m] = Merged(m, sync[n][m].asked)]
        \/ table' = [table EXCEPT ![n] = Merged(n, sync[n][m].reply)]
    BY DEF SyncStep, SyncAsk, SyncArrives, SyncMerges, SyncReplies, SyncAnswered, SyncEnds,
           SyncFails, nameVars
  <2> QED
    BY <2>1, <2>2, <2>3
<1>5. alive' \subseteq Pids /\ deaths' \in [Nodes -> Seq(Pids)]
  <2>1. UNCHANGED <<alive, deaths>> \/ Dies(sync[n][m].losers)
    BY DEF SyncStep, SyncAsk, SyncArrives, SyncMerges, SyncReplies, SyncAnswered, SyncEnds,
           SyncFails
  <2> QED
    BY <1>2, <2>1, DiesTyped DEF Typed, Types, Pasts
<1>6. faults' \in 0..MaxFaults
  <2>1. UNCHANGED faults \/ Faulty
    BY DEF SyncStep, SyncAsk, SyncArrives, SyncMerges, SyncReplies, SyncAnswered, SyncEnds,
           SyncFails, history
  <2> QED
    BY <2>1, FaultTyped DEF Typed
<1>7. exchanged' \subseteq SUBSET Nodes
  <2>1. exchanged' = exchanged \/ exchanged' = exchanged \cup {{n, m}}
    BY DEF SyncStep, SyncAsk, SyncArrives, SyncMerges, SyncReplies, SyncAnswered, SyncEnds,
           SyncFails, history
  <2> QED
    BY <2>1 DEF Typed, Pasts
<1>8. Types'
  BY <1>1, <1>3, <1>4, <1>5 DEF Typed, Types
<1>9. Pasts'
  BY <1>3, <1>5, <1>6, <1>7 DEF Typed, Pasts
<1>10. Busy'
  BY <1>3 DEF Typed, Busy
<1> QED
  BY <1>1, <1>8, <1>9, <1>10 DEF Typed

LEMMA NextTyped == Typed /\ [Next]_vars => Typed'
<1> SUFFICES ASSUME Typed, [Next]_vars
             PROVE  Typed'
  OBVIOUS
<1>1. CASE Calls
  BY <1>1, ClaimTyped DEF Calls
<1>2. CASE Goes
  BY <1>2, ClaimTyped, ReactorTyped, SyncTyped DEF Goes
<1>3. CASE Deaths \/ Learns
  BY <1>3, ReactorTyped DEF Deaths, Learns
<1>4. CASE UNCHANGED vars
  <2>1. Counted' /\ Met'
    BY <1>4, CountedStays DEF Typed, vars, taskVars
  <2> QED
    BY <1>4, <2>1 DEF vars, nameVars, taskVars, history, Typed, Types, Pasts, Busy
<1> QED
  BY <1>1, <1>2, <1>3, <1>4 DEF Next

\* Whatever the cluster does, in parts or whole, the variables keep their types
\* and merges counts the merges under way: merge_begin and merge_end come in
\* pairs on every path of sync_with and answer_sync, so that a lookup waits
\* neither for ever nor too short.
THEOREM GlobalTypes == Spec => []TypeOK
  BY InitTyped, NextTyped, TypedImpliesTypeOK, PTL DEF Spec


-----------------------------------------------------------------------------
(* A whole cluster.  The inductive invariant behind what is granted: the     *)
(* locks a claim holds are its own, from the first node on without a gap;    *)
(* an entry of a particle that has not quit is everywhere, or its commits    *)
(* are under way; and against an entry that is everywhere no other claim     *)
(* gets beyond the first lock, for which it may have looked too early.       *)

\* One claimant on each node: a lock is held by a node, not by a particle, so
\* two of one node do not exclude each other.
OnePerNode == \A p, q \in Pids : Home(p) = Home(q) => p = q

\* Everybody is a member of everybody, and there is nothing to merge.
Complete ==
    /\ \A n \in Nodes : members[n] = Nodes \ {n}
    /\ \A n, m \in Nodes : sync[n][m].stage = "none"

\* Who dies, gives a name up or is released has quit.
QuitKnown ==
    /\ Pids \ alive \subseteq quit
    /\ \A p \in Pids : claim[p].pc = "release" => p \in quit
    /\ \A n \in Nodes : \A p \in Range(deaths[n]) : p \in quit
    /\ \A n \in Nodes : reactor[n].left # {} => reactor[n].pid \in quit

\* How far a claim has got.
Ordered(p) ==
    /\ claim[p].pc \in {"lock", "take"} =>
          /\ claim[p].held \cup claim[p].left = Nodes
          /\ \A a \in claim[p].held, b \in claim[p].left : a < b
    /\ claim[p].pc = "commit" => claim[p].held = Nodes

InOrder == \A p \in Pids : Ordered(p)

\* p has the lock at n, and will release it or go on with it.
HasLock(p, n) ==
    \/ claim[p].pc \in {"lock", "take", "commit"} /\ n \in claim[p].held
    \/ claim[p].pc = "unlock" /\ n \in claim[p].left

LocksOwned ==
    \A p \in Pids, n \in Nodes : HasLock(p, n) => locks[n][claim[p].name] = Home(p)

Everywhere(p, x) == \A n \in Nodes : table[n][x] = p

\* p was told, or will be, that its name is its own.
Granted(p) == claim[p].pc \in {"unlock", "idle"} /\ claim[p].end = "ok"

Entered ==
    \A p \in Pids \ quit :
        /\ claim[p].pc = "commit" =>
              \A n \in Nodes \ claim[p].left : table[n][claim[p].name] = p
        /\ Granted(p) => Everywhere(p, claim[p].name)

Entry(p, n, x) ==
    \/ Everywhere(p, x)
    \/ claim[p].pc = "commit" /\ claim[p].name = x /\ n \notin claim[p].left

EntriesStand ==
    \A n \in Nodes, x \in Names : table[n][x] \in Pids \ quit => Entry(table[n][x], n, x)

\* r's claim of a name that another has gets no further.
Shut(r) ==
    /\ claim[r].pc # "commit"
    /\ claim[r].pc = "take" => claim[r].held = {}

ShutOut ==
    \A p \in Pids \ quit, r \in Pids :
        r # p /\ Everywhere(p, claim[r].name) => Shut(r)

Tidy == Complete /\ QuitKnown /\ InOrder /\ LocksOwned
Standing == Entered /\ EntriesStand /\ ShutOut

WholeInv == whole => Tidy /\ (~lostCommit => Standing)

\* Why somebody wins, while no request fails and nobody quits: whoever holds a
\* lock is on its way, up from the first node, unless the name is as good as won.
WonBy(q, x) == claim[q].name = x /\ (claim[q].pc = "commit" \/ Granted(q))

Won(x) == \E q \in Pids : WonBy(q, x)

LocksHeld ==
    \A n \in Nodes, x \in Names :
        locks[n][x] # NoNode =>
            \E w \in Pids : Home(w) = locks[n][x] /\ claim[w].name = x /\ HasLock(w, n)

EntriesWon ==
    \A n \in Nodes, x \in Names :
        WasFree(x) /\ table[n][x] # NoPid => WonBy(table[n][x], x)

Failed(p) == claim[p].pc \in {"unlock", "idle"} /\ claim[p].end \in {"taken", "unsettled"}

Leads(q, x) == claim[q].name = x /\ claim[q].pc \in {"lock", "take"} /\ claim[q].held # {}

FailuresYield ==
    \A p \in Pids :
        WasFree(claim[p].name) /\ Failed(p) =>
            \/ Won(claim[p].name)
            \/ /\ claim[p].pc = "unlock" => claim[p].left = {}
               /\ \E q \in Pids : Leads(q, claim[p].name)

Contested ==
    /\ ~lostCommit
    /\ LocksHeld /\ EntriesWon /\ FailuresYield
    /\ \A p \in Pids : claim[p].pc = "unlock" => claim[p].end # "none"

WinInv == whole /\ faults = 0 /\ quit = {} => Contested


-----------------------------------------------------------------------------
(* Locks *)

\* How a step of p changes locks: it takes one that is free for its node, or
\* gives one up that is its node's.
LockMoves(p) ==
    \/ UNCHANGED locks
    \/ \E n \in Nodes, x \in Names :
          /\ Free(n, x, Home(p))
          /\ locks' = [locks EXCEPT ![n][x] = Home(p)]
    \/ \E n \in Nodes, x \in Names :
          /\ locks[n][x] = Home(p)
          /\ locks' = [locks EXCEPT ![n][x] = NoNode]

\* What p does leaves the locks of other nodes where they are.
LEMMA OthersLocks ==
    ASSUME Typed, OnePerNode, NEW p \in Pids, LockMoves(p),
           NEW q \in Pids, q # p, NEW n \in Nodes, NEW x \in Names
    PROVE  /\ locks[n][x] = Home(q) => locks'[n][x] = Home(q)
           /\ locks'[n][x] = Home(q) => locks[n][x] = Home(q)
<1>1. /\ Home(p) \in Nodes /\ Home(q) \in Nodes /\ Home(p) # Home(q)
      /\ Home(p) # NoNode /\ Home(q) # NoNode
  BY NodeFacts DEF OnePerNode
<1>2. CASE UNCHANGED locks
  BY <1>2
<1>3. ASSUME NEW m \in Nodes, NEW y \in Names, Free(m, y, Home(p)),
             locks' = [locks EXCEPT ![m][y] = Home(p)]
      PROVE  /\ locks[n][x] = Home(q) => locks'[n][x] = Home(q)
             /\ locks'[n][x] = Home(q) => locks[n][x] = Home(q)
  <2>1. locks'[n][x] = IF n = m /\ x = y THEN Home(p) ELSE locks[n][x]
    BY <1>1, <1>3, LocksTyped, ZenonT(40)
  <2>2. locks[m][y] # Home(q)
    BY <1>1, <1>3 DEF Free
  <2> QED
    BY <1>1, <2>1, <2>2
<1>4. ASSUME NEW m \in Nodes, NEW y \in Names, locks[m][y] = Home(p),
             locks' = [locks EXCEPT ![m][y] = NoNode]
      PROVE  /\ locks[n][x] = Home(q) => locks'[n][x] = Home(q)
             /\ locks'[n][x] = Home(q) => locks[n][x] = Home(q)
  <2>1. locks'[n][x] = IF n = m /\ x = y THEN NoNode ELSE locks[n][x]
    BY <1>4, LocksTyped
  <2> QED
    BY <1>1, <1>4, <2>1
<1> QED
  BY <1>2, <1>3, <1>4 DEF LockMoves

\* Two particles never have the lock on one name at one node.
LEMMA LocksExclude ==
    ASSUME OnePerNode, LocksOwned, NEW p \in Pids, NEW q \in Pids, NEW n \in Nodes,
           HasLock(p, n), HasLock(q, n), claim[p].name = claim[q].name
    PROVE  p = q
  BY DEF LocksOwned, OnePerNode

\* What p does leaves LocksOwned to p's own locks.
LEMMA OwnLocksOwned ==
    ASSUME Typed, OnePerNode, LocksOwned, NEW p \in Pids, LockMoves(p), Others(p),
           claim' \in [Pids -> Claims],
           \A n \in Nodes : HasLock(p, n)' => locks'[n][claim'[p].name] = Home(p)
    PROVE  LocksOwned'
<1> SUFFICES ASSUME NEW q \in Pids, NEW n \in Nodes, HasLock(q, n)'
             PROVE  locks'[n][claim'[q].name] = Home(q)
  BY DEF LocksOwned, Home
<1>1. CASE q = p
  BY <1>1
<1>2. CASE q # p
  <2>1. claim'[q] = claim[q]
    BY <1>2 DEF Others
  <2>2. HasLock(q, n)
    BY <2>1 DEF HasLock
  <2>3. locks[n][claim[q].name] = Home(q) /\ claim[q].name \in Names
    BY <2>2 DEF LocksOwned, Typed, Types, Claims
  <2> QED
    BY <1>2, <2>1, <2>3, OthersLocks
<1> QED
  BY <1>1, <1>2

-----------------------------------------------------------------------------
(* Tidy is kept *)

\* What the steps of a claim leave alone.
Untouched == UNCHANGED <<members, sync, deaths, reactor, alive, whole, first>>

LEMMA ClaimStepsUntouched ==
    ASSUME NEW p \in Pids,
           \/ \E x \in Names : Register(p, x)
           \/ \E x \in Names : Unregister(p, x)
           \/ ClaimStep(p)
    PROVE  Untouched /\ quit \subseteq quit'
  BY DEF Untouched, Register, Unregister, ClaimStep, CheckName, TakeLock, LockFails, Commit, Unlock,
         EndTry, Release, EndRelease, nameVars, history

\* Complete and what is known of who quit.
LEMMA ClaimCompleteAndQuit ==
    ASSUME Complete, QuitKnown, NEW p \in Pids, Untouched, quit \subseteq quit', Others(p),
           claim'[p].pc = "release" => p \in quit'
    PROVE  Complete' /\ QuitKnown'
<1>1. Complete'
  BY DEF Complete, Untouched
<1>2. \A q \in Pids : claim'[q].pc = "release" => q \in quit'
  BY DEF Others, QuitKnown
<1> QED
  BY <1>1, <1>2 DEF QuitKnown, Untouched

\* A claim that is given up.
LEMMA GivenUpTidy ==
    ASSUME Typed, OnePerNode, Tidy, NEW p \in Pids, claim' \in [Pids -> Claims], Others(p),
           NEW end, GivesUp(p, end), claim[p].pc \in {"lock", "take", "commit"}, Untouched,
           quit \subseteq quit',
           \/ UNCHANGED locks
           \/ \E n \in Nodes : /\ Free(n, claim[p].name, Home(p))
                               /\ locks' = [locks EXCEPT ![n][claim[p].name] = Home(p)]
    PROVE  Tidy'
<1>0. claim[p].name \in Names /\ Home(p) \in Nodes /\ claim[p].held \in SUBSET Nodes
  BY NodeFacts DEF Typed, Types, Claims
<1>1. Complete' /\ QuitKnown'
  BY ClaimCompleteAndQuit DEF Tidy, GivesUp
<1>2. InOrder'
  BY DEF Tidy, InOrder, Ordered, Others, GivesUp
<1>3. LockMoves(p)
  BY <1>0 DEF LockMoves
<1>4. \A n \in Nodes : HasLock(p, n)' => locks'[n][claim'[p].name] = Home(p)
  <2> SUFFICES ASSUME NEW n \in Nodes, HasLock(p, n)'
               PROVE  locks'[n][claim[p].name] = Home(p)
    BY DEF GivesUp
  <2>1. n \in claim[p].held
    BY DEF HasLock, GivesUp
  <2>2. locks[n][claim[p].name] = Home(p)
    BY <2>1 DEF Tidy, LocksOwned, HasLock
  <2>3. ASSUME NEW m \in Nodes, locks' = [locks EXCEPT ![m][claim[p].name] = Home(p)]
        PROVE  locks'[n][claim[p].name] = Home(p)
    <3>1. locks'[n][claim[p].name] = IF n = m THEN Home(p) ELSE locks[n][claim[p].name]
      <4>1. Home(p) \in Nodes \cup {NoNode}
        BY <1>0
      <4> QED
        BY <1>0, <2>3, <4>1, LocksTyped
    <3> QED
      BY <2>2, <3>1
  <2> QED
    BY <2>2, <2>3
<1>5. LocksOwned'
  BY <1>3, <1>4, OwnLocksOwned DEF Tidy
<1> QED
  BY <1>1, <1>2, <1>5 DEF Tidy

\* A try that begins, in a complete cluster: with every node before it.
LEMMA BegunTidy ==
    ASSUME Typed, OnePerNode, Tidy, NEW p \in Pids, claim' \in [Pids -> Claims], Others(p),
           NEW x, NEW tries, Begins(p, x, tries), Untouched, quit \subseteq quit', UNCHANGED locks
    PROVE  Tidy' /\ claim'[p].left = Nodes
<1>1. Home(p) \in Nodes
  BY NodeFacts
<1>2. claim'[p].left = Nodes
  BY <1>1 DEF Begins, Tidy, Complete
<1>3. Complete' /\ QuitKnown'
  BY ClaimCompleteAndQuit DEF Tidy, Begins
<1>4. InOrder'
  BY <1>2 DEF Tidy, InOrder, Ordered, Others, Begins
<1>5. LocksOwned'
  <2>1. \A n \in Nodes : ~HasLock(p, n)'
    BY DEF HasLock, Begins
  <2> QED
    BY <2>1, OwnLocksOwned DEF Tidy, LockMoves
<1> QED
  BY <1>2, <1>3, <1>4, <1>5 DEF Tidy


\* What is left to show of a step of p: how far p got, and what locks it has.
LEMMA KeptTidy ==
    ASSUME Typed, OnePerNode, Tidy, NEW p \in Pids, claim' \in [Pids -> Claims], Others(p),
           Untouched, quit \subseteq quit', LockMoves(p),
           claim'[p].pc = "release" => p \in quit',
           Ordered(p)',
           \A n \in Nodes : HasLock(p, n)' => locks'[n][claim'[p].name] = Home(p)
    PROVE  Tidy'
<1>1. Complete' /\ QuitKnown'
  BY ClaimCompleteAndQuit DEF Tidy
<1>2. InOrder'
  BY DEF Tidy, InOrder, Ordered, Others
<1>3. LocksOwned'
  BY OwnLocksOwned DEF Tidy
<1> QED
  BY <1>1, <1>2, <1>3 DEF Tidy

LEMMA TakesTidy ==
    ASSUME Typed, OnePerNode, Tidy, NEW p \in Pids, TakeLock(p)
    PROVE  Tidy'
<1>1. /\ claim' \in [Pids -> Claims] /\ Others(p) /\ At(p) \in claim[p].left /\ At(p) \in Nodes
      /\ \/ GivesUp(p, "unsettled") /\ UNCHANGED locks
         \/ Free(At(p), claim[p].name, Home(p)) /\ Takes(p)
  BY TakeLockFacts
<1>2. Untouched /\ quit \subseteq quit'
  BY ClaimStepsUntouched DEF ClaimStep
<1>3. claim[p].pc = "take"
  BY DEF TakeLock
<1>4. CASE GivesUp(p, "unsettled") /\ UNCHANGED locks
  BY <1>1, <1>2, <1>3, <1>4, GivenUpTidy
<1>5. CASE Free(At(p), claim[p].name, Home(p)) /\ Takes(p)
  <2>1. claim[p].name \in Names /\ Home(p) \in Nodes \cup {NoNode}
    BY NodeFacts DEF Typed, Types, Claims
  <2>2. LockMoves(p)
    BY <1>1, <1>5, <2>1 DEF LockMoves, Takes
  <2>3. /\ claim[p].held \cup claim[p].left = Nodes
        /\ \A a \in claim[p].held, b \in claim[p].left : a < b
    BY <1>3 DEF Tidy, InOrder, Ordered
  <2>4. \A b \in claim[p].left \ {At(p)} : At(p) < b
    <3>1. \A b \in claim[p].left : At(p) <= b /\ b \in Nat /\ At(p) \in Nat
      BY <1>1, <2>3, AtFacts, NodeFacts
    <3> QED
      BY <3>1
  <2>5. Ordered(p)'
    <3>1. CASE claim'[p].pc = "commit" /\ claim[p].left = {At(p)}
      BY <1>5, <2>3, <3>1 DEF Ordered, Takes
    <3>2. CASE /\ claim'[p].pc = "lock" /\ claim[p].left # {At(p)}
               /\ claim'[p].left = claim[p].left \ {At(p)}
      <4>1. claim'[p].held = claim[p].held \cup {At(p)}
        BY <1>5 DEF Takes
      <4>2. claim'[p].held \cup claim'[p].left = Nodes
        BY <1>1, <2>3, <3>2, <4>1
      <4>3. \A a \in claim'[p].held, b \in claim'[p].left : a < b
        BY <2>3, <2>4, <3>2, <4>1
      <4> QED
        BY <3>2, <4>2, <4>3 DEF Ordered
    <3> QED
      BY <1>5, <3>1, <3>2 DEF Takes
  <2>6. ASSUME NEW n \in Nodes, HasLock(p, n)'
        PROVE  locks'[n][claim'[p].name] = Home(p)
    <3>1. n \in claim[p].held \cup {At(p)} /\ claim'[p].name = claim[p].name
      BY <1>5, <2>6 DEF HasLock, Takes
    <3>2. n \in claim[p].held => locks[n][claim[p].name] = Home(p)
      BY <1>3 DEF Tidy, LocksOwned, HasLock
    <3>3. locks'[n][claim[p].name] = IF n = At(p) THEN Home(p) ELSE locks[n][claim[p].name]
      BY <1>1, <1>5, <2>1, LocksTyped DEF Takes
    <3> QED
      BY <3>1, <3>2, <3>3
  <2>7. claim'[p].pc # "release"
    BY <1>5 DEF Takes
  <2> QED
    BY <1>1, <1>2, <2>2, <2>5, <2>6, <2>7, KeptTidy
<1> QED
  BY <1>1, <1>4, <1>5

LEMMA UnlockTidy ==
    ASSUME Typed, OnePerNode, Tidy, NEW p \in Pids, NEW arrives \in BOOLEAN, Unlock(p, arrives)
    PROVE  Tidy'
<1>1. claim' \in [Pids -> Claims] /\ Others(p) /\ Strikes(p)
  BY StrikesFacts
<1>2. Untouched /\ quit \subseteq quit'
  BY ClaimStepsUntouched DEF ClaimStep
<1>3. claim[p].pc = "unlock"
  BY DEF Unlock
<1>4. claim[p].name \in Names /\ At(p) \in Nodes
  BY <1>1 DEF Typed, Types, Claims, Strikes
<1>5. \/ UNCHANGED locks
      \/ /\ locks[At(p)][claim[p].name] = Home(p)
         /\ locks' = [locks EXCEPT ![At(p)][claim[p].name] = NoNode]
  BY DEF Unlock
<1>6. LockMoves(p)
  BY <1>4, <1>5 DEF LockMoves
<1>7. ASSUME NEW n \in Nodes, HasLock(p, n)'
      PROVE  locks'[n][claim'[p].name] = Home(p)
  <2>1. n \in claim[p].left /\ n # At(p) /\ claim'[p].name = claim[p].name
    BY <1>1, <1>3, <1>7 DEF HasLock, Strikes
  <2>2. locks[n][claim[p].name] = Home(p)
    BY <1>3, <2>1 DEF Tidy, LocksOwned, HasLock
  <2>3. locks'[n][claim[p].name] = locks[n][claim[p].name]
    BY <1>4, <1>5, <2>1, LocksTyped
  <2> QED
    BY <2>1, <2>2, <2>3
<1>8. Ordered(p)' /\ claim'[p].pc # "release"
  BY <1>1, <1>3 DEF Ordered, Strikes
<1> QED
  BY <1>1, <1>2, <1>6, <1>7, <1>8, KeptTidy


\* The steps that take no lock and give none up.
LEMMA LocklessTidy ==
    ASSUME Typed, OnePerNode, Tidy, NEW p \in Pids,
           \/ \E x \in Names : Register(p, x)
           \/ \E x \in Names : Unregister(p, x)
           \/ CheckName(p)
           \/ \E arrives \in BOOLEAN : Commit(p, arrives)
           \/ EndTry(p)
           \/ \E arrives \in BOOLEAN : Release(p, arrives)
           \/ EndRelease(p)
    PROVE  Tidy'
<1>1. Untouched /\ quit \subseteq quit'
  BY ClaimStepsUntouched DEF ClaimStep
<1>2. UNCHANGED locks
  BY DEF Register, Unregister, CheckName, Commit, EndTry, Release, EndRelease, nameVars
<1>3. LockMoves(p)
  BY <1>2 DEF LockMoves
<1>4. ASSUME claim' \in [Pids -> Claims], Others(p),
             claim'[p].pc \in {"idle", "release"}, claim'[p].pc = "release" => p \in quit'
      PROVE  Tidy'
  <2>1. Ordered(p)' /\ \A n \in Nodes : ~HasLock(p, n)'
    BY <1>4 DEF Ordered, HasLock
  <2> QED
    BY <1>1, <1>3, <1>4, <2>1, KeptTidy
<1>5. ASSUME NEW x \in Names, Register(p, x)
      PROVE  Tidy'
  BY <1>1, <1>2, <1>5, RegisterFacts, BegunTidy
<1>6. ASSUME NEW x \in Names, Unregister(p, x)
      PROVE  Tidy'
  <2>1. p \in quit'
    BY <1>6 DEF Unregister
  <2> QED
    BY <1>4, <1>6, <2>1, UnregisterFacts
<1>7. CASE CheckName(p)
  <2>1. /\ claim' \in [Pids -> Claims] /\ Others(p)
        /\ \/ GivesUp(p, "taken")
           \/ /\ claim'[p].pc = "take"
              /\ claim'[p].name = claim[p].name
              /\ claim'[p].left = claim[p].left
              /\ claim'[p].held = claim[p].held
    BY <1>7, CheckNameFacts
  <2>2. claim[p].pc = "lock"
    BY <1>7 DEF CheckName
  <2>3. CASE GivesUp(p, "taken")
    BY <1>1, <1>2, <2>1, <2>2, <2>3, GivenUpTidy
  <2>4. CASE /\ claim'[p].pc = "take"
             /\ claim'[p].name = claim[p].name
             /\ claim'[p].left = claim[p].left
             /\ claim'[p].held = claim[p].held
    <3>1. Ordered(p)'
      BY <2>2, <2>4 DEF Tidy, InOrder, Ordered
    <3>2. \A n \in Nodes : HasLock(p, n)' => locks'[n][claim'[p].name] = Home(p)
      BY <1>2, <2>2, <2>4 DEF Tidy, LocksOwned, HasLock
    <3> QED
      BY <1>1, <1>3, <2>1, <2>4, <3>1, <3>2, KeptTidy
  <2> QED
    BY <2>1, <2>3, <2>4
<1>8. ASSUME NEW arrives \in BOOLEAN, Commit(p, arrives)
      PROVE  Tidy'
  <2>1. /\ claim' \in [Pids -> Claims] /\ Others(p)
        /\ \/ GivesUp(p, "ok")
           \/ /\ claim'[p].pc = "commit"
              /\ claim'[p].name = claim[p].name
              /\ claim'[p].held = claim[p].held
    BY <1>8, CommitFacts
  <2>2. claim[p].pc = "commit"
    BY <1>8 DEF Commit
  <2>3. CASE GivesUp(p, "ok")
    BY <1>1, <1>2, <2>1, <2>2, <2>3, GivenUpTidy
  <2>4. CASE /\ claim'[p].pc = "commit"
             /\ claim'[p].name = claim[p].name
             /\ claim'[p].held = claim[p].held
    <3>1. Ordered(p)'
      BY <2>2, <2>4 DEF Tidy, InOrder, Ordered
    <3>2. \A n \in Nodes : HasLock(p, n)' => locks'[n][claim'[p].name] = Home(p)
      BY <1>2, <2>2, <2>4 DEF Tidy, LocksOwned, HasLock
    <3> QED
      BY <1>1, <1>3, <2>1, <2>4, <3>1, <3>2, KeptTidy
  <2> QED
    BY <2>1, <2>3, <2>4
<1>9. CASE EndTry(p)
  <2>1. /\ claim' \in [Pids -> Claims] /\ Others(p)
        /\ (\E x, tries : Begins(p, x, tries)) \/ Returns(p)
    BY <1>9, EndTryFacts
  <2>2. CASE \E x, tries : Begins(p, x, tries)
    BY <1>1, <1>2, <2>1, <2>2, BegunTidy
  <2>3. CASE Returns(p)
    BY <1>4, <2>1, <2>3 DEF Returns
  <2> QED
    BY <2>1, <2>2, <2>3
<1>10. ASSUME NEW arrives \in BOOLEAN, Release(p, arrives)
       PROVE  Tidy'
  <2>1. claim' \in [Pids -> Claims] /\ Others(p) /\ Strikes(p) /\ claim[p].pc = "release"
    BY <1>10, StrikesFacts DEF Release
  <2>2. claim'[p].pc = "release" /\ p \in quit'
    BY <1>1, <2>1 DEF Strikes, Tidy, QuitKnown
  <2> QED
    BY <1>4, <2>1, <2>2
<1>11. CASE EndRelease(p)
  BY <1>4, <1>11, EndReleaseFacts DEF Returns
<1> QED
  BY <1>5, <1>6, <1>7, <1>8, <1>9, <1>10, <1>11

LEMMA ClaimTidy ==
    ASSUME Typed, OnePerNode, Tidy, NEW p \in Pids,
           \/ \E x \in Names : Register(p, x)
           \/ \E x \in Names : Unregister(p, x)
           \/ ClaimStep(p)
    PROVE  Tidy'
<1>1. CASE LockFails(p)
  <2>1. /\ claim' \in [Pids -> Claims] /\ Others(p) /\ GivesUp(p, "unsettled")
        /\ At(p) \in Nodes
        /\ \/ UNCHANGED locks
           \/ /\ Free(At(p), claim[p].name, Home(p))
              /\ locks' = [locks EXCEPT ![At(p)][claim[p].name] = Home(p)]
    BY <1>1, LockFailsFacts
  <2>2. Untouched /\ quit \subseteq quit'
    BY ClaimStepsUntouched DEF ClaimStep
  <2>3. claim[p].pc \in {"lock", "take", "commit"}
    BY <1>1 DEF LockFails
  <2>4. \/ UNCHANGED locks
        \/ \E n \in Nodes : /\ Free(n, claim[p].name, Home(p))
                            /\ locks' = [locks EXCEPT ![n][claim[p].name] = Home(p)]
    BY <2>1
  <2> QED
    BY <2>1, <2>2, <2>3, <2>4, GivenUpTidy
<1> QED
  BY <1>1, LocklessTidy, TakesTidy, UnlockTidy DEF ClaimStep

\* Who is published dead is who was killed here.
LEMMA PublishedDeaths ==
    ASSUME Typed, NEW ps \in SUBSET Pids, Dies(ps), NEW n \in Nodes, NEW q \in Range(deaths'[n])
    PROVE  q \in Range(deaths[n]) \/ (q \in ps /\ Home(q) = n)
<1>1. PICK T \in SUBSET Pids : T = {r \in ps \cap alive : Home(r) = n}
  OBVIOUS
<1>2. deaths'[n] = deaths[n] \o SetToSeq(T)
  BY <1>1 DEF Dies
<1>3. IsFiniteSet(T)
  BY GlobalAssumption, FS_Subset
<1>4. PICK s \in Seq(T) : s = SetToSeq(T)
  BY <1>3, SetToSeqFacts
<1>5. PICK d \in Seq(Pids) : d = deaths[n]
  BY DEF Typed, Types
<1>6. PICK i \in DOMAIN (d \o s) : q = (d \o s)[i]
  BY <1>2, <1>4, <1>5 DEF Range
<1>7. i \in 1..(Len(d) + Len(s))
  BY <1>4, <1>5, <1>6
<1>8. CASE i <= Len(d)
  <2>1. Len(d) \in Nat /\ Len(s) \in Nat /\ DOMAIN d = 1..Len(d)
    BY <1>4, <1>5
  <2>2. i \in DOMAIN d
    BY <1>7, <1>8, <2>1
  <2>3. (d \o s)[i] = d[i]
    <3>1. s \in Seq(Pids)
      BY <1>4, SeqMonotonic
    <3>2. i \in 1..Len(d)
      BY <2>1, <2>2
    <3> QED
      BY <1>5, <3>1, <3>2
  <2>4. d[i] \in Range(d)
    BY <2>2 DEF Range
  <2>5. q = d[i]
    BY <1>6, <2>3
  <2> QED
    BY <1>5, <2>4, <2>5
<1>9. CASE i > Len(d)
  <2>1. i - Len(d) \in 1..Len(s) /\ q = s[i - Len(d)]
    BY <1>4, <1>5, <1>6, <1>7, <1>9
  <2>2. s[i - Len(d)] \in T
    BY <1>4, <2>1, ElementOfSeq
  <2> QED
    BY <1>1, <2>1, <2>2
<1> QED
  BY <1>4, <1>5, <1>7, <1>8, <1>9

\* A death, and what the reactor does about it.
LEMMA DeathTidy ==
    ASSUME Typed, Tidy,
           \/ \E p \in Pids : Die(p)
           \/ \E n \in Nodes : ReactorStep(n)
    PROVE  Tidy'
<1>1. UNCHANGED <<members, sync, claim, locks>>
  BY DEF Die, ReactorStep, Receive, ReactorRelease, nameVars, history
<1>2. Complete' /\ InOrder' /\ LocksOwned'
  BY <1>1 DEF Tidy, Complete, InOrder, Ordered, LocksOwned, HasLock, Home
<1>3. ASSUME NEW p \in Pids, Die(p)
      PROVE  QuitKnown'
  <2>1. quit' = quit \cup {p} /\ alive' = alive \ {p} /\ UNCHANGED reactor /\ p \in alive
    BY <1>3 DEF Die, Dies
  <2>2. ASSUME NEW n \in Nodes, NEW q \in Range(deaths'[n])
        PROVE  q \in quit'
    <3>1. Dies({p})
      BY <1>3 DEF Die
    <3>2. q \in Range(deaths[n]) \/ q \in {p}
      BY <3>1, PublishedDeaths
    <3> QED
      BY <2>1, <3>2 DEF Tidy, QuitKnown
  <2> QED
    BY <1>1, <2>1, <2>2 DEF Tidy, QuitKnown
<1>4. ASSUME NEW n \in Nodes, Receive(n)
      PROVE  QuitKnown'
  <2>1. PICK d \in Seq(Pids) : d = deaths[n]
    BY DEF Typed, Types
  <2>2. d # <<>> /\ deaths' = [deaths EXCEPT ![n] = Tail(d)] /\ UNCHANGED <<alive, quit>>
    BY <1>4, <2>1 DEF Receive, history
  <2>3. Head(d) \in Range(d) /\ Range(Tail(d)) \subseteq Range(d)
    BY <2>2 DEF Range
  <2>4. \A m \in Nodes : Range(deaths'[m]) \subseteq Range(deaths[m])
    BY <2>1, <2>2, <2>3 DEF Typed, Types
  <2>5. \A m \in Nodes : reactor'[m].left # {} => reactor'[m].pid \in quit
    <3>1. Head(d) \in quit
      BY <2>1, <2>3 DEF Tidy, QuitKnown
    <3>2. \/ UNCHANGED reactor
          \/ \E x \in Names : reactor' = [reactor EXCEPT ![n] =
                [pid |-> Head(d), name |-> x, left |-> members[n]]]
      BY <1>4, <2>1 DEF Receive
    <3>3. ASSUME NEW x \in Names, NEW r,
                 r = [pid |-> Head(d), name |-> x, left |-> members[n]],
                 reactor' = [reactor EXCEPT ![n] = r], NEW m \in Nodes, reactor'[m].left # {}
          PROVE  reactor'[m].pid \in quit
      <4>1. reactor'[m] = IF m = n THEN r ELSE reactor[m]
        BY <3>3 DEF Typed, Types
      <4> QED
        BY <3>1, <3>3, <4>1 DEF Tidy, QuitKnown
    <3> QED
      BY <3>2, <3>3 DEF Tidy, QuitKnown
  <2> QED
    BY <1>1, <2>2, <2>4, <2>5 DEF Tidy, QuitKnown
<1>5. ASSUME NEW n \in Nodes, NEW arrives \in BOOLEAN, ReactorRelease(n, arrives)
      PROVE  QuitKnown'
  <2>1. UNCHANGED <<alive, quit, deaths>>
    BY <1>5 DEF ReactorRelease
  <2>2. \A m \in Nodes : /\ reactor'[m].pid = reactor[m].pid
                         /\ reactor'[m].left # {} => reactor[m].left # {}
    <3>1. PICK R \in [Nodes -> [pid : Pids \cup {NoPid}, name : Names, left : SUBSET Nodes]] :
             R = reactor
      BY DEF Typed, Types
    <3>2. PICK r \in [pid : Pids \cup {NoPid}, name : Names, left : SUBSET Nodes] : r = R[n]
      BY <3>1
    <3>3. reactor' = [R EXCEPT ![n] = [r EXCEPT !.left = r.left \ {Min(r.left)}]]
      BY <1>5, <3>1, <3>2 DEF ReactorRelease
    <3> QED
      BY <3>1, <3>2, <3>3
  <2> QED
    BY <1>1, <2>1, <2>2 DEF Tidy, QuitKnown
<1> QED
  BY <1>2, <1>3, <1>4, <1>5 DEF Tidy, ReactorStep

\* In a complete cluster there is nobody to learn of and nothing to merge.
LEMMA NothingToMerge ==
    ASSUME Tidy, NEW n \in Nodes, NEW m \in Nodes
    PROVE  ~SyncStep(n, m) /\ \A byId \in BOOLEAN : ~Learn(n, m, byId)
<1>1. sync[n][m].stage = "none" /\ members[n] = Nodes \ {n}
  BY DEF Tidy, Complete
<1> QED
  BY <1>1 DEF Learn, SyncStep, SyncAsk, SyncArrives, SyncMerges, SyncReplies, SyncAnswered,
              SyncEnds, SyncFails


-----------------------------------------------------------------------------
(* Standing is kept *)

\* What goes from the tables is what quit.
Sheds ==
    \A n \in Nodes, x \in Names :
        table'[n][x] # table[n][x] => table[n][x] \in quit' /\ table'[n][x] = NoPid

\* What a step other than a commit may do with the claim of q.
Keeps(q) ==
    \/ claim'[q] = claim[q]
    \/ /\ claim[q].pc # "commit"
       /\ claim'[q].pc = "commit" => claim'[q].left = Nodes
       /\ Granted(q)' /\ q \notin quit' => Granted(q) /\ claim'[q].name = claim[q].name
       /\ \/ Shut(q)'
          \/ /\ claim'[q].name = claim[q].name
             /\ \A p \in Pids \ {q} : ~(Everywhere(p, claim[q].name) /\ Shut(q))

LEMMA ShedsEverywhere ==
    ASSUME Sheds, NEW p \in Pids \ quit', NEW x \in Names
    PROVE  Everywhere(p, x)' <=> Everywhere(p, x)
  BY NodeFacts DEF Sheds, Everywhere

LEMMA QuietStanding ==
    ASSUME Typed, Typed', Standing, Sheds, quit \subseteq quit', \A q \in Pids : Keeps(q)
    PROVE  Standing'
<1>1. \A q \in Pids : claim[q].name \in Names /\ claim'[q].name \in Names
  BY DEF Typed, Types, Claims
<1>2. Entered'
  <2> SUFFICES ASSUME NEW p \in Pids, p \notin quit'
               PROVE  /\ claim'[p].pc = "commit" =>
                            \A n \in Nodes \ claim'[p].left : table'[n][claim'[p].name] = p
                      /\ Granted(p)' => Everywhere(p, claim[p].name)'
    BY DEF Entered, Everywhere
  <2>1. p \notin quit
    OBVIOUS
  <2>2. ASSUME claim'[p].pc = "commit", NEW n \in Nodes, n \notin claim'[p].left
        PROVE  table'[n][claim'[p].name] = p
    <3>1. claim'[p] = claim[p]
      BY <2>2 DEF Keeps
    <3>2. table[n][claim[p].name] = p
      BY <2>1, <2>2, <3>1 DEF Standing, Entered
    <3> QED
      BY <1>1, <3>1, <3>2 DEF Sheds
  <2>3. ASSUME Granted(p)'
        PROVE  Everywhere(p, claim[p].name)'
    <3>1. Granted(p) /\ claim'[p].name = claim[p].name
      BY <2>3 DEF Keeps, Granted
    <3>2. PICK x \in Names : x = claim[p].name /\ x = claim'[p].name
      BY <1>1, <3>1
    <3>3. Everywhere(p, x)
      BY <2>1, <3>1, <3>2 DEF Standing, Entered
    <3>4. Everywhere(p, x)'
      BY <3>3, ShedsEverywhere
    <3> QED
      BY <3>2, <3>4 DEF Everywhere
  <2> QED
    BY <2>2, <2>3
<1>3. EntriesStand'
  <2> SUFFICES ASSUME NEW n \in Nodes, NEW x \in Names, NEW e \in Pids, e \notin quit',
                      table'[n][x] = e
               PROVE  Entry(e, n, x)'
    BY DEF EntriesStand, Entry, Everywhere
  <2>1. table[n][x] = e /\ e \notin quit
    BY NodeFacts DEF Sheds
  <2>2. Entry(e, n, x)
    BY <2>1 DEF Standing, EntriesStand
  <2>3. CASE Everywhere(e, x)
    BY <2>3, ShedsEverywhere DEF Entry
  <2>4. CASE claim[e].pc = "commit" /\ claim[e].name = x /\ n \notin claim[e].left
    BY <2>4 DEF Keeps, Entry
  <2> QED
    BY <2>2, <2>3, <2>4 DEF Entry
<1>4. ShutOut'
  <2> SUFFICES ASSUME NEW p \in Pids, p \notin quit', NEW r \in Pids, r # p,
                      Everywhere(p, claim[r].name)'
               PROVE  Shut(r)'
    BY DEF ShutOut, Everywhere
  <2>1. Everywhere(p, claim'[r].name) /\ p \notin quit
    <3>1. PICK x \in Names : x = claim'[r].name
      BY <1>1
    <3>2. Everywhere(p, x)'
      BY <3>1 DEF Everywhere
    <3> QED
      BY <3>1, <3>2, ShedsEverywhere
  <2>2. claim'[r].name = claim[r].name => Shut(r)
    BY <2>1 DEF Standing, ShutOut
  <2>3. CASE claim'[r] = claim[r]
    BY <2>2, <2>3 DEF Shut
  <2>4. CASE /\ claim'[r].name = claim[r].name
             /\ \A q \in Pids \ {r} : ~(Everywhere(q, claim[r].name) /\ Shut(r))
    BY <2>1, <2>2, <2>4
  <2> QED
    BY <2>3, <2>4 DEF Keeps
<1> QED
  BY <1>2, <1>3, <1>4 DEF Standing

\* Whom a commit overwrites: nobody who has not quit.
LEMMA NobodyOverwritten ==
    ASSUME Typed, OnePerNode, Tidy, Standing, NEW q \in Pids, claim[q].pc = "commit",
           NEW n \in Nodes, table[n][claim[q].name] \in Pids \ quit
    PROVE  table[n][claim[q].name] = q
<1>1. PICK e \in Pids \ quit : e = table[n][claim[q].name]
  OBVIOUS
<1>2. claim[q].name \in Names
  BY DEF Typed, Types, Claims
<1>3. Entry(e, n, claim[q].name)
  BY <1>1, <1>2 DEF Standing, EntriesStand
<1>4. CASE Everywhere(e, claim[q].name)
  BY <1>1, <1>4 DEF Standing, ShutOut, Shut
<1>5. CASE claim[e].pc = "commit" /\ claim[e].name = claim[q].name
  <2>1. HasLock(q, n) /\ HasLock(e, n)
    BY <1>5 DEF HasLock, Tidy, InOrder, Ordered
  <2> QED
    BY <1>1, <1>5, <2>1, LocksExclude DEF Tidy
<1> QED
  BY <1>1, <1>3, <1>4, <1>5 DEF Entry

LEMMA CommitStanding ==
    ASSUME Typed, Typed', OnePerNode, Tidy, Standing, NEW q \in Pids, Commit(q, TRUE)
    PROVE  Standing'
<1>0. PICK n \in Nodes, x \in Names : n = At(q) /\ x = claim[q].name
  BY CommitFacts DEF Typed, Types, Claims
<1>1. /\ claim[q].pc = "commit" /\ x \in Names /\ claim[q].held = Nodes
      /\ quit' = quit /\ table' = [table EXCEPT ![n][x] = q]
  BY <1>0 DEF Commit, Typed, Types, Claims, Tidy, InOrder, Ordered
<1>2. /\ Others(q) /\ n \in claim[q].left /\ n \in Nodes
      /\ \/ claim[q].left = {n} /\ GivesUp(q, "ok")
         \/ /\ claim'[q].pc = "commit"
            /\ claim'[q].name = x
            /\ claim'[q].left = claim[q].left \ {n}
  BY <1>0, CommitFacts
<1>3. \A m \in Nodes, y \in Names : table'[m][y] = IF m = n /\ y = x THEN q ELSE table[m][y]
  <2>1. table' = [table EXCEPT ![n][x] = q]
    BY <1>1
  <2>2. table \in [Nodes -> Tables] /\ table[n] \in Tables /\ n \in Nodes /\ x \in Names
    BY <1>0 DEF Typed, Types
  <2> QED
    BY <2>1, <2>2 DEF Tables
<1>4. claim'[q].name = x
  BY <1>0, <1>2 DEF GivesUp
<1>5. \A m \in Nodes : HasLock(q, m)
  BY <1>1 DEF HasLock
<1>6. ASSUME NEW p \in Pids, p # q, claim[p].name = x
      PROVE  Shut(p)
  <2>1. \A m \in Nodes : ~HasLock(p, m)
    BY <1>0, <1>5, <1>6, LocksExclude DEF Tidy
  <2>2. claim[p].held \subseteq Nodes
    BY DEF Typed, Types, Claims
  <2>3. claim[p].pc = "commit" => claim[p].held = Nodes
    BY DEF Tidy, InOrder, Ordered
  <2> QED
    BY <1>2, <2>1, <2>2, <2>3 DEF HasLock, Shut
<1>7. ASSUME NEW p \in Pids, p \notin quit, p # q
      PROVE  ~Everywhere(p, x)
  BY <1>0, <1>1, <1>7 DEF Standing, ShutOut, Shut
<1>8. claim'[q].pc = "commit" => /\ claim'[q].left = claim[q].left \ {n}
                                 /\ n \notin claim'[q].left
  BY <1>2 DEF GivesUp
<1>9. q \notin quit => \A m \in Nodes \ claim'[q].left : claim'[q].pc = "commit" => table'[m][x] = q
  <2>1. q \notin quit => \A m \in Nodes \ claim[q].left : table[m][x] = q
    BY <1>0, <1>1 DEF Standing, Entered
  <2> QED
    BY <1>1, <1>2, <1>3, <2>1 DEF GivesUp
<1>10. q \notin quit /\ claim'[q].pc # "commit" => Everywhere(q, x)'
  <2>1. q \notin quit => \A m \in Nodes \ claim[q].left : table[m][x] = q
    BY <1>0, <1>1 DEF Standing, Entered
  <2> QED
    BY <1>1, <1>2, <1>3, <2>1 DEF GivesUp, Everywhere
<1>11. \A p \in Pids : claim[p].name \in Names
  BY DEF Typed, Types, Claims
<1>12. Entered'
  <2> SUFFICES ASSUME NEW p \in Pids, p \notin quit
               PROVE  /\ claim'[p].pc = "commit" =>
                            \A m \in Nodes \ claim'[p].left : table'[m][claim'[p].name] = p
                      /\ Granted(p)' => Everywhere(p, claim[p].name)'
    BY <1>1 DEF Entered, Everywhere
  <2>1. CASE p = q
    BY <1>4, <1>9, <1>10, <2>1 DEF Granted
  <2>2. CASE p # q
    <3>1. claim'[p] = claim[p]
      BY <1>2, <2>2 DEF Others
    <3>2. ASSUME claim[p].pc = "commit"
          PROVE  \A m \in Nodes \ claim[p].left : table'[m][claim[p].name] = p
      <4>1. claim[p].name # x
        BY <1>6, <2>2, <3>2 DEF Shut
      <4> QED
        BY <1>3, <1>11, <3>2, <4>1 DEF Standing, Entered
    <3>3. ASSUME Granted(p)
          PROVE  Everywhere(p, claim[p].name)'
      <4>1. Everywhere(p, claim[p].name)
        BY <3>3 DEF Standing, Entered
      <4>2. claim[p].name # x
        BY <1>7, <2>2, <4>1
      <4>3. \A m \in Nodes : table'[m][claim[p].name] = p
        BY <1>3, <1>11, <4>1, <4>2 DEF Everywhere
      <4> QED
        BY <3>1, <4>3 DEF Everywhere
    <3> QED
      BY <3>1, <3>2, <3>3 DEF Granted, Everywhere
  <2> QED
    BY <2>1, <2>2
<1>13. EntriesStand'
  <2> SUFFICES ASSUME NEW m \in Nodes, NEW y \in Names, NEW e \in Pids, e \notin quit,
                      table'[m][y] = e
               PROVE  Entry(e, m, y)'
    BY <1>1 DEF EntriesStand, Entry, Everywhere
  <2>1. CASE m = n /\ y = x
    <3>1. e = q
      BY <1>3, <2>1
    <3> QED
      BY <1>4, <1>8, <1>10, <2>1, <3>1 DEF Entry
  <2>2. CASE ~(m = n /\ y = x)
    <3>1. table[m][y] = e
      BY <1>3, <2>2
    <3>2. Entry(e, m, y)
      BY <3>1 DEF Standing, EntriesStand
    <3>3. CASE Everywhere(e, y)
      <4>1. y # x \/ e = q
        BY <1>7, <3>3
      <4>2. Everywhere(e, y)'
        BY <1>3, <3>3, <4>1 DEF Everywhere
      <4> QED
        BY <4>2 DEF Entry
    <3>4. CASE claim[e].pc = "commit" /\ claim[e].name = y /\ m \notin claim[e].left
      <4>1. CASE e = q
        BY <1>0, <1>4, <1>8, <1>10, <3>4, <4>1 DEF Entry
      <4>2. CASE e # q
        BY <1>2, <3>4, <4>2 DEF Entry, Others
      <4> QED
        BY <4>1, <4>2
    <3> QED
      BY <3>2, <3>3, <3>4 DEF Entry
  <2> QED
    BY <2>1, <2>2
<1>14. ShutOut'
  <2> SUFFICES ASSUME NEW p \in Pids, p \notin quit, NEW r \in Pids, r # p,
                      Everywhere(p, claim[r].name)'
               PROVE  Shut(r)'
    BY <1>1 DEF ShutOut, Everywhere
  <2>1. claim'[r].name = claim[r].name
    BY <1>0, <1>2, <1>4 DEF Others
  <2>2. CASE claim[r].name = x
    <3>1. p = q
      BY <1>2, <1>3, <1>1, <2>1, <2>2 DEF Everywhere
    <3>2. Shut(r)
      BY <1>6, <2>2, <3>1
    <3> QED
      BY <1>2, <3>1, <3>2 DEF Others, Shut
  <2>3. CASE claim[r].name # x
    <3>1. r # q
      BY <1>0, <2>3
    <3>2. Everywhere(p, claim[r].name)
      BY <1>3, <1>11, <2>1, <2>3 DEF Everywhere
    <3>3. Shut(r)
      BY <3>2 DEF Standing, ShutOut
    <3> QED
      BY <1>2, <3>1, <3>3 DEF Others, Shut
  <2> QED
    BY <2>2, <2>3
<1> QED
  BY <1>12, <1>13, <1>14 DEF Standing


\* A claim that is not committing, nor about to, and not newly granted.
LEMMA PlainKeeps ==
    ASSUME NEW q \in Pids, claim[q].pc # "commit",
           \/ claim'[q].pc \in {"lock", "release"}
           \/ claim'[q].pc \in {"unlock", "idle"} /\ claim'[q].end # "ok"
           \/ claim'[q].pc \in {"unlock", "idle"} /\ q \in quit'
           \/ claim'[q].pc \in {"unlock", "idle"} /\ Granted(q) /\ claim'[q].name = claim[q].name
    PROVE  Keeps(q)
<1>1. claim'[q].pc # "commit" /\ Shut(q)'
  BY DEF Shut
<1>2. Granted(q)' /\ q \notin quit' => Granted(q) /\ claim'[q].name = claim[q].name
  BY DEF Granted
<1> QED
  BY <1>1, <1>2 DEF Keeps

LEMMA OthersKeep ==
    ASSUME NEW p \in Pids, Others(p), Keeps(p)
    PROVE  \A q \in Pids : Keeps(q)
  BY DEF Others, Keeps

\* Steps that leave the tables alone.
LEMMA TakeKeeps ==
    ASSUME Typed, OnePerNode, Tidy, NEW p \in Pids, TakeLock(p)
    PROVE  Sheds /\ \A q \in Pids : Keeps(q)
<1>1. /\ claim' \in [Pids -> Claims] /\ Others(p) /\ At(p) \in Nodes
      /\ GivesUp(p, "unsettled") \/ Takes(p)
  BY TakeLockFacts
<1>2. claim[p].pc = "take" /\ UNCHANGED table
  BY DEF TakeLock
<1>3. ASSUME GivesUp(p, "unsettled")
      PROVE  Keeps(p)
  BY <1>2, <1>3, PlainKeeps DEF GivesUp
<1>4. ASSUME Takes(p), claim'[p].pc = "lock"
      PROVE  Keeps(p)
  BY <1>2, <1>4, PlainKeeps
<1>5. ASSUME Takes(p), claim'[p].pc = "commit"
      PROVE  Keeps(p)
  <2>1. /\ claim[p].left = {At(p)} /\ claim'[p].left = claim[p].held \cup {At(p)}
        /\ claim'[p].name = claim[p].name
    BY <1>5 DEF Takes
  <2>2. claim[p].held \cup claim[p].left = Nodes
    BY <1>2 DEF Tidy, InOrder, Ordered
  <2>3. claim'[p].left = Nodes
    BY <2>1, <2>2
  <2>4. ASSUME NEW q \in Pids, q # p, Shut(p)
        PROVE  FALSE
    <3>1. Nodes = {At(p)}
      BY <1>2, <2>1, <2>2, <2>4 DEF Shut
    <3> QED
      BY <2>4, <3>1, NodeFacts DEF OnePerNode
  <2>5. ~Granted(p)'
    BY <1>5 DEF Granted
  <2> QED
    BY <1>2, <1>5, <2>1, <2>3, <2>4, <2>5 DEF Keeps
<1>6. Keeps(p)
  BY <1>1, <1>3, <1>4, <1>5 DEF Takes
<1> QED
  BY <1>1, <1>2, <1>6, OthersKeep DEF Sheds

LEMMA CheckKeeps ==
    ASSUME Typed, NEW p \in Pids, CheckName(p)
    PROVE  Sheds /\ \A q \in Pids : Keeps(q)
<1>1. /\ Others(p) /\ At(p) \in Nodes
      /\ \/ GivesUp(p, "taken")
         \/ /\ table[At(p)][claim[p].name] = NoPid
            /\ claim'[p].pc = "take"
            /\ claim'[p].name = claim[p].name
  BY CheckNameFacts
<1>2. claim[p].pc = "lock" /\ UNCHANGED table
  BY DEF CheckName, nameVars
<1>3. ASSUME GivesUp(p, "taken")
      PROVE  Keeps(p)
  BY <1>2, <1>3, PlainKeeps DEF GivesUp
<1>4. ASSUME table[At(p)][claim[p].name] = NoPid, claim'[p].pc = "take",
             claim'[p].name = claim[p].name
      PROVE  Keeps(p)
  <2>1. \A q \in Pids : ~Everywhere(q, claim[p].name)
    BY <1>1, <1>4, NodeFacts DEF Everywhere
  <2>2. ~Granted(p)'
    BY <1>4 DEF Granted
  <2> QED
    BY <1>2, <1>4, <2>1, <2>2 DEF Keeps
<1> QED
  BY <1>1, <1>2, <1>3, <1>4, OthersKeep DEF Sheds

\* An entry that goes by its particle is one of who quit.
LEMMA ReleasedSheds ==
    ASSUME Typed, NEW n \in Nodes, NEW x \in Names, NEW p \in quit',
           UNCHANGED table \/ table' = Released(table, n, x, p)
    PROVE  Sheds
<1>1. CASE UNCHANGED table
  BY <1>1 DEF Sheds
<1>2. CASE table' = Released(table, n, x, p)
  <2>1. table \in [Nodes -> Tables]
    BY DEF Typed, Types
  <2>2. \A m \in Nodes, y \in Names :
           table'[m][y] = IF m = n /\ y = x /\ table[m][y] = p THEN NoPid ELSE table[m][y]
    BY <1>2, <2>1, ReleasedFacts
  <2> QED
    BY <2>2 DEF Sheds
<1> QED
  BY <1>1, <1>2

LEMMA ClaimKeeps ==
    ASSUME Typed, OnePerNode, Tidy, NEW p \in Pids,
           \/ \E x \in Names : Register(p, x)
           \/ \E x \in Names : Unregister(p, x)
           \/ ClaimStep(p) /\ \A arrives \in BOOLEAN : ~Commit(p, arrives)
    PROVE  Sheds /\ \A q \in Pids : Keeps(q)
<1>1. ASSUME NEW x \in Names, Register(p, x)
      PROVE  Sheds /\ \A q \in Pids : Keeps(q)
  <2>1. Others(p) /\ claim'[p].pc = "lock"
    BY <1>1, RegisterFacts DEF Begins
  <2>2. claim[p].pc = "idle" /\ UNCHANGED table
    BY <1>1 DEF Register, nameVars
  <2> QED
    BY <2>1, <2>2, PlainKeeps, OthersKeep DEF Sheds
<1>2. ASSUME NEW x \in Names, Unregister(p, x)
      PROVE  Sheds /\ \A q \in Pids : Keeps(q)
  <2>1. Others(p) /\ claim'[p].pc = "release"
    BY <1>2, UnregisterFacts
  <2>2. /\ claim[p].pc = "idle" /\ p \in quit'
        /\ table' = Released(table, Home(p), x, p)
    BY <1>2 DEF Unregister
  <2>3. Sheds
    BY <2>2, ReleasedSheds, NodeFacts
  <2> QED
    BY <2>1, <2>2, <2>3, PlainKeeps, OthersKeep
<1>3. CASE LockFails(p)
  <2>1. Others(p) /\ GivesUp(p, "unsettled")
    BY <1>3, LockFailsFacts
  <2>2. claim[p].pc # "commit" /\ UNCHANGED table
    BY <1>3 DEF LockFails
  <2> QED
    BY <2>1, <2>2, PlainKeeps, OthersKeep DEF Sheds, GivesUp
<1>4. ASSUME NEW arrives \in BOOLEAN, Unlock(p, arrives)
      PROVE  Sheds /\ \A q \in Pids : Keeps(q)
  <2>1. Others(p) /\ Strikes(p)
    BY <1>4, StrikesFacts
  <2>2. claim[p].pc = "unlock" /\ UNCHANGED table
    BY <1>4 DEF Unlock
  <2>3. \/ claim'[p].pc = "unlock" /\ claim'[p].end # "ok"
        \/ claim'[p].pc = "unlock" /\ Granted(p) /\ claim'[p].name = claim[p].name
    BY <2>1, <2>2 DEF Strikes, Granted
  <2> QED
    BY <2>1, <2>2, <2>3, PlainKeeps, OthersKeep DEF Sheds
<1>5. CASE EndTry(p)
  <2>1. Others(p) /\ (claim'[p].pc = "lock" \/ Returns(p))
    BY <1>5, EndTryFacts DEF Begins
  <2>2. claim[p].pc = "unlock" /\ UNCHANGED table
    BY <1>5 DEF EndTry, nameVars
  <2>3. \/ claim'[p].pc = "lock"
        \/ claim'[p].pc = "idle" /\ claim'[p].end # "ok"
        \/ claim'[p].pc = "idle" /\ Granted(p) /\ claim'[p].name = claim[p].name
    BY <2>1, <2>2 DEF Returns, Granted
  <2> QED
    BY <2>1, <2>2, <2>3, PlainKeeps, OthersKeep DEF Sheds
<1>6. ASSUME NEW arrives \in BOOLEAN, Release(p, arrives)
      PROVE  Sheds /\ \A q \in Pids : Keeps(q)
  <2>1. Others(p) /\ Strikes(p)
    BY <1>6, StrikesFacts
  <2>2. /\ claim[p].pc = "release" /\ p \in quit'
        /\ UNCHANGED table \/ table' = Released(table, At(p), claim[p].name, p)
    BY <1>6 DEF Release, Tidy, QuitKnown
  <2>3. Sheds
    <3>1. At(p) \in Nodes /\ claim[p].name \in Names
      BY <2>1 DEF Strikes, Typed, Types, Claims
    <3> QED
      BY <2>2, <3>1, ReleasedSheds
  <2> QED
    BY <2>1, <2>2, <2>3, PlainKeeps, OthersKeep DEF Strikes
<1>7. CASE EndRelease(p)
  <2>1. Others(p) /\ Returns(p)
    BY <1>7, EndReleaseFacts
  <2>2. claim[p].pc = "release" /\ p \in quit' /\ UNCHANGED table
    BY <1>7 DEF EndRelease, nameVars, history, Tidy, QuitKnown
  <2> QED
    BY <2>1, <2>2, PlainKeeps, OthersKeep DEF Sheds, Returns
<1> QED
  BY <1>1, <1>2, <1>3, <1>4, <1>5, <1>6, <1>7, CheckKeeps, TakeKeeps DEF ClaimStep

LEMMA DeathKeeps ==
    ASSUME Typed, Tidy,
           \/ \E p \in Pids : Die(p)
           \/ \E n \in Nodes : ReactorStep(n)
    PROVE  Sheds /\ quit \subseteq quit' /\ \A q \in Pids : Keeps(q)
<1>1. UNCHANGED claim /\ quit \subseteq quit'
  BY DEF Die, ReactorStep, Receive, ReactorRelease, nameVars, history
<1>2. ASSUME NEW p \in Pids, Die(p)
      PROVE  Sheds
  BY <1>2 DEF Die, Sheds, nameVars
<1>3. ASSUME NEW n \in Nodes, Receive(n)
      PROVE  Sheds
  <2>1. PICK d \in Seq(Pids) : d = deaths[n] /\ d # <<>>
    BY <1>3 DEF Typed, Types, Receive
  <2>2. Head(d) \in Range(d)
    BY <2>1 DEF Range
  <2>3. Head(d) \in quit'
    BY <1>1, <2>1, <2>2 DEF Tidy, QuitKnown
  <2>4. \E x \in Names : UNCHANGED table \/ table' = Released(table, n, x, Head(d))
    BY <1>3, <2>1, GlobalAssumption DEF Receive
  <2> QED
    BY <2>3, <2>4, ReleasedSheds
<1>4. ASSUME NEW n \in Nodes, NEW arrives \in BOOLEAN, ReactorRelease(n, arrives)
      PROVE  Sheds
  <2>1. PICK r \in [pid : Pids \cup {NoPid}, name : Names, left : SUBSET Nodes] : r = reactor[n]
    BY DEF Typed, Types
  <2>2. /\ r.left # {}
        /\ UNCHANGED table \/ table' = Released(table, Min(r.left), r.name, r.pid)
    BY <1>4, <2>1 DEF ReactorRelease
  <2>3. r.pid \in quit' /\ Min(r.left) \in Nodes /\ r.name \in Names
    BY <1>1, <2>1, <2>2, LeastNode DEF Tidy, QuitKnown
  <2> QED
    BY <2>2, <2>3, ReleasedSheds
<1> QED
  BY <1>1, <1>2, <1>3, <1>4 DEF Keeps, ReactorStep


-----------------------------------------------------------------------------
(* What was granted stays *)

LEMMA WholeForGood ==
    ASSUME [Next]_vars
    PROVE  whole' = whole /\ first' = first /\ (lostCommit => lostCommit')
<1>1. ASSUME NEW p \in Pids, NEW x \in Names, Register(p, x) \/ Unregister(p, x)
      PROVE  whole' = whole /\ first' = first /\ (lostCommit => lostCommit')
  BY <1>1 DEF Register, Unregister
<1>2. ASSUME NEW p \in Pids, ClaimStep(p)
      PROVE  whole' = whole /\ first' = first /\ (lostCommit => lostCommit')
  <2>1. CASE \E arrives \in BOOLEAN : Commit(p, arrives)
    BY <2>1 DEF Commit
  <2>2. CASE CheckName(p) \/ TakeLock(p) \/ EndTry(p) \/ EndRelease(p)
    <3>1. UNCHANGED history
      BY <2>2 DEF CheckName, TakeLock, EndTry, EndRelease
    <3> QED
      BY <3>1 DEF history
  <2>3. CASE LockFails(p) \/ \E arrives \in BOOLEAN : Unlock(p, arrives) \/ Release(p, arrives)
    BY <2>3 DEF LockFails, Unlock, Release
  <2> QED
    BY <1>2, <2>1, <2>2, <2>3 DEF ClaimStep
<1>3. ASSUME NEW p \in Pids, Die(p)
      PROVE  whole' = whole /\ first' = first /\ (lostCommit => lostCommit')
  BY <1>3 DEF Die
<1>4. ASSUME NEW n \in Nodes, ReactorStep(n)
      PROVE  whole' = whole /\ first' = first /\ (lostCommit => lostCommit')
  BY <1>4 DEF ReactorStep, Receive, ReactorRelease, history
<1>5. ASSUME NEW n \in Nodes, NEW m \in Nodes,
             SyncStep(n, m) \/ \E byId \in BOOLEAN : Learn(n, m, byId)
      PROVE  whole' = whole /\ first' = first /\ (lostCommit => lostCommit')
  BY <1>5 DEF SyncStep, SyncAsk, SyncArrives, SyncMerges, SyncReplies, SyncAnswered, SyncEnds,
              SyncFails, Learn, history
<1>6. CASE UNCHANGED vars
  BY <1>6 DEF vars, history
<1> QED
  BY <1>1, <1>2, <1>3, <1>4, <1>5, <1>6 DEF Next, Calls, Goes, Deaths, Learns

\* The steps of a whole cluster: a commit, or one that only lets go.
LEMMA WholeSteps ==
    ASSUME Typed, OnePerNode, Tidy, [Next]_vars
    PROVE  /\ Tidy'
           /\ \/ Sheds /\ quit \subseteq quit' /\ \A q \in Pids : Keeps(q)
              \/ \E q \in Pids : Commit(q, TRUE)
              \/ lostCommit'
<1>1. ASSUME NEW p \in Pids,
             \/ \E x \in Names : Register(p, x)
             \/ \E x \in Names : Unregister(p, x)
             \/ ClaimStep(p)
      PROVE  /\ Tidy'
             /\ \/ Sheds /\ quit \subseteq quit' /\ \A q \in Pids : Keeps(q)
                \/ \E q \in Pids : Commit(q, TRUE)
                \/ lostCommit'
  <2>1. Tidy' /\ quit \subseteq quit'
    BY <1>1, ClaimTidy, ClaimStepsUntouched
  <2>2. CASE \A arrives \in BOOLEAN : ~Commit(p, arrives)
    BY <1>1, <2>1, <2>2, ClaimKeeps
  <2>3. CASE Commit(p, FALSE)
    BY <2>1, <2>3 DEF Commit
  <2>4. CASE Commit(p, TRUE)
    BY <2>1, <2>4
  <2> QED
    BY <2>2, <2>3, <2>4
<1>2. CASE Deaths \/ \E n \in Nodes : ReactorStep(n)
  BY <1>2, DeathTidy, DeathKeeps DEF Deaths
<1>3. CASE UNCHANGED vars
  <2>1. Tidy'
    BY <1>3 DEF vars, nameVars, taskVars, history, Tidy, Complete, QuitKnown, InOrder, Ordered,
                LocksOwned, HasLock, Home
  <2> QED
    BY <1>3, <2>1 DEF vars, nameVars, taskVars, history, Sheds, Keeps
<1>4. ~Learns /\ ~\E n, m \in Nodes : SyncStep(n, m)
  BY NothingToMerge DEF Learns
<1> QED
  BY <1>1, <1>2, <1>3, <1>4 DEF Next, Calls, Goes

LEMMA WholeInit == ASSUME Init PROVE WholeInv
<1> SUFFICES ASSUME whole PROVE Tidy /\ Standing
  BY DEF WholeInv
<1>1. PICK sides \in Partitions : Parts(sides)
  BY DEF Init
<1>2. sides = {Nodes}
  BY <1>1 DEF Parts
<1>3. Quiet
  BY DEF Init
<1>4. \A n \in Nodes : {t \in sides : n \in t} = {Nodes}
  BY <1>2
<1>5. \A n \in Nodes : members[n] = Nodes \ {n}
  <2>1. \A n \in Nodes : UNION {s \ {n} : s \in {Nodes}} = Nodes \ {n}
    OBVIOUS
  <2> QED
    BY <1>1, <1>4, <2>1 DEF Parts
<1>6. Tidy
  <2>1. Complete
    BY <1>3, <1>5 DEF Complete, Quiet, NoSync
  <2>2. QuitKnown
    BY <1>3, SMTT(30) DEF QuitKnown, Quiet, NoClaim, NoRelease, Range
  <2>3. InOrder /\ LocksOwned
    BY <1>3 DEF InOrder, Ordered, LocksOwned, HasLock, Quiet, NoClaim
  <2> QED
    BY <2>1, <2>2, <2>3 DEF Tidy
<1>7. Standing
  <2>1. Entered /\ ShutOut
    BY <1>3 DEF Entered, ShutOut, Shut, Granted, Quiet, NoClaim
  <2>2. \A n, m \in Nodes, x \in Names : table[m][x] = table[n][x]
    BY <1>1, <1>2 DEF Parts
  <2>3. EntriesStand
    BY <2>2 DEF EntriesStand, Entry, Everywhere
  <2> QED
    BY <2>1, <2>3 DEF Standing
<1> QED
  BY <1>6, <1>7

LEMMA WholeNext ==
    ASSUME Typed, Typed', OnePerNode, WholeInv, [Next]_vars
    PROVE  WholeInv'
<1> SUFFICES ASSUME whole' PROVE Tidy' /\ (~lostCommit' => Standing')
  BY DEF WholeInv
<1>1. Tidy /\ (~lostCommit' => Standing)
  BY WholeForGood DEF WholeInv
<1> QED
  BY <1>1, WholeSteps, QuietStanding, CommitStanding

\* With one claimant on each node, in a cluster whose members agree who they
\* are, a name that register granted is its owner's in every table, whatever
\* claims are made, locks are left behind by lost answers, and particles die.
\* (lock, in handle_global, cannot tell two claimants of a node apart.)
THEOREM GrantedStays == ASSUME OnePerNode PROVE Spec => []GrantedEverywhere
<1>1. Typed /\ WholeInv => GrantedEverywhere
  <2> SUFFICES ASSUME Typed, WholeInv, whole, ~lostCommit, NEW x \in Names, NEW p \in Owners(x),
                      NEW n \in Nodes
               PROVE  table[n][x] = p
    BY DEF GrantedEverywhere
  <2>1. p \in Pids \ quit /\ Granted(p) /\ claim[p].name = x
    BY DEF Owners, Granted, Typed, Pasts
  <2> QED
    BY <2>1 DEF WholeInv, Standing, Entered, Everywhere
<1>2. Init => Typed /\ WholeInv
  BY InitTyped, WholeInit
<1>3. Typed /\ WholeInv /\ [Next]_vars => (Typed /\ WholeInv)'
  BY NextTyped, WholeNext
<1> QED
  BY <1>1, <1>2, <1>3, PTL DEF Spec


-----------------------------------------------------------------------------
(* Somebody wins *)

\* The steps that are possible while no request has failed and nobody has quit.
Contends(p) ==
    \/ \E x \in Names : Register(p, x)
    \/ CheckName(p)
    \/ TakeLock(p)
    \/ Commit(p, TRUE)
    \/ Unlock(p, TRUE)
    \/ EndTry(p)

LEMMA FaultsShow == ASSUME Typed, Faulty PROVE faults' # 0
  BY GlobalAssumption DEF Faulty, Typed, Pasts

LEMMA ContestSteps ==
    ASSUME Typed, Tidy, [Next]_vars, faults' = 0, quit' = {}
    PROVE  /\ faults = 0 /\ quit = {}
           /\ (\E p \in Pids : Contends(p)) \/ UNCHANGED vars
<1>1. ~Faulty
  BY FaultsShow
<1>2. ASSUME NEW p \in Pids, Die(p)
      PROVE  FALSE
  BY <1>2 DEF Die
<1>3. ASSUME NEW p \in Pids, NEW x \in Names, Unregister(p, x)
      PROVE  FALSE
  BY <1>3 DEF Unregister
<1>4. ASSUME NEW p \in Pids, LockFails(p)
      PROVE  FALSE
  BY <1>1, <1>4 DEF LockFails
<1>5. ASSUME NEW p \in Pids, NEW arrives \in BOOLEAN, Release(p, arrives)
      PROVE  FALSE
  <2>1. p \in quit /\ quit' = quit
    BY <1>5 DEF Release, Tidy, QuitKnown
  <2> QED
    BY <2>1
<1>6. ASSUME NEW p \in Pids, EndRelease(p)
      PROVE  FALSE
  <2>1. p \in quit /\ quit' = quit
    BY <1>6 DEF EndRelease, Tidy, QuitKnown, history
  <2> QED
    BY <2>1
<1>7. ASSUME NEW n \in Nodes, Receive(n)
      PROVE  FALSE
  <2>1. PICK d \in Seq(Pids) : d = deaths[n] /\ d # <<>>
    BY <1>7 DEF Typed, Types, Receive
  <2>2. Head(d) \in Range(d)
    BY <2>1 DEF Range
  <2>3. Head(d) \in quit /\ quit' = quit
    BY <1>7, <2>1, <2>2 DEF Tidy, QuitKnown, Receive, history
  <2> QED
    BY <2>3
<1>8. ASSUME NEW n \in Nodes, NEW arrives \in BOOLEAN, ReactorRelease(n, arrives)
      PROVE  FALSE
  <2>1. reactor[n].pid \in quit /\ quit' = quit
    BY <1>8 DEF Tidy, QuitKnown, ReactorRelease
  <2> QED
    BY <2>1
<1>9. ASSUME NEW p \in Pids, Commit(p, FALSE) \/ Unlock(p, FALSE)
      PROVE  FALSE
  BY <1>1, <1>9 DEF Commit, Unlock, Asks
<1>10. ~Learns /\ ~\E n, m \in Nodes : SyncStep(n, m)
  BY NothingToMerge DEF Learns
<1>11. (\E p \in Pids : Contends(p)) \/ UNCHANGED vars
  <2>1. ASSUME NEW p \in Pids, ClaimStep(p)
        PROVE  Contends(p)
    BY <1>4, <1>5, <1>6, <1>9, <2>1 DEF ClaimStep, Contends
  <2>2. CASE Calls
    BY <1>3, <2>2 DEF Calls, Contends
  <2>3. CASE Goes
    BY <1>7, <1>8, <1>10, <2>1, <2>3 DEF Goes, ReactorStep
  <2>4. ~Deaths
    BY <1>2 DEF Deaths
  <2> QED
    BY <1>10, <2>2, <2>3, <2>4 DEF Next
<1>12. UNCHANGED <<faults, quit>>
  <2>1. ASSUME NEW p \in Pids, Contends(p)
        PROVE  UNCHANGED <<faults, quit>>
    <3>1. CASE CheckName(p) \/ TakeLock(p) \/ EndTry(p)
      <4>1. UNCHANGED history
        BY <3>1 DEF CheckName, TakeLock, EndTry
      <4> QED
        BY <4>1 DEF history
    <3>2. CASE Commit(p, TRUE) \/ Unlock(p, TRUE)
      BY <1>1, <3>2 DEF Commit, Unlock, Asks
    <3>3. CASE \E x \in Names : Register(p, x)
      BY <3>3 DEF Register
    <3> QED
      BY <2>1, <3>1, <3>2, <3>3 DEF Contends
  <2> QED
    BY <1>11, <2>1 DEF vars, history
<1> QED
  BY <1>11, <1>12

\* What a contender does to its claim.
Progress(p) ==
    \/ claim[p].pc = "idle" /\ claim'[p].pc = "lock" /\ claim'[p].held = {}
    \/ claim[p].pc = "unlock" /\ claim'[p].pc = "lock" /\ claim'[p].held = {}
                              /\ claim[p].left = {} /\ claim[p].end = "unsettled"
    \/ claim[p].pc = "unlock" /\ claim[p].left = {} /\ Returns(p)
    \/ claim[p].pc = "unlock" /\ Strikes(p)
    \/ claim[p].pc \in {"lock", "take"} /\ \E end \in {"taken", "unsettled"} : GivesUp(p, end)
    \/ /\ claim[p].pc = "lock" /\ claim'[p].pc = "take"
       /\ claim'[p].name = claim[p].name /\ claim'[p].held = claim[p].held
    \/ claim[p].pc = "take" /\ Takes(p)
    \/ claim[p].pc = "commit" /\ GivesUp(p, "ok")
    \/ /\ claim[p].pc = "commit" /\ claim'[p].pc = "commit"
       /\ claim'[p].name = claim[p].name /\ claim'[p].held = claim[p].held

LEMMA ContendsProgress ==
    ASSUME Typed, NEW p \in Pids, Contends(p)
    PROVE  Others(p) /\ Progress(p)
<1>1. ASSUME NEW x \in Names, Register(p, x)
      PROVE  Others(p) /\ Progress(p)
  BY <1>1, RegisterFacts DEF Register, Begins, Progress
<1>2. CASE CheckName(p)
  BY <1>2, CheckNameFacts DEF CheckName, Progress
<1>3. CASE TakeLock(p)
  BY <1>3, TakeLockFacts DEF TakeLock, Progress
<1>4. CASE Commit(p, TRUE)
  BY <1>4, CommitFacts DEF Commit, Progress
<1>5. CASE Unlock(p, TRUE)
  BY <1>5, StrikesFacts DEF Unlock, Progress
<1>6. CASE EndTry(p)
  BY <1>6, EndTryFacts DEF EndTry, Begins, Progress
<1> QED
  BY <1>1, <1>2, <1>3, <1>4, <1>5, <1>6 DEF Contends


\* Who has won a name keeps it.
LEMMA WonStays ==
    ASSUME Typed, Standing, quit = {}, NEW p \in Pids, Contends(p), NEW q \in Pids, NEW x \in Names,
           WonBy(q, x)
    PROVE  WonBy(q, x)'
<1>1. Others(p) /\ Progress(p)
  BY ContendsProgress
<1>2. CASE q # p
  BY <1>1, <1>2 DEF Others, WonBy, Granted
<1>3. CASE q = p
  <2>1. claim[p].pc # "idle"
    <3> SUFFICES ASSUME claim[p].pc = "idle" PROVE FALSE
      OBVIOUS
    <3>1. Granted(p) /\ claim[p].name = x
      BY <1>3 DEF WonBy
    <3>2. table[Home(p)][x] = p
      BY <3>1, NodeFacts DEF Standing, Entered, Everywhere
    <3>3. PICK y \in Names : Register(p, y)
      BY DEF Contends, CheckName, TakeLock, Commit, Unlock, EndTry
    <3> QED
      BY <3>2, <3>3 DEF Register
  <2> QED
    BY <1>1, <1>3, <2>1 DEF WonBy, Granted, Progress, GivesUp, Strikes, Returns
<1> QED
  BY <1>2, <1>3

\* Whoever holds a lock that another waits for leads, or the name is won.
LEMMA HolderLeads ==
    ASSUME Typed, Contested, NEW w \in Pids, NEW n \in Nodes, HasLock(w, n), WasFree(claim[w].name)
    PROVE  Won(claim[w].name) \/ Leads(w, claim[w].name)
<1>1. CASE claim[w].pc \in {"lock", "take"} /\ n \in claim[w].held
  BY <1>1 DEF Leads
<1>2. CASE claim[w].pc = "commit"
  BY <1>2 DEF Won, WonBy
<1>3. CASE claim[w].pc = "unlock" /\ n \in claim[w].left
  <2>1. claim[w].end # "none"
    BY <1>3 DEF Contested
  <2>2. CASE claim[w].end = "ok"
    BY <1>3, <2>2 DEF Won, WonBy, Granted
  <2>3. CASE Failed(w)
    BY <1>3, <2>3 DEF Contested, FailuresYield
  <2>4. CASE claim[w].end \notin {"none", "ok", "taken", "unsettled"}
    <3>1. claim[w].end \in {"none", "ok", "taken", "unsettled"}
      BY DEF Typed, Types, Claims
    <3> QED
      BY <2>4, <3>1
  <2> QED
    BY <1>3, <2>1, <2>2, <2>3, <2>4 DEF Failed
<1> QED
  BY <1>1, <1>2, <1>3 DEF HasLock

\* Why a lock is not free: somebody leads; and nobody who has locks is refused
\* one before the name is won, because locks are taken in one order.
LEMMA Blocked ==
    ASSUME Typed, OnePerNode, Tidy, Contested, NEW q \in Pids, claim[q].pc = "take",
           ~Free(At(q), claim[q].name, Home(q)), WasFree(claim[q].name)
    PROVE  \/ Won(claim[q].name)
           \/ /\ claim[q].held = {}
              /\ \E w \in Pids : w # q /\ Leads(w, claim[q].name)
<1>1. PICK n \in Nodes, x \in Names : /\ n = At(q) /\ x = claim[q].name
                                      /\ n \in claim[q].left
  BY AtFacts DEF Typed, Types, Claims, Busy
<1>2. locks[n][x] # NoNode /\ locks[n][x] # Home(q)
  BY <1>1 DEF Free
<1>3. PICK w \in Pids : Home(w) = locks[n][x] /\ claim[w].name = x /\ HasLock(w, n)
  BY <1>1, <1>2 DEF Contested, LocksHeld
<1>4. w # q
  BY <1>2, <1>3
<1>5. Won(x) \/ Leads(w, x)
  BY <1>1, <1>3, HolderLeads
<1>6. ASSUME Leads(w, x), NEW a \in claim[q].held
      PROVE  FALSE
  <2>1. a \in Nodes /\ a < n
    BY <1>1 DEF Tidy, InOrder, Ordered
  <2>2. claim[w].pc \in {"lock", "take"} /\ n \in claim[w].held
    BY <1>3, <1>6 DEF Leads, HasLock
  <2>3. claim[w].held \cup claim[w].left = Nodes /\ \A b \in claim[w].left : n < b
    BY <2>2 DEF Tidy, InOrder, Ordered
  <2>4. a \notin claim[w].left
    <3>1. a \in Nat /\ n \in Nat
      BY <1>1, <2>1, NodeFacts
    <3> QED
      BY <2>1, <2>3, <3>1
  <2>5. HasLock(w, a) /\ HasLock(q, a)
    BY <2>1, <2>2, <2>3, <2>4 DEF HasLock
  <2> QED
    BY <1>1, <1>3, <1>4, <2>1, <2>5, LocksExclude DEF Tidy
<1>7. Leads(w, x) => claim[q].held = {}
  BY <1>6
<1> QED
  BY <1>1, <1>4, <1>5, <1>7

LEMMA LocksHeldStays ==
    ASSUME Typed, OnePerNode, Tidy, Contested, NEW p \in Pids, Contends(p)
    PROVE  LocksHeld'
<1>1. Others(p) /\ Progress(p)
  BY ContendsProgress
<1>2. claim[p].name \in Names /\ Home(p) \in Nodes \cup {NoNode} /\ Home(p) # NoNode
  BY NodeFacts DEF Typed, Types, Claims
<1>3. ASSUME NEW n \in Nodes, NEW x \in Names, locks[n][x] # NoNode,
             (claim[p].name = x /\ HasLock(p, n)) => claim'[p].name = x /\ HasLock(p, n)'
      PROVE  \E w \in Pids : Home(w) = locks[n][x] /\ claim'[w].name = x /\ HasLock(w, n)'
  <2>1. PICK w \in Pids : Home(w) = locks[n][x] /\ claim[w].name = x /\ HasLock(w, n)
    BY <1>3 DEF Contested, LocksHeld
  <2>2. claim'[w].name = x /\ HasLock(w, n)'
    BY <1>1, <1>3, <2>1 DEF Others, HasLock
  <2> QED
    BY <2>1, <2>2
<1>4. ASSUME NEW n \in Nodes, HasLock(p, n), claim[p].pc # "unlock"
      PROVE  claim'[p].name = claim[p].name /\ HasLock(p, n)'
  BY <1>1, <1>4 DEF Progress, HasLock, GivesUp, Takes
<1>5. CASE ~Unlock(p, TRUE) /\ UNCHANGED locks
  <2>1. claim[p].pc # "unlock" \/ claim[p].left = {}
    BY <1>5 DEF Contends, Register, CheckName, TakeLock, Commit, EndTry
  <2>2. ASSUME NEW n \in Nodes, HasLock(p, n)
        PROVE  claim[p].pc # "unlock"
    BY <2>1, <2>2 DEF HasLock
  <2> QED
    BY <1>3, <1>4, <1>5, <2>2 DEF LocksHeld, Home
<1>6. CASE TakeLock(p) /\ ~UNCHANGED locks
  <2>1. Takes(p) /\ At(p) \in Nodes /\ At(p) \in claim[p].left
    BY <1>6, TakeLockFacts
  <2>2. locks' = [locks EXCEPT ![At(p)][claim[p].name] = Home(p)]
    BY <2>1 DEF Takes
  <2>3. \A m \in Nodes, y \in Names :
           locks'[m][y] = IF m = At(p) /\ y = claim[p].name THEN Home(p) ELSE locks[m][y]
    BY <1>2, <2>1, <2>2, LocksTyped
  <2>4. claim[p].pc = "take"
    BY <1>6 DEF TakeLock
  <2>5. \A m \in Nodes : HasLock(p, m) => HasLock(p, m)'
    BY <2>1, <2>4 DEF HasLock, Takes
  <2>6. \A n \in Nodes : n = At(p) => HasLock(p, n)'
    BY <2>1 DEF HasLock, Takes
  <2>7. claim'[p].name = claim[p].name
    BY <2>1 DEF Takes
  <2> QED
    BY <1>3, <2>3, <2>5, <2>6, <2>7 DEF LocksHeld, Home
<1>7. CASE Unlock(p, TRUE)
  <2>1. Strikes(p) /\ claim[p].pc = "unlock"
    BY <1>7, StrikesFacts DEF Unlock
  <2>2. PICK n \in Nodes, x \in Names : n = At(p) /\ x = claim[p].name
    BY <1>2, <2>1 DEF Strikes
  <2>3. locks[n][x] = Home(p)
    BY <2>1, <2>2 DEF Tidy, LocksOwned, HasLock, Strikes
  <2>4. locks' = [locks EXCEPT ![n][x] = NoNode]
    BY <1>7, <2>2, <2>3 DEF Unlock
  <2>5. \A m \in Nodes, y \in Names :
           locks'[m][y] = IF m = n /\ y = x THEN NoNode ELSE locks[m][y]
    BY <2>4, LocksTyped
  <2>6. \A m \in Nodes : HasLock(p, m) /\ m # n => HasLock(p, m)'
    BY <2>1, <2>2 DEF HasLock, Strikes
  <2>7. claim'[p].name = x
    BY <2>1, <2>2 DEF Strikes
  <2> QED
    BY <1>3, <2>2, <2>5, <2>6, <2>7 DEF LocksHeld, Home
<1> QED
  BY <1>5, <1>6, <1>7 DEF Contends, Register, CheckName, Commit, EndTry, nameVars


LEMMA EntriesWonStays ==
    ASSUME Typed, Standing, Contested, quit = {}, first' = first, NEW p \in Pids, Contends(p)
    PROVE  EntriesWon'
<1> SUFFICES ASSUME NEW n \in Nodes, NEW x \in Names, WasFree(x), table'[n][x] # NoPid
             PROVE  WonBy(table[n][x], x)'
  BY DEF EntriesWon, WasFree, WonBy, Granted
<1>1. ASSUME table'[n][x] = table[n][x]
      PROVE  WonBy(table[n][x], x)'
  <2>1. PICK e \in Pids : e = table[n][x]
    BY <1>1 DEF Typed, Types, Tables
  <2>2. WonBy(e, x)
    BY <1>1, <2>1 DEF Contested, EntriesWon
  <2>3. WonBy(e, x)'
    BY <2>2, WonStays
  <2> QED
    BY <1>1, <2>1, <2>3 DEF WonBy, Granted
<1>2. CASE ~Commit(p, TRUE)
  <2>1. UNCHANGED table
    BY <1>2 DEF Contends, Register, CheckName, TakeLock, Unlock, EndTry, nameVars
  <2> QED
    BY <1>1, <2>1
<1>3. CASE Commit(p, TRUE)
  <2>1. PICK m \in Nodes, y \in Names : m = At(p) /\ y = claim[p].name
    BY <1>3, CommitFacts DEF Typed, Types, Claims
  <2>2. table' = [table EXCEPT ![m][y] = p] /\ table \in [Nodes -> Tables]
    BY <1>3, <2>1 DEF Commit, Typed, Types
  <2>3. CASE n = m /\ x = y
    <3>1. table'[n][x] = p
      BY <2>2, <2>3 DEF Tables
    <3>2. WonBy(p, x)
      BY <1>3, <2>1, <2>3 DEF WonBy, Commit
    <3>3. WonBy(p, x)'
      BY <3>2, WonStays
    <3> QED
      BY <3>1, <3>3 DEF WonBy, Granted
  <2>4. CASE ~(n = m /\ x = y)
    <3>1. table'[n][x] = table[n][x]
      BY <2>2, <2>4 DEF Tables
    <3> QED
      BY <1>1, <3>1
  <2> QED
    BY <2>3, <2>4
<1> QED
  BY <1>2, <1>3

\* One that leads goes on leading, or the name is won.
LEMMA LeadStays ==
    ASSUME Typed, OnePerNode, Tidy, Standing, Contested, quit = {}, NEW p \in Pids, Contends(p),
           NEW q \in Pids, NEW x \in Names, WasFree(x), Leads(q, x)
    PROVE  Won(x)' \/ Leads(q, x)'
<1>1. Others(p) /\ Progress(p)
  BY ContendsProgress
<1>2. Won(x) => Won(x)'
  BY WonStays DEF Won
<1>3. CASE q # p
  BY <1>1, <1>3 DEF Others, Leads
<1>4. CASE q = p /\ CheckName(p)
  <2>1. CASE table[At(p)][x] # NoPid
    <3>1. At(p) \in Nodes /\ table[At(p)][x] \in Pids
      <4>1. At(p) \in Nodes
        BY <1>4, CheckNameFacts
      <4> QED
        BY <2>1, <4>1 DEF Typed, Types, Tables
    <3>2. WonBy(table[At(p)][x], x)
      BY <2>1, <3>1 DEF Contested, EntriesWon
    <3> QED
      BY <1>2, <3>1, <3>2 DEF Won
  <2>2. CASE table[At(p)][x] = NoPid
    <3>1. claim'[p].pc = "take" /\ claim'[p].name = x /\ claim'[p].held = claim[p].held
      BY <1>4, <2>2, CheckNameFacts DEF Leads
    <3> QED
      BY <1>4, <3>1 DEF Leads
  <2> QED
    BY <2>1, <2>2
<1>5. CASE q = p /\ TakeLock(p)
  <2>1. CASE Takes(p)
    <3>1. claim'[p].name = x /\ claim'[p].held # {} /\ claim'[p].pc \in {"lock", "commit"}
      BY <1>5, <2>1 DEF Leads, Takes
    <3> QED
      BY <1>5, <3>1 DEF Won, WonBy, Leads
  <2>2. CASE ~Free(At(p), claim[p].name, Home(p))
    BY <1>2, <1>5, <2>2, Blocked DEF TakeLock, Leads
  <2> QED
    BY <1>5, <2>1, <2>2, TakeLockFacts
<1> QED
  BY <1>3, <1>4, <1>5 DEF Contends, Leads, Register, Commit, Unlock, EndTry

LEMMA FailuresYieldStays ==
    ASSUME Typed, OnePerNode, Tidy, Standing, Contested, quit = {}, first' = first,
           NEW p \in Pids, Contends(p)
    PROVE  FailuresYield'
<1> SUFFICES ASSUME NEW r \in Pids, WasFree(claim'[r].name), Failed(r)'
             PROVE  \/ Won(claim[r].name)'
                    \/ /\ claim'[r].pc = "unlock" => claim'[r].left = {}
                       /\ \E q \in Pids : Leads(q, claim[r].name)'
  BY DEF FailuresYield, WasFree, Won, WonBy, Leads, Granted
<1>1. Others(p) /\ Progress(p)
  BY ContendsProgress
<1>2. PICK x \in Names : x = claim[r].name
  BY DEF Typed, Types, Claims
<1>3. claim'[r].name = x
  BY <1>1, <1>2 DEF Others, Failed, Progress, GivesUp, Strikes, Returns, Takes
<1>4. Won(x) => Won(claim[r].name)'
  BY <1>2, <1>3, WonStays DEF Won, WonBy, Granted
<1>5. ASSUME NEW q \in Pids, Leads(q, x), claim'[r].pc = "unlock" => claim'[r].left = {}
      PROVE  \/ Won(claim[r].name)'
             \/ /\ claim'[r].pc = "unlock" => claim'[r].left = {}
                /\ \E w \in Pids : Leads(w, claim[r].name)'
  <2>1. Won(x)' \/ Leads(q, x)'
    BY <1>3, <1>5, LeadStays
  <2> QED
    BY <1>3, <1>5, <2>1 DEF Won, WonBy, Leads, Granted
<1>6. CASE Failed(r) /\ ~(r = p /\ Strikes(p))
  <2>1. \/ Won(x)
        \/ /\ claim[r].pc = "unlock" => claim[r].left = {}
           /\ \E q \in Pids : Leads(q, x)
    BY <1>2, <1>3, <1>6 DEF Contested, FailuresYield
  <2>2. (claim[r].pc = "unlock" => claim[r].left = {})
            => (claim'[r].pc = "unlock" => claim'[r].left = {})
    BY <1>1, <1>6 DEF Others, Progress, Failed, Returns
  <2> QED
    BY <1>4, <1>5, <2>1, <2>2
<1>7. CASE Failed(r) /\ r = p /\ Strikes(p)
  <2>1. claim[p].pc = "unlock" /\ claim[p].left # {}
    BY <1>1, <1>7 DEF Failed, Strikes, Progress
  <2>2. Won(x)
    BY <1>2, <1>3, <1>7, <2>1 DEF Contested, FailuresYield
  <2> QED
    BY <1>4, <2>2
<1>8. CASE ~Failed(r)
  <2>1. r = p
    BY <1>1, <1>8 DEF Others, Failed
  <2>2. claim[p].pc \in {"lock", "take"} /\ \E end : GivesUp(p, end)
    BY <1>1, <1>8, <2>1 DEF Progress, Failed, GivesUp, Strikes, Returns, Takes
  <2>3. CASE CheckName(p)
    <3>1. table[At(p)][x] # NoPid
      BY <1>2, <2>1, <2>2, <2>3, CheckNameFacts DEF GivesUp
    <3>2. At(p) \in Nodes /\ table[At(p)][x] \in Pids
      <4>1. At(p) \in Nodes
        BY <2>3, CheckNameFacts
      <4> QED
        BY <1>2, <3>1, <4>1 DEF Typed, Types, Tables
    <3>3. WonBy(table[At(p)][x], x)
      BY <1>3, <3>1, <3>2 DEF Contested, EntriesWon
    <3> QED
      BY <1>4, <3>2, <3>3 DEF Won
  <2>4. CASE TakeLock(p)
    <3>1. ~Free(At(p), x, Home(p))
      BY <1>2, <2>1, <2>2, <2>4, TakeLockFacts DEF GivesUp, Takes
    <3>2. Won(x) \/ (claim[p].held = {} /\ \E w \in Pids : w # p /\ Leads(w, x))
      BY <1>2, <1>3, <2>1, <2>4, <3>1, Blocked DEF TakeLock
    <3>3. claim'[p].left = claim[p].held
      BY <2>2 DEF GivesUp
    <3> QED
      BY <1>4, <1>5, <2>1, <3>2, <3>3
  <2> QED
    BY <2>2, <2>3, <2>4 DEF Contends, Register, Commit, Unlock, EndTry
<1> QED
  BY <1>6, <1>7, <1>8

LEMMA ContestedStays ==
    ASSUME Typed, OnePerNode, Tidy, Standing, Contested, quit = {}, first' = first,
           NEW p \in Pids, Contends(p)
    PROVE  Contested'
<1>1. ~lostCommit'
  <2>1. ~lostCommit
    BY DEF Contested
  <2>2. CASE CheckName(p) \/ TakeLock(p) \/ EndTry(p)
    <3>1. UNCHANGED history
      BY <2>2 DEF CheckName, TakeLock, EndTry
    <3> QED
      BY <2>1, <3>1 DEF history
  <2>3. CASE Commit(p, TRUE)
    BY <2>1, <2>3 DEF Commit
  <2>4. CASE Unlock(p, TRUE) \/ \E x \in Names : Register(p, x)
    BY <2>1, <2>4 DEF Unlock, Register
  <2> QED
    BY <2>2, <2>3, <2>4 DEF Contends
<1>2. LocksHeld' /\ EntriesWon' /\ FailuresYield'
  BY LocksHeldStays, EntriesWonStays, FailuresYieldStays
<1>3. \A q \in Pids : claim'[q].pc = "unlock" => claim'[q].end # "none"
  <2>1. Others(p) /\ Progress(p)
    BY ContendsProgress
  <2>2. \A q \in Pids : claim[q].pc = "unlock" => claim[q].end # "none"
    BY DEF Contested
  <2> QED
    BY <2>1, <2>2 DEF Others, Progress, GivesUp, Strikes, Returns, Takes
<1> QED
  BY <1>1, <1>2, <1>3 DEF Contested

LEMMA WinNext ==
    ASSUME Typed, OnePerNode, WholeInv, WinInv, [Next]_vars
    PROVE  WinInv'
<1> SUFFICES ASSUME whole', faults' = 0, quit' = {} PROVE Contested'
  BY DEF WinInv
<1>1. whole /\ first' = first /\ Tidy
  BY WholeForGood DEF WholeInv
<1>2. faults = 0 /\ quit = {} /\ ((\E p \in Pids : Contends(p)) \/ UNCHANGED vars)
  BY <1>1, ContestSteps
<1>3. Contested /\ Standing
  BY <1>1, <1>2 DEF WinInv, Contested, WholeInv
<1>4. CASE UNCHANGED vars
  BY <1>3, <1>4 DEF vars, nameVars, taskVars, history, Contested, LocksHeld, EntriesWon,
              FailuresYield, HasLock, WonBy, Won, WasFree, Failed, Leads, Granted, Home
<1> QED
  BY <1>1, <1>2, <1>3, <1>4, ContestedStays

\* With one claimant on each node, while no request fails and nobody dies or
\* gives up: of those that claim a free name at the same time, however their
\* locks interleave and their tries end, one is granted it.
THEOREM ClaimsDoNotAllFail == ASSUME OnePerNode PROVE Spec => []SomebodyWins
<1>1. Typed /\ WholeInv /\ WinInv => SomebodyWins
  <2> SUFFICES ASSUME Typed, WholeInv, WinInv, whole, faults = 0, quit = {},
                      \A p \in Pids : claim[p].pc = "idle",
                      NEW p \in Pids, claim[p].end # "none", WasFree(claim[p].name)
               PROVE  Owners(claim[p].name) # {}
    BY DEF SomebodyWins
  <2>1. Tidy /\ Contested
    BY DEF WholeInv, WinInv
  <2>2. alive = Pids
    BY <2>1 DEF Tidy, QuitKnown, Typed, Pasts
  <2>3. Won(claim[p].name) => Owners(claim[p].name) # {}
    BY <2>2 DEF Won, WonBy, Owners, Granted
  <2>4. claim[p].end \in {"ok", "taken", "unsettled"}
    BY DEF Typed, Types, Claims
  <2>5. CASE claim[p].end = "ok"
    BY <2>3, <2>5 DEF Won, WonBy, Granted
  <2>6. CASE Failed(p)
    BY <2>1, <2>3, <2>6 DEF Contested, FailuresYield, Leads
  <2> QED
    BY <2>4, <2>5, <2>6 DEF Failed
<1>2. Init => Typed /\ WholeInv /\ WinInv
  <2>1. Init => WinInv
    <3> SUFFICES ASSUME Init PROVE Contested
      BY DEF WinInv
    <3>1. Quiet /\ table = first
      BY DEF Init, Parts
    <3> QED
      BY <3>1 DEF Quiet, Contested, LocksHeld, EntriesWon, FailuresYield, Failed, NoClaim, WasFree
  <2> QED
    BY <2>1, InitTyped, WholeInit
<1>3. Typed /\ WholeInv /\ WinInv /\ [Next]_vars => (Typed /\ WholeInv /\ WinInv)'
  BY NextTyped, WholeNext, WinNext
<1> QED
  BY <1>1, <1>2, <1>3, PTL DEF Spec


-----------------------------------------------------------------------------
(* Parts that meet.  The inductive invariant while nothing is claimed and    *)
(* nobody quits: a table names what it named at the beginning, or a lower    *)
(* pid that also had the name; the same of what was asked and replied, so    *)
(* that after an exchange both tables have gone as low as the other's; who   *)
(* is to lose the name, or has died for it, has lost it at home, where the   *)
(* death reactor therefore finds no name to release.                         *)

\* Every name of a table is in the other: the same particle, or a lower one.
Below(t, u) == \A x \in Names : u[x] # NoPid => t[x] # NoPid /\ t[x] <= u[x]

Had(x) == {first[n][x] : n \in Nodes} \cup {NoPid}

\* A particle had one name, and had it at home.
Homed ==
    \A n \in Nodes, x \in Names :
        first[n][x] # NoPid =>
            /\ first[Home(first[n][x])][x] = first[n][x]
            /\ \A y \in Names : first[Home(first[n][x])][y] = first[n][x] => y = x

Inherited ==
    \A n \in Nodes, x \in Names :
        /\ table[n][x] \in Had(x)
        /\ \A m \in Nodes : sync[n][m].asked[x] \in Had(x) /\ sync[n][m].reply[x] \in Had(x)

Lowered ==
    /\ \A n \in Nodes : Below(table[n], first[n])
    /\ \A n, m \in Nodes :
          /\ sync[n][m].stage \in {"asked", "arrived", "merged", "replied"} =>
                Below(sync[n][m].asked, first[n])
          /\ sync[n][m].stage \in {"arrived", "merged", "replied"} =>
                Below(sync[n][m].reply, first[m])
          /\ sync[n][m].stage \in {"merged", "replied"} => Below(table[m], first[n])
          /\ {n, m} \in exchanged => Below(table[m], first[n])

Beaten(p) == \A x \in Names : table[Home(p)][x] # p

LosersBeaten ==
    /\ \A p \in Pids \ alive : Beaten(p)
    /\ \A n, m \in Nodes : \A p \in sync[n][m].losers : Beaten(p)
    /\ \A n \in Nodes : \A p \in Range(deaths[n]) : p \notin alive /\ Home(p) = n

Losing(p) ==
    \E n, m \in Nodes : sync[n][m].stage \in {"merged", "kill"} /\ p \in sync[n][m].losers

Survivors ==
    \A x \in Names : \A p \in alive : p \in Had(x) => table[Home(p)][x] = p \/ Losing(p)

Idle == /\ \A p \in Pids : claim[p].pc = "idle"
        /\ \A n \in Nodes : reactor[n].left = {}

Merging == Idle /\ Homed /\ Inherited /\ Lowered /\ LosersBeaten /\ Survivors

MergeInv == claims = 0 /\ quit = {} => Merging


LEMMA EntriesAreNumbers ==
    ASSUME NEW t \in Tables, NEW x \in Names
    PROVE  t[x] \in Nat
<1>1. Pids \cup {NoPid} \subseteq Nat
  BY NodeFacts DEF NoPid
<1> QED
  BY <1>1 DEF Tables

LEMMA BelowTransitive ==
    ASSUME NEW t \in Tables, NEW u \in Tables, NEW v \in Tables, Below(t, u), Below(u, v)
    PROVE  Below(t, v)
<1>1. \A x \in Names : t[x] \in Nat /\ u[x] \in Nat /\ v[x] \in Nat
  BY EntriesAreNumbers
<1> QED
  BY <1>1 DEF Below

LEMMA BelowItself == ASSUME NEW t \in Tables PROVE Below(t, t)
<1>1. \A x \in Names : t[x] \in Nat
  BY EntriesAreNumbers
<1> QED
  BY <1>1 DEF Below

\* What a merge makes of a table is below it and below the other.
LEMMA MergedBelow ==
    ASSUME Typed, NEW n \in Nodes, NEW theirs \in Tables
    PROVE  /\ Below(Merged(n, theirs), table[n]) /\ Below(Merged(n, theirs), theirs)
           /\ \A x \in Names : Merged(n, theirs)[x] \in {table[n][x], theirs[x]}
           /\ \A x \in Names : theirs[x] = NoPid => Merged(n, theirs)[x] = table[n][x]
<1>1. \A x \in Names : table[n][x] \in Nat /\ theirs[x] \in Nat
  <2>1. table[n] \in Tables
    BY DEF Typed, Types
  <2> QED
    BY <2>1, EntriesAreNumbers
<1>2. \A x \in Names :
         Merged(n, theirs)[x] = IF NoPid \in {table[n][x], theirs[x]}
                                THEN table[n][x] + theirs[x]
                                ELSE IF table[n][x] < theirs[x] THEN table[n][x] ELSE theirs[x]
  BY DEF Merged, Winner
<1> HIDE DEF Merged
<1> QED
  BY <1>1, <1>2 DEF Below, NoPid

\* The steps of a merge, with all that they change here.
SyncKind(n, m, d) ==
    LET s == sync[n][m] IN
    \/ /\ s.stage = "spawned" /\ d.stage = "asked"
       /\ d.asked = table[n] /\ d.reply = s.reply /\ d.losers = s.losers
       /\ UNCHANGED <<table, alive, deaths, exchanged>>
    \/ /\ s.stage = "asked" /\ d.stage = "arrived"
       /\ d.asked = s.asked /\ d.reply = table[m] /\ d.losers = s.losers
       /\ UNCHANGED <<table, alive, deaths, exchanged>>
    \/ /\ s.stage = "arrived" /\ d.stage = "merged"
       /\ d.asked = s.asked /\ d.reply = s.reply /\ d.losers = Losers(m, s.asked)
       /\ table' = [table EXCEPT ![m] = Merged(m, s.asked)]
       /\ UNCHANGED <<alive, deaths, exchanged>>
    \/ /\ s.stage = "merged" /\ d.stage = "replied"
       /\ d.asked = s.asked /\ d.reply = s.reply /\ d.losers = {}
       /\ Dies(s.losers) /\ UNCHANGED <<table, exchanged>>
    \/ /\ s.stage = "replied" /\ d.stage = "kill"
       /\ d.asked = s.asked /\ d.reply = s.reply /\ d.losers = Losers(n, s.reply)
       /\ table' = [table EXCEPT ![n] = Merged(n, s.reply)]
       /\ exchanged' = exchanged \cup {{n, m}} /\ UNCHANGED <<alive, deaths>>
    \/ /\ s.stage = "kill" /\ d = NoSync
       /\ Dies(s.losers) /\ UNCHANGED <<table, exchanged>>
    \/ /\ s.stage \in {"asked", "replied"} /\ d = NoSync
       /\ UNCHANGED <<table, alive, deaths, exchanged>>

LEMMA SyncKinds ==
    ASSUME Typed, NEW n \in Nodes, NEW m \in Nodes, SyncStep(n, m)
    PROVE  /\ UNCHANGED <<first, claim, reactor, claims, quit>>
           /\ \E d \in Syncs : Moves(n, m, d) /\ SyncKind(n, m, d)
<1>1. UNCHANGED <<first, claim, reactor, claims, quit>>
  BY DEF SyncStep, SyncAsk, SyncArrives, SyncMerges, SyncReplies, SyncAnswered, SyncEnds,
         SyncFails, history
<1>2. PICK d \in Syncs : SyncMoves(n, m, d) /\ Moves(n, m, d)
  BY SyncFacts
<1>3. PICK s \in Syncs : s = sync[n][m]
  BY DEF Typed, Types
<1>4. CASE SyncAsk(n, m) /\ d = [s EXCEPT !.stage = "asked", !.asked = table[n]]
  BY <1>2, <1>3, <1>4 DEF SyncAsk, SyncKind, Syncs, nameVars, history
<1>5. CASE SyncArrives(n, m) /\ d = [s EXCEPT !.stage = "arrived", !.reply = table[m]]
  BY <1>2, <1>3, <1>5 DEF SyncArrives, SyncKind, Syncs, nameVars, history
<1>6. CASE SyncMerges(n, m) /\ d = [s EXCEPT !.stage = "merged", !.losers = Losers(m, s.asked)]
  BY <1>2, <1>3, <1>6 DEF SyncMerges, SyncKind, Syncs, history
<1>7. CASE SyncReplies(n, m) /\ d = [s EXCEPT !.stage = "replied", !.losers = {}]
  BY <1>2, <1>3, <1>7 DEF SyncReplies, SyncKind, Syncs, nameVars, history
<1>8. CASE SyncAnswered(n, m) /\ d = [s EXCEPT !.stage = "kill", !.losers = Losers(n, s.reply)]
  BY <1>2, <1>3, <1>8 DEF SyncAnswered, SyncKind, Syncs
<1>9. CASE SyncEnds(n, m) /\ d = NoSync
  BY <1>2, <1>3, <1>9 DEF SyncEnds, SyncKind, nameVars, history
<1>10. CASE SyncFails(n, m) /\ d = NoSync
  BY <1>2, <1>3, <1>10 DEF SyncFails, SyncKind, nameVars
<1> QED
  BY <1>1, <1>2, <1>3, <1>4, <1>5, <1>6, <1>7, <1>8, <1>9, <1>10 DEF SyncMoves

\* Tables only go down, and to what others had.
Descends ==
    \A k \in Nodes : /\ table[k] \in Tables /\ table'[k] \in Tables
                     /\ Below(table'[k], table[k])
                     /\ \A x \in Names : table'[k][x] \in Had(x)

LEMMA SyncDescends ==
    ASSUME Typed, Merging, NEW n \in Nodes, NEW m \in Nodes, NEW d, SyncKind(n, m, d)
    PROVE  Descends
<1>1. table \in [Nodes -> Tables]
  BY DEF Typed, Types
<1>2. ASSUME NEW k \in Nodes, NEW theirs \in Tables, \A x \in Names : theirs[x] \in Had(x),
             table' = [table EXCEPT ![k] = Merged(k, theirs)]
      PROVE  Descends
  <2> SUFFICES ASSUME NEW j \in Nodes
               PROVE  /\ table[j] \in Tables /\ table'[j] \in Tables
                      /\ Below(table'[j], table[j])
                      /\ \A x \in Names : table'[j][x] \in Had(x)
    BY DEF Descends
  <2>1. \A x \in Names : table[j][x] \in Had(x)
    BY DEF Merging, Inherited
  <2>2. CASE j = k
    <3>1. table'[j] = Merged(j, theirs)
      BY <1>1, <1>2, <2>2
    <3>2. /\ Below(Merged(j, theirs), table[j])
          /\ \A x \in Names : Merged(j, theirs)[x] \in {table[j][x], theirs[x]}
          /\ Merged(j, theirs) \in Tables
      BY <1>2, MergedBelow, MergedTyped
    <3>3. \A x \in Names : Merged(j, theirs)[x] \in Had(x)
      BY <1>2, <2>1, <3>2
    <3> QED
      BY <1>1, <3>1, <3>2, <3>3
  <2>3. CASE j # k
    BY <1>1, <1>2, <2>1, <2>3, BelowItself
  <2> QED
    BY <2>2, <2>3
<1>3. CASE UNCHANGED table
  BY <1>1, <1>3, BelowItself DEF Descends, Merging, Inherited
<1>4. PICK s \in Syncs : s = sync[n][m]
  BY DEF Typed, Types
<1>5. /\ s.asked \in Tables /\ s.reply \in Tables
      /\ \A x \in Names : s.asked[x] \in Had(x) /\ s.reply[x] \in Had(x)
  BY <1>4 DEF Syncs, Merging, Inherited
<1> QED
  BY <1>2, <1>3, <1>4, <1>5 DEF SyncKind


LEMMA LoweredStays ==
    ASSUME Typed, Typed', Merging, NEW n \in Nodes, NEW m \in Nodes, NEW d \in Syncs,
           Moves(n, m, d), SyncKind(n, m, d), UNCHANGED first
    PROVE  Lowered'
<1>1. Descends
  BY SyncDescends
<1>2. PICK s \in Syncs : s = sync[n][m]
  BY DEF Typed, Types
<1>3. \A k \in Nodes : first[k] \in Tables
  BY DEF Typed, Pasts
<1>4. s.asked \in Tables /\ s.reply \in Tables
  BY DEF Syncs
<1>5. ASSUME NEW k \in Nodes, NEW u \in Tables, Below(table[k], u)
      PROVE  Below(table'[k], u)
  BY <1>1, <1>5, BelowTransitive DEF Descends
<1>6. /\ s.stage \in {"asked", "arrived", "merged", "replied"} => Below(s.asked, first[n])
      /\ s.stage \in {"arrived", "merged", "replied"} => Below(s.reply, first[m])
      /\ s.stage \in {"merged", "replied"} => Below(table[m], first[n])
      /\ \A k \in Nodes : Below(table[k], first[k])
      /\ \A i, j \in Nodes : {i, j} \in exchanged => Below(table[j], first[i])
  BY <1>2 DEF Merging, Lowered
<1>7. \A k \in Nodes : Below(table'[k], first[k])
  BY <1>3, <1>5, <1>6
<1>8. d.stage \in {"asked", "arrived", "merged", "replied"} => Below(d.asked, first[n])
  BY <1>2, <1>6 DEF SyncKind, NoSync
<1>9. d.stage \in {"arrived", "merged", "replied"} => Below(d.reply, first[m])
  BY <1>2, <1>6 DEF SyncKind, NoSync
<1>10. d.stage \in {"merged", "replied"} => Below(table'[m], first[n])
  <2>1. CASE s.stage = "arrived" /\ table' = [table EXCEPT ![m] = Merged(m, s.asked)]
    <3>1. table'[m] = Merged(m, s.asked)
      BY <2>1 DEF Typed, Types
    <3>2. Below(Merged(m, s.asked), s.asked) /\ Merged(m, s.asked) \in Tables
      BY <1>4, MergedBelow, MergedTyped
    <3>3. Below(s.asked, first[n])
      BY <1>6, <2>1
    <3>4. Below(Merged(m, s.asked), first[n])
      BY <1>3, <1>4, <3>2, <3>3, BelowTransitive
    <3> QED
      BY <3>1, <3>4
  <2>2. CASE s.stage = "merged"
    BY <1>3, <1>5, <1>6, <2>2
  <2> QED
    BY <1>2, <2>1, <2>2 DEF SyncKind, NoSync
<1>11. ASSUME NEW i \in Nodes, NEW j \in Nodes, {i, j} \in exchanged'
       PROVE  Below(table'[j], first[i])
  <2>1. CASE {i, j} \in exchanged
    BY <1>3, <1>5, <1>6, <2>1
  <2>2. CASE {i, j} \notin exchanged
    <3>1. /\ s.stage = "replied" /\ {i, j} = {n, m}
          /\ table' = [table EXCEPT ![n] = Merged(n, s.reply)]
      BY <1>2, <1>11, <2>2 DEF SyncKind
    <3>2. table'[n] = Merged(n, s.reply)
      BY <3>1 DEF Typed, Types
    <3>3. Below(Merged(n, s.reply), s.reply) /\ Merged(n, s.reply) \in Tables
      BY <1>4, MergedBelow, MergedTyped
    <3>4. Below(s.reply, first[m])
      BY <1>6, <3>1
    <3>5. Below(Merged(n, s.reply), first[m])
      BY <1>3, <1>4, <3>3, <3>4, BelowTransitive
    <3>6. Below(table'[m], first[n])
      BY <1>3, <1>5, <1>6, <3>1
    <3>7. (i = n /\ j = m) \/ (i = m /\ j = n)
      BY <3>1
    <3> QED
      BY <3>2, <3>5, <3>6, <3>7
  <2> QED
    BY <2>1, <2>2
<1>12. ASSUME NEW i \in Nodes, NEW j \in Nodes
       PROVE  /\ sync'[i][j].stage \in {"asked", "arrived", "merged", "replied"} =>
                    Below(sync'[i][j].asked, first[i])
              /\ sync'[i][j].stage \in {"arrived", "merged", "replied"} =>
                    Below(sync'[i][j].reply, first[j])
              /\ sync'[i][j].stage \in {"merged", "replied"} => Below(table'[j], first[i])
  <2>1. CASE i = n /\ j = m
    BY <1>8, <1>9, <1>10, <2>1 DEF Moves
  <2>2. CASE ~(i = n /\ j = m)
    <3>1. sync'[i][j] = sync[i][j]
      BY <2>2 DEF Moves
    <3>2. /\ sync[i][j].stage \in {"asked", "arrived", "merged", "replied"} =>
                Below(sync[i][j].asked, first[i])
          /\ sync[i][j].stage \in {"arrived", "merged", "replied"} =>
                Below(sync[i][j].reply, first[j])
          /\ sync[i][j].stage \in {"merged", "replied"} => Below(table[j], first[i])
      BY DEF Merging, Lowered
    <3> QED
      BY <1>3, <1>5, <3>1, <3>2
  <2> QED
    BY <2>1, <2>2
<1> QED
  BY <1>7, <1>11, <1>12 DEF Lowered, Below

LEMMA InheritedStays ==
    ASSUME Typed, Merging, NEW n \in Nodes, NEW m \in Nodes, NEW d \in Syncs,
           Moves(n, m, d), SyncKind(n, m, d), UNCHANGED first
    PROVE  Inherited'
<1>1. Descends
  BY SyncDescends
<1>2. PICK s \in Syncs : s = sync[n][m]
  BY DEF Typed, Types
<1>3. \A x \in Names :
         /\ s.asked[x] \in Had(x) /\ s.reply[x] \in Had(x)
         /\ table[n][x] \in Had(x) /\ table[m][x] \in Had(x)
         /\ NoSync.asked[x] \in Had(x) /\ NoSync.reply[x] \in Had(x)
  BY <1>2 DEF Merging, Inherited, NoSync, Unnamed, Had
<1>4. \A x \in Names : d.asked[x] \in Had(x) /\ d.reply[x] \in Had(x)
  BY <1>2, <1>3 DEF SyncKind
<1>5. \A x \in Names : Had(x)' = Had(x)
  BY DEF Had
<1>6. \A i, j \in Nodes, x \in Names :
         sync'[i][j].asked[x] \in Had(x) /\ sync'[i][j].reply[x] \in Had(x)
  <2> SUFFICES ASSUME NEW i \in Nodes, NEW j \in Nodes, NEW x \in Names
               PROVE  sync'[i][j].asked[x] \in Had(x) /\ sync'[i][j].reply[x] \in Had(x)
    OBVIOUS
  <2>1. CASE i = n /\ j = m
    BY <1>4, <2>1 DEF Moves
  <2>2. CASE ~(i = n /\ j = m)
    BY <2>2 DEF Moves, Merging, Inherited
  <2> QED
    BY <2>1, <2>2
<1>7. \A k \in Nodes, x \in Names : table'[k][x] \in Had(x)
  BY <1>1 DEF Descends
<1> QED
  BY <1>5, <1>6, <1>7 DEF Inherited

\* Whoever had x at the beginning had it at home, and no other name.
LEMMA HadAtHome ==
    ASSUME Homed, NEW x \in Names, NEW p \in Had(x), p # NoPid
    PROVE  first[Home(p)][x] = p /\ \A y \in Names : p \in Had(y) => y = x
  BY DEF Homed, Had

LEMMA BeatenStays ==
    ASSUME Typed, Merging, Descends, NEW p \in Pids, Beaten(p)
    PROVE  Beaten(p)'
<1> SUFFICES ASSUME NEW x \in Names, table'[Home(p)][x] = p
             PROVE  FALSE
  BY DEF Beaten, Home
<1>1. PICK h \in Nodes : h = Home(p)
  BY NodeFacts
<1>2. p \in Had(x) /\ p # NoPid
  BY <1>1, NodeFacts DEF Descends
<1>3. first[h][x] = p
  BY <1>1, <1>2, HadAtHome DEF Merging
<1>4. table[h][x] # NoPid /\ table[h][x] <= p
  BY <1>2, <1>3 DEF Merging, Lowered, Below
<1>5. p <= table[h][x]
  BY <1>1, <1>4 DEF Descends, Below
<1>6. table[h][x] \in Nat /\ p \in Nat
  <2>1. table[h] \in Tables
    BY DEF Descends
  <2> QED
    BY <2>1, EntriesAreNumbers, NodeFacts
<1>7. table[h][x] = p
  BY <1>4, <1>5, <1>6
<1> QED
  BY <1>1, <1>7 DEF Beaten

LEMMA LosersAreBeaten ==
    ASSUME Typed, Merging, Descends, NEW k \in Nodes, NEW theirs \in Tables,
           \A x \in Names : theirs[x] \in Had(x),
           table' = [table EXCEPT ![k] = Merged(k, theirs)], NEW p \in Losers(k, theirs)
    PROVE  p \in Pids /\ Beaten(p)'
<1>1. p \in Pids /\ Home(p) = k
  BY DEF Losers
<1>2. PICK x \in Names : p \in {table[k][x], theirs[x]} /\ p # Merged(k, theirs)[x]
  BY DEF Losers
<1>3. table'[k] = Merged(k, theirs)
  BY DEF Typed, Types
<1>4. p \in Had(x) /\ p # NoPid
  BY <1>1, <1>2, NodeFacts DEF Merging, Inherited
<1>5. \A y \in Names : p \in Had(y) => y = x
  BY <1>4, HadAtHome DEF Merging
<1>6. ASSUME NEW y \in Names, table'[k][y] = p
      PROVE  FALSE
  <2>1. p \in Had(y)
    BY <1>6 DEF Descends
  <2> QED
    BY <1>2, <1>3, <1>5, <1>6, <2>1
<1> QED
  BY <1>1, <1>6 DEF Beaten, Home


LEMMA LosersBeatenStays ==
    ASSUME Typed, Merging, NEW n \in Nodes, NEW m \in Nodes, NEW d \in Syncs,
           Moves(n, m, d), SyncKind(n, m, d)
    PROVE  LosersBeaten'
<1>1. Descends
  BY SyncDescends
<1>2. PICK s \in Syncs : s = sync[n][m]
  BY DEF Typed, Types
<1>3. /\ s.asked \in Tables /\ s.reply \in Tables /\ s.losers \in SUBSET Pids
      /\ \A x \in Names : s.asked[x] \in Had(x) /\ s.reply[x] \in Had(x)
  BY <1>2 DEF Syncs, Merging, Inherited
<1>4. \A p \in s.losers : Beaten(p)'
  BY <1>1, <1>2, <1>3, BeatenStays DEF Merging, LosersBeaten
<1>5. \A p \in d.losers : Beaten(p)'
  <2>1. CASE /\ d.losers = Losers(m, s.asked)
             /\ table' = [table EXCEPT ![m] = Merged(m, s.asked)]
    BY <1>1, <1>3, <2>1, LosersAreBeaten
  <2>2. CASE /\ d.losers = Losers(n, s.reply)
             /\ table' = [table EXCEPT ![n] = Merged(n, s.reply)]
    BY <1>1, <1>3, <2>2, LosersAreBeaten
  <2>3. CASE d.losers \subseteq s.losers
    BY <1>4, <2>3
  <2> QED
    BY <1>2, <2>1, <2>2, <2>3 DEF SyncKind, NoSync
<1>6. \A i, j \in Nodes : \A p \in sync'[i][j].losers : Beaten(p)'
  <2> SUFFICES ASSUME NEW i \in Nodes, NEW j \in Nodes, NEW p \in sync'[i][j].losers
               PROVE  Beaten(p)'
    OBVIOUS
  <2>1. CASE i = n /\ j = m
    BY <1>5, <2>1 DEF Moves
  <2>2. CASE ~(i = n /\ j = m)
    <3>1. p \in sync[i][j].losers
      BY <2>2 DEF Moves
    <3>2. p \in Pids
      BY <3>1 DEF Typed, Types, Syncs
    <3> QED
      BY <1>1, <3>1, <3>2, BeatenStays DEF Merging, LosersBeaten
  <2> QED
    BY <2>1, <2>2
<1>7. UNCHANGED <<alive, deaths>> \/ Dies(s.losers)
  BY <1>2 DEF SyncKind
<1>8. \A p \in Pids \ alive' : Beaten(p)'
  <2> SUFFICES ASSUME NEW p \in Pids, p \notin alive'
               PROVE  Beaten(p)'
    OBVIOUS
  <2>1. CASE p \notin alive
    BY <1>1, <2>1, BeatenStays DEF Merging, LosersBeaten
  <2>2. CASE p \in s.losers
    BY <1>4, <2>2
  <2> QED
    BY <1>7, <2>1, <2>2 DEF Dies
<1>9. \A k \in Nodes : \A p \in Range(deaths'[k]) : p \notin alive' /\ Home(p) = k
  <2> SUFFICES ASSUME NEW k \in Nodes, NEW p \in Range(deaths'[k])
               PROVE  p \notin alive' /\ Home(p) = k
    OBVIOUS
  <2>1. CASE UNCHANGED <<alive, deaths>>
    BY <2>1 DEF Merging, LosersBeaten
  <2>2. CASE Dies(s.losers)
    <3>1. p \in Range(deaths[k]) \/ (p \in s.losers /\ Home(p) = k)
      BY <1>3, <2>2, PublishedDeaths
    <3> QED
      BY <2>2, <3>1 DEF Merging, LosersBeaten, Dies
  <2> QED
    BY <1>7, <2>1, <2>2
<1> QED
  BY <1>6, <1>8, <1>9 DEF LosersBeaten, Home

\* Who loses the name at home is among the losers.
LEMMA LosersAreTold ==
    ASSUME Typed, NEW k \in Nodes, NEW theirs \in Tables, NEW x \in Names, NEW p \in Pids,
           Home(p) = k, table[k][x] = p, Merged(k, theirs)[x] # p
    PROVE  p \in Losers(k, theirs)
<1>1. table[k][x] # NoPid
  BY NodeFacts
<1>2. theirs[x] # NoPid
  BY MergedBelow
<1> QED
  BY <1>1, <1>2 DEF Losers

LEMMA SurvivorsStay ==
    ASSUME Typed, Merging, NEW n \in Nodes, NEW m \in Nodes, NEW d \in Syncs,
           Moves(n, m, d), SyncKind(n, m, d), UNCHANGED first
    PROVE  Survivors'
<1> SUFFICES ASSUME NEW x \in Names, NEW p \in alive', p \in Had(x)
             PROVE  table'[Home(p)][x] = p \/ Losing(p)'
  BY DEF Survivors, Had, Home
<1>1. PICK s \in Syncs : s = sync[n][m]
  BY DEF Typed, Types
<1>2. s.asked \in Tables /\ s.reply \in Tables
  BY DEF Syncs
<1>3. p \in alive /\ (s.stage \in {"merged", "kill"} => p \notin s.losers)
  BY <1>1 DEF SyncKind, Dies
<1>4. p \in Pids
  BY <1>3 DEF Typed, Pasts
<1>5. CASE Losing(p)
  <2>1. PICK i, j \in Nodes : sync[i][j].stage \in {"merged", "kill"} /\ p \in sync[i][j].losers
    BY <1>5 DEF Losing
  <2>2. ~(i = n /\ j = m)
    BY <1>1, <1>3, <2>1
  <2>3. sync'[i][j] = sync[i][j]
    BY <2>2 DEF Moves
  <2> QED
    BY <2>1, <2>3 DEF Losing
<1>6. CASE table[Home(p)][x] = p /\ table'[Home(p)][x] # p
  <2>1. ASSUME NEW k \in Nodes, NEW theirs \in Tables,
               table' = [table EXCEPT ![k] = Merged(k, theirs)]
        PROVE  p \in Losers(k, theirs)
    <3>1. table \in [Nodes -> Tables]
      BY DEF Typed, Types
    <3>2. Home(p) = k
      BY <1>6, <2>1, <3>1
    <3>3. table'[k] = Merged(k, theirs)
      BY <2>1, <3>1
    <3> QED
      BY <1>4, <1>6, <3>2, <3>3, LosersAreTold
  <2>2. d.stage \in {"merged", "kill"} /\ p \in d.losers
    BY <1>1, <1>2, <1>6, <2>1 DEF SyncKind
  <2> QED
    BY <2>2 DEF Moves, Losing
<1> QED
  BY <1>3, <1>5, <1>6 DEF Merging, Survivors


\* The steps that are possible while nothing is claimed and nobody quits; the
\* death reactor finds that the dead have no name left.
LEMMA MergeSteps ==
    ASSUME Typed, Merging, [Next]_vars, claims' = 0, quit' = {}
    PROVE  \/ \E n, m \in Nodes : SyncStep(n, m)
           \/ \E n \in Nodes :
                 /\ deaths[n] # <<>> /\ deaths' = [deaths EXCEPT ![n] = Tail(@)]
                 /\ UNCHANGED <<table, claim, sync, reactor, alive, first, claims, quit, exchanged>>
           \/ \E n, m \in Nodes :
                 /\ sync[n][m].stage \in {"none", "spawned"}
                 /\ sync' = sync \/ sync' = [sync EXCEPT ![n][m].stage = "spawned"]
                 /\ UNCHANGED <<table, claim, reactor, deaths, alive, first, claims, quit, exchanged>>
           \/ UNCHANGED vars
<1>1. \A p \in Pids : ~ClaimStep(p)
  BY DEF Merging, Idle, ClaimStep, CheckName, TakeLock, LockFails, Commit, Unlock, EndTry,
         Release, EndRelease
<1>2. ~Calls /\ ~Deaths
  <2>1. ASSUME NEW p \in Pids, NEW x \in Names, Register(p, x)
        PROVE  FALSE
    BY <2>1, GlobalAssumption DEF Register, Typed, Pasts
  <2>2. ASSUME NEW p \in Pids, NEW x \in Names, Unregister(p, x)
        PROVE  FALSE
    BY <2>2 DEF Unregister
  <2>3. ASSUME NEW p \in Pids, Die(p)
        PROVE  FALSE
    BY <2>3 DEF Die
  <2> QED
    BY <2>1, <2>2, <2>3 DEF Calls, Deaths
<1>3. ASSUME NEW n \in Nodes, ReactorStep(n)
      PROVE  /\ deaths[n] # <<>> /\ deaths' = [deaths EXCEPT ![n] = Tail(@)]
             /\ UNCHANGED <<table, claim, sync, reactor, alive, first, claims, quit, exchanged>>
  <2>1. Receive(n)
    BY <1>3 DEF ReactorStep, ReactorRelease, Merging, Idle
  <2>2. PICK d \in Seq(Pids) : d = deaths[n] /\ d # <<>>
    BY <2>1 DEF Receive, Typed, Types
  <2>3. Head(d) \in Range(d)
    BY <2>2 DEF Range
  <2>4. Head(d) \in Pids /\ Head(d) \notin alive /\ Home(Head(d)) = n
    BY <2>2, <2>3 DEF Merging, LosersBeaten
  <2>5. \A x \in Names : table[n][x] # Head(d)
    BY <2>4 DEF Merging, LosersBeaten, Beaten
  <2> QED
    BY <2>1, <2>2, <2>5 DEF Receive, history
<1>4. ASSUME NEW n \in Nodes, NEW m \in Nodes, NEW byId \in BOOLEAN, Learn(n, m, byId)
      PROVE  /\ sync[n][m].stage \in {"none", "spawned"}
             /\ sync' = sync \/ sync' = [sync EXCEPT ![n][m].stage = "spawned"]
             /\ UNCHANGED <<table, claim, reactor, deaths, alive, first, claims, quit, exchanged>>
  <2>1. sync[n][m].stage = "none"
    BY <1>4 DEF Learn, Typed, Met
  <2>2. sync' = sync \/ sync' = [sync EXCEPT ![n][m].stage = "spawned"]
    BY <1>4 DEF Learn
  <2>3. UNCHANGED <<table, claim, reactor, deaths, alive, first, claims, quit, exchanged>>
    BY <1>4 DEF Learn, nameVars, history
  <2> QED
    BY <2>1, <2>2, <2>3
<1>5. CASE Goes
  BY <1>1, <1>3, <1>5 DEF Goes
<1>6. CASE Learns
  BY <1>4, <1>6 DEF Learns
<1> QED
  BY <1>2, <1>5, <1>6 DEF Next

LEMMA QuietMerging ==
    ASSUME Merging, UNCHANGED <<table, claim, sync, reactor, alive, first, exchanged>>
    PROVE  Idle' /\ Homed' /\ Inherited' /\ Lowered' /\ Survivors'
<1>1. Idle' /\ Homed'
  BY DEF Merging, Idle, Homed, Home
<1>2. Inherited'
  BY DEF Merging, Inherited, Had
<1>3. Lowered'
  BY DEF Merging, Lowered, Below
<1>4. Survivors'
  BY DEF Merging, Survivors, Losing, Had, Home
<1> QED
  BY <1>1, <1>2, <1>3, <1>4

LEMMA MergingNext ==
    ASSUME Typed, Typed', Merging, [Next]_vars, claims' = 0, quit' = {}
    PROVE  Merging'
<1>1. ASSUME NEW n \in Nodes, NEW m \in Nodes, SyncStep(n, m)
      PROVE  Merging'
  <2>1. UNCHANGED <<first, claim, reactor, claims, quit>>
    BY <1>1, SyncKinds
  <2>2. PICK d \in Syncs : Moves(n, m, d) /\ SyncKind(n, m, d)
    BY <1>1, SyncKinds
  <2>3. Idle' /\ Homed'
    BY <2>1 DEF Merging, Idle, Homed, Home
  <2>4. Lowered' /\ Inherited' /\ LosersBeaten' /\ Survivors'
    BY <2>1, <2>2, LoweredStays, InheritedStays, LosersBeatenStays, SurvivorsStay
  <2> QED
    BY <2>3, <2>4 DEF Merging
<1>2. ASSUME NEW n \in Nodes, deaths[n] # <<>>, deaths' = [deaths EXCEPT ![n] = Tail(@)],
             UNCHANGED <<table, claim, sync, reactor, alive, first, claims, quit, exchanged>>
      PROVE  Merging'
  <2>1. \A k \in Nodes : Range(deaths'[k]) \subseteq Range(deaths[k])
    <3>1. PICK d \in Seq(Pids) : d = deaths[n]
      BY DEF Typed, Types
    <3>2. Range(Tail(d)) \subseteq Range(d)
      BY <1>2, <3>1 DEF Range
    <3> QED
      BY <1>2, <3>1, <3>2 DEF Typed, Types
  <2>2. LosersBeaten'
    BY <1>2, <2>1 DEF Merging, LosersBeaten, Beaten, Home
  <2>3. Idle' /\ Homed' /\ Inherited' /\ Lowered' /\ Survivors'
    BY <1>2, QuietMerging
  <2> QED
    BY <2>2, <2>3 DEF Merging
<1>3. ASSUME UNCHANGED <<table, claim, sync, reactor, deaths, alive, first, claims, quit, exchanged>>
      PROVE  Merging'
  <2>1. LosersBeaten'
    BY <1>3 DEF Merging, LosersBeaten, Beaten, Home
  <2> QED
    BY <1>3, <2>1, QuietMerging DEF Merging
<1>4. ASSUME NEW n \in Nodes, NEW m \in Nodes, sync[n][m].stage \in {"none", "spawned"},
             sync' = [sync EXCEPT ![n][m].stage = "spawned"],
             UNCHANGED <<table, claim, reactor, deaths, alive, first, claims, quit, exchanged>>
      PROVE  Merging'
  <2>1. \A i, j \in Nodes :
           /\ sync'[i][j].asked = sync[i][j].asked /\ sync'[i][j].reply = sync[i][j].reply
           /\ sync'[i][j].losers = sync[i][j].losers
           /\ sync'[i][j].stage \notin {"none", "spawned"} => sync'[i][j] = sync[i][j]
           /\ sync[i][j].stage \notin {"none", "spawned"} => sync'[i][j] = sync[i][j]
    <3>1. PICK S \in [Nodes -> [Nodes -> Syncs]] : S = sync
      BY DEF Typed, Types
    <3>2. PICK s \in Syncs : s = S[n][m]
      BY <3>1
    <3>3. PICK e \in Syncs : e = [s EXCEPT !.stage = "spawned"]
      BY DEF Syncs
    <3>4. sync' = [S EXCEPT ![n] = [S[n] EXCEPT ![m] = e]]
      BY <1>4, <3>1, <3>2, <3>3
    <3>5. /\ e.asked = s.asked /\ e.reply = s.reply /\ e.losers = s.losers
          /\ e.stage = "spawned"
      BY <3>3 DEF Syncs
    <3>6. \A i, j \in Nodes : sync'[i][j] = IF i = n /\ j = m THEN e ELSE S[i][j]
      BY <3>1, <3>4
    <3> QED
      BY <1>4, <3>1, <3>2, <3>5, <3>6
  <2>2. Idle' /\ Homed' /\ LosersBeaten'
    BY <1>4, <2>1 DEF Merging, Idle, Homed, LosersBeaten, Beaten, Home
  <2>3. Inherited'
    <3>1. \A x \in Names : Had(x)' = Had(x)
      BY <1>4 DEF Had
    <3>2. \A i, j \in Nodes, x \in Names :
             /\ table'[i][x] \in Had(x)
             /\ sync'[i][j].asked[x] \in Had(x) /\ sync'[i][j].reply[x] \in Had(x)
      BY <1>4, <2>1 DEF Merging, Inherited
    <3> QED
      BY <3>1, <3>2 DEF Inherited
  <2>4. Lowered'
    <3>1. ASSUME NEW i \in Nodes, NEW j \in Nodes
          PROVE  /\ sync'[i][j].stage \in {"asked", "arrived", "merged", "replied"} =>
                       Below(sync'[i][j].asked, first'[i])
                 /\ sync'[i][j].stage \in {"arrived", "merged", "replied"} =>
                       Below(sync'[i][j].reply, first'[j])
                 /\ sync'[i][j].stage \in {"merged", "replied"} => Below(table'[j], first'[i])
      <4>1. /\ sync[i][j].stage \in {"asked", "arrived", "merged", "replied"} =>
                  Below(sync[i][j].asked, first[i])
            /\ sync[i][j].stage \in {"arrived", "merged", "replied"} =>
                  Below(sync[i][j].reply, first[j])
            /\ sync[i][j].stage \in {"merged", "replied"} => Below(table[j], first[i])
        BY DEF Merging, Lowered
      <4>2. CASE sync'[i][j].stage \in {"none", "spawned"}
        BY <4>2
      <4>3. CASE sync'[i][j] = sync[i][j]
        <5>1. table' = table /\ first' = first
          BY <1>4
        <5> QED
          BY <4>1, <4>3, <5>1
      <4> QED
        BY <2>1, <4>2, <4>3
    <3>2. /\ \A k \in Nodes : Below(table'[k], first'[k])
          /\ \A i, j \in Nodes : {i, j} \in exchanged' => Below(table'[j], first'[i])
      BY <1>4 DEF Merging, Lowered
    <3> QED
      BY <3>1, <3>2 DEF Lowered, Below
  <2>5. Survivors'
    BY <1>4, <2>1 DEF Merging, Survivors, Losing, Had, Home
  <2> QED
    BY <2>2, <2>3, <2>4, <2>5 DEF Merging
<1>5. CASE UNCHANGED vars
  <2>1. UNCHANGED <<table, claim, sync, reactor, deaths, alive, first, claims, quit, exchanged>>
    BY <1>5 DEF vars, nameVars, taskVars, history
  <2> QED
    BY <1>3, <2>1
<1> QED
  BY <1>1, <1>2, <1>3, <1>4, <1>5, MergeSteps

LEMMA MergeInit == ASSUME Init PROVE Merging
<1>1. PICK sides \in Partitions : Parts(sides)
  BY DEF Init
<1>2. Quiet /\ table = first /\ first \in [Nodes -> Tables]
  BY <1>1 DEF Init, Parts, Tables
<1>3. Homed
  <2> SUFFICES ASSUME NEW n \in Nodes, NEW x \in Names, first[n][x] # NoPid
               PROVE  /\ first[Home(first[n][x])][x] = first[n][x]
                      /\ \A y \in Names :
                            first[Home(first[n][x])][y] = first[n][x] => y = x
    BY DEF Homed
  <2>1. PICK s \in sides : n \in s
    BY <1>1 DEF Partitions
  <2>2. first[n][x] \in Pids
    BY <1>2 DEF Tables
  <2>3. Home(first[n][x]) \in s /\ Home(first[n][x]) \in Nodes
    BY <1>1, <2>1, <2>2, NodeFacts DEF Parts
  <2>4. first[Home(first[n][x])][x] = first[n][x]
    BY <1>1, <2>1, <2>3 DEF Parts
  <2> QED
    BY <1>1, <2>3, <2>4 DEF Parts
<1>4. Idle /\ LosersBeaten
  BY <1>2 DEF Quiet, Idle, LosersBeaten, NoClaim, NoSync, NoRelease, Range
<1>5. Inherited
  BY <1>2 DEF Quiet, Inherited, NoSync, Unnamed, Had
<1>6. Lowered
  <2>1. \A n \in Nodes : Below(table[n], first[n])
    BY <1>2, BelowItself
  <2> QED
    BY <1>2, <2>1 DEF Quiet, Lowered, NoSync
<1>7. Survivors
  <2> SUFFICES ASSUME NEW x \in Names, NEW p \in alive, p \in Had(x)
               PROVE  table[Home(p)][x] = p
    BY DEF Survivors
  <2>1. p # NoPid
    BY <1>2, NodeFacts DEF Quiet
  <2> QED
    BY <1>2, <1>3, <2>1, HadAtHome
<1> QED
  BY <1>3, <1>4, <1>5, <1>6, <1>7 DEF Merging


\* Nothing is unclaimed, nor does who quit come back.
LEMMA CountsOnlyGrow ==
    ASSUME Typed, [Next]_vars
    PROVE  (claims' = 0 => claims = 0) /\ (quit' = {} => quit = {})
<1>1. ASSUME NEW p \in Pids, NEW x \in Names, Register(p, x) \/ Unregister(p, x)
      PROVE  (claims' = 0 => claims = 0) /\ (quit' = {} => quit = {})
  BY <1>1, GlobalAssumption DEF Register, Unregister, Typed, Pasts
<1>2. ASSUME NEW p \in Pids, ClaimStep(p)
      PROVE  UNCHANGED <<claims, quit>>
  <2>1. CASE CheckName(p) \/ TakeLock(p) \/ EndTry(p) \/ EndRelease(p)
    <3>1. UNCHANGED history
      BY <2>1 DEF CheckName, TakeLock, EndTry, EndRelease
    <3> QED
      BY <3>1 DEF history
  <2>2. CASE \/ LockFails(p)
             \/ \E arrives \in BOOLEAN :
                   Commit(p, arrives) \/ Unlock(p, arrives) \/ Release(p, arrives)
    BY <2>2 DEF LockFails, Commit, Unlock, Release
  <2> QED
    BY <1>2, <2>1, <2>2 DEF ClaimStep
<1>3. ASSUME NEW p \in Pids, Die(p)
      PROVE  (claims' = 0 => claims = 0) /\ (quit' = {} => quit = {})
  BY <1>3 DEF Die
<1>4. ASSUME NEW n \in Nodes, ReactorStep(n)
      PROVE  UNCHANGED <<claims, quit>>
  BY <1>4 DEF ReactorStep, Receive, ReactorRelease, history
<1>5. ASSUME NEW n \in Nodes, NEW m \in Nodes, NEW byId \in BOOLEAN, Learn(n, m, byId)
      PROVE  UNCHANGED <<claims, quit>>
  BY <1>5 DEF Learn, history
<1>6. CASE UNCHANGED vars
  BY <1>6 DEF vars, history
<1> QED
  BY <1>1, <1>2, <1>3, <1>4, <1>5, <1>6, SyncKinds DEF Next, Calls, Goes, Deaths, Learns

LEMMA MergeNext ==
    ASSUME Typed, Typed', MergeInv, [Next]_vars
    PROVE  MergeInv'
  BY CountsOnlyGrow, MergingNext DEF MergeInv

LEMMA MergeInvariant == Spec => [](Typed /\ MergeInv)
<1>1. Init => Typed /\ MergeInv
  BY InitTyped, MergeInit DEF MergeInv
<1>2. Typed /\ MergeInv /\ [Next]_vars => (Typed /\ MergeInv)'
  BY NextTyped, MergeNext
<1> QED
  BY <1>1, <1>2, PTL DEF Spec

\* However many parts meet, and however their merges overlap, are answered late
\* or fail: the lowest pid that had a name survives, and once every two nodes
\* have merged at least one way around, every table names it and nobody else
\* that had the name is alive.
THEOREM PartsAgree == Spec => []MergesAgree
<1>1. Typed /\ MergeInv => MergesAgree
  <2> SUFFICES ASSUME Typed, claims = 0, quit = {}, Merging, NEW x \in Names,
                      NEW had, had = {first[n][x] : n \in Nodes} \ {NoPid}, had # {}
               PROVE  /\ Min(had) \in alive
                      /\ AllMerged => /\ \A n \in Nodes : table[n][x] = Min(had)
                                      /\ had \cap alive = {Min(had)}
    BY DEF MergesAgree, MergeInv
  <2>1. /\ \A n \in Nodes : first[n] \in Tables /\ table[n] \in Tables
        /\ \A n \in Nodes : first[n][x] \in Pids \cup {NoPid}
    BY DEF Typed, Types, Pasts, Tables
  <2>2. had \in SUBSET Nat /\ had \subseteq Pids
    BY <2>1, NodeFacts
  <2>3. PICK w \in had : w = Min(had) /\ \A y \in had : w <= y
    BY <2>2, LeastMember
  <2>4. \A p \in had : p \in Pids /\ p \in Had(x) /\ p # NoPid /\ p \in Nat
    BY <2>2, NodeFacts DEF Had
  <2>5. \A n \in Nodes : table[n][x] # NoPid => w <= table[n][x]
    BY <2>3 DEF Merging, Inherited, Had
  <2>6. PICK h \in Nodes : h = Home(w) /\ first[h][x] = w
    BY <2>4, HadAtHome, NodeFacts DEF Merging
  <2>7. ASSUME NEW n \in Nodes, Below(table[n], first[h])
        PROVE  table[n][x] = w
    <3>1. table[n][x] # NoPid /\ table[n][x] <= w
      BY <2>4, <2>6, <2>7 DEF Below
    <3>2. table[n][x] \in Nat /\ w \in Nat
      BY <2>1, <2>4, EntriesAreNumbers
    <3> QED
      BY <2>5, <3>1, <3>2
  <2>8. table[h][x] = w
    BY <2>7 DEF Merging, Lowered
  <2>9. w \in alive
    BY <2>4, <2>6, <2>8 DEF Merging, LosersBeaten, Beaten
  <2>10. ASSUME AllMerged, NEW n \in Nodes
         PROVE  table[n][x] = w
    <3>1. n = h \/ {h, n} \in exchanged
      BY <2>10 DEF AllMerged
    <3>2. {h, n} \in exchanged => Below(table[n], first[h])
      BY DEF Merging, Lowered
    <3> QED
      BY <2>7, <2>8, <3>1, <3>2
  <2>11. ASSUME AllMerged, NEW p \in had, p \in alive
         PROVE  p = w
    <3>1. ~Losing(p)
      BY <2>11 DEF AllMerged, Losing
    <3>2. table[Home(p)][x] = p /\ Home(p) \in Nodes
      BY <2>4, <2>11, <3>1, NodeFacts DEF Merging, Survivors
    <3> QED
      BY <2>10, <2>11, <3>2
  <2> QED
    BY <2>3, <2>9, <2>10, <2>11
<1> QED
  BY <1>1, MergeInvariant, PTL

\* What the tables do in a step of a merge.
LEMMA MergingDescends ==
    ASSUME Typed, Merging, [Next]_vars, claims' = 0, quit' = {}
    PROVE  \A n \in Nodes : Below(table'[n], table[n])
<1>1. ASSUME NEW n \in Nodes, NEW m \in Nodes, SyncStep(n, m)
      PROVE  \A k \in Nodes : Below(table'[k], table[k])
  BY <1>1, SyncKinds, SyncDescends DEF Descends
<1>2. CASE UNCHANGED table
  BY <1>2, BelowItself DEF Typed, Types
<1> QED
  BY <1>1, <1>2, MergeSteps DEF vars, nameVars

\* With one claimant on each node: in a cluster whose members agree, as long as
\* no commit was lost, an entry goes only when its particle has died or given
\* its name up; and where parts meet, an entry only yields to a lower pid.  No
\* commit, unlock, release, merge or death reactor takes away another's entry.
THEOREM EntriesOnlyYield == ASSUME OnePerNode PROVE Spec => EntriesYield
<1> DEFINE Yields ==
        (whole /\ ~lostCommit') \/ (claims' = 0 /\ quit' = {}) =>
            \A n \in Nodes, x \in Names :
                table[n][x] # NoPid /\ table'[n][x] # table[n][x] =>
                    \/ table[n][x] \in quit'
                    \/ table'[n][x] # NoPid /\ table'[n][x] < table[n][x]
<1>1. ASSUME Typed, Typed', WholeInv, MergeInv, [Next]_vars
      PROVE  Yields
  <2>1. ASSUME whole, ~lostCommit', NEW n \in Nodes, NEW x \in Names, table[n][x] # NoPid,
               table'[n][x] # table[n][x]
        PROVE  table[n][x] \in quit'
    <3>1. Tidy /\ Standing
      BY <1>1, <2>1, WholeForGood DEF WholeInv
    <3>2. ASSUME NEW q \in Pids, Commit(q, TRUE)
          PROVE  table[n][x] \in quit'
      <4>1. PICK m \in Nodes, y \in Names : m = At(q) /\ y = claim[q].name
        BY <1>1, <3>2, CommitFacts DEF Typed, Types, Claims
      <4>2. /\ table' = [table EXCEPT ![m][y] = q] /\ table \in [Nodes -> Tables]
            /\ quit' = quit /\ claim[q].pc = "commit"
        BY <1>1, <3>2, <4>1 DEF Commit, Typed, Types
      <4>3. n = m /\ x = y /\ table'[n][x] = q
        BY <2>1, <4>2 DEF Tables
      <4>4. table[n][x] \in Pids
        BY <2>1, <4>2 DEF Tables
      <4> QED
        BY <1>1, <2>1, <3>1, <4>1, <4>2, <4>3, <4>4, NobodyOverwritten
    <3> QED
      BY <1>1, <2>1, <3>1, <3>2, WholeSteps DEF Sheds
  <2>2. ASSUME claims' = 0, quit' = {}, NEW n \in Nodes, NEW x \in Names, table[n][x] # NoPid,
               table'[n][x] # table[n][x]
        PROVE  table'[n][x] # NoPid /\ table'[n][x] < table[n][x]
    <3>1. Merging
      BY <1>1, <2>2, CountsOnlyGrow DEF MergeInv
    <3>2. Below(table'[n], table[n])
      BY <1>1, <2>2, <3>1, MergingDescends
    <3>3. table'[n][x] # NoPid /\ table'[n][x] <= table[n][x]
      BY <2>2, <3>2 DEF Below
    <3>4. table[n][x] \in Nat /\ table'[n][x] \in Nat
      <4>1. table[n] \in Tables /\ table'[n] \in Tables
        BY <1>1 DEF Typed, Types
      <4> QED
        BY <4>1, EntriesAreNumbers
    <3> QED
      BY <2>2, <3>3, <3>4
  <2> QED
    BY <2>1, <2>2
<1>2. Init => Typed /\ WholeInv /\ MergeInv
  BY InitTyped, WholeInit, MergeInit DEF MergeInv
<1>3. Typed /\ WholeInv /\ MergeInv /\ [Next]_vars => (Typed /\ WholeInv /\ MergeInv)'
  BY NextTyped, WholeNext, MergeNext
<1>4. Typed /\ Typed' /\ WholeInv /\ MergeInv /\ [Next]_vars => [Yields]_vars
  BY <1>1
<1> QED
  BY <1>2, <1>3, <1>4, PTL DEF Spec, EntriesYield
=============================================================================
