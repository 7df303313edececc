----------------------------- MODULE MailboxSpec -----------------------------
(***************************************************************************)
(* What a mailbox promises the particle that owns it, without queue, locks *)
(* or wake-ups: the accepted messages that were not returned yet, and the  *)
(* one receiving call that may be under way.  A call gets the message that *)
(* comes first among those it asks for: exit and down signals before       *)
(* anything else, the newest signal first, the rest in order of arrival.   *)
(*                                                                         *)
(* It comes back empty-handed only when it has a timeout, or when the      *)
(* mailbox is closed and holds nothing for it.  A call for which something *)
(* stays in the mailbox returns; that a close alone ends a call is not     *)
(* promised.                                                               *)
(***************************************************************************)
EXTENDS Naturals

CONSTANTS
    Refs,       \* what recv_ref can ask for
    NoRef       \* what recv asks for

VARIABLES
    pending,    \* the messages in the mailbox
    arrivals,   \* the id of the next one
    open,       \* not closed
    asking,     \* whether a receiving call is under way
    want,       \* the ref it asks for
    timed       \* whether it has a timeout

avars == <<pending, arrivals, open, asking, want, timed>>

Kinds == {"data", "tagged", "spawn_reply"}
Signals == {"exit", "down"}

\* m is asked for by a call that wants w.
Wanted(m, w) ==
    \/ w = NoRef
    \/ m.kind \in {"tagged", "down", "spawn_reply"} /\ m.ref = w

\* m is returned before k.
Before(m, k) ==
    \/ m.kind \in Signals /\ k.kind \in Kinds
    \/ m.kind \in Signals /\ k.kind \in Signals /\ m.id > k.id
    \/ m.kind \in Kinds /\ k.kind \in Kinds /\ m.id < k.id

\* m is what a call that wants w gets.
Preferred(m, w) ==
    /\ Wanted(m, w)
    /\ \A k \in pending : Wanted(k, w) => k = m \/ Before(m, k)

AInit ==
    /\ pending = {}
    /\ arrivals = 1
    /\ open = TRUE
    /\ asking = FALSE
    /\ want = NoRef
    /\ timed = FALSE

\* A push is accepted: anything while the mailbox is open, signals even after.
Accept ==
    /\ \E kind \in Kinds \cup Signals, r \in Refs \cup {NoRef} :
          /\ open \/ kind \in Signals
          /\ pending' = pending \cup {[kind |-> kind, ref |-> r, id |-> arrivals]}
    /\ arrivals' = arrivals + 1
    /\ UNCHANGED <<open, asking, want, timed>>

Shut ==
    /\ open
    /\ open' = FALSE
    /\ UNCHANGED <<pending, arrivals, asking, want, timed>>

Ask ==
    /\ ~asking
    /\ asking' = TRUE
    /\ want' \in Refs \cup {NoRef}
    /\ timed' \in BOOLEAN
    /\ UNCHANGED <<pending, arrivals, open>>

\* The call returns its message, which leaves the mailbox.
Give ==
    /\ asking
    /\ \E m \in pending : Preferred(m, want) /\ pending' = pending \ {m}
    /\ asking' = FALSE
    /\ UNCHANGED <<arrivals, open, want, timed>>

\* The call returns nothing.
GiveUp ==
    /\ asking
    /\ timed \/ (~open /\ \A m \in pending : ~Wanted(m, want))
    /\ asking' = FALSE
    /\ UNCHANGED <<pending, arrivals, open, want, timed>>

ANext == Accept \/ Shut \/ Ask \/ Give \/ GiveUp

ASafety == AInit /\ [][ANext]_avars

ASpec == ASafety /\ WF_avars(Give)
=============================================================================
