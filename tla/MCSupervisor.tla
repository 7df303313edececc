---------------------------- MODULE MCSupervisor ----------------------------
(***************************************************************************)
(* Supervisor with the kinds of children its cfgs use.                     *)
(***************************************************************************)
EXTENDS Supervisor

Kind(r, s, t) == [restart |-> r, shutdown |-> s, traps |-> t]

\* Every restart type and every shutdown, and children that trap exits, so that
\* only a kill is sure to end them, beside one that does not.
MixedKinds == {Kind("permanent", "brutal_kill", TRUE),
               Kind("permanent", "timeout", TRUE),
               Kind("transient", "infinity", FALSE),
               Kind("temporary", "brutal_kill", TRUE)}

\* The default child: permanent, stopped with a deadline, not trapping exits.
DefaultKind == {Kind("permanent", "timeout", FALSE)}
=============================================================================
