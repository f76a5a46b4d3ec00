-------------------------- MODULE MCTrajectoryLog --------------------------
(***************************************************************************)
(* One ledger at the edge of its capacity: every order of a scope, an       *)
(* operation, a disposer, a cancellation, a recovery and the finalization,  *)
(* with ordinary events of one or two units.                                *)
(***************************************************************************)
EXTENDS TrajectoryLog

In(id, kind, subject, causes, bytes) ==
  [id |-> id, kind |-> kind, subject |-> subject, causes |-> causes,
   epoch |-> 0, binds |-> 0, claim |-> "none", bytes |-> bytes]

\* Calls without an expected tip.
MCInputs ==
  { [In("e1", "trajectory.opened", "none", {}, 2) EXCEPT !.epoch = 1],
    In("e2", "scope.opened", "s", {"e1"}, 1),
    In("e3", "scope.closed", "s", {"e2"}, 1),
    In("e4", "operation.started", "o", {}, 2),
    In("e5", "operation.settled", "o", {"e4"}, 1),
    In("e6", "disposer.registered", "d", {}, 2),
    In("e7", "disposer.started", "d", {"e6"}, 1),
    In("e8", "disposer.settled", "d", {"e7"}, 1),
    In("e9", "cancellation.requested", "e9", {}, 1),
    In("ea", "cancellation.acknowledged", "e9", {"e9"}, 1),
    In("eb", "finalization.started", "none", {}, 1),
    In("ed", "trajectory.terminal", "none", {}, 1) }
  \cup {[In("ec", "finalization.receipt", "none", {}, 1) EXCEPT !.binds = n] : n \in 4..7}
  \cup {[In(id, "trajectory.recovered", "none", {}, 1) EXCEPT !.epoch = n] :
          id \in {"ee", "ef"}, n \in 2..3}

MCCalls == {[input |-> in, expect |-> NoTip] : in \in MCInputs}

MCEventIds == {"e1", "e2", "e3", "e4", "e5", "e6", "e7", "e8", "e9", "ea", "eb", "ec", "ed",
               "ee", "ef"}
MCSubjects == {"none", "s", "o", "d", "e9"}
=============================================================================
