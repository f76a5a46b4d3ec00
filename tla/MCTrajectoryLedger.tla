------------------------- MODULE MCTrajectoryLedger -------------------------
(***************************************************************************)
(* Two writers racing on one directory: opening it, an operation, two       *)
(* competing recoveries, one fenced on a tip, and a receipt.                *)
(***************************************************************************)
EXTENDS TrajectoryLedger

In(id, kind, subject, causes) ==
  [id |-> id, kind |-> kind, subject |-> subject, causes |-> causes,
   epoch |-> 0, binds |-> 0, claim |-> "none", bytes |-> 1]
Call(in, expect) == [input |-> in, expect |-> expect]

Opening  == [In("e1", "trajectory.opened", "none", {}) EXCEPT !.epoch = 1]
Recovery(cause) == [In("e4", "trajectory.recovered", "none", {cause}) EXCEPT !.epoch = 2]
Receipt(n) == [In("e6", "finalization.receipt", "none", {}) EXCEPT !.binds = n]

MCCalls ==
  { Call(Opening, NoTip),
    Call(In("e2", "operation.started", "o", {}), NoTip),
    Call(Recovery("e1"), NoTip),
    Call(Recovery("e2"), 2),           \* the event id is reused
    Call(Receipt(3), 3) }

\* Neither I/O errors nor crashes.
RaceSpec == Init /\ [][\E w \in Writers : Submit(w) \/ Step(w)]_vars

MCEventIds == {"e1", "e2", "e4", "e6"}
MCSubjects == {"none", "o"}
=============================================================================
