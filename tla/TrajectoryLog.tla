--------------------------- MODULE TrajectoryLog ---------------------------
(***************************************************************************)
(* What a trajectory ledger promises its callers: one log, extended one     *)
(* event at a time, each event admitted against exactly the log it extends. *)
(* TrajectoryLedger, whose writers read and link files of a shared          *)
(* directory, implements it; LifecycleCoordinator runs on top of it.        *)
(***************************************************************************)
EXTENDS TrajectoryEvents

CONSTANT Calls   \* the append calls: records [input : Input, expect : NoTip or a tip]

ASSUME CallsAssumption ==
  Calls \subseteq [input : Input, expect : {NoTip} \cup Tips]

VARIABLE log

LogInit == log = <<>>

AppendEvent(call) ==
  /\ Verdict(log, call.input, call.expect) = "append"
  /\ log' = Extend(log, call.input)

LogNext == \E call \in Calls : AppendEvent(call)

LogSpec == LogInit /\ [][LogNext]_log

-----------------------------------------------------------------------------
(* Properties.                                                             *)

LogTypeOK == log \in Seq(Event)

\* Every log that append can produce passes the audit of events, places and
\* sizes that reconstruct makes when it reads it back (it raises none of its
\* errors on the ledger's own output), so no accepted append can brick the
\* ledger.
LogDecodes == Decodes(log)

\* Capacity never refuses an event that pays an obligation, in whatever
\* order the owner of the trajectory pays them: scopes can always be closed,
\* operations settled, disposers run, cancellations acknowledged and the
\* receipt and terminal written, however full the ledger is.
FinalizationAdmitted ==
  (log # <<>> /\ ~Terminated(log)) =>
     \A kind \in ControlKinds, s \in Subjects, b \in 1..MaxControlBytes :
        LET e == [kind |-> kind, subject |-> s, bytes |-> b, id |-> CHOOSE i \in EventIds : TRUE,
                  causes |-> {}, epoch |-> 0, binds |-> 0, claim |-> "none"]
        IN  Discharges(log, e) => LeavesReserve(log, e)

\* The log only grows, by one event, and never after its terminal event.
GrowsByOne == [][ /\ Len(log') = Len(log) + 1
                  /\ SubSeq(log', 1, Len(log)) = log
                  /\ ~Terminated(log) ]_log
=============================================================================
