------------------------- MODULE MCStateRepository -------------------------
(***************************************************************************)
(* Four calls of three processes, two of them in one process, so that calls *)
(* queue behind one another and two processes may take away the lock of a   *)
(* third that died.                                                         *)
(***************************************************************************)
EXTENDS StateRepository, TLC

MCHome == 1 :> 1 @@ 2 :> 2 @@ 3 :> 2 @@ 4 :> 3

MCAsked == 1 :> {"start", "requestGate"} @@ 2 :> {"advance"}
           @@ 3 :> {"approveGate", "update"} @@ 4 :> {"fail"}

\* States without phases: one waits for its gate in the last phase, the other is completed.
MCLegacy ==
  {[currentPhase |-> LastPhase, status |-> status, qualityGate |-> FALSE,
    phases |-> <<>>, history |-> <<"start", "requestGate">>]
     : status \in {"WAITING_FOR_GATE", "COMPLETED"}}
=============================================================================
