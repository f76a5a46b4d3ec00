------------------------ MODULE MCEnvironmentSession ------------------------
(***************************************************************************)
(* One session and its callers, who call in the order of their names: they  *)
(* are alike, so any other order is a renaming.  Three direct calls reach   *)
(* a snapshot, a call between and a restore, or a timeout, its recovery and *)
(* a call after it; a scenario of two steps meets one other call, or runs   *)
(* between a snapshot and its restore.                                      *)
(***************************************************************************)
EXTENDS EnvironmentSession

Order == <<"c1", "c2", "c3">>
MCCalls == {Order[i] : i \in DOMAIN Order}

Made(i) == call[Order[i]].status # "idle"
Kinds   == [i \in DOMAIN Order |-> call[Order[i]].kind]
Few ==
  /\ Made(2) => Made(1)
  /\ Made(3) => /\ Made(2)
                /\ \/ \A c \in Calls : ~IsScenario(c)
                   \/ Kinds = <<"snapshot", "runScenario", "restore">>

\* The bound is on the callers alone: no fair action is ever kept from its step.
FewCalls == Few'
=============================================================================
