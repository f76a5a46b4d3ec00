---------------------- MODULE MCDisposableEnvironment ----------------------
(***************************************************************************)
(* One environment: seven attempts reach a restore and the teardown after   *)
(* it; the registry runs full of challenges before they end.                *)
(***************************************************************************)
EXTENDS DisposableEnvironment
=============================================================================
