----------------------- MODULE DisposableEnvironment -----------------------
(***************************************************************************)
(* DisposableEnvironmentRuntime: one environment of a registry, shared by   *)
(* every runtime object with its key.  Attempts run one after another       *)
(* (serialTail); within one, callbacks to a trust service and to a backend  *)
(* are awaited, each under a timeout after which the callback still runs.   *)
(* Every attempt ends with a receipt, and parseDisposableEnvironmentReceipt *)
(* says which receipts it takes for true.  The receipt's own frame is left  *)
(* out: an identifier of the environment so long (95 characters) that       *)
(* attemptId exceeds those that a receipt may hold, and a clock that steps  *)
(* back or gives no date.                                                   *)
(*                                                                          *)
(* One error code stands for those the code treats alike.  Attestation,     *)
(* projections, digests and the policy are an answer of the trust service:  *)
(* accepted or not.  The backend is external: a call may create or remove   *)
(* the runtime at any moment while it runs, late ones included; and the     *)
(* reconciler, an independent witness, reports what is there.               *)
(***************************************************************************)
EXTENDS Integers, FiniteSets, Sequences

CONSTANTS MaxAttempts,    \* bound: attempts
          MaxReplay,      \* maxReplayEntries: the challenges ever issued
          MaxSnapshots    \* maxSnapshotsPerEnvironment

ASSUME BoundsAssumption == {MaxAttempts, MaxReplay, MaxSnapshots} \subseteq Nat

VARIABLES env,         \* SharedEnvironmentState without its snapshots and late operations
          snapshots,   \* the snapshots that were created, in order
          late,        \* lateOperations: the sequences of timed-out callbacks
          cur,         \* the attempt that runs, and the callback it awaits
          receipt,     \* the last receipt
          running,     \* external: the timed-out callbacks that still run
          resource,    \* external: the backend's runtime exists
          dispatched,  \* history: how many backend calls were made
          tried        \* history: the snapshots whose restore was accepted

vars == <<env, snapshots, late, cur, receipt, running, resource, dispatched, tried>>

State     == {"NEW", "PROVISIONED", "RUNNING", "QUARANTINED", "TORN_DOWN"}
Operation == {"provision", "start", "execute", "snapshot", "restore", "export", "teardown"}
Await     == {"prove", "project", "call", "verify", "revoke", "reconcile"}

Idle == [op |-> "none", at |-> "idle", before |-> 0, stateBefore |-> "NEW", snap |-> 0,
         code |-> "none"]

(***************************************************************************)
(* Receipts.  What a receipt carries besides its code; "loose" says that    *)
(* its snapshot or its metrics hold a value of the backend's that attempt   *)
(* accepts and the parser does not: a digest of zeros (assertSha, but not   *)
(* assertProofDigest), a media type or a port that only reads like one.     *)
(***************************************************************************)
Bare == [result |-> FALSE, proof |-> FALSE, disposition |-> "none", artifacts |-> FALSE,
         verified |-> FALSE, revoked |-> FALSE, evidence |-> FALSE, snapshot |-> FALSE,
         metrics |-> FALSE, reconciliation |-> FALSE, loose |-> FALSE]

NoReceipt == [op |-> "none", delta |-> 0, stateBefore |-> "NEW", stateAfter |-> "NEW",
              status |-> "none", code |-> "none", parts |-> Bare]

SuccessBefore(code) ==
  CASE code = "PROVISIONED"        -> {"NEW"}
    [] code = "STARTED"            -> {"PROVISIONED"}
    [] code = "TEARDOWN_CONFIRMED" -> State
    [] OTHER                       -> {"RUNNING"}
SuccessAfter(code) ==
  CASE code = "PROVISIONED"        -> "PROVISIONED"
    [] code = "TEARDOWN_CONFIRMED" -> "TORN_DOWN"
    [] OTHER                       -> "RUNNING"
Success ==
  [provision |-> "PROVISIONED", start |-> "STARTED", execute |-> "EXECUTED",
   snapshot |-> "SNAPSHOT_CREATED", restore |-> "SNAPSHOT_RESTORED",
   export |-> "ARTIFACTS_EXPORTED", teardown |-> "TEARDOWN_CONFIRMED"]

UnverifiedCodes == {"HOST_CAPABILITY_INVALID", "ATTESTATION_UNVERIFIED",
                    "PROJECTION_UNVERIFIED", "VERIFIER_MISSING"}
PreflightCodes  == {"INVALID_CONTRACT", "INVALID_STATE", "COMMAND_NOT_ALLOWED",
                    "EGRESS_PRIVATE_DESTINATION", "SNAPSHOT_TAMPERED", "SNAPSHOT_EXPIRED",
                    "SNAPSHOT_STALE", "SNAPSHOT_REPLAY"}
PostDispatchCodes == {"BACKEND_OPERATION_FAILED", "BACKEND_RESULT_INVALID",
                      "OPERATION_TIMEOUT", "NETWORK_PIN_MISMATCH", "RESOURCE_QUOTA_EXCEEDED",
                      "ARTIFACT_VERIFICATION_FAILED", "ARTIFACT_REVOKE_UNVERIFIED",
                      "TEARDOWN_RECONCILIATION_UNVERIFIED", "TEARDOWN_ORPHANS_REMAIN"}

Unmoved(r)  == r.delta = 0 /\ r.stateAfter = r.stateBefore
Succeeds(r) == \E op \in Operation : Success[op] = r.code

\* validateArtifactDispositionMatrix
DispositionOK(r) ==
  LET p == r.parts
      export == r.op = "export"
  IN CASE p.disposition = "none" ->
            /\ ~p.artifacts /\ ~p.verified /\ ~p.revoked /\ ~p.evidence
            /\ r.code # "ARTIFACTS_EXPORTED"
            /\ ~(export /\ p.result)
       [] p.disposition = "retained" ->
            /\ export /\ r.code = "ARTIFACTS_EXPORTED" /\ r.status = "UNVERIFIED"
            /\ p.artifacts /\ p.verified /\ p.result /\ ~p.revoked /\ ~p.evidence
       [] p.disposition = "revoked" ->
            /\ export /\ r.status = "BLOCKED"
            /\ r.code \notin {"ARTIFACTS_EXPORTED", "ARTIFACT_REVOKE_UNVERIFIED"}
            /\ p.artifacts /\ p.revoked /\ p.result /\ ~p.verified /\ ~p.evidence
       [] p.disposition = "revoke-unverified" ->
            /\ export /\ r.status = "BLOCKED" /\ r.code = "ARTIFACT_REVOKE_UNVERIFIED"
            /\ ~p.verified /\ ~p.revoked
            /\ p.artifacts # p.evidence
            /\ p.artifacts => p.result

\* semanticReceipt
StatusOK(r) ==
  LET p == r.parts
  IN IF Succeeds(r)
     THEN /\ r.status = "UNVERIFIED" /\ Success[r.op] = r.code /\ r.delta = 1
          /\ r.stateBefore \in SuccessBefore(r.code) /\ r.stateAfter = SuccessAfter(r.code)
          /\ p.result /\ p.proof
     ELSE CASE r.status = "UNVERIFIED" -> r.code \in UnverifiedCodes /\ Unmoved(r) /\ ~p.result
            [] r.status = "FAIL" ->
                 IF r.code = "COMMAND_EXIT_NONZERO"
                 THEN /\ r.op = "execute" /\ r.delta = 1 /\ p.result /\ p.metrics
                      /\ r.stateBefore = "RUNNING" /\ r.stateAfter = "RUNNING"
                 ELSE r.code \in PreflightCodes /\ Unmoved(r) /\ ~p.result
            [] r.status = "BLOCKED" ->
                 CASE r.code \in {"LATE_OPERATION_PENDING", "INVALID_STATE"} -> Unmoved(r)
                   [] r.code = "TRUST_CALLBACK_TIMEOUT" ->
                        r.stateAfter = "QUARANTINED" /\ r.delta = IF p.result THEN 1 ELSE 0
                   [] r.code = "REGISTRY_CAPACITY_EXCEEDED" ->
                        r.stateAfter = "QUARANTINED" /\ r.delta = 0
                   [] OTHER -> /\ r.code \in PostDispatchCodes
                               /\ r.stateAfter = "QUARANTINED" /\ r.delta = 1

validateReceiptFields(r) == ~r.parts.loose

semanticReceipt(r) ==
  /\ StatusOK(r) /\ DispositionOK(r)
  /\ r.code = "EXECUTED" => r.parts.metrics
  /\ r.parts.metrics => r.op = "execute"
  /\ r.parts.snapshot <=> r.code = "SNAPSHOT_CREATED"
  /\ r.parts.reconciliation => r.op = "teardown"
  /\ r.code = "TEARDOWN_CONFIRMED" => r.parts.reconciliation

parseReceipt(r) == validateReceiptFields(r) /\ semanticReceipt(r)

Disposition == {"none", "retained", "revoked", "revoke-unverified"}

\* The types of the variables; a runtime is known in the states that use it.
TypeOK ==
  /\ env \in [state : State, generation : 0 .. 2 * MaxAttempts, sequence : 0 .. MaxAttempts,
              handle : BOOLEAN, challenges : 0 .. MaxReplay]
  /\ env.state \in {"PROVISIONED", "RUNNING"} => env.handle
  /\ snapshots \in Seq([generation : Nat, consumed : BOOLEAN, dispatched : Nat])
  /\ Len(snapshots) <= MaxSnapshots
  /\ late \subseteq 1 .. MaxAttempts
  /\ cur = Idle \/ (cur.op \in Operation /\ cur.at \in Await)
  /\ receipt = NoReceipt \/ receipt.op \in Operation
  /\ running \subseteq [sequence : 1 .. MaxAttempts, label : Operation \cup Await]
  /\ resource \in BOOLEAN
  /\ dispatched \in 0 .. MaxAttempts
  /\ tried \subseteq 1 .. MaxSnapshots

Init ==
  /\ env = [state |-> "NEW", generation |-> 0, sequence |-> 0, handle |-> FALSE,
            challenges |-> 0]
  /\ snapshots = <<>> /\ late = {} /\ cur = Idle /\ receipt = NoReceipt
  /\ running = {} /\ resource = FALSE /\ dispatched = 0 /\ tried = {}

(***************************************************************************)
(* attempt: its end, with a receipt of what it found and what it leaves.    *)
(***************************************************************************)
Settle(c, e, status, code, parts) ==
  /\ env' = e
  /\ cur' = Idle
  /\ receipt' = [op |-> c.op, delta |-> e.generation - c.before, stateBefore |-> c.stateBefore,
                 stateAfter |-> e.state, status |-> status, code |-> code, parts |-> parts]

quarantine(e) == [e EXCEPT !.state = "QUARANTINED"]
Advanced      == [env EXCEPT !.generation = @ + 1]

\* attempt's catch of any other error: the generation advances once more, and the receipt
\* tells nothing of the dispatch.
Throws(e) ==
  Settle(cur, quarantine([e EXCEPT !.generation = @ + 1]), "BLOCKED",
         "BACKEND_OPERATION_FAILED", Bare)

Continue(at) == cur' = [cur EXCEPT !.at = at] /\ UNCHANGED <<env, receipt>>

Proof  == [Bare EXCEPT !.proof = TRUE]
Result == [Proof EXCEPT !.result = TRUE]

history   == <<dispatched, tried>>
callbacks == <<late, running>>

\* timed: the callback goes on after its timeout, and settles at any time.
TimesOut(label) ==
  /\ late' = late \cup {env.sequence}
  /\ running' = running \cup {[sequence |-> env.sequence, label |-> label]}

LateSettles ==
  \E x \in running :
    /\ running' = running \ {x}
    /\ late' = late \ {x.sequence}
    /\ UNCHANGED <<env, snapshots, cur, receipt, resource, history>>

(***************************************************************************)
(* The synchronous start of an attempt: what refuses it before any callback *)
(* runs, or the challenge that the trust service is asked to answer.        *)
(***************************************************************************)
\* Mutation of lateBlocked: only the sequences of other attempts than a teardown's count.
lateBlocked_NotTeardown(op) == op # "teardown" /\ late # {}
lateBlocked(op) == late # {}

Allowed(op) ==
  CASE op = "provision" -> env.state = "NEW"
    [] op = "start"     -> env.state = "PROVISIONED" /\ env.handle
    [] op = "teardown"  -> TRUE
    [] OTHER            -> env.state = "RUNNING" /\ env.handle

\* What the checks of the input can find: the arguments of a command may be too large.
InputFailures(op) ==
  CASE op = "execute"             -> {"INVALID_CONTRACT", "COMMAND_NOT_ALLOWED",
                                      "RESOURCE_QUOTA_EXCEEDED"}
    [] op \in {"snapshot", "export"} -> {"INVALID_CONTRACT"}
    [] OTHER                      -> {}

\* Mutation of snapshotFailure: the generation is not compared.
snapshotFailure_AnyGeneration(s) ==
  IF s = 0 THEN {"SNAPSHOT_TAMPERED", "SNAPSHOT_STALE"}
  ELSE IF snapshots[s].consumed THEN {"SNAPSHOT_REPLAY"} ELSE {"none", "SNAPSHOT_EXPIRED"}
\* A snapshot that is none of this environment's, or is forged, has the index 0.
snapshotFailure(s) ==
  IF s = 0 THEN {"SNAPSHOT_TAMPERED", "SNAPSHOT_STALE"}
  ELSE IF snapshots[s].consumed THEN {"SNAPSHOT_REPLAY"}
  ELSE IF snapshots[s].generation # env.generation THEN {"SNAPSHOT_STALE"}
  ELSE {"none", "SNAPSHOT_EXPIRED"}

\* trustedProof up to its first callback; a full registry throws, and attempt catches it.
Ask(c, e) ==
  \/ /\ Settle(c, e, "UNVERIFIED", "HOST_CAPABILITY_INVALID", Bare)
  \/ IF e.challenges >= MaxReplay
     THEN Settle(c, quarantine(e), "BLOCKED", "REGISTRY_CAPACITY_EXCEEDED", Bare)
     ELSE /\ env' = [e EXCEPT !.challenges = @ + 1]
          /\ cur' = [c EXCEPT !.at = "prove"]
          /\ UNCHANGED receipt

Attempt(op) ==
  LET e == [env EXCEPT !.sequence = @ + 1]
      c == [Idle EXCEPT !.op = op, !.before = env.generation, !.stateBefore = env.state]
  IN /\ cur = Idle /\ env.sequence < MaxAttempts
     /\ \/ /\ lateBlocked(op)
           /\ Settle(c, e, "BLOCKED", "LATE_OPERATION_PENDING", Bare)
           /\ UNCHANGED <<snapshots, tried>>
        \/ /\ ~lateBlocked(op) /\ ~Allowed(op)
           /\ Settle(c, e, IF env.state = "QUARANTINED" THEN "BLOCKED" ELSE "FAIL",
                     "INVALID_STATE", Bare)
           /\ UNCHANGED <<snapshots, tried>>
        \/ /\ ~lateBlocked(op) /\ Allowed(op)
           /\ \E code \in InputFailures(op) : Settle(c, e, "FAIL", code, Bare)
           /\ UNCHANGED <<snapshots, tried>>
        \/ /\ ~lateBlocked(op) /\ Allowed(op) /\ op \in {"export", "teardown"}
           /\ Settle(c, e, "UNVERIFIED", "VERIFIER_MISSING", Bare)
           /\ UNCHANGED <<snapshots, tried>>
        \/ /\ ~lateBlocked(op) /\ Allowed(op) /\ op # "restore"
           /\ Ask(c, e)
           /\ UNCHANGED <<snapshots, tried>>
        \/ /\ ~lateBlocked(op) /\ Allowed(op) /\ op = "restore"
           /\ \E s \in 0 .. Len(snapshots) : \E code \in snapshotFailure(s) :
                IF code # "none"
                THEN Settle(c, e, "FAIL", code, Bare) /\ UNCHANGED <<snapshots, tried>>
                ELSE /\ snapshots' = [snapshots EXCEPT ![s].consumed = TRUE]
                     /\ tried' = tried \cup {s}
                     /\ Ask([c EXCEPT !.snap = s], e)
     /\ UNCHANGED <<callbacks, resource, dispatched>>

(***************************************************************************)
(* The callbacks of the trust service before the dispatch: the attestation  *)
(* and its projection (trustedProof), then those of the file system or the  *)
(* network.                                                                 *)
(***************************************************************************)
Dispatch == Continue("call") /\ dispatched' = dispatched + 1

TrustTimesOut(label) ==
  /\ TimesOut(label)
  /\ Settle(cur, quarantine(env), "BLOCKED", "TRUST_CALLBACK_TIMEOUT", Bare)

trustedProof ==
  /\ cur.at = "prove"
  /\ \/ IF cur.op \in {"provision", "execute"}
        THEN Continue("project") /\ UNCHANGED <<callbacks, dispatched>>
        ELSE Dispatch /\ UNCHANGED callbacks
     \/ /\ Settle(cur, env, "UNVERIFIED", "ATTESTATION_UNVERIFIED", Bare)
        /\ UNCHANGED <<callbacks, dispatched>>
     \/ TrustTimesOut("prove") /\ UNCHANGED dispatched
  /\ UNCHANGED <<snapshots, resource, tried>>

\* filesystemProof of a provision, networkProof of an execution.
projectionProof ==
  /\ cur.at = "project"
  /\ \/ Dispatch /\ UNCHANGED callbacks
     \/ /\ Settle(cur, env, "UNVERIFIED", "PROJECTION_UNVERIFIED", Bare)
        /\ UNCHANGED <<callbacks, dispatched>>
     \/ /\ cur.op = "execute"
        /\ Settle(cur, env, "FAIL", "EGRESS_PRIVATE_DESTINATION", Bare)
        /\ UNCHANGED <<callbacks, dispatched>>
     \/ TrustTimesOut("project") /\ UNCHANGED dispatched
  /\ UNCHANGED <<snapshots, resource, tried>>

(***************************************************************************)
(* The backend call.                                                        *)
(***************************************************************************)

\* External: what a call does, while it is awaited or after its timeout.
Acting == {x.label : x \in running} \cup (IF cur.at = "call" THEN {cur.op} ELSE {})
BackendActs ==
  /\ \/ "provision" \in Acting /\ resource' = TRUE
     \/ "teardown" \in Acting /\ resource' = FALSE
  /\ UNCHANGED <<env, snapshots, callbacks, cur, receipt, history>>

Unrevoked == [Proof EXCEPT !.disposition = "revoke-unverified", !.evidence = TRUE]

backendFailure ==
  /\ cur.at = "call"
  /\ \E code \in {"OPERATION_TIMEOUT", "BACKEND_OPERATION_FAILED"} :
       /\ IF code = "OPERATION_TIMEOUT" THEN TimesOut(cur.op) ELSE UNCHANGED callbacks
       /\ IF cur.op = "export"
          THEN \/ Settle(cur, quarantine(Advanced), "BLOCKED", "ARTIFACT_REVOKE_UNVERIFIED",
                         Unrevoked)
               \/ Throws(Advanced)     \* the request is too large to be hashed as evidence
          ELSE Settle(cur, quarantine(Advanced), "BLOCKED", code, Proof)
  /\ UNCHANGED <<snapshots, resource, history>>

\* safeHash leaves an answer out that cannot be hashed.
invalidResult ==
  /\ cur.at = "call"
  /\ \E hashed \in BOOLEAN :
       IF cur.op = "export"
       THEN Settle(cur, quarantine(Advanced), "BLOCKED", "ARTIFACT_REVOKE_UNVERIFIED",
                   [Unrevoked EXCEPT !.result = hashed])
       ELSE Settle(cur, quarantine(Advanced), "BLOCKED", "BACKEND_RESULT_INVALID",
                   [Proof EXCEPT !.result = hashed])
  /\ UNCHANGED <<snapshots, callbacks, resource, history>>

Succeed(e, parts) == Settle(cur, e, "UNVERIFIED", Success[cur.op], parts)

provisionNow ==
  /\ cur.at = "call" /\ cur.op = "provision"
  /\ Succeed([Advanced EXCEPT !.state = "PROVISIONED", !.handle = TRUE], Result)
  /\ UNCHANGED <<snapshots, callbacks, resource, history>>

startNow ==
  /\ cur.at = "call" /\ cur.op = "start"
  /\ Succeed([Advanced EXCEPT !.state = "RUNNING"], Result)
  /\ UNCHANGED <<snapshots, callbacks, resource, history>>

executeNow ==
  /\ cur.at = "call" /\ cur.op = "execute"
  /\ \/ \E loose \in BOOLEAN :
          LET measured == [Result EXCEPT !.metrics = TRUE, !.loose = loose]
          IN \/ Succeed(Advanced, measured)
             \/ Settle(cur, Advanced, "FAIL", "COMMAND_EXIT_NONZERO", measured)
             \/ Settle(cur, quarantine(Advanced), "BLOCKED", "RESOURCE_QUOTA_EXCEEDED", measured)
     \/ \E hashed \in BOOLEAN :
          Settle(cur, quarantine(Advanced), "BLOCKED", "NETWORK_PIN_MISMATCH",
                 [Proof EXCEPT !.result = hashed])
  /\ UNCHANGED <<snapshots, callbacks, resource, history>>

\* A media type of any length makes the hash of the snapshot throw, or that of the receipt
\* when the snapshot is already among the created ones.
snapshotNow ==
  /\ cur.at = "call" /\ cur.op = "snapshot"
  /\ IF Len(snapshots) >= MaxSnapshots
     THEN /\ \E hashed \in BOOLEAN :
               Settle(cur, quarantine(Advanced), "BLOCKED", "REGISTRY_CAPACITY_EXCEEDED",
                      [Proof EXCEPT !.result = hashed])
          /\ UNCHANGED snapshots
     ELSE \/ Throws(Advanced) /\ UNCHANGED snapshots
          \/ /\ \/ Throws(Advanced)
                \/ \E loose \in BOOLEAN :
                     Succeed(Advanced, [Result EXCEPT !.snapshot = TRUE, !.loose = loose])
             /\ snapshots' = Append(snapshots, [generation |-> Advanced.generation,
                                                consumed |-> FALSE, dispatched |-> dispatched])
  /\ UNCHANGED <<callbacks, resource, history>>

AllConsumed == [s \in DOMAIN snapshots |-> [snapshots[s] EXCEPT !.consumed = TRUE]]

restoreNow ==
  /\ cur.at = "call" /\ cur.op = "restore"
  /\ Succeed(Advanced, Result)
  /\ snapshots' = AllConsumed
  /\ UNCHANGED <<callbacks, resource, history>>

(***************************************************************************)
(* An export: the artifacts are verified and kept, or else revoked.  A      *)
(* receipt that lists artifacts whose media types are too long cannot be    *)
(* hashed.                                                                  *)
(***************************************************************************)
exportNow ==
  /\ cur.at = "call" /\ cur.op = "export"
  /\ env' = Advanced
  /\ \/ cur' = [cur EXCEPT !.at = "verify"]
     \/ cur' = [cur EXCEPT !.at = "revoke", !.code = "RESOURCE_QUOTA_EXCEEDED"]
  /\ UNCHANGED <<snapshots, callbacks, receipt, resource, history>>

artifactProof ==
  /\ cur.at = "verify"
  /\ \/ /\ \/ Succeed(env, [Result EXCEPT !.disposition = "retained", !.artifacts = TRUE,
                                          !.verified = TRUE])
           \/ Throws(env)
        /\ UNCHANGED callbacks
     \/ /\ cur' = [cur EXCEPT !.at = "revoke", !.code = "ARTIFACT_VERIFICATION_FAILED"]
        /\ UNCHANGED <<env, receipt, callbacks>>
     \/ /\ cur' = [cur EXCEPT !.at = "revoke", !.code = "TRUST_CALLBACK_TIMEOUT"]
        /\ TimesOut("verify")
        /\ env' = quarantine(env)
        /\ UNCHANGED receipt
  /\ UNCHANGED <<snapshots, resource, history>>

\* Mutation of revokeArtifacts: a revocation that nobody proved keeps the first code.
revokeArtifacts_KeepsCode ==
  /\ cur.at = "revoke"
  /\ \E proved \in BOOLEAN :
       Settle(cur, quarantine(env), "BLOCKED", cur.code,
              [Result EXCEPT !.disposition = IF proved THEN "revoked" ELSE "revoke-unverified",
                             !.artifacts = TRUE, !.revoked = proved])
  /\ UNCHANGED <<snapshots, callbacks, resource, history>>
revokeArtifacts ==
  /\ cur.at = "revoke"
  /\ \/ /\ Settle(cur, quarantine(env), "BLOCKED", cur.code,
                  [Result EXCEPT !.disposition = "revoked", !.artifacts = TRUE,
                                 !.revoked = TRUE])
        /\ UNCHANGED callbacks
     \/ /\ \/ Settle(cur, quarantine(env), "BLOCKED", "ARTIFACT_REVOKE_UNVERIFIED",
                     [Result EXCEPT !.disposition = "revoke-unverified", !.artifacts = TRUE])
           \/ Throws(env)
        /\ TimesOut("revoke") \/ UNCHANGED callbacks
  /\ UNCHANGED <<snapshots, resource, history>>

(***************************************************************************)
(* A teardown: what the backend reports is reconciled by another witness.   *)
(***************************************************************************)
teardownNow ==
  /\ cur.at = "call" /\ cur.op = "teardown"
  /\ env' = Advanced
  /\ cur' = [cur EXCEPT !.at = "reconcile"]
  /\ UNCHANGED <<snapshots, callbacks, receipt, resource, history>>

\* The witness is honest: it reports nothing left only when nothing is.
teardownReconciler ==
  /\ cur.at = "reconcile"
  /\ \/ /\ ~resource
        /\ Succeed([env EXCEPT !.state = "TORN_DOWN", !.handle = FALSE],
                   [Result EXCEPT !.reconciliation = TRUE])
        /\ snapshots' = AllConsumed
        /\ UNCHANGED callbacks
     \/ /\ \E code \in {"TEARDOWN_ORPHANS_REMAIN", "TEARDOWN_RECONCILIATION_UNVERIFIED"} :
             Settle(cur, quarantine(env), "BLOCKED", code,
                    [Result EXCEPT !.reconciliation = (code = "TEARDOWN_ORPHANS_REMAIN")])
        /\ UNCHANGED <<snapshots, callbacks>>
     \/ /\ TimesOut("reconcile")
        /\ Settle(cur, quarantine(env), "BLOCKED", "TRUST_CALLBACK_TIMEOUT", Result)
        /\ UNCHANGED snapshots
  /\ UNCHANGED <<resource, history>>

Next ==
  \/ \E op \in Operation : Attempt(op)
  \/ trustedProof \/ projectionProof
  \/ backendFailure \/ invalidResult
  \/ provisionNow \/ startNow \/ executeNow \/ snapshotNow \/ restoreNow
  \/ exportNow \/ artifactProof \/ revokeArtifacts
  \/ teardownNow \/ teardownReconciler
  \/ LateSettles \/ BackendActs

Spec == Init /\ [][Next]_vars

(***************************************************************************)
(* Properties.                                                              *)
(***************************************************************************)

\* The receipts that the runtime issues and its parser refuses: of a snapshot over the limit,
\* which has advanced the generation; of a command that is too large; of an execution or a
\* snapshot with a loose value; and of an attempt whose end was too large to be hashed, which
\* has advanced the generation twice.
Refused(r) ==
  \/ r.op = "snapshot" /\ r.code = "REGISTRY_CAPACITY_EXCEEDED" /\ r.delta = 1
  \/ r.op = "execute" /\ r.code = "RESOURCE_QUOTA_EXCEEDED" /\ r.status = "FAIL"
  \/ r.op \in {"execute", "snapshot"} /\ r.parts.loose
  \/ r.op \in {"snapshot", "export"} /\ r.code = "BACKEND_OPERATION_FAILED" /\ r.delta = 2

\* The runtime issues no receipt that its own parser refuses (receipt and semanticReceipt are
\* two independent accounts of what an attempt may do) but those of Refused.
ReceiptsParse == receipt = NoReceipt \/ Refused(receipt) \/ parseReceipt(receipt)

\* An environment that was torn down has no runtime left at the backend, and no call that
\* timed out still runs that could bring one back (lateBlocked, teardownNow, timed) -- only
\* callbacks of an export whose verifier and revoker both timed out may, because the first
\* that settles deletes the one entry of lateOperations that stands for both.
TornDownIsGone ==
  env.state = "TORN_DOWN" => ~resource /\ \A x \in running : x.label \in {"verify", "revoke"}

\* A snapshot is accepted for restoring once, and only when no backend call was made since it
\* was taken, whatever failed or timed out meanwhile (snapshotFailure, restoreNow).
RestoreIsFreshAndOnce ==
  [][\A s \in tried' : cur = Idle /\ cur'.at = "prove" /\ cur'.snap = s
       => s \notin tried /\ snapshots[s].dispatched = dispatched]_vars
=============================================================================
