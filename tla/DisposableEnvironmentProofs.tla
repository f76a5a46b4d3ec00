-------------------- MODULE DisposableEnvironmentProofs --------------------
(***************************************************************************)
(* What holds of a disposable environment for any number of attempts, of    *)
(* challenges and of snapshots.                                             *)
(*                                                                          *)
(* The argument: while an attempt runs, what it remembers of its start      *)
(* still tells what the environment is now, because every change of the     *)
(* generation comes with its dispatch or its end and every change of the    *)
(* state with its end; so each receipt says what the parser expects, or is  *)
(* one of those that Refused names.  An attempt starts only when no         *)
(* sequence is late, and two callbacks share a sequence only when an        *)
(* export's verifier and revoker do; so no backend call of an earlier       *)
(* attempt runs beside it.                                                  *)
(***************************************************************************)
EXTENDS DisposableEnvironment, TLAPS

-----------------------------------------------------------------------------
(***************************************************************************)
(* Receipts.                                                                *)
(***************************************************************************)

\* The receipt that ends an attempt.
ReceiptOf(c, e, status, code, parts) ==
  [op |-> c.op, delta |-> e.generation - c.before, stateBefore |-> c.stateBefore,
   stateAfter |-> e.state, status |-> status, code |-> code, parts |-> parts]

PartType == [result : BOOLEAN, proof : BOOLEAN, disposition : Disposition, artifacts : BOOLEAN,
             verified : BOOLEAN, revoked : BOOLEAN, evidence : BOOLEAN, snapshot : BOOLEAN,
             metrics : BOOLEAN, reconciliation : BOOLEAN, loose : BOOLEAN]

\* What ReceiptsParse says of a receipt.
Answered(r) == Refused(r) \/ parseReceipt(r)

LEMMA SuccessCodes ==
  \A op \in Operation : /\ Success[op] \in {"PROVISIONED", "STARTED", "EXECUTED",
                             "SNAPSHOT_CREATED", "SNAPSHOT_RESTORED", "ARTIFACTS_EXPORTED",
                             "TEARDOWN_CONFIRMED"}
                        /\ op # "snapshot" => Success[op] # "SNAPSHOT_CREATED"
                        /\ op # "export" => Success[op] # "ARTIFACTS_EXPORTED"
                        /\ op # "teardown" => Success[op] # "TEARDOWN_CONFIRMED"
BY DEF Success, Operation

\* An attempt that was refused, or given up before its dispatch.
LEMMA RefusalParses ==
  ASSUME NEW c, NEW e, NEW status, NEW code,
         c.op \in Operation, c.before \in Nat, e.generation = c.before,
         \/ e.state = c.stateBefore /\ status = "BLOCKED"
              /\ code \in {"LATE_OPERATION_PENDING", "INVALID_STATE"}
         \/ e.state = c.stateBefore /\ status = "FAIL" /\ code \in PreflightCodes
         \/ e.state = c.stateBefore /\ status = "UNVERIFIED" /\ code \in UnverifiedCodes
         \/ e.state = "QUARANTINED" /\ status = "BLOCKED"
              /\ code \in {"TRUST_CALLBACK_TIMEOUT", "REGISTRY_CAPACITY_EXCEEDED"}
  PROVE  Answered(ReceiptOf(c, e, status, code, Bare))
<1> DEFINE r == ReceiptOf(c, e, status, code, Bare)
<1>1. /\ r.op = c.op /\ r.delta = 0 /\ r.stateBefore = c.stateBefore /\ r.stateAfter = e.state
      /\ r.status = status /\ r.code = code /\ r.parts = Bare
  BY DEF ReceiptOf
<1>2. ~Succeeds(r) /\ code \notin {"EXECUTED", "SNAPSHOT_CREATED", "TEARDOWN_CONFIRMED",
                                  "ARTIFACTS_EXPORTED", "COMMAND_EXIT_NONZERO"}
  BY <1>1, SuccessCodes DEF Succeeds, PreflightCodes, UnverifiedCodes
<1> HIDE DEF r
<1>3. StatusOK(r)
  <2>1. ~Bare.result
    BY DEF Bare
  <2>2. CASE status = "BLOCKED"
    BY <1>1, <1>2, <2>1, <2>2 DEF StatusOK, Unmoved
  <2>3. CASE status = "FAIL"
    BY <1>1, <1>2, <2>1, <2>3 DEF StatusOK, Unmoved
  <2>4. CASE status = "UNVERIFIED"
    BY <1>1, <1>2, <2>1, <2>4 DEF StatusOK, Unmoved
  <2> QED BY <2>2, <2>3, <2>4
<1>4. DispositionOK(r)
  BY <1>1, <1>2 DEF DispositionOK, Bare
<1>5. Answered(r)
  BY <1>1, <1>2, <1>3, <1>4 DEF semanticReceipt, validateReceiptFields, parseReceipt, Answered, Bare
<1> QED BY <1>5 DEF r

\* An attempt that went wrong at its dispatch or after.
LEMMA FailureParses ==
  ASSUME NEW c, NEW e, NEW code, NEW parts \in PartType,
         c.op \in Operation, c.before \in Nat, e.generation = c.before + 1,
         e.state = "QUARANTINED",
         code \in PostDispatchCodes \/ (code = "TRUST_CALLBACK_TIMEOUT" /\ parts.result),
         parts.metrics => c.op = "execute", parts.reconciliation => c.op = "teardown",
         ~parts.snapshot, parts.loose => c.op = "execute",
         LET r == ReceiptOf(c, e, "BLOCKED", code, parts) IN DispositionOK(r)
  PROVE  Answered(ReceiptOf(c, e, "BLOCKED", code, parts))
<1> DEFINE r == ReceiptOf(c, e, "BLOCKED", code, parts)
<1>1. /\ r.op = c.op /\ r.delta = 1 /\ r.stateBefore = c.stateBefore
      /\ r.stateAfter = "QUARANTINED" /\ r.status = "BLOCKED" /\ r.code = code
      /\ r.parts = parts /\ DispositionOK(r)
  BY DEF ReceiptOf
<1>2. ~Succeeds(r) /\ code \notin {"EXECUTED", "SNAPSHOT_CREATED", "TEARDOWN_CONFIRMED",
                                  "LATE_OPERATION_PENDING", "INVALID_STATE",
                                  "REGISTRY_CAPACITY_EXCEEDED"}
  BY <1>1, SuccessCodes DEF Succeeds, PostDispatchCodes
<1> HIDE DEF r
<1>3. StatusOK(r)
  BY <1>1, <1>2 DEF StatusOK, Unmoved, PostDispatchCodes, PartType
<1>4. Answered(r)
  BY <1>1, <1>2, <1>3
     DEF semanticReceipt, validateReceiptFields, parseReceipt, Refused, Answered, PartType
<1> QED BY <1>4 DEF r

\* An attempt that succeeded.
LEMMA SuccessParses ==
  ASSUME NEW c, NEW e, NEW parts \in PartType,
         c.op \in Operation, c.before \in Nat, e.generation = c.before + 1,
         c.stateBefore \in SuccessBefore(Success[c.op]), e.state = SuccessAfter(Success[c.op]),
         parts.result, parts.proof,
         parts.metrics <=> c.op = "execute", parts.snapshot <=> c.op = "snapshot",
         parts.reconciliation <=> c.op = "teardown",
         parts.loose => c.op \in {"execute", "snapshot"},
         LET r == ReceiptOf(c, e, "UNVERIFIED", Success[c.op], parts) IN DispositionOK(r)
  PROVE  Answered(ReceiptOf(c, e, "UNVERIFIED", Success[c.op], parts))
<1> DEFINE r == ReceiptOf(c, e, "UNVERIFIED", Success[c.op], parts)
<1>1. /\ r.op = c.op /\ r.delta = 1 /\ r.stateBefore = c.stateBefore
      /\ r.stateAfter = e.state /\ r.status = "UNVERIFIED" /\ r.code = Success[c.op]
      /\ r.parts = parts /\ DispositionOK(r)
  BY DEF ReceiptOf
<1>2. /\ Succeeds(r)
      /\ c.op # "execute" => Success[c.op] # "EXECUTED"
      /\ Success[c.op] = "SNAPSHOT_CREATED" <=> c.op = "snapshot"
      /\ c.op # "teardown" => Success[c.op] # "TEARDOWN_CONFIRMED"
  BY <1>1 DEF Succeeds, Success, Operation
<1> HIDE DEF r
<1>3. StatusOK(r)
  BY <1>1, <1>2 DEF StatusOK
<1>4. Answered(r)
  BY <1>1, <1>2, <1>3
     DEF semanticReceipt, validateReceiptFields, parseReceipt, Refused, Answered, PartType
<1> QED BY <1>4 DEF r

-----------------------------------------------------------------------------
(***************************************************************************)
(* The invariant.                                                           *)
(***************************************************************************)
EnvType == [state : State, generation : 0 .. 2 * MaxAttempts, sequence : 0 .. MaxAttempts,
            handle : BOOLEAN, challenges : 0 .. MaxReplay]

RevokeCodes == {"RESOURCE_QUOTA_EXCEEDED", "ARTIFACT_VERIFICATION_FAILED",
                "TRUST_CALLBACK_TIMEOUT"}

CurType == [op : Operation, at : Await, before : Nat, stateBefore : State,
            snap : 0 .. MaxSnapshots, code : RevokeCodes \cup {"none"}]

Labels   == Operation \cup Await
Paired   == {"verify", "revoke"}
Running  == [sequence : 1 .. MaxAttempts, label : Labels]
Snapshot == [generation : Nat, consumed : BOOLEAN, dispatched : Nat]

\* What an attempt remembers of its start, and what the environment is now.
AttemptInv ==
  cur # Idle =>
    /\ cur \in CurType /\ env.sequence >= 1
    /\ cur.op = "provision" => cur.stateBefore = "NEW"
    /\ cur.op = "start" => cur.stateBefore = "PROVISIONED"
    /\ cur.op \notin {"provision", "start", "teardown"} => cur.stateBefore = "RUNNING"
    /\ cur.at \in {"prove", "project", "call"} =>
         env.generation = cur.before /\ env.generation <= 2 * (env.sequence - 1)
         /\ env.state = cur.stateBefore
    /\ cur.at \in {"prove", "project"} => dispatched < env.sequence
    /\ cur.at \in {"verify", "revoke", "reconcile"} =>
         env.generation = cur.before + 1 /\ env.generation < 2 * env.sequence
    /\ cur.at = "project" => cur.op \in {"provision", "execute"}
    /\ cur.at \in {"verify", "revoke"} => cur.op = "export"
    /\ cur.at = "verify" => env.state = "RUNNING"
    /\ cur.at = "revoke" => cur.code \in RevokeCodes /\ env.state \in {"RUNNING", "QUARANTINED"}
    /\ cur.at = "reconcile" => cur.op = "teardown" /\ env.state = cur.stateBefore
    /\ \A x \in running : x.label \in Paired

\* Every dispatch of a call has taken the generation one further, or will: while no attempt
\* has been given up, for one whose receipt cannot be hashed takes it two further.
Given == {"QUARANTINED", "TORN_DOWN"}
CountInv == /\ env.generation <= 2 * env.sequence /\ dispatched <= env.sequence
            /\ env.state \notin Given =>
                 dispatched = env.generation + IF cur.at = "call" THEN 1 ELSE 0

\* A callback that still runs is late, or one of a pair.
LateInv == \A x \in running :
             /\ x.sequence <= env.sequence
             /\ x.sequence \in late \/ x.label \in Paired
             /\ \A y \in running : x.sequence = y.sequence /\ x # y => x.label \in Paired
             /\ cur # Idle /\ x.sequence = env.sequence => cur.at = "revoke"

SnapInv == /\ \A i \in DOMAIN snapshots : snapshots[i].dispatched = snapshots[i].generation
           /\ \A i \in tried : i \in DOMAIN snapshots /\ snapshots[i].consumed

EnvironmentInv == /\ TypeOK /\ AttemptInv /\ CountInv /\ LateInv /\ SnapInv
                  /\ ReceiptsParse /\ TornDownIsGone

LEMMA EnvironmentInit == Init => EnvironmentInv
<1> SUFFICES ASSUME Init PROVE EnvironmentInv
  OBVIOUS
<1>1. TypeOK
  <2>1. MaxAttempts \in Nat /\ MaxReplay \in Nat /\ MaxSnapshots \in Nat
    BY BoundsAssumption
  <2>2. /\ snapshots = <<>> /\ Len(<<>>) = 0
        /\ <<>> \in Seq([generation : Nat, consumed : BOOLEAN, dispatched : Nat])
    BY DEF Init
  <2>3. Len(snapshots) <= MaxSnapshots
    BY <2>1, <2>2
  <2>4. /\ env \in [state : State, generation : 0 .. 2 * MaxAttempts, sequence : 0 .. MaxAttempts,
                    handle : BOOLEAN, challenges : 0 .. MaxReplay]
        /\ env.state \notin {"PROVISIONED", "RUNNING"} /\ dispatched \in 0 .. MaxAttempts
    BY <2>1 DEF Init, State
  <2> QED BY <2>2, <2>3, <2>4 DEF Init, TypeOK
<1>2. CountInv
  BY DEF Init, CountInv, Idle
<1> QED BY <1>1, <1>2 DEF Init, EnvironmentInv, AttemptInv, LateInv, SnapInv, ReceiptsParse,
   TornDownIsGone

\* The counters are numbers.
LEMMA Counters ==
  /\ MaxAttempts \in Nat
  /\ \A e \in EnvType : e.generation \in Nat /\ e.sequence \in Nat /\ e.sequence <= MaxAttempts
  /\ TypeOK => env \in EnvType /\ dispatched \in Nat
BY BoundsAssumption DEF EnvType, TypeOK

\* The end of an attempt.
LEMMA SettleKeeps ==
  ASSUME EnvironmentInv, cur # Idle,
         NEW e \in EnvType, NEW status, NEW code, NEW parts,
         Settle(cur, e, status, code, parts),
         e.sequence = env.sequence, e.generation <= 2 * e.sequence, dispatched' = dispatched,
         e.state \in Given \/ dispatched = e.generation,
         e.state \in {"PROVISIONED", "RUNNING"} => e.handle,
         Answered(ReceiptOf(cur, e, status, code, parts)),
         \/ UNCHANGED callbacks
         \/ /\ \E label \in Labels : TimesOut(label) /\ (cur.at = "revoke" => label = "revoke")
            /\ e.state # "TORN_DOWN",
         UNCHANGED <<resource, tried>>,
         e.state = "TORN_DOWN" => ~resource,
         snapshots' \in Seq(Snapshot), Len(snapshots') <= MaxSnapshots, SnapInv'
  PROVE  EnvironmentInv'
<1>1. /\ TypeOK /\ AttemptInv /\ CountInv /\ LateInv
      /\ env' = e /\ cur' = Idle /\ receipt' = ReceiptOf(cur, e, status, code, parts)
      /\ cur \in CurType /\ \A x \in running : x.label \in Paired
      /\ running \subseteq Running /\ late \subseteq 1 .. MaxAttempts
  BY DEF EnvironmentInv, Settle, ReceiptOf, AttemptInv, TypeOK, Running, Labels
<1>2. env.sequence \in 1 .. MaxAttempts
  BY <1>1 DEF AttemptInv, TypeOK
<1>3. late' \subseteq 1 .. MaxAttempts /\ running' \subseteq Running
  BY <1>1, <1>2 DEF TimesOut, callbacks, Running
<1>4. TypeOK'
  <2>1. dispatched' \in 0 .. MaxAttempts
    BY <1>1 DEF TypeOK
  <2>2. receipt'.op \in Operation
    BY <1>1 DEF ReceiptOf, CurType
  <2> QED BY <1>1, <1>3, <2>1, <2>2 DEF TypeOK, EnvType, Snapshot, Running, Labels
<1>5. CountInv'
  BY <1>1 DEF CountInv, Idle, EnvType
<1>6. LateInv'
  <2>1. CASE UNCHANGED callbacks
    BY <1>1, <2>1 DEF LateInv, callbacks
  <2>2. ASSUME NEW label \in Labels, TimesOut(label), cur.at = "revoke" => label = "revoke"
        PROVE  LateInv'
    <3> DEFINE n == [sequence |-> env.sequence, label |-> label]
    <3>1. running' = running \cup {n} /\ late' = late \cup {env.sequence}
      BY <2>2 DEF TimesOut
    <3>2. n.sequence = env.sequence /\ n.label = label
      OBVIOUS
    <3>3. \A x \in running : x.sequence = env.sequence => label \in Paired
      BY <1>1, <2>2 DEF LateInv, Paired
    <3> HIDE DEF n
    <3>4. \A x \in running' : /\ x.sequence <= env'.sequence
                              /\ x.sequence \in late' \/ x.label \in Paired
      BY <1>1, <1>2, <3>1, <3>2 DEF LateInv
    <3>5. ASSUME NEW x \in running', NEW y \in running', x.sequence = y.sequence, x # y
          PROVE  x.label \in Paired
      BY <1>1, <3>1, <3>2, <3>3, <3>5
    <3> QED BY <1>1, <3>4, <3>5 DEF LateInv
  <2> QED BY <2>1, <2>2
<1>7. ReceiptsParse'
  BY <1>1 DEF ReceiptsParse, Answered
<1>8. TornDownIsGone'
  BY <1>1 DEF TornDownIsGone, Paired, callbacks
<1>9. AttemptInv'
  BY <1>1 DEF AttemptInv
<1> QED BY <1>4, <1>5, <1>6, <1>7, <1>8, <1>9 DEF EnvironmentInv

\* An attempt goes on.
LEMMA ContinueKeeps ==
  ASSUME EnvironmentInv, cur # Idle,
         cur' # Idle, AttemptInv', CountInv', dispatched' \in Nat, env' \in EnvType,
         env'.sequence = env.sequence,
         env'.state \in {"PROVISIONED", "RUNNING"} => env'.handle,
         env'.state = "TORN_DOWN" => env.state = "TORN_DOWN",
         UNCHANGED <<snapshots, receipt, resource, tried>>,
         \/ UNCHANGED callbacks /\ (cur.at = "revoke" => cur'.at = "revoke")
         \/ TimesOut("verify") /\ cur.at = "verify" /\ cur'.at = "revoke"
            /\ env'.state # "TORN_DOWN"
  PROVE  EnvironmentInv'
<1>1. /\ TypeOK /\ AttemptInv /\ CountInv /\ LateInv /\ SnapInv /\ ReceiptsParse /\ TornDownIsGone
      /\ cur' \in CurType
  BY DEF EnvironmentInv, AttemptInv
<1>2. env.sequence \in 1 .. MaxAttempts
  BY <1>1 DEF AttemptInv, TypeOK
<1>3. dispatched' \in 0 .. MaxAttempts
  BY BoundsAssumption DEF CountInv, EnvType
<1>4. TypeOK'
  <2>1. late' \subseteq 1 .. MaxAttempts
    BY <1>1, <1>2 DEF TimesOut, callbacks, TypeOK
  <2>2. running' \subseteq [sequence : 1 .. MaxAttempts, label : Operation \cup Await]
    BY <1>1, <1>2 DEF TimesOut, callbacks, TypeOK, Await
  <2> QED BY <1>1, <1>3, <2>1, <2>2 DEF TypeOK, EnvType, CurType
<1>5. LateInv'
  <2>1. CASE UNCHANGED callbacks /\ (cur.at = "revoke" => cur'.at = "revoke")
    BY <1>1, <2>1 DEF LateInv, callbacks
  <2>2. CASE TimesOut("verify") /\ cur.at = "verify" /\ cur'.at = "revoke"
    <3> DEFINE n == [sequence |-> env.sequence, label |-> "verify"]
    <3>1. running' = running \cup {n} /\ late' = late \cup {env.sequence}
      BY <2>2 DEF TimesOut
    <3>2. n.sequence = env.sequence /\ n.label = "verify"
      OBVIOUS
    <3> HIDE DEF n
    <3>3. \A x \in running' : x.sequence <= env'.sequence /\ x.label \in Paired
      BY <1>1, <1>2, <3>1, <3>2 DEF LateInv, AttemptInv, Paired
    <3> QED BY <2>2, <3>3 DEF LateInv
  <2> QED BY <2>1, <2>2
<1>6. SnapInv' /\ ReceiptsParse'
  BY <1>1 DEF SnapInv, ReceiptsParse
<1>7. TornDownIsGone'
  BY <1>1 DEF TornDownIsGone, callbacks
<1> QED BY <1>4, <1>5, <1>6, <1>7 DEF EnvironmentInv

-----------------------------------------------------------------------------
(***************************************************************************)
(* The start of an attempt.                                                 *)
(***************************************************************************)
Started(op) == [Idle EXCEPT !.op = op, !.before = env.generation, !.stateBefore = env.state]
Counted     == [env EXCEPT !.sequence = @ + 1]

Beginning == [op : Operation, at : {"idle"}, before : Nat, stateBefore : State,
              snap : 0 .. MaxSnapshots, code : {"none"}]

LEMMA StartFacts ==
  ASSUME EnvironmentInv, env.sequence < MaxAttempts, NEW op \in Operation
  PROVE  /\ Started(op) \in Beginning /\ Started(op).op = op
         /\ Started(op).before = env.generation /\ Started(op).stateBefore = env.state
         /\ Counted \in EnvType /\ Counted.sequence = env.sequence + 1
         /\ Counted.generation = env.generation /\ Counted.state = env.state
         /\ Counted.handle = env.handle /\ Counted.challenges = env.challenges
<1>1. env \in EnvType /\ MaxSnapshots \in Nat /\ MaxAttempts \in Nat
  BY BoundsAssumption DEF EnvironmentInv, TypeOK, EnvType
<1>2. /\ env.state \in State /\ env.generation \in Nat
      /\ env.sequence + 1 \in 0 .. MaxAttempts
  BY <1>1 DEF EnvType
<1>3. 0 \in 0 .. MaxSnapshots
  BY <1>1
<1> QED BY <1>1, <1>2, <1>3 DEF Started, Counted, Beginning, EnvType, Idle

\* An attempt that is refused.
LEMMA RefusedKeeps ==
  ASSUME EnvironmentInv, cur = Idle, NEW c \in Beginning, NEW e \in EnvType,
         NEW status, NEW code,
         Settle(c, e, status, code, Bare),
         c.before = env.generation, c.stateBefore = env.state,
         e.generation = env.generation, e.sequence = env.sequence + 1, e.handle = env.handle,
         e.state \in {env.state, "QUARANTINED"},
         Answered(ReceiptOf(c, e, status, code, Bare))
           \/ (c.op = "execute" /\ code = "RESOURCE_QUOTA_EXCEEDED" /\ status = "FAIL"),
         UNCHANGED <<callbacks, resource, dispatched>>, tried' \subseteq 1 .. MaxSnapshots,
         snapshots' \in Seq(Snapshot), Len(snapshots') <= MaxSnapshots, SnapInv'
  PROVE  EnvironmentInv'
<1>1. /\ TypeOK /\ CountInv /\ LateInv /\ ReceiptsParse /\ TornDownIsGone
      /\ env' = e /\ cur' = Idle /\ receipt' = ReceiptOf(c, e, status, code, Bare)
      /\ env \in EnvType
  BY DEF EnvironmentInv, Settle, ReceiptOf, TypeOK, EnvType
<1>2. receipt'.op = c.op /\ receipt'.code = code /\ receipt'.status = status
  BY <1>1 DEF ReceiptOf
<1>3. TypeOK'
  BY <1>1, <1>2 DEF TypeOK, EnvType, Snapshot, Beginning, callbacks
<1>4. CountInv'
  <2>1. /\ env.generation \in Nat /\ env.sequence \in Nat /\ dispatched \in Nat
        /\ env.generation <= 2 * env.sequence /\ dispatched <= env.sequence
    BY <1>1, Counters DEF CountInv
  <2> QED BY <1>1, <2>1 DEF CountInv, Idle, Given
<1>5. LateInv'
  <2>1. \A x \in running : x.sequence \in Nat
    BY <1>1 DEF TypeOK
  <2> QED BY <1>1, <2>1 DEF LateInv, callbacks, EnvType
<1>6. ReceiptsParse'
  BY <1>1, <1>2 DEF ReceiptsParse, Answered, Refused
<1>7. TornDownIsGone' /\ AttemptInv'
  BY <1>1 DEF TornDownIsGone, AttemptInv, callbacks
<1> QED BY <1>3, <1>4, <1>5, <1>6, <1>7 DEF EnvironmentInv

\* An attempt that reaches the trust service.
LEMMA AskKeeps ==
  ASSUME EnvironmentInv, cur = Idle, NEW op \in Operation, NEW c \in Beginning,
         env.sequence < MaxAttempts, ~lateBlocked(op), Allowed(op), Ask(c, Counted),
         c.op = op, c.before = env.generation, c.stateBefore = env.state,
         UNCHANGED <<callbacks, resource, dispatched>>, tried' \subseteq 1 .. MaxSnapshots,
         snapshots' \in Seq(Snapshot), Len(snapshots') <= MaxSnapshots, SnapInv'
  PROVE  EnvironmentInv'
<1>1. /\ Counted \in EnvType /\ Counted.sequence = env.sequence + 1
      /\ Counted.generation = env.generation /\ Counted.state = env.state
      /\ Counted.handle = env.handle /\ Counted.challenges = env.challenges
      /\ c.op \in Operation /\ c.before \in Nat
  BY StartFacts DEF Beginning
<1>2. CASE Settle(c, Counted, "UNVERIFIED", "HOST_CAPABILITY_INVALID", Bare)
  <2>1. Answered(ReceiptOf(c, Counted, "UNVERIFIED", "HOST_CAPABILITY_INVALID", Bare))
    BY <1>1, RefusalParses DEF UnverifiedCodes
  <2> QED BY <1>1, <1>2, <2>1, RefusedKeeps
<1>3. CASE Settle(c, quarantine(Counted), "BLOCKED", "REGISTRY_CAPACITY_EXCEEDED", Bare)
  <2> DEFINE e == quarantine(Counted)
  <2>1. /\ e \in EnvType /\ e.sequence = Counted.sequence /\ e.generation = Counted.generation
        /\ e.state = "QUARANTINED" /\ e.handle = Counted.handle
    BY <1>1 DEF quarantine, EnvType, State
  <2>2. Answered(ReceiptOf(c, e, "BLOCKED", "REGISTRY_CAPACITY_EXCEEDED", Bare))
    BY <1>1, <2>1, RefusalParses
  <2>3. Settle(c, e, "BLOCKED", "REGISTRY_CAPACITY_EXCEEDED", Bare)
    BY <1>3
  <2> HIDE DEF e
  <2> QED BY <1>1, <2>1, <2>2, <2>3, RefusedKeeps
<1>4. CASE /\ Counted.challenges < MaxReplay
           /\ env' = [Counted EXCEPT !.challenges = @ + 1]
           /\ cur' = [c EXCEPT !.at = "prove"] /\ UNCHANGED receipt
  <2>1. /\ TypeOK /\ CountInv /\ LateInv /\ ReceiptsParse /\ TornDownIsGone
        /\ late = {} /\ env \in EnvType /\ MaxReplay \in Nat
    BY BoundsAssumption DEF EnvironmentInv, lateBlocked, TypeOK, EnvType
  <2>2. /\ env' \in EnvType /\ env'.sequence = env.sequence + 1
        /\ env'.generation = env.generation /\ env'.state = env.state
        /\ env'.handle = env.handle
    BY <1>1, <1>4, <2>1 DEF EnvType
  <2>3. /\ cur' \in CurType /\ cur'.op = op /\ cur'.at = "prove"
        /\ cur'.before = env.generation /\ cur'.stateBefore = env.state
    BY <1>4 DEF Beginning, CurType, Await
  <2>4. cur' # Idle
    BY <2>3 DEF Idle
  <2>5. \A x \in running' : x.label \in Paired /\ x.sequence \in Nat
    BY <2>1 DEF LateInv, callbacks, TypeOK
  <2>6. TypeOK'
    <3>1. /\ cur'.op \in Operation /\ cur'.at \in Await
          /\ env'.state \in {"PROVISIONED", "RUNNING"} => env'.handle
      BY <2>1, <2>2, <2>3 DEF CurType, TypeOK
    <3>2. UNCHANGED <<late, running, resource, dispatched, receipt>>
      BY <1>4 DEF callbacks
    <3> QED BY <2>1, <2>2, <3>1, <3>2 DEF TypeOK, EnvType, Snapshot
  <2>7. CountInv'
    <3>1. /\ env.generation \in Nat /\ env.sequence \in Nat /\ dispatched \in Nat
          /\ env.generation <= 2 * env.sequence /\ dispatched <= env.sequence
      BY <2>1, Counters DEF CountInv
    <3> QED BY <2>1, <2>2, <2>3, <3>1 DEF CountInv, Idle
  <2>8. AttemptInv'
    <3>1. /\ op = "provision" => env.state = "NEW"
          /\ op = "start" => env.state = "PROVISIONED"
          /\ op \notin {"provision", "start", "teardown"} => env.state = "RUNNING"
      BY DEF Allowed, Operation
    <3>2. /\ env.generation <= 2 * (env'.sequence - 1) /\ env'.sequence >= 1
          /\ dispatched' < env'.sequence
      BY <2>1, <2>2, Counters DEF CountInv
    <3> QED BY <2>2, <2>3, <2>5, <3>1, <3>2 DEF AttemptInv
  <2>9. LateInv'
    BY <2>1, <2>2, <2>3, <2>5 DEF LateInv, callbacks, EnvType
  <2>10. ReceiptsParse' /\ TornDownIsGone'
    BY <1>4, <2>1, <2>2 DEF ReceiptsParse, TornDownIsGone, callbacks
  <2> QED BY <2>6, <2>7, <2>8, <2>9, <2>10 DEF EnvironmentInv
<1>5. Counted.challenges >= MaxReplay \/ Counted.challenges < MaxReplay
  BY <1>1, BoundsAssumption DEF EnvType
<1> QED BY <1>2, <1>3, <1>4, <1>5 DEF Ask

LEMMA AttemptKeeps ==
  ASSUME EnvironmentInv, NEW op \in Operation, Attempt(op)
  PROVE  EnvironmentInv'
<1> DEFINE c == Started(op)
<1>1. /\ cur = Idle /\ env.sequence < MaxAttempts /\ UNCHANGED <<callbacks, resource, dispatched>>
  BY DEF Attempt
<1>2. /\ c \in Beginning /\ c.op = op /\ c.before = env.generation /\ c.stateBefore = env.state
      /\ Counted \in EnvType /\ Counted.sequence = env.sequence + 1
      /\ Counted.generation = env.generation /\ Counted.state = env.state
      /\ Counted.handle = env.handle /\ Counted.challenges = env.challenges
      /\ c.before \in Nat
  BY <1>1, StartFacts DEF Beginning
<1>3. /\ snapshots \in Seq(Snapshot) /\ Len(snapshots) <= MaxSnapshots /\ SnapInv
      /\ tried \subseteq 1 .. MaxSnapshots /\ MaxSnapshots \in Nat
  BY BoundsAssumption DEF EnvironmentInv, TypeOK, Snapshot
<1>4. UNCHANGED <<snapshots, tried>> => SnapInv'
  BY <1>3 DEF SnapInv
<1>5. \/ \E status \in {"BLOCKED", "FAIL", "UNVERIFIED"}, code \in
            {"LATE_OPERATION_PENDING", "INVALID_STATE", "VERIFIER_MISSING"} :
           /\ Settle(c, Counted, status, code, Bare) /\ UNCHANGED <<snapshots, tried>>
           /\ code = "LATE_OPERATION_PENDING" => status = "BLOCKED"
           /\ code = "INVALID_STATE" => status \in {"BLOCKED", "FAIL"}
           /\ code = "VERIFIER_MISSING" => status = "UNVERIFIED"
      \/ \E code \in InputFailures(op) : Settle(c, Counted, "FAIL", code, Bare)
           /\ UNCHANGED <<snapshots, tried>>
      \/ ~lateBlocked(op) /\ Allowed(op) /\ Ask(c, Counted) /\ UNCHANGED <<snapshots, tried>>
      \/ /\ ~lateBlocked(op) /\ Allowed(op) /\ op = "restore"
         /\ \E s \in 0 .. Len(snapshots) : \E code \in snapshotFailure(s) :
              IF code # "none"
              THEN Settle(c, Counted, "FAIL", code, Bare) /\ UNCHANGED <<snapshots, tried>>
              ELSE /\ snapshots' = [snapshots EXCEPT ![s].consumed = TRUE]
                   /\ tried' = tried \cup {s}
                   /\ Ask([c EXCEPT !.snap = s], Counted)
  BY DEF Attempt, Started, Counted
<1> HIDE DEF c
<1>6. ASSUME NEW status \in {"BLOCKED", "FAIL", "UNVERIFIED"}, NEW code,
             Settle(c, Counted, status, code, Bare), UNCHANGED <<snapshots, tried>>,
             \/ status = "BLOCKED" /\ code \in {"LATE_OPERATION_PENDING", "INVALID_STATE"}
             \/ status = "FAIL" /\ code \in PreflightCodes
             \/ status = "UNVERIFIED" /\ code \in UnverifiedCodes
      PROVE  EnvironmentInv'
  <2>1. Answered(ReceiptOf(c, Counted, status, code, Bare))
    BY <1>2, <1>6, RefusalParses
  <2> QED BY <1>1, <1>2, <1>3, <1>4, <1>6, <2>1, RefusedKeeps
<1>7. ASSUME NEW code \in InputFailures(op), Settle(c, Counted, "FAIL", code, Bare),
             UNCHANGED <<snapshots, tried>>
      PROVE  EnvironmentInv'
  <2>1. CASE code \in PreflightCodes
    BY <1>6, <1>7, <2>1
  <2>2. CASE code \notin PreflightCodes
    <3>1. c.op = "execute" /\ code = "RESOURCE_QUOTA_EXCEEDED"
      BY <1>2, <1>7, <2>2 DEF InputFailures, PreflightCodes
    <3> QED BY <1>1, <1>2, <1>3, <1>4, <1>7, <3>1, RefusedKeeps
  <2> QED BY <2>1, <2>2
<1>8. CASE ~lateBlocked(op) /\ Allowed(op) /\ Ask(c, Counted) /\ UNCHANGED <<snapshots, tried>>
  BY <1>1, <1>2, <1>3, <1>4, <1>8, AskKeeps
<1>9. ASSUME ~lateBlocked(op), Allowed(op),
             NEW s \in 0 .. Len(snapshots), NEW code \in snapshotFailure(s),
             IF code # "none"
             THEN Settle(c, Counted, "FAIL", code, Bare) /\ UNCHANGED <<snapshots, tried>>
             ELSE /\ snapshots' = [snapshots EXCEPT ![s].consumed = TRUE]
                  /\ tried' = tried \cup {s}
                  /\ Ask([c EXCEPT !.snap = s], Counted)
      PROVE  EnvironmentInv'
  <2>1. CASE code # "none"
    <3>1. code \in PreflightCodes
      BY <1>9, <2>1 DEF snapshotFailure, PreflightCodes
    <3> QED BY <1>6, <1>9, <2>1, <3>1
  <2>2. CASE code = "none"
    <3> DEFINE b == [c EXCEPT !.snap = s]
    <3>1. s \in 1 .. Len(snapshots) /\ s \in 1 .. MaxSnapshots /\ s \in 0 .. MaxSnapshots
      BY <1>3, <1>9, <2>2 DEF snapshotFailure
    <3>2. /\ b \in Beginning /\ b.op = op /\ b.before = env.generation
          /\ b.stateBefore = env.state /\ Ask(b, Counted)
      BY <1>2, <1>9, <2>2, <3>1 DEF Beginning
    <3>3. /\ snapshots' = [snapshots EXCEPT ![s] = [snapshots[s] EXCEPT !.consumed = TRUE]]
          /\ tried' = tried \cup {s} /\ snapshots[s] \in Snapshot
      BY <1>3, <1>9, <2>2, <3>1
    <3>4. /\ snapshots' \in Seq(Snapshot) /\ Len(snapshots') = Len(snapshots)
          /\ DOMAIN snapshots' = DOMAIN snapshots
      <4> DEFINE v == [snapshots[s] EXCEPT !.consumed = TRUE]
      <4>1. v \in Snapshot /\ snapshots' = [snapshots EXCEPT ![s] = v]
        BY <3>3 DEF Snapshot
      <4> HIDE DEF v
      <4> QED BY <1>3, <3>1, <4>1
    <3>5. SnapInv'
      BY <1>3, <3>1, <3>3, <3>4 DEF SnapInv, Snapshot
    <3>6. tried' \subseteq 1 .. MaxSnapshots
      BY <1>3, <3>1, <3>3
    <3> HIDE DEF b
    <3> QED BY <1>1, <1>3, <1>9, <3>2, <3>4, <3>5, <3>6, AskKeeps
  <2> QED BY <2>1, <2>2
<1> QED BY <1>5, <1>6, <1>7, <1>8, <1>9 DEF PreflightCodes, UnverifiedCodes

-----------------------------------------------------------------------------
(***************************************************************************)
(* The trust service and the backend.                                       *)
(***************************************************************************)
LEMMA RunFacts ==
  ASSUME EnvironmentInv, cur.at \in Await
  PROVE  /\ cur # Idle /\ cur \in CurType /\ env \in EnvType /\ cur.before \in Nat
         /\ env.generation \in Nat /\ env.generation <= 2 * env.sequence
         /\ snapshots \in Seq(Snapshot) /\ Len(snapshots) <= MaxSnapshots /\ SnapInv
         /\ env.state \in {"PROVISIONED", "RUNNING"} => env.handle
         /\ env.state = "TORN_DOWN" => ~resource
         /\ UNCHANGED <<snapshots, tried>> => SnapInv'
<1>1. cur # Idle
  BY DEF Idle, Await
<1> QED BY <1>1 DEF EnvironmentInv, AttemptInv, TypeOK, EnvType, CurType, Snapshot, CountInv,
   SnapInv, TornDownIsGone

LEMMA QuarantineFacts ==
  ASSUME NEW e \in EnvType
  PROVE  /\ quarantine(e) \in EnvType /\ quarantine(e).state = "QUARANTINED"
         /\ quarantine(e).sequence = e.sequence /\ quarantine(e).generation = e.generation
         /\ quarantine(e).handle = e.handle
BY DEF quarantine, EnvType, State

LEMMA AdvancedFacts ==
  ASSUME EnvironmentInv, cur.at = "call"
  PROVE  /\ Advanced \in EnvType /\ Advanced.state = env.state /\ Advanced.handle = env.handle
         /\ Advanced.sequence = env.sequence /\ Advanced.generation = env.generation + 1
         /\ Advanced.generation = cur.before + 1
         /\ Advanced.generation < 2 * Advanced.sequence
         /\ env.state \notin Given => dispatched = Advanced.generation
         /\ env.state = cur.stateBefore
<1>1. /\ env \in EnvType /\ cur # Idle /\ AttemptInv /\ CountInv /\ MaxAttempts \in Nat
  BY RunFacts, BoundsAssumption DEF Await, EnvironmentInv
<1>2. /\ env.generation = cur.before /\ env.generation <= 2 * (env.sequence - 1)
      /\ env.state = cur.stateBefore
  BY <1>1 DEF AttemptInv
<1>3. env.generation \in Nat /\ env.generation + 1 \in 0 .. 2 * MaxAttempts
  BY <1>1, <1>2 DEF EnvType
<1> QED BY <1>1, <1>2, <1>3 DEF Advanced, EnvType, CountInv

\* Before the dispatch: the answer refuses the attempt, or does not come.
LEMMA EarlyEnds ==
  ASSUME EnvironmentInv, cur.at \in {"prove", "project"},
         UNCHANGED <<snapshots, resource, tried, dispatched>>, NEW label \in Labels,
         \/ /\ \/ Settle(cur, env, "UNVERIFIED", "ATTESTATION_UNVERIFIED", Bare)
               \/ Settle(cur, env, "UNVERIFIED", "PROJECTION_UNVERIFIED", Bare)
               \/ Settle(cur, env, "FAIL", "EGRESS_PRIVATE_DESTINATION", Bare)
            /\ UNCHANGED callbacks
         \/ TrustTimesOut(label)
  PROVE  EnvironmentInv'
<1>1. /\ cur # Idle /\ cur \in CurType /\ env \in EnvType /\ cur.before \in Nat
      /\ env.generation <= 2 * env.sequence
      /\ snapshots \in Seq(Snapshot) /\ Len(snapshots) <= MaxSnapshots /\ SnapInv'
      /\ env.state \in {"PROVISIONED", "RUNNING"} => env.handle
      /\ env.state = "TORN_DOWN" => ~resource
  BY RunFacts DEF Await
<1>2. /\ env.generation = cur.before /\ env.state = cur.stateBefore
      /\ env.state \in Given \/ dispatched = env.generation
      /\ cur.op \in Operation
  BY <1>1 DEF EnvironmentInv, AttemptInv, CountInv, CurType, EnvType
<1>3. ASSUME NEW status \in {"UNVERIFIED", "FAIL"}, NEW code,
             Settle(cur, env, status, code, Bare), UNCHANGED callbacks,
             \/ status = "UNVERIFIED" /\ code \in UnverifiedCodes
             \/ status = "FAIL" /\ code \in PreflightCodes
      PROVE  EnvironmentInv'
  <2>1. Answered(ReceiptOf(cur, env, status, code, Bare))
    BY <1>1, <1>2, <1>3, RefusalParses
  <2> QED BY <1>1, <1>2, <1>3, <2>1, SettleKeeps
<1>4. CASE TrustTimesOut(label)
  <2> DEFINE e == quarantine(env)
  <2>1. /\ e \in EnvType /\ e.sequence = env.sequence /\ e.generation = env.generation
        /\ e.state = "QUARANTINED"
    BY <1>1, QuarantineFacts
  <2>2. Settle(cur, e, "BLOCKED", "TRUST_CALLBACK_TIMEOUT", Bare) /\ TimesOut(label)
    BY <1>4 DEF TrustTimesOut
  <2> HIDE DEF e
  <2>3. Answered(ReceiptOf(cur, e, "BLOCKED", "TRUST_CALLBACK_TIMEOUT", Bare))
    BY <1>1, <1>2, <2>1, RefusalParses
  <2>4. e.state \in Given
    BY <2>1 DEF Given
  <2> QED BY <1>1, <1>2, <2>1, <2>2, <2>3, <2>4, SettleKeeps
<1> QED BY <1>3, <1>4 DEF UnverifiedCodes, PreflightCodes

\* An attempt whose next callback is awaited.
LEMMA NextAwait ==
  ASSUME EnvironmentInv, cur.at \in {"prove", "project"}, NEW at \in {"project", "call"},
         Continue(at), at = "project" => cur.op \in {"provision", "execute"},
         dispatched' = dispatched + (IF at = "call" THEN 1 ELSE 0),
         UNCHANGED <<snapshots, resource, tried>>, UNCHANGED callbacks
  PROVE  EnvironmentInv'
<1>1. /\ cur # Idle /\ cur \in CurType /\ env \in EnvType /\ AttemptInv /\ CountInv
      /\ env.state \in {"PROVISIONED", "RUNNING"} => env.handle
  BY RunFacts DEF Await, EnvironmentInv
<1>2. /\ cur' = [cur EXCEPT !.at = at] /\ env' = env /\ receipt' = receipt
  BY DEF Continue
<1>3. /\ cur' \in CurType /\ cur'.at = at /\ cur'.op = cur.op /\ cur'.before = cur.before
      /\ cur'.stateBefore = cur.stateBefore
  BY <1>1, <1>2 DEF CurType, Await
<1>4. cur' # Idle
  BY <1>3 DEF Idle
<1>5. AttemptInv'
  <2>1. at = "project" => dispatched' < env'.sequence
    BY <1>1, <1>2, Counters DEF AttemptInv, EnvironmentInv
  <2> QED BY <1>1, <1>2, <1>3, <2>1 DEF AttemptInv, callbacks
<1>6. CountInv'
  <2>1. /\ dispatched \in Nat /\ env.sequence \in Nat /\ dispatched < env.sequence
    BY <1>1, Counters DEF AttemptInv, EnvironmentInv
  <2>2. /\ env'.generation <= 2 * env'.sequence /\ dispatched' <= env'.sequence
        /\ env.state \notin Given => dispatched = env.generation
        /\ env.generation \in Nat
    BY <1>1, <1>2, <2>1, Counters DEF CountInv
  <2>3. CASE at = "call"
    BY <1>2, <1>3, <2>1, <2>2, <2>3 DEF CountInv
  <2>4. CASE at = "project"
    BY <1>2, <1>3, <2>1, <2>2, <2>4 DEF CountInv
  <2> QED BY <2>3, <2>4
<1>7. dispatched' \in Nat
  BY DEF EnvironmentInv, TypeOK
<1> QED BY <1>1, <1>2, <1>4, <1>5, <1>6, <1>7, ContinueKeeps

LEMMA TrustSteps ==
  ASSUME EnvironmentInv, trustedProof \/ projectionProof
  PROVE  EnvironmentInv'
<1>1. cur.at \in {"prove", "project"} /\ UNCHANGED <<snapshots, resource, tried>>
  BY DEF trustedProof, projectionProof
<1>2. "prove" \in Labels /\ "project" \in Labels
  BY DEF Labels, Await
<1>3. \/ /\ Continue("project") /\ cur.op \in {"provision", "execute"}
         /\ UNCHANGED callbacks /\ dispatched' = dispatched
      \/ Continue("call") /\ UNCHANGED callbacks /\ dispatched' = dispatched + 1
      \/ /\ dispatched' = dispatched
         /\ \/ /\ \/ Settle(cur, env, "UNVERIFIED", "ATTESTATION_UNVERIFIED", Bare)
                  \/ Settle(cur, env, "UNVERIFIED", "PROJECTION_UNVERIFIED", Bare)
                  \/ Settle(cur, env, "FAIL", "EGRESS_PRIVATE_DESTINATION", Bare)
               /\ UNCHANGED callbacks
            \/ \E label \in {"prove", "project"} : TrustTimesOut(label)
  BY DEF trustedProof, projectionProof, Dispatch
<1>4. CASE /\ Continue("project") /\ cur.op \in {"provision", "execute"}
           /\ UNCHANGED callbacks /\ dispatched' = dispatched
  <2>1. dispatched \in Nat
    BY DEF EnvironmentInv, TypeOK
  <2> QED BY <1>1, <1>4, <2>1, NextAwait
<1>5. CASE Continue("call") /\ UNCHANGED callbacks /\ dispatched' = dispatched + 1
  BY <1>1, <1>5, NextAwait
<1> QED BY <1>1, <1>2, <1>3, <1>4, <1>5, EarlyEnds

-----------------------------------------------------------------------------
\* An attempt that ends quarantined after its dispatch.
LEMMA QuarantineKeeps ==
  ASSUME EnvironmentInv, cur.at \in {"call", "verify", "revoke", "reconcile"},
         NEW e \in EnvType, e.sequence = env.sequence, e.generation = cur.before + 1,
         NEW code, NEW parts \in PartType,
         Settle(cur, quarantine(e), "BLOCKED", code, parts), UNCHANGED history,
         \/ UNCHANGED callbacks
         \/ \E label \in Labels : TimesOut(label) /\ (cur.at = "revoke" => label = "revoke"),
         UNCHANGED <<snapshots, resource>>,
         \/ cur.op = "snapshot" /\ code = "REGISTRY_CAPACITY_EXCEEDED"
         \/ /\ code \in PostDispatchCodes \/ (code = "TRUST_CALLBACK_TIMEOUT" /\ parts.result)
            /\ parts.metrics => cur.op = "execute"
            /\ parts.reconciliation => cur.op = "teardown"
            /\ ~parts.snapshot /\ (parts.loose => cur.op = "execute")
            /\ LET r == ReceiptOf(cur, quarantine(e), "BLOCKED", code, parts)
               IN  DispositionOK(r)
  PROVE  EnvironmentInv'
<1> DEFINE q == quarantine(e)
<1>1. /\ q \in EnvType /\ q.sequence = env.sequence /\ q.generation = cur.before + 1
      /\ q.state = "QUARANTINED"
  BY QuarantineFacts
<1>2. /\ cur # Idle /\ cur \in CurType /\ env \in EnvType /\ cur.before \in Nat
      /\ snapshots \in Seq(Snapshot) /\ Len(snapshots) <= MaxSnapshots /\ SnapInv'
  BY RunFacts DEF Await, history
<1>3. q.generation <= 2 * q.sequence /\ dispatched' = dispatched /\ cur.op \in Operation
  <2>1. CASE cur.at = "call"
    BY <1>1, <2>1, AdvancedFacts, <1>2, Counters DEF history, CurType
  <2>2. CASE cur.at # "call"
    BY <1>1, <1>2, <2>2, Counters DEF EnvironmentInv, AttemptInv, history, CurType
  <2> QED BY <2>1, <2>2
<1>4. Answered(ReceiptOf(cur, q, "BLOCKED", code, parts))
  <2>1. CASE cur.op = "snapshot" /\ code = "REGISTRY_CAPACITY_EXCEEDED"
    BY <1>1, <1>2, <2>1 DEF ReceiptOf, Refused, Answered
  <2>2. CASE ~(cur.op = "snapshot" /\ code = "REGISTRY_CAPACITY_EXCEEDED")
    BY <1>1, <1>2, <1>3, <2>2, FailureParses
  <2> QED BY <2>1, <2>2
<1>5. Settle(cur, q, "BLOCKED", code, parts)
  OBVIOUS
<1>6. q.state \in Given
  BY <1>1 DEF Given
<1> HIDE DEF q
<1> QED BY <1>1, <1>2, <1>3, <1>4, <1>5, <1>6, SettleKeeps DEF history, Given

\* An attempt that is given up because its end cannot be hashed.
LEMMA ThrowKeeps ==
  ASSUME EnvironmentInv, cur.at \in {"call", "verify", "revoke"}, cur.op \in {"snapshot", "export"},
         NEW e \in EnvType, e.sequence = env.sequence, e.generation = cur.before + 1,
         Throws(e), UNCHANGED history,
         \/ UNCHANGED callbacks
         \/ \E label \in Labels : TimesOut(label) /\ (cur.at = "revoke" => label = "revoke"),
         UNCHANGED resource,
         snapshots' \in Seq(Snapshot), Len(snapshots') <= MaxSnapshots, SnapInv'
  PROVE  EnvironmentInv'
<1> DEFINE t == [e EXCEPT !.generation = @ + 1]
           q == quarantine(t)
<1>1. /\ cur # Idle /\ cur \in CurType /\ env \in EnvType /\ cur.before \in Nat
      /\ MaxAttempts \in Nat
  BY RunFacts, BoundsAssumption DEF Await
<1>2. cur.before + 1 < 2 * env.sequence
  <2>1. CASE cur.at = "call"
    BY <1>1, <2>1, AdvancedFacts
  <2>2. CASE cur.at # "call"
    BY <1>1, <2>2 DEF EnvironmentInv, AttemptInv
  <2> QED BY <2>1, <2>2
<1>3. e.generation + 1 \in 0 .. 2 * MaxAttempts /\ env.sequence \in 0 .. MaxAttempts
  BY <1>1, <1>2, Counters DEF EnvType
<1>4. t \in EnvType /\ t.sequence = env.sequence /\ t.generation = cur.before + 2
  <2>1. t = [e EXCEPT !.generation = e.generation + 1]
    OBVIOUS
  <2> HIDE DEF t
  <2>2. t \in EnvType
    BY <1>3, <2>1 DEF EnvType
  <2>3. t.sequence = env.sequence /\ t.generation = e.generation + 1
    BY <2>1 DEF EnvType
  <2> QED BY <1>1, <2>2, <2>3
<1> HIDE DEF t
<1>5. /\ q \in EnvType /\ q.sequence = env.sequence /\ q.generation = cur.before + 2
      /\ q.state = "QUARANTINED"
  BY <1>4, QuarantineFacts
<1>6. Settle(cur, q, "BLOCKED", "BACKEND_OPERATION_FAILED", Bare)
  BY DEF Throws, t
<1> HIDE DEF q
<1>7. Answered(ReceiptOf(cur, q, "BLOCKED", "BACKEND_OPERATION_FAILED", Bare))
  BY <1>1, <1>5 DEF ReceiptOf, Refused, Answered
<1>8. q.generation <= 2 * q.sequence
  BY <1>1, <1>2, <1>3, <1>5
<1> QED BY <1>1, <1>5, <1>6, <1>7, <1>8, SettleKeeps DEF history, Given

LEMMA PartFacts ==
  /\ Bare \in PartType /\ Proof \in PartType /\ Result \in PartType /\ Unrevoked \in PartType
  /\ ~Proof.snapshot /\ ~Proof.metrics /\ ~Proof.reconciliation /\ ~Proof.result
  /\ ~Result.snapshot /\ ~Result.metrics /\ ~Result.reconciliation /\ Result.result
  /\ Result.proof
  /\ \A p \in {Proof, Result} :
       /\ p.disposition = "none" /\ ~p.artifacts /\ ~p.verified /\ ~p.revoked /\ ~p.evidence
       /\ ~p.loose
BY DEF Bare, Proof, Result, Unrevoked, PartType, Disposition

\* The parts of a receipt whose result could be hashed, or not.
LEMMA HashedFacts ==
  ASSUME NEW hashed \in BOOLEAN
  PROVE  /\ [Proof EXCEPT !.result = hashed] \in {Proof, Result}
         /\ [Unrevoked EXCEPT !.result = hashed] \in {Unrevoked, [Unrevoked EXCEPT !.result = TRUE]}
<1>1. CASE hashed = TRUE
  BY <1>1 DEF Result
<1>2. CASE hashed = FALSE
  <2>1. [Proof EXCEPT !.result = FALSE] = Proof
    <3>1. Proof \in PartType /\ Proof.result = FALSE
      BY DEF Proof, Bare, PartType, Disposition
    <3> QED BY <3>1 DEF PartType
  <2>2. [Unrevoked EXCEPT !.result = FALSE] = Unrevoked
    <3>1. Unrevoked \in PartType /\ Unrevoked.result = FALSE
      BY DEF Unrevoked, Proof, Bare, PartType, Disposition
    <3> QED BY <3>1 DEF PartType
  <2> QED BY <1>2, <2>1, <2>2
<1> QED BY <1>1, <1>2

\* A backend call fails, or answers nothing that can be read.
LEMMA BackendFailures ==
  ASSUME EnvironmentInv, backendFailure \/ invalidResult
  PROVE  EnvironmentInv'
<1>1. /\ cur.at = "call" /\ UNCHANGED <<snapshots, resource, history>>
  BY DEF backendFailure, invalidResult
<1>2. /\ Advanced \in EnvType /\ Advanced.sequence = env.sequence
      /\ Advanced.generation = cur.before + 1 /\ cur.op \in Operation
  BY <1>1, AdvancedFacts, RunFacts DEF Await, CurType
<1>3. \/ UNCHANGED callbacks
      \/ \E label \in Labels : TimesOut(label) /\ (cur.at = "revoke" => label = "revoke")
  BY <1>1, <1>2 DEF backendFailure, invalidResult, Labels
<1>4. ASSUME NEW code \in PostDispatchCodes, NEW parts \in {Proof, Result}, cur.op # "export",
             Settle(cur, quarantine(Advanced), "BLOCKED", code, parts)
      PROVE  EnvironmentInv'
  <2>1. /\ parts \in PartType /\ ~parts.metrics /\ ~parts.reconciliation /\ ~parts.snapshot
        /\ ~parts.loose
    BY PartFacts
  <2>2. DispositionOK(ReceiptOf(cur, quarantine(Advanced), "BLOCKED", code, parts))
    BY <1>4, PartFacts DEF DispositionOK, ReceiptOf, PostDispatchCodes
  <2> QED BY <1>1, <1>2, <1>3, <1>4, <2>1, <2>2, QuarantineKeeps
<1>5. ASSUME NEW parts \in {Unrevoked, [Unrevoked EXCEPT !.result = TRUE]}, cur.op = "export",
             Settle(cur, quarantine(Advanced), "BLOCKED", "ARTIFACT_REVOKE_UNVERIFIED", parts)
      PROVE  EnvironmentInv'
  <2>1. /\ parts \in PartType /\ ~parts.metrics /\ ~parts.reconciliation /\ ~parts.snapshot
        /\ parts.disposition = "revoke-unverified" /\ parts.evidence /\ ~parts.artifacts
        /\ ~parts.verified /\ ~parts.revoked /\ ~parts.loose
    BY DEF Unrevoked, Proof, Bare, PartType, Disposition
  <2>2. DispositionOK(ReceiptOf(cur, quarantine(Advanced), "BLOCKED",
                                "ARTIFACT_REVOKE_UNVERIFIED", parts))
    BY <1>5, <2>1 DEF DispositionOK, ReceiptOf
  <2>3. "ARTIFACT_REVOKE_UNVERIFIED" \in PostDispatchCodes
    BY DEF PostDispatchCodes
  <2> QED BY <1>1, <1>2, <1>3, <1>5, <2>1, <2>2, <2>3, QuarantineKeeps
<1>6. {"OPERATION_TIMEOUT", "BACKEND_OPERATION_FAILED", "BACKEND_RESULT_INVALID"}
        \subseteq PostDispatchCodes
  BY DEF PostDispatchCodes
<1>7. CASE backendFailure
  <2>1. ASSUME Throws(Advanced), cur.op = "export" PROVE EnvironmentInv'
    <3>1. snapshots \in Seq(Snapshot) /\ Len(snapshots) <= MaxSnapshots /\ SnapInv'
      BY <1>1, RunFacts DEF Await, history
    <3> QED BY <1>1, <1>2, <1>3, <2>1, <3>1, ThrowKeeps
  <2> QED BY <1>4, <1>5, <1>6, <1>7, <2>1 DEF backendFailure
<1>8. CASE invalidResult
  BY <1>4, <1>5, <1>6, <1>8, HashedFacts DEF invalidResult
<1> QED BY <1>7, <1>8

\* An attempt that succeeds.
LEMMA SuccessKeeps ==
  ASSUME EnvironmentInv, cur.at \in {"call", "verify", "reconcile"},
         NEW e \in EnvType, e.sequence = env.sequence, e.generation = cur.before + 1,
         cur.stateBefore \in SuccessBefore(Success[cur.op]),
         e.state = SuccessAfter(Success[cur.op]),
         e.state \in {"PROVISIONED", "RUNNING"} => e.handle,
         e.state = "TORN_DOWN" => ~resource,
         NEW parts \in PartType, parts.result, parts.proof,
         parts.metrics <=> cur.op = "execute", parts.snapshot <=> cur.op = "snapshot",
         parts.reconciliation <=> cur.op = "teardown",
         parts.loose => cur.op \in {"execute", "snapshot"},
         LET r == ReceiptOf(cur, e, "UNVERIFIED", Success[cur.op], parts) IN DispositionOK(r),
         Succeed(e, parts), UNCHANGED <<callbacks, resource, history>>,
         snapshots' \in Seq(Snapshot), Len(snapshots') <= MaxSnapshots, SnapInv'
  PROVE  EnvironmentInv'
<1>1. cur # Idle /\ cur \in CurType /\ env \in EnvType /\ cur.before \in Nat
  BY RunFacts DEF Await
<1>2. /\ e.generation <= 2 * e.sequence /\ dispatched' = dispatched /\ cur.op \in Operation
      /\ e.state \in Given \/ dispatched = e.generation
  <2>1. CASE cur.at = "reconcile"
    <3>1. /\ cur.op = "teardown" /\ env.generation = cur.before + 1
          /\ env.generation < 2 * env.sequence
      BY <1>1, <2>1 DEF EnvironmentInv, AttemptInv
    <3>2. e.state = "TORN_DOWN"
      BY <3>1 DEF Success, SuccessAfter
    <3> QED BY <3>1, <3>2, <1>1 DEF Given, history, CurType, EnvType
  <2>2. CASE cur.at = "call"
    <3>1. cur.op = "teardown" => e.state = "TORN_DOWN"
      BY DEF Success, SuccessAfter
    <3>2. cur.op # "teardown" => env.state \notin Given
      BY <1>1, <2>2 DEF EnvironmentInv, AttemptInv, CurType, Operation, Given
    <3>3. cur.op # "teardown" => dispatched = e.generation
      BY <2>2, <3>2, AdvancedFacts
    <3>4. e.generation <= 2 * e.sequence
      BY <1>1, <2>2, AdvancedFacts, Counters
    <3> QED BY <1>1, <3>1, <3>3, <3>4 DEF Given, history, CurType
  <2>3. CASE cur.at = "verify"
    BY <1>1, <2>3 DEF EnvironmentInv, AttemptInv, CountInv, Given, history, CurType, EnvType
  <2> QED BY <2>1, <2>2, <2>3
<1>3. Answered(ReceiptOf(cur, e, "UNVERIFIED", Success[cur.op], parts))
  BY <1>1, <1>2, SuccessParses
<1>4. Settle(cur, e, "UNVERIFIED", Success[cur.op], parts)
  BY DEF Succeed
<1> QED BY <1>1, <1>2, <1>3, <1>4, SettleKeeps DEF history

\* The snapshots when all are consumed, and when there is one more.
LEMMA SnapshotFacts ==
  ASSUME EnvironmentInv, tried' = tried
  PROVE  /\ snapshots' = AllConsumed =>
              snapshots' \in Seq(Snapshot) /\ Len(snapshots') <= MaxSnapshots /\ SnapInv'
         /\ \A g \in Nat :
              /\ Len(snapshots) < MaxSnapshots
              /\ snapshots' = Append(snapshots, [generation |-> g, consumed |-> FALSE,
                                                 dispatched |-> g])
              => snapshots' \in Seq(Snapshot) /\ Len(snapshots') <= MaxSnapshots /\ SnapInv'
<1>1. /\ snapshots \in Seq(Snapshot) /\ Len(snapshots) <= MaxSnapshots /\ SnapInv
      /\ MaxSnapshots \in Nat
  BY BoundsAssumption DEF EnvironmentInv, TypeOK, Snapshot
<1>2. ASSUME snapshots' = AllConsumed
      PROVE  snapshots' \in Seq(Snapshot) /\ Len(snapshots') <= MaxSnapshots /\ SnapInv'
  <2>1. /\ DOMAIN snapshots = 1 .. Len(snapshots)
        /\ \A s \in 1 .. Len(snapshots) : snapshots[s] \in Snapshot
    BY <1>1
  <2>2. /\ snapshots' = [s \in 1 .. Len(snapshots) |-> [snapshots[s] EXCEPT !.consumed = TRUE]]
    BY <1>2, <2>1 DEF AllConsumed
  <2>3. \A s \in 1 .. Len(snapshots) :
          /\ snapshots'[s] = [snapshots[s] EXCEPT !.consumed = TRUE]
          /\ snapshots'[s] \in Snapshot /\ snapshots'[s].consumed
          /\ snapshots'[s].dispatched = snapshots[s].dispatched
          /\ snapshots'[s].generation = snapshots[s].generation
    BY <2>1, <2>2 DEF Snapshot
  <2>4. /\ DOMAIN snapshots' = 1 .. Len(snapshots)
        /\ snapshots' \in [1 .. Len(snapshots) -> Snapshot]
    <3>1. snapshots' = [s \in 1 .. Len(snapshots) |-> snapshots'[s]]
      BY <2>2
    <3> QED BY <2>3, <3>1
  <2>5. snapshots' \in Seq(Snapshot) /\ Len(snapshots') = Len(snapshots)
    BY <1>1, <2>4
  <2>6. SnapInv'
    BY <1>1, <2>1, <2>3, <2>4 DEF SnapInv
  <2> QED BY <1>1, <2>5, <2>6
<1>3. ASSUME NEW g \in Nat, Len(snapshots) < MaxSnapshots,
             snapshots' = Append(snapshots, [generation |-> g, consumed |-> FALSE,
                                             dispatched |-> g])
      PROVE  snapshots' \in Seq(Snapshot) /\ Len(snapshots') <= MaxSnapshots /\ SnapInv'
  <2> DEFINE n == [generation |-> g, consumed |-> FALSE, dispatched |-> g]
  <2>1. n \in Snapshot /\ n.dispatched = n.generation /\ snapshots' = Append(snapshots, n)
    BY <1>3 DEF Snapshot
  <2> HIDE DEF n
  <2>2. /\ snapshots' \in Seq(Snapshot) /\ Len(snapshots') = Len(snapshots) + 1
        /\ DOMAIN snapshots' = 1 .. Len(snapshots) + 1 /\ DOMAIN snapshots = 1 .. Len(snapshots)
        /\ \A i \in 1 .. Len(snapshots) : snapshots'[i] = snapshots[i]
        /\ snapshots'[Len(snapshots) + 1] = n
    BY <1>1, <2>1
  <2>3. Len(snapshots) \in Nat
    BY <1>1
  <2>4. SnapInv'
    <3>1. ASSUME NEW i \in DOMAIN snapshots'
          PROVE  snapshots'[i].dispatched = snapshots'[i].generation
      BY <1>1, <2>1, <2>2, <2>3 DEF SnapInv
    <3>2. ASSUME NEW i \in tried' PROVE i \in DOMAIN snapshots' /\ snapshots'[i].consumed
      BY <1>1, <2>2, <2>3 DEF SnapInv
    <3> QED BY <3>1, <3>2 DEF SnapInv
  <2> QED BY <1>1, <1>3, <2>2, <2>3, <2>4
<1> QED BY <1>2, <1>3

\* What the receipts of the other operations carry: neither artifacts nor a reconciliation.
Plain(p) == /\ p \in PartType /\ p.proof /\ ~p.reconciliation /\ p.disposition = "none"
            /\ ~p.artifacts /\ ~p.verified /\ ~p.revoked /\ ~p.evidence

LEMMA PlainFacts ==
  /\ Plain(Proof) /\ Plain(Result) /\ Result.result /\ ~Result.loose
  /\ ~Result.metrics /\ ~Result.snapshot /\ ~Proof.snapshot
  /\ \A loose \in BOOLEAN :
       LET m == [Result EXCEPT !.metrics = TRUE, !.loose = loose]
           n == [Result EXCEPT !.snapshot = TRUE, !.loose = loose]
       IN  /\ Plain(m) /\ m.result /\ m.metrics /\ ~m.snapshot
           /\ Plain(n) /\ n.result /\ n.snapshot /\ ~n.metrics
BY DEF Bare, Proof, Result, PartType, Disposition, Plain

\* The results of the calls that end their attempt.
LEMMA ResultSteps ==
  ASSUME EnvironmentInv,
         provisionNow \/ startNow \/ executeNow \/ snapshotNow \/ restoreNow
  PROVE  EnvironmentInv'
<1>1. /\ cur.at = "call" /\ UNCHANGED <<callbacks, resource, history>>
      /\ cur.op \in {"provision", "start", "execute", "snapshot", "restore"}
  BY DEF provisionNow, startNow, executeNow, snapshotNow, restoreNow
<1>2. /\ Advanced \in EnvType /\ Advanced.state = env.state /\ Advanced.handle = env.handle
      /\ Advanced.sequence = env.sequence /\ Advanced.generation = cur.before + 1
      /\ env.state = cur.stateBefore
  BY <1>1, AdvancedFacts
<1>3. /\ cur # Idle /\ snapshots \in Seq(Snapshot) /\ Len(snapshots) <= MaxSnapshots
      /\ UNCHANGED <<snapshots, tried>> => SnapInv'
      /\ env.state \in {"PROVISIONED", "RUNNING"} => env.handle
      /\ dispatched \in Nat
  BY <1>1, RunFacts DEF Await, EnvironmentInv, TypeOK
<1>4. /\ cur.op = "provision" => cur.stateBefore = "NEW"
      /\ cur.op = "start" => cur.stateBefore = "PROVISIONED"
      /\ cur.op \notin {"provision", "start", "teardown"} => cur.stateBefore = "RUNNING"
  BY <1>3 DEF EnvironmentInv, AttemptInv
<1>5. Advanced.generation = dispatched /\ env.state \notin Given
  <2>1. env.state \notin Given
    BY <1>1, <1>2, <1>4 DEF Given
  <2> QED BY <1>1, <2>1, AdvancedFacts
<1>6. ASSUME NEW e \in EnvType, e.sequence = env.sequence, e.generation = cur.before + 1,
             NEW parts, Plain(parts), parts.result,
             parts.loose => cur.op \in {"execute", "snapshot"},
             parts.metrics <=> cur.op = "execute", parts.snapshot <=> cur.op = "snapshot",
             e.state = SuccessAfter(Success[cur.op]), e.handle, Succeed(e, parts),
             snapshots' \in Seq(Snapshot), Len(snapshots') <= MaxSnapshots, SnapInv'
      PROVE  EnvironmentInv'
  <2>1. cur.stateBefore \in SuccessBefore(Success[cur.op])
    BY <1>1, <1>4 DEF SuccessBefore, Success
  <2>2. e.state # "TORN_DOWN" /\ cur.op # "teardown"
    BY <1>1, <1>6 DEF SuccessAfter, Success
  <2>3. DispositionOK(ReceiptOf(cur, e, "UNVERIFIED", Success[cur.op], parts))
    <3>1. Success[cur.op] # "ARTIFACTS_EXPORTED" /\ cur.op # "export"
      BY <1>1 DEF Success
    <3> QED BY <1>6, <3>1 DEF DispositionOK, ReceiptOf, Plain
  <2> QED BY <1>1, <1>6, <2>1, <2>2, <2>3, SuccessKeeps DEF Plain
<1>7. ASSUME NEW code \in {"RESOURCE_QUOTA_EXCEEDED", "NETWORK_PIN_MISMATCH"},
             NEW parts, Plain(parts), ~parts.snapshot, cur.op = "execute",
             Settle(cur, quarantine(Advanced), "BLOCKED", code, parts), UNCHANGED snapshots
      PROVE  EnvironmentInv'
  <2>1. code \in PostDispatchCodes
    BY DEF PostDispatchCodes
  <2>2. DispositionOK(ReceiptOf(cur, quarantine(Advanced), "BLOCKED", code, parts))
    BY <1>7 DEF DispositionOK, ReceiptOf, Plain
  <2> QED BY <1>1, <1>2, <1>7, <2>1, <2>2, QuarantineKeeps DEF Plain
<1>8. CASE provisionNow
  <2> DEFINE e == [Advanced EXCEPT !.state = "PROVISIONED", !.handle = TRUE]
  <2>1. /\ e \in EnvType /\ e.sequence = env.sequence /\ e.generation = cur.before + 1
        /\ e.state = "PROVISIONED" /\ e.handle
    BY <1>2 DEF EnvType, State
  <2>2. Succeed(e, Result) /\ cur.op = "provision" /\ UNCHANGED snapshots
    BY <1>8 DEF provisionNow
  <2>3. SuccessAfter(Success[cur.op]) = "PROVISIONED"
    BY <2>2 DEF SuccessAfter, Success
  <2> HIDE DEF e
  <2> QED BY <1>1, <1>3, <1>6, <2>1, <2>2, <2>3, PlainFacts DEF history
<1>9. CASE startNow
  <2> DEFINE e == [Advanced EXCEPT !.state = "RUNNING"]
  <2>1. /\ e \in EnvType /\ e.sequence = env.sequence /\ e.generation = cur.before + 1
        /\ e.state = "RUNNING" /\ e.handle = env.handle
    BY <1>2 DEF EnvType, State
  <2>2. Succeed(e, Result) /\ cur.op = "start" /\ UNCHANGED snapshots
    BY <1>9 DEF startNow
  <2>3. SuccessAfter(Success[cur.op]) = "RUNNING" /\ env.handle
    BY <1>2, <1>3, <1>4, <2>2 DEF SuccessAfter, Success
  <2> HIDE DEF e
  <2> QED BY <1>1, <1>3, <1>6, <2>1, <2>2, <2>3, PlainFacts DEF history
<1>10. CASE executeNow
  <2>1. cur.op = "execute" /\ UNCHANGED snapshots
    BY <1>10 DEF executeNow
  <2>2. /\ SuccessAfter(Success[cur.op]) = "RUNNING" /\ Advanced.state = "RUNNING"
        /\ Advanced.handle
    BY <1>2, <1>3, <1>4, <2>1 DEF SuccessAfter, Success
  <2>3. ASSUME NEW m, Plain(m), m.result, m.metrics, ~m.snapshot,
               \/ Succeed(Advanced, m)
               \/ Settle(cur, Advanced, "FAIL", "COMMAND_EXIT_NONZERO", m)
               \/ Settle(cur, quarantine(Advanced), "BLOCKED", "RESOURCE_QUOTA_EXCEEDED", m)
        PROVE  EnvironmentInv'
    <3>1. CASE Succeed(Advanced, m)
      BY <1>1, <1>2, <1>3, <1>6, <2>1, <2>2, <2>3, <3>1 DEF history
    <3>2. CASE Settle(cur, Advanced, "FAIL", "COMMAND_EXIT_NONZERO", m)
      <4> DEFINE r == ReceiptOf(cur, Advanced, "FAIL", "COMMAND_EXIT_NONZERO", m)
      <4>1. /\ r.op = "execute" /\ r.delta = 1 /\ r.stateBefore = "RUNNING"
            /\ r.stateAfter = "RUNNING" /\ r.status = "FAIL" /\ r.code = "COMMAND_EXIT_NONZERO"
            /\ r.parts = m
        <5>1. cur.before \in Nat
          BY <1>1, RunFacts DEF Await
        <5> QED BY <1>2, <1>4, <2>1, <2>2, <5>1 DEF ReceiptOf
      <4>2. ~Succeeds(r)
        BY <4>1, SuccessCodes DEF Succeeds
      <4> HIDE DEF r
      <4>3. StatusOK(r) /\ DispositionOK(r)
        BY <2>1, <2>3, <4>1, <4>2 DEF StatusOK, DispositionOK, Plain
      <4>4. Answered(r)
        BY <2>1, <2>3, <4>1, <4>3
           DEF semanticReceipt, validateReceiptFields, parseReceipt, Refused, Answered, Plain
      <4>5. Advanced.generation <= 2 * Advanced.sequence
        BY <1>1, RunFacts, AdvancedFacts DEF Await, EnvType
      <4> QED BY <1>1, <1>2, <1>3, <1>5, <2>1, <2>2, <3>2, <4>4, <4>5, SettleKeeps DEF r, history
    <3>3. CASE Settle(cur, quarantine(Advanced), "BLOCKED", "RESOURCE_QUOTA_EXCEEDED", m)
      BY <1>7, <2>1, <2>3, <3>3
    <3> QED BY <2>3, <3>1, <3>2, <3>3
  <2>4. ASSUME NEW hashed \in BOOLEAN,
               Settle(cur, quarantine(Advanced), "BLOCKED", "NETWORK_PIN_MISMATCH",
                      [Proof EXCEPT !.result = hashed])
        PROVE  EnvironmentInv'
    <3> DEFINE p == [Proof EXCEPT !.result = hashed]
    <3>1. Plain(p) /\ ~p.snapshot
      BY HashedFacts, PlainFacts
    <3>2. Settle(cur, quarantine(Advanced), "BLOCKED", "NETWORK_PIN_MISMATCH", p)
      BY <2>4
    <3> HIDE DEF p
    <3> QED BY <1>7, <2>1, <3>1, <3>2
  <2>5. ASSUME NEW loose \in BOOLEAN,
               LET m == [Result EXCEPT !.metrics = TRUE, !.loose = loose]
               IN  \/ Succeed(Advanced, m)
                   \/ Settle(cur, Advanced, "FAIL", "COMMAND_EXIT_NONZERO", m)
                   \/ Settle(cur, quarantine(Advanced), "BLOCKED", "RESOURCE_QUOTA_EXCEEDED", m)
        PROVE  EnvironmentInv'
    BY <2>3, <2>5, PlainFacts
  <2> QED BY <1>10, <2>4, <2>5 DEF executeNow
<1>11. CASE snapshotNow
  <2>1. cur.op = "snapshot" /\ tried' = tried
    BY <1>11 DEF snapshotNow, history
  <2>2. /\ SuccessAfter(Success[cur.op]) = "RUNNING" /\ Advanced.state = "RUNNING"
        /\ Advanced.handle
    BY <1>2, <1>3, <1>4, <2>1 DEF SuccessAfter, Success
  <2>3. Len(snapshots) \in Nat /\ MaxSnapshots \in Nat
    BY <1>3, BoundsAssumption
  <2>4. ASSUME NEW hashed \in BOOLEAN, UNCHANGED snapshots,
               Settle(cur, quarantine(Advanced), "BLOCKED", "REGISTRY_CAPACITY_EXCEEDED",
                      [Proof EXCEPT !.result = hashed])
        PROVE  EnvironmentInv'
    <3>1. [Proof EXCEPT !.result = hashed] \in PartType
      BY HashedFacts, PartFacts
    <3> QED BY <1>1, <1>2, <2>1, <2>4, <3>1, QuarantineKeeps
  <2>5. CASE Throws(Advanced) /\ UNCHANGED snapshots
    BY <1>1, <1>2, <1>3, <2>1, <2>5, ThrowKeeps DEF history
  <2>6. CASE /\ Len(snapshots) < MaxSnapshots
             /\ \/ Throws(Advanced)
                \/ \E loose \in BOOLEAN :
                     Succeed(Advanced, [Result EXCEPT !.snapshot = TRUE, !.loose = loose])
             /\ snapshots' = Append(snapshots, [generation |-> Advanced.generation,
                                                consumed |-> FALSE, dispatched |-> dispatched])
    <3>1. snapshots' = Append(snapshots, [generation |-> dispatched, consumed |-> FALSE,
                                          dispatched |-> dispatched])
      BY <1>5, <2>6
    <3>2. snapshots' \in Seq(Snapshot) /\ Len(snapshots') <= MaxSnapshots /\ SnapInv'
      BY <1>3, <2>1, <2>6, <3>1, SnapshotFacts
    <3>3. CASE Throws(Advanced)
      BY <1>1, <1>2, <2>1, <3>2, <3>3, ThrowKeeps
    <3>4. ASSUME NEW loose \in BOOLEAN,
                 Succeed(Advanced, [Result EXCEPT !.snapshot = TRUE, !.loose = loose])
          PROVE  EnvironmentInv'
      <4> DEFINE n == [Result EXCEPT !.snapshot = TRUE, !.loose = loose]
      <4>1. Plain(n) /\ n.result /\ n.snapshot /\ ~n.metrics /\ Succeed(Advanced, n)
        BY <3>4, PlainFacts
      <4> HIDE DEF n
      <4> QED BY <1>2, <1>6, <2>1, <2>2, <3>2, <4>1
    <3> QED BY <2>6, <3>3, <3>4
  <2>7. CASE Len(snapshots) >= MaxSnapshots
    BY <1>11, <2>4, <2>7 DEF snapshotNow
  <2>8. CASE ~(Len(snapshots) >= MaxSnapshots)
    <3>1. Len(snapshots) < MaxSnapshots
      BY <2>3, <2>8
    <3> QED BY <1>11, <2>5, <2>6, <2>8, <3>1 DEF snapshotNow
  <2> QED BY <2>7, <2>8
<1>12. CASE restoreNow
  <2>1. cur.op = "restore" /\ tried' = tried /\ Succeed(Advanced, Result)
        /\ snapshots' = AllConsumed
    BY <1>12 DEF restoreNow, history
  <2>2. /\ SuccessAfter(Success[cur.op]) = "RUNNING" /\ Advanced.state = "RUNNING"
        /\ Advanced.handle
    BY <1>2, <1>3, <1>4, <2>1 DEF SuccessAfter, Success
  <2>3. snapshots' \in Seq(Snapshot) /\ Len(snapshots') <= MaxSnapshots /\ SnapInv'
    BY <2>1, SnapshotFacts
  <2> QED BY <1>2, <1>6, <2>1, <2>2, <2>3, PlainFacts
<1> QED BY <1>8, <1>9, <1>10, <1>11, <1>12

\* A call whose result is still to be proved by others: an export's, or a teardown's.
LEMMA ResultToProve ==
  ASSUME EnvironmentInv, cur.at = "call", env' = Advanced,
         UNCHANGED <<snapshots, callbacks, receipt, resource, history>>,
         \/ cur.op = "export" /\ cur' = [cur EXCEPT !.at = "verify"]
         \/ /\ cur.op = "export"
            /\ cur' = [cur EXCEPT !.at = "revoke", !.code = "RESOURCE_QUOTA_EXCEEDED"]
         \/ cur.op = "teardown" /\ cur' = [cur EXCEPT !.at = "reconcile"]
  PROVE  EnvironmentInv'
<1>1. /\ cur # Idle /\ cur \in CurType /\ env \in EnvType /\ AttemptInv /\ CountInv
      /\ env.state \in {"PROVISIONED", "RUNNING"} => env.handle
  BY RunFacts DEF Await, EnvironmentInv
<1>2. /\ env' \in EnvType /\ env'.state = env.state /\ env'.handle = env.handle
      /\ env'.sequence = env.sequence /\ env'.generation = cur.before + 1
      /\ env.state \notin Given => env'.generation = dispatched
      /\ env'.generation < 2 * env'.sequence /\ env.state = cur.stateBefore
  BY AdvancedFacts
<1>3. /\ cur' \in CurType /\ cur'.op = cur.op /\ cur'.before = cur.before
      /\ cur'.stateBefore = cur.stateBefore /\ cur'.at \in {"verify", "revoke", "reconcile"}
      /\ cur'.at = "reconcile" <=> cur.op = "teardown"
      /\ cur'.at = "revoke" => cur'.code \in RevokeCodes
  BY <1>1 DEF CurType, Await, RevokeCodes
<1>4. cur' # Idle
  BY <1>3 DEF Idle
<1>5. running' = running /\ env.sequence >= 1 /\ \A x \in running : x.label \in Paired
  BY <1>1 DEF callbacks, AttemptInv
<1>6. /\ cur.op \in {"export", "teardown"}
      /\ cur.op = "export" => cur.stateBefore = "RUNNING"
  BY <1>1 DEF AttemptInv
<1>7. AttemptInv'
  BY <1>2, <1>3, <1>5, <1>6 DEF AttemptInv
<1>8. CountInv'
  BY <1>1, <1>2, <1>3 DEF CountInv, history, EnvType
<1>9. dispatched' \in Nat
  BY DEF EnvironmentInv, TypeOK, history
<1> QED BY <1>1, <1>2, <1>4, <1>7, <1>8, <1>9, ContinueKeeps DEF history

\* The artifacts of an export go on to their revocation.
LEMMA ToRevocation ==
  ASSUME EnvironmentInv, cur.at = "verify", NEW code \in RevokeCodes,
         cur' = [cur EXCEPT !.at = "revoke", !.code = code],
         UNCHANGED <<snapshots, receipt, resource, history>>,
         \/ env' = env /\ UNCHANGED callbacks
         \/ env' = quarantine(env) /\ TimesOut("verify")
  PROVE  EnvironmentInv'
<1>1. /\ cur # Idle /\ cur \in CurType /\ env \in EnvType /\ AttemptInv /\ CountInv
      /\ env.state \in {"PROVISIONED", "RUNNING"} => env.handle
  BY RunFacts DEF Await, EnvironmentInv
<1>2. /\ env' \in EnvType /\ env'.state \in {env.state, "QUARANTINED"}
      /\ env'.handle = env.handle /\ env'.sequence = env.sequence
      /\ env'.generation = env.generation
      /\ UNCHANGED callbacks \/ env'.state = "QUARANTINED"
  BY <1>1, QuarantineFacts
<1>3. /\ cur' \in CurType /\ cur'.op = cur.op /\ cur'.before = cur.before
      /\ cur'.stateBefore = cur.stateBefore /\ cur'.at = "revoke" /\ cur'.code = code
  BY <1>1 DEF CurType, Await
<1>4. cur' # Idle
  BY <1>3 DEF Idle
<1>5. \A x \in running' : x.label \in Paired
  BY <1>1 DEF AttemptInv, callbacks, TimesOut, Paired
<1>6. AttemptInv'
  BY <1>1, <1>2, <1>3, <1>5 DEF AttemptInv
<1>7. CountInv'
  BY <1>1, <1>2, <1>3 DEF CountInv, history, EnvType, Given
<1>8. \/ UNCHANGED callbacks /\ (cur.at = "revoke" => cur'.at = "revoke")
      \/ TimesOut("verify") /\ cur'.at = "revoke" /\ env'.state # "TORN_DOWN"
  BY <1>2, <1>3
<1>9. /\ env'.state \in {"PROVISIONED", "RUNNING"} => env'.handle
      /\ env'.state = "TORN_DOWN" => env.state = "TORN_DOWN"
  BY <1>1, <1>2
<1>10. dispatched' \in Nat
  BY DEF EnvironmentInv, TypeOK, history
<1> QED BY <1>1, <1>2, <1>4, <1>6, <1>7, <1>8, <1>9, <1>10, ContinueKeeps DEF history

\* The verification of an export's artifacts, and their revocation.
LEMMA ExportSteps ==
  ASSUME EnvironmentInv, artifactProof \/ revokeArtifacts
  PROVE  EnvironmentInv'
<1>1. /\ cur.at \in {"verify", "revoke"} /\ UNCHANGED <<snapshots, resource, history>>
  BY DEF artifactProof, revokeArtifacts
<1>2. /\ cur # Idle /\ cur \in CurType /\ env \in EnvType /\ AttemptInv
      /\ snapshots \in Seq(Snapshot) /\ Len(snapshots) <= MaxSnapshots
      /\ UNCHANGED <<snapshots, tried>> => SnapInv'
      /\ env.state \in {"PROVISIONED", "RUNNING"} => env.handle
      /\ env.generation \in Nat /\ cur.before \in Nat
  BY <1>1, RunFacts DEF Await, EnvironmentInv
<1>3. /\ cur.op = "export" /\ env.generation = cur.before + 1 /\ cur.stateBefore = "RUNNING"
      /\ cur.at = "verify" => env.state = "RUNNING"
      /\ cur.at = "revoke" => cur.code \in RevokeCodes
  BY <1>1, <1>2 DEF AttemptInv
<1>4. CASE /\ cur.at = "verify" /\ UNCHANGED callbacks
           /\ Succeed(env, [Result EXCEPT !.disposition = "retained", !.artifacts = TRUE,
                                          !.verified = TRUE])
  <2> DEFINE p == [Result EXCEPT !.disposition = "retained", !.artifacts = TRUE,
                                 !.verified = TRUE]
  <2>1. /\ p \in PartType /\ p.result /\ p.proof /\ ~p.metrics /\ ~p.snapshot
        /\ ~p.reconciliation /\ p.disposition = "retained" /\ p.artifacts /\ p.verified
        /\ ~p.revoked /\ ~p.evidence /\ ~p.loose
    BY DEF Bare, Proof, Result, PartType, Disposition
  <2>2. Succeed(env, p)
    BY <1>4
  <2> HIDE DEF p
  <2>3. /\ Success[cur.op] = "ARTIFACTS_EXPORTED"
        /\ cur.stateBefore \in SuccessBefore(Success[cur.op])
        /\ env.state = SuccessAfter(Success[cur.op])
    BY <1>3, <1>4 DEF Success, SuccessBefore, SuccessAfter
  <2>4. DispositionOK(ReceiptOf(cur, env, "UNVERIFIED", Success[cur.op], p))
    BY <1>3, <2>1, <2>3 DEF DispositionOK, ReceiptOf
  <2>5. SnapInv' /\ snapshots' = snapshots
    BY <1>1, <1>2 DEF history
  <2>6. /\ env.sequence = env.sequence /\ env.state # "TORN_DOWN"
        /\ cur.op \notin {"execute", "snapshot", "teardown"}
    BY <1>3, <1>4
  <2> QED BY <1>1, <1>2, <1>3, <1>4, <2>1, <2>2, <2>3, <2>4, <2>5, <2>6, SuccessKeeps
<1>5. CASE /\ cur.at = "revoke" /\ UNCHANGED callbacks
           /\ Settle(cur, quarantine(env), "BLOCKED", cur.code,
                     [Result EXCEPT !.disposition = "revoked", !.artifacts = TRUE,
                                    !.revoked = TRUE])
  <2> DEFINE p == [Result EXCEPT !.disposition = "revoked", !.artifacts = TRUE,
                                 !.revoked = TRUE]
  <2>1. /\ p \in PartType /\ p.result /\ ~p.metrics /\ ~p.snapshot
        /\ ~p.reconciliation /\ p.disposition = "revoked" /\ p.artifacts /\ ~p.verified
        /\ p.revoked /\ ~p.evidence /\ ~p.loose
    BY DEF Bare, Proof, Result, PartType, Disposition
  <2>2. Settle(cur, quarantine(env), "BLOCKED", cur.code, p)
    BY <1>5
  <2> HIDE DEF p
  <2>3. /\ cur.code \in PostDispatchCodes \/ cur.code = "TRUST_CALLBACK_TIMEOUT"
        /\ cur.code \notin {"ARTIFACTS_EXPORTED", "ARTIFACT_REVOKE_UNVERIFIED"}
    BY <1>3, <1>5 DEF RevokeCodes, PostDispatchCodes
  <2>4. DispositionOK(ReceiptOf(cur, quarantine(env), "BLOCKED", cur.code, p))
    BY <1>3, <2>1, <2>3 DEF DispositionOK, ReceiptOf
  <2> QED BY <1>1, <1>2, <1>3, <1>5, <2>1, <2>2, <2>3, <2>4, QuarantineKeeps
<1>6. CASE /\ cur.at = "revoke"
           /\ TimesOut("revoke") \/ UNCHANGED callbacks
           /\ Settle(cur, quarantine(env), "BLOCKED", "ARTIFACT_REVOKE_UNVERIFIED",
                     [Result EXCEPT !.disposition = "revoke-unverified", !.artifacts = TRUE])
  <2> DEFINE p == [Result EXCEPT !.disposition = "revoke-unverified", !.artifacts = TRUE]
  <2>1. /\ p \in PartType /\ p.result /\ ~p.metrics /\ ~p.snapshot
        /\ ~p.reconciliation /\ p.disposition = "revoke-unverified" /\ p.artifacts
        /\ ~p.verified /\ ~p.revoked /\ ~p.evidence /\ ~p.loose
    BY DEF Bare, Proof, Result, PartType, Disposition
  <2>2. Settle(cur, quarantine(env), "BLOCKED", "ARTIFACT_REVOKE_UNVERIFIED", p)
    BY <1>6
  <2> HIDE DEF p
  <2>3. "ARTIFACT_REVOKE_UNVERIFIED" \in PostDispatchCodes /\ "revoke" \in Labels
    BY DEF PostDispatchCodes, Labels, Await
  <2>4. DispositionOK(ReceiptOf(cur, quarantine(env), "BLOCKED",
                                "ARTIFACT_REVOKE_UNVERIFIED", p))
    BY <1>3, <2>1 DEF DispositionOK, ReceiptOf
  <2> QED BY <1>1, <1>2, <1>3, <1>6, <2>1, <2>2, <2>3, <2>4, QuarantineKeeps
<1>7. ASSUME cur.at = "verify", NEW code \in RevokeCodes,
             cur' = [cur EXCEPT !.at = "revoke", !.code = code], UNCHANGED receipt,
             \/ env' = env /\ UNCHANGED callbacks
             \/ env' = quarantine(env) /\ TimesOut("verify")
      PROVE  EnvironmentInv'
  BY <1>1, <1>7, ToRevocation
<1>8. ASSUME Throws(env),
             UNCHANGED callbacks \/ (TimesOut("revoke") /\ cur.at = "revoke")
      PROVE  EnvironmentInv'
  <2>1. SnapInv' /\ snapshots' = snapshots /\ "revoke" \in Labels
    BY <1>1, <1>2 DEF history, Labels, Await
  <2> QED BY <1>1, <1>2, <1>3, <1>8, <2>1, ThrowKeeps
<1>9. CASE artifactProof
  BY <1>4, <1>7, <1>9, <1>8 DEF artifactProof, RevokeCodes
<1>10. CASE revokeArtifacts
  BY <1>5, <1>6, <1>10, <1>8 DEF revokeArtifacts
<1> QED BY <1>9, <1>10

LEMMA TeardownSteps ==
  ASSUME EnvironmentInv, teardownReconciler
  PROVE  EnvironmentInv'
<1>1. /\ cur.at = "reconcile" /\ UNCHANGED <<resource, history>>
  BY DEF teardownReconciler
<1>2. /\ cur # Idle /\ cur \in CurType /\ env \in EnvType /\ AttemptInv
      /\ env.generation \in Nat /\ cur.before \in Nat
  BY <1>1, RunFacts DEF Await, EnvironmentInv
<1>3. /\ cur.op = "teardown" /\ env.generation = cur.before + 1 /\ cur.stateBefore \in State
  BY <1>1, <1>2 DEF AttemptInv, CurType
<1>4. CASE /\ ~resource /\ snapshots' = AllConsumed /\ UNCHANGED callbacks
           /\ Succeed([env EXCEPT !.state = "TORN_DOWN", !.handle = FALSE],
                      [Result EXCEPT !.reconciliation = TRUE])
  <2> DEFINE e == [env EXCEPT !.state = "TORN_DOWN", !.handle = FALSE]
             p == [Result EXCEPT !.reconciliation = TRUE]
  <2>1. /\ p \in PartType /\ p.result /\ p.proof /\ ~p.metrics /\ ~p.snapshot
        /\ p.reconciliation /\ p.disposition = "none" /\ ~p.artifacts /\ ~p.verified
        /\ ~p.revoked /\ ~p.evidence /\ ~p.loose
    BY DEF Bare, Proof, Result, PartType, Disposition
  <2>2. /\ e \in EnvType /\ e.sequence = env.sequence /\ e.generation = env.generation
        /\ e.state = "TORN_DOWN"
    BY <1>2 DEF EnvType, State
  <2>3. Succeed(e, p)
    BY <1>4
  <2> HIDE DEF e, p
  <2>4. /\ Success[cur.op] = "TEARDOWN_CONFIRMED"
        /\ cur.stateBefore \in SuccessBefore(Success[cur.op])
        /\ e.state = SuccessAfter(Success[cur.op])
    BY <1>3, <2>2 DEF Success, SuccessBefore, SuccessAfter
  <2>5. DispositionOK(ReceiptOf(cur, e, "UNVERIFIED", Success[cur.op], p))
    BY <1>3, <2>1, <2>4 DEF DispositionOK, ReceiptOf
  <2>6. snapshots' \in Seq(Snapshot) /\ Len(snapshots') <= MaxSnapshots /\ SnapInv'
    BY <1>1, <1>4, SnapshotFacts DEF history
  <2> QED BY <1>1, <1>3, <1>4, <2>1, <2>2, <2>3, <2>4, <2>5, <2>6, SuccessKeeps
<1>5. ASSUME NEW code \in {"TEARDOWN_ORPHANS_REMAIN", "TEARDOWN_RECONCILIATION_UNVERIFIED",
                           "TRUST_CALLBACK_TIMEOUT"},
             NEW p \in PartType, p.result, ~p.metrics, ~p.snapshot, p.disposition = "none",
             ~p.artifacts, ~p.verified, ~p.revoked, ~p.evidence, ~p.loose,
             Settle(cur, quarantine(env), "BLOCKED", code, p),
             UNCHANGED callbacks \/ TimesOut("reconcile"), UNCHANGED snapshots
      PROVE  EnvironmentInv'
  <2>1. /\ code \in PostDispatchCodes \/ code = "TRUST_CALLBACK_TIMEOUT"
        /\ code # "ARTIFACTS_EXPORTED" /\ "reconcile" \in Labels
    BY DEF PostDispatchCodes, Labels, Await
  <2>2. DispositionOK(ReceiptOf(cur, quarantine(env), "BLOCKED", code, p))
    BY <1>3, <1>5, <2>1 DEF DispositionOK, ReceiptOf
  <2> QED BY <1>1, <1>2, <1>3, <1>5, <2>1, <2>2, QuarantineKeeps
<1>6. ASSUME NEW code \in {"TEARDOWN_ORPHANS_REMAIN", "TEARDOWN_RECONCILIATION_UNVERIFIED"},
             NEW b \in BOOLEAN,
             Settle(cur, quarantine(env), "BLOCKED", code, [Result EXCEPT !.reconciliation = b]),
             UNCHANGED <<snapshots, callbacks>>
      PROVE  EnvironmentInv'
  <2> DEFINE p == [Result EXCEPT !.reconciliation = b]
  <2>1. /\ p \in PartType /\ p.result /\ ~p.metrics /\ ~p.snapshot
        /\ p.disposition = "none" /\ ~p.artifacts /\ ~p.verified /\ ~p.revoked /\ ~p.evidence /\ ~p.loose
    BY DEF Bare, Proof, Result, PartType, Disposition
  <2>2. Settle(cur, quarantine(env), "BLOCKED", code, p)
    BY <1>6
  <2> HIDE DEF p
  <2> QED BY <1>5, <1>6, <2>1, <2>2
<1>7. CASE /\ TimesOut("reconcile") /\ UNCHANGED snapshots
           /\ Settle(cur, quarantine(env), "BLOCKED", "TRUST_CALLBACK_TIMEOUT", Result)
  BY <1>5, <1>7, PartFacts
<1>8. CASE /\ \E code \in {"TEARDOWN_ORPHANS_REMAIN", "TEARDOWN_RECONCILIATION_UNVERIFIED"} :
                Settle(cur, quarantine(env), "BLOCKED", code,
                       [Result EXCEPT !.reconciliation = (code = "TEARDOWN_ORPHANS_REMAIN")])
           /\ UNCHANGED <<snapshots, callbacks>>
  BY <1>6, <1>8
<1> QED BY <1>4, <1>7, <1>8 DEF teardownReconciler

-----------------------------------------------------------------------------
(***************************************************************************)
(* What happens behind an attempt's back.                                   *)
(***************************************************************************)
LEMMA LateKeeps ==
  ASSUME EnvironmentInv, LateSettles
  PROVE  EnvironmentInv'
<1>1. PICK x \in running : running' = running \ {x} /\ late' = late \ {x.sequence}
  BY DEF LateSettles
<1>2. UNCHANGED <<env, snapshots, cur, receipt, resource, dispatched, tried>>
  BY DEF LateSettles, history
<1>3. LateInv'
  BY <1>1, <1>2 DEF EnvironmentInv, LateInv
<1>4. TypeOK'
  BY <1>1, <1>2 DEF EnvironmentInv, TypeOK
<1> QED BY <1>1, <1>2, <1>3, <1>4
   DEF EnvironmentInv, AttemptInv, CountInv, SnapInv, ReceiptsParse, TornDownIsGone

LEMMA BackendKeeps ==
  ASSUME EnvironmentInv, BackendActs
  PROVE  EnvironmentInv'
<1>1. /\ UNCHANGED <<env, snapshots, late, running, cur, receipt, dispatched, tried>>
      /\ \/ "provision" \in Acting /\ resource' = TRUE
         \/ resource' = FALSE
  BY DEF BackendActs, callbacks, history
<1>2. resource' => "provision" \in Acting
  BY <1>1
<1>3. TornDownIsGone'
  <2>1. ASSUME env.state = "TORN_DOWN" PROVE "provision" \notin Acting
    <3>1. \A x \in running : x.label # "provision"
      BY <2>1 DEF EnvironmentInv, TornDownIsGone
    <3>2. cur.at = "call" => cur.op # "provision"
      <4>1. SUFFICES ASSUME cur.at = "call" PROVE cur.op # "provision"
        OBVIOUS
      <4>2. cur # Idle /\ AttemptInv
        BY <4>1 DEF Idle, EnvironmentInv
      <4>3. env.state = cur.stateBefore
        BY <4>1, <4>2 DEF AttemptInv
      <4> QED BY <2>1, <4>2, <4>3 DEF AttemptInv
    <3> QED BY <3>1, <3>2 DEF Acting
  <2> QED BY <1>1, <1>2, <2>1 DEF EnvironmentInv, TornDownIsGone
<1>4. TypeOK'
  BY <1>1 DEF EnvironmentInv, TypeOK
<1> QED BY <1>1, <1>3, <1>4
   DEF EnvironmentInv, AttemptInv, CountInv, LateInv, SnapInv, ReceiptsParse

LEMMA EnvironmentNext == EnvironmentInv /\ [Next]_vars => EnvironmentInv'
<1> SUFFICES ASSUME EnvironmentInv, [Next]_vars PROVE EnvironmentInv'
  OBVIOUS
<1>1. CASE \E op \in Operation : Attempt(op)
  BY <1>1, AttemptKeeps
<1>2. CASE trustedProof \/ projectionProof
  BY <1>2, TrustSteps
<1>3. CASE backendFailure \/ invalidResult
  BY <1>3, BackendFailures
<1>4. CASE provisionNow \/ startNow \/ executeNow \/ snapshotNow \/ restoreNow
  BY <1>4, ResultSteps
<1>5. CASE exportNow \/ teardownNow
  BY <1>5, ResultToProve DEF exportNow, teardownNow
<1>6. CASE artifactProof \/ revokeArtifacts
  BY <1>6, ExportSteps
<1>7. CASE teardownReconciler
  BY <1>7, TeardownSteps
<1>8. CASE LateSettles
  BY <1>8, LateKeeps
<1>9. CASE BackendActs
  BY <1>9, BackendKeeps
<1>10. CASE UNCHANGED vars
  BY <1>10 DEF vars, EnvironmentInv, TypeOK, AttemptInv, CountInv, LateInv, SnapInv,
     ReceiptsParse, TornDownIsGone
<1> QED BY <1>1, <1>2, <1>3, <1>4, <1>5, <1>6, <1>7, <1>8, <1>9, <1>10 DEF Next
-----------------------------------------------------------------------------
(***************************************************************************)
(* What Spec promises.                                                      *)
(***************************************************************************)

\* Every reachable state of an environment satisfies the invariant.
THEOREM SafeEnvironment == Spec => []EnvironmentInv
BY EnvironmentInit, EnvironmentNext, PTL DEF Spec

\* The variables keep their types, and the states that use a runtime know its handle.
THEOREM SpecTypeOK == Spec => []TypeOK
<1>1. EnvironmentInv => TypeOK
  BY DEF EnvironmentInv
<1> QED BY <1>1, SafeEnvironment, PTL

\* Whatever the trust service and the backend answer, and whenever, parse takes each receipt
\* for true that attempt issues, save those of the kinds that Refused names.
THEOREM SpecReceiptsParse == Spec => []ReceiptsParse
<1>1. EnvironmentInv => ReceiptsParse
  BY DEF EnvironmentInv
<1> QED BY <1>1, SafeEnvironment, PTL

\* However late timed-out calls settle, none brings a torn-down runtime back.
THEOREM SpecTornDownIsGone == Spec => []TornDownIsGone
<1>1. EnvironmentInv => TornDownIsGone
  BY DEF EnvironmentInv
<1> QED BY <1>1, SafeEnvironment, PTL

\* An attempt that restores a snapshot finds it unconsumed and of this generation, so that
\* nobody restored it before and the backend was not called since.
LEMMA RestoreStep ==
  ASSUME EnvironmentInv, [Next]_vars, cur = Idle, cur'.at = "prove",
         NEW s \in tried', cur'.snap = s
  PROVE  s \notin tried /\ snapshots[s].dispatched = dispatched
<1>1. /\ tried \subseteq 1 .. MaxSnapshots /\ MaxSnapshots \in Nat
      /\ snapshots \in Seq(Snapshot) /\ SnapInv /\ CountInv /\ cur.at = "idle"
      /\ dispatched \in Nat /\ env \in EnvType
  BY BoundsAssumption DEF EnvironmentInv, TypeOK, Snapshot, EnvType, Idle
<1>2. cur' # Idle /\ cur' # cur
  BY DEF Idle
<1>3. PICK op \in Operation : Attempt(op)
  <2>1. ~UNCHANGED vars /\ ~LateSettles /\ ~BackendActs
    BY <1>2 DEF vars, LateSettles, BackendActs
  <2>2. /\ ~trustedProof /\ ~projectionProof /\ ~backendFailure /\ ~invalidResult
        /\ ~provisionNow /\ ~startNow /\ ~executeNow /\ ~snapshotNow /\ ~restoreNow
        /\ ~exportNow /\ ~artifactProof /\ ~revokeArtifacts
        /\ ~teardownNow /\ ~teardownReconciler
    BY <1>1 DEF trustedProof, projectionProof, backendFailure, invalidResult, provisionNow,
       startNow, executeNow, snapshotNow, restoreNow, exportNow, artifactProof,
       revokeArtifacts, teardownNow, teardownReconciler
  <2> QED BY <2>1, <2>2 DEF Next
<1> DEFINE c == Started(op)
<1>4. c \in Beginning /\ c.snap = 0
  <2>1. env.sequence < MaxAttempts
    BY <1>3 DEF Attempt
  <2> QED BY <2>1, StartFacts DEF Started, Idle
<1>5. \/ Ask(c, Counted) /\ UNCHANGED <<snapshots, tried>>
      \/ \E t \in 0 .. Len(snapshots) :
           /\ Allowed("restore") /\ "none" \in snapshotFailure(t)
           /\ Ask([c EXCEPT !.snap = t], Counted)
  <2>1. \A x, e, status, code : ~Settle(x, e, status, code, Bare)
    BY <1>2 DEF Settle
  <2> QED BY <1>3, <2>1 DEF Attempt, Started, Counted
<1> HIDE DEF c
<1>6. CASE Ask(c, Counted) /\ UNCHANGED <<snapshots, tried>>
  <2>1. cur' = [c EXCEPT !.at = "prove"]
    BY <1>2, <1>6 DEF Ask, Settle
  <2>2. cur'.snap = 0
    BY <1>4, <2>1 DEF Beginning
  <2> QED BY <1>1, <1>6, <2>2
<1>7. ASSUME NEW t \in 0 .. Len(snapshots), Allowed("restore"), "none" \in snapshotFailure(t),
             Ask([c EXCEPT !.snap = t], Counted)
      PROVE  s \notin tried /\ snapshots[s].dispatched = dispatched
  <2>1. cur' = [[c EXCEPT !.snap = t] EXCEPT !.at = "prove"]
    BY <1>2, <1>7 DEF Ask, Settle
  <2>2. t \in 0 .. MaxSnapshots
    BY <1>1, <1>7 DEF EnvironmentInv, TypeOK
  <2>3. cur'.snap = t
    BY <1>4, <2>1, <2>2 DEF Beginning
  <2>4. s # 0 /\ ~snapshots[s].consumed /\ snapshots[s].generation = env.generation
    BY <1>7, <2>3 DEF snapshotFailure
  <2>5. s \in DOMAIN snapshots
    BY <1>1, <1>7, <2>3, <2>4
  <2>6. dispatched = env.generation
    <3>1. env.state = "RUNNING"
      BY <1>7 DEF Allowed
    <3> QED BY <1>1, <3>1, Counters DEF CountInv, Given, EnvironmentInv, Idle
  <2> QED BY <1>1, <2>4, <2>5, <2>6 DEF SnapInv
<1> QED BY <1>5, <1>6, <1>7

\* However restores fail or time out, a snapshot is accepted once, and only while it is fresh.
THEOREM SpecRestoreIsFreshAndOnce == Spec => RestoreIsFreshAndOnce
<1>1. EnvironmentInv /\ [Next]_vars
        => [\A s \in tried' : cur = Idle /\ cur'.at = "prove" /\ cur'.snap = s
              => s \notin tried /\ snapshots[s].dispatched = dispatched]_vars
  BY RestoreStep
<1> QED BY <1>1, SafeEnvironment, PTL DEF Spec, RestoreIsFreshAndOnce
=============================================================================
