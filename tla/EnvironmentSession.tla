------------------------- MODULE EnvironmentSession -------------------------
(***************************************************************************)
(* SerializedEnvironmentAci: the coordinators of one environment session.   *)
(* They share its queue, its sequence, its consumed snapshots and its       *)
(* quarantine.  One operation of the queue runs at a time, each adapter     *)
(* call under a timeout after which the call goes on at the adapter; the    *)
(* session is then quarantined until the late call settles and a reset      *)
(* succeeds.                                                                *)
(*                                                                          *)
(* The adapter is external: it answers with anything its answers' parser    *)
(* takes, fails, or never answers.  A request is valid but for what a       *)
(* caller may get wrong through others' calls: its sequence and its         *)
(* snapshot.  Capability, capacity and artifact refusals may always come.   *)
(***************************************************************************)
EXTENDS ScenarioReceipt

CONSTANT Calls     \* the calls that callers will make

VARIABLES session,     \* sequence, quarantined, recoveryScheduled
          consumed,    \* consumedSnapshots, by the sequence they were taken at
          queue,       \* what waits for the queue promise: calls and the recovery
          call,        \* the calls: where each stands, and what it asked for
          receipt,     \* the scenario receipt that was composed last, until an operation starts
          cur,         \* the operation that runs and the adapter call it awaits
          inflight,    \* external: the adapter calls that run
          dispatched   \* history: the sequence of the last adapter call

vars == <<session, consumed, queue, call, receipt, cur, inflight, dispatched>>

\* act, reset and collectEvidence are to the session what observe is.
Direct    == {"observe", "snapshot", "restore"}
Kind      == Direct \cup {"runScenario"}
Recovery  == "recovery"
Item      == Calls \cup {Recovery}

ASSUME CallsAssumption == Recovery \notin Calls /\ IsFiniteSet(Calls)

NoCall == [status |-> "idle", kind |-> "none", sequence |-> 0, cleanup |-> FALSE]

NoReceipt == EmptyReceipt("UNVERIFIED", "none", 0, "before")

\* awaits: the adapter operation that is awaited, and sequence: its sequence.  Of a scenario:
\* the step it is at (0 during its first reset and Steps + 1 during its cleanup) with the
\* sequences of the step's action and observation, the time, and the receipt it composes.
Idle == [item |-> Recovery, awaits |-> "none", sequence |-> 0, step |-> 0, action |-> 0,
         observation |-> 0, time |-> "before", draft |-> NoReceipt]

Init ==
  /\ session = [sequence |-> 0, quarantined |-> FALSE, recoveryScheduled |-> FALSE]
  /\ consumed = {}
  /\ queue = <<>>
  /\ call = [c \in Calls |-> NoCall]
  /\ receipt = NoReceipt
  /\ cur = Idle
  /\ inflight = {}
  /\ dispatched = 0

(***************************************************************************)
(* The queue, and calls that settle.                                        *)
(***************************************************************************)
IsScenario(c) == call[c].kind = "runScenario"

Settle(c, status) == call' = [call EXCEPT ![c].status = status]

\* createEnvironmentScenarioReceipt: the receipt, unless the validator refuses it.
Verdict(r) == IF validateEnvironmentScenarioReceipt(r) THEN "returned" ELSE "refused"

\* The snapshots callers hold: of the snapshot calls that returned one.
Snapshots == {call[c].sequence : c \in {d \in Calls : call[d].kind = "snapshot"
                                                      /\ call[d].status = "returned"}}

\* A caller counts on the calls it knows of.  A restore names its snapshot instead.
Asked(kind) ==
  CASE kind = "restore"     -> Snapshots
    [] kind = "runScenario" -> {0}
    [] OTHER                -> {session.sequence + 1, session.sequence + 2}

Asks(c, kind, s, cleanup, status) ==
  call' = [call EXCEPT ![c] = [status |-> status, kind |-> kind, sequence |-> s,
                               cleanup |-> cleanup]]

\* A quarantined session refuses a direct call at once, and gives a scenario its empty
\* receipt outside the queue.
Invoke(c) ==
  /\ call[c].status = "idle"
  /\ \E kind \in Kind, cleanup \in BOOLEAN, s \in 0 .. session.sequence + 2 :
       /\ s \in Asked(kind) /\ (cleanup \/ kind = "runScenario")
       /\ \/ /\ ~session.quarantined
             /\ Asks(c, kind, s, cleanup, "queued")
             /\ queue' = Append(queue, c)
             /\ UNCHANGED receipt
          \/ /\ session.quarantined /\ kind \in Direct
             /\ Asks(c, kind, s, cleanup, "rejected")
             /\ UNCHANGED <<queue, receipt>>
          \/ /\ session.quarantined /\ kind = "runScenario"
             /\ \E time \in Time, ahead \in BOOLEAN :
                  receipt' = [EmptyReceipt("UNVERIFIED", "unavailable", session.sequence, time)
                                EXCEPT !.ahead = ahead]
             /\ Asks(c, kind, s, cleanup, Verdict(receipt'))
             /\ UNCHANGED queue
  /\ UNCHANGED <<session, consumed, cur, inflight, dispatched>>

Front(item) == cur = Idle /\ queue # <<>> /\ Head(queue) = item

(***************************************************************************)
(* awaitAdapter: a dispatched call, its answer, and its timeout.            *)
(***************************************************************************)
reserveNextSequence(s) == [s EXCEPT !.sequence = @ + 1]

\* The session s has reserved the sequence of this call; calls are those that run beside it.
Dispatch(s, run, operation, calls) ==
  /\ session' = s
  /\ cur' = [run EXCEPT !.awaits = operation, !.sequence = s.sequence]
  /\ inflight' = calls \cup {[sequence |-> s.sequence, recovers |-> FALSE]}
  /\ dispatched' = s.sequence

Awaited(x) == cur.awaits # "none" /\ x.sequence = cur.sequence
Answered   == \E x \in inflight : Awaited(x)
Others     == {x \in inflight : ~Awaited(x)}

\* The timer wins: the session is quarantined, and once a recovery is attached to the late
\* call.
Quarantined(s) == [s EXCEPT !.quarantined = TRUE, !.recoveryScheduled = TRUE]

Attached ==
  IF session.recoveryScheduled THEN inflight
  ELSE {IF Awaited(x) THEN [x EXCEPT !.recovers = TRUE] ELSE x : x \in inflight}

\* A call that timed out settles at last; the recovery that was attached to it is queued.
quarantineAfterLateSettlement ==
  \E x \in Others :
    /\ inflight' = inflight \ {x}
    /\ queue' = IF x.recovers THEN Append(queue, Recovery) ELSE queue
    /\ UNCHANGED <<session, consumed, call, receipt, cur, dispatched>>

(***************************************************************************)
(* observe, act, reset, snapshot, restore, collectEvidence.                 *)
(***************************************************************************)
RunsDirect(c) == Front(c) /\ ~IsScenario(c)

\* A restore takes the snapshot of the last sequence, once; the others the next sequence.
\* Mutation of Admits: the quarantine is looked at only when the call is made.
Admits_Unchecked(c) ==
  IF call[c].kind = "restore"
  THEN call[c].sequence \notin consumed /\ call[c].sequence = session.sequence
  ELSE call[c].sequence = session.sequence + 1
\* Mutation of Admits: a snapshot of an earlier sequence is restored.
Admits_Stale(c) ==
  /\ ~session.quarantined
  /\ IF call[c].kind = "restore"
     THEN call[c].sequence \notin consumed /\ call[c].sequence <= session.sequence
     ELSE call[c].sequence = session.sequence + 1
Admits(c) ==
  /\ ~session.quarantined
  /\ IF call[c].kind = "restore"
     THEN call[c].sequence \notin consumed /\ call[c].sequence = session.sequence
     ELSE call[c].sequence = session.sequence + 1

RefuseDirect(c) ==
  /\ RunsDirect(c)
  /\ queue' = Tail(queue)
  /\ Settle(c, "rejected")
  /\ receipt' = NoReceipt
  /\ UNCHANGED <<session, consumed, cur, inflight, dispatched>>

StartDirect(c) ==
  /\ RunsDirect(c) /\ Admits(c)
  /\ queue' = Tail(queue)
  /\ consumed' = IF call[c].kind = "restore" THEN consumed \cup {call[c].sequence} ELSE consumed
  /\ Dispatch(reserveNextSequence(session), [Idle EXCEPT !.item = c], call[c].kind, inflight)
  /\ receipt' = NoReceipt
  /\ UNCHANGED call

Runs == cur.awaits # "none"

IsDirect == Runs /\ cur.item \in Calls /\ ~IsScenario(cur.item)

\* The answer is bound to its request, or the call is rejected.
AnswerDirect ==
  /\ IsDirect /\ Answered
  /\ \E status \in {"returned", "rejected"} : Settle(cur.item, status)
  /\ cur' = Idle
  /\ inflight' = Others
  /\ UNCHANGED <<session, consumed, queue, receipt, dispatched>>

\* Mutation of TimeoutDirect: a restore is awaited without a timeout.
TimeoutDirect_NotRestore ==
  /\ IsDirect /\ cur.awaits # "restore"
  /\ Settle(cur.item, "rejected")
  /\ session' = Quarantined(session)
  /\ inflight' = Attached
  /\ cur' = Idle
  /\ UNCHANGED <<consumed, queue, receipt, dispatched>>
TimeoutDirect ==
  /\ IsDirect
  /\ Settle(cur.item, "rejected")
  /\ session' = Quarantined(session)
  /\ inflight' = Attached
  /\ cur' = Idle
  /\ UNCHANGED <<consumed, queue, receipt, dispatched>>

(***************************************************************************)
(* The recovery: one reset, whose own timeout schedules no other.           *)
(***************************************************************************)
StartRecovery ==
  /\ Front(Recovery) /\ session.quarantined
  /\ queue' = Tail(queue)
  /\ Dispatch(reserveNextSequence(session), Idle, "reset", inflight)
  /\ receipt' = NoReceipt
  /\ UNCHANGED <<consumed, call>>

Recovers == Runs /\ cur.item = Recovery

\* Mutation of AnswerRecovery: a failed recovery leaves its flag.
AnswerRecovery_FlagStays ==
  /\ Recovers /\ Answered
  /\ \E bound \in BOOLEAN :
       session' = [session EXCEPT !.recoveryScheduled = ~bound, !.quarantined = ~bound]
  /\ cur' = Idle
  /\ inflight' = Others
  /\ UNCHANGED <<consumed, queue, call, receipt, dispatched>>
AnswerRecovery ==
  /\ Recovers /\ Answered
  /\ \E bound \in BOOLEAN :
       session' = [session EXCEPT !.recoveryScheduled = FALSE, !.quarantined = ~bound]
  /\ cur' = Idle
  /\ inflight' = Others
  /\ UNCHANGED <<consumed, queue, call, receipt, dispatched>>

TimeoutRecovery ==
  /\ Recovers
  /\ session' = [session EXCEPT !.recoveryScheduled = FALSE]
  /\ cur' = Idle
  /\ UNCHANGED <<consumed, queue, call, receipt, inflight, dispatched>>

(***************************************************************************)
(* runScenario.  Between two awaits: what an answer or a timeout makes of   *)
(* the draft, then the next dispatch, or the cleanup, or the receipt.       *)
(***************************************************************************)
Thrown(run, reason, path) ==
  [run EXCEPT !.draft.status = "FAIL", !.draft.reason = reason,
              !.draft.negative = @ \cup {path}]

Mismatch(run) == Thrown(run, "receipt-invalid", "adapter-receipt-mismatch")

CleanupFailed(run) ==
  [run EXCEPT !.draft.status = "FAIL", !.draft.negative = @ \cup {"cleanup-failed"},
              !.draft.reason = IF @ = "none" THEN "cleanup-failed" ELSE @]

\* A receipt of several operations may be too large although none of them is; nothing
\* compared the scenario's request with the clock before the validator does.
Sealed(s, run, calls) ==
  /\ \E fits \in {TRUE} \cup {FALSE : o \in Operations(run.draft)}, ahead \in BOOLEAN :
       receipt' = [run.draft EXCEPT !.sequence = s.sequence, !.time = run.time,
                                    !.ahead = ahead, !.fits = fits]
  /\ Settle(run.item, Verdict(receipt'))
  /\ session' = s
  /\ cur' = Idle
  /\ inflight' = calls
  /\ UNCHANGED dispatched

\* Mutation of Finally: the cleanup does not wait for a late call.
Finally_CleansAnyway(s, run, calls) ==
  IF ~call[run.item].cleanup THEN Sealed(s, run, calls)
  ELSE IF run.time = "before"
  THEN /\ Dispatch(reserveNextSequence(s), [run EXCEPT !.step = Steps + 1], "reset", calls)
       /\ UNCHANGED <<call, receipt>>
  ELSE Sealed([reserveNextSequence(s) EXCEPT !.quarantined = TRUE], CleanupFailed(run), calls)
\* The finally block, once the first reset was attempted.
Finally(s, run, calls) ==
  IF ~call[run.item].cleanup THEN Sealed(s, run, calls)
  ELSE IF s.quarantined
  THEN Sealed(s, [run EXCEPT !.draft.negative = @ \cup {"cleanup-deferred"}], calls)
  ELSE IF run.time = "before"
  THEN /\ Dispatch(reserveNextSequence(s), [run EXCEPT !.step = Steps + 1], "reset", calls)
       /\ UNCHANGED <<call, receipt>>
  ELSE Sealed([reserveNextSequence(s) EXCEPT !.quarantined = TRUE], CleanupFailed(run), calls)

\* The next operation of the scenario; its sequence is reserved before timeoutFor looks.
Proceed(run, operation, calls) ==
  LET s == reserveNextSequence(session) IN
  IF run.time = "before"
  THEN Dispatch(s, run, operation, calls) /\ UNCHANGED <<call, receipt>>
  ELSE Finally(s, Thrown(run, "deadline-expired", "adapter-operation-timeout"), calls)

\* The next step's action, if its kind was negotiated; after the last step the cleanup.
NextStep(run, calls) ==
  IF run.step = Steps THEN Finally(session, run, calls)
  ELSE \/ Proceed([run EXCEPT !.step = @ + 1, !.action = session.sequence + 1], "act", calls)
       \/ Finally(session, Mismatch(run), calls)

RunsScenario(c) == Front(c) /\ IsScenario(c)
Fresh == EmptyReceipt("PASS", "none", 0, "before")

\* No capability, no artifact validator, or a quarantine since the call was queued.
RefuseScenario(c) ==
  /\ RunsScenario(c)
  /\ queue' = Tail(queue)
  /\ \E time \in Time :
       Sealed(session, [Idle EXCEPT !.item = c, !.time = time, !.draft =
                EmptyReceipt("UNVERIFIED", "unavailable", session.sequence, time)], inflight)
  /\ UNCHANGED consumed

\* The deadline is looked at before the first reset's sequence is reserved and, by timeoutFor,
\* after it.  A scenario that starts at or after its deadline was requested before it.
StartScenario(c) ==
  /\ RunsScenario(c) /\ ~session.quarantined
  /\ queue' = Tail(queue)
  /\ \E time \in Time :
       LET run == [Idle EXCEPT !.item = c, !.time = time, !.draft = Fresh] IN
       IF time = "before"
       THEN /\ Dispatch(reserveNextSequence(session), run, "reset", inflight)
            /\ receipt' = NoReceipt
            /\ UNCHANGED call
       ELSE \/ Sealed(session, Mismatch(run), inflight) /\ ~receipt'.ahead
            \/ Finally(reserveNextSequence(session),
                       Thrown(run, "deadline-expired", "adapter-operation-timeout"), inflight)
  /\ UNCHANGED consumed

InScenario == Runs /\ cur.item \in Calls /\ IsScenario(cur.item)
InStep     == InScenario /\ cur.step <= Steps
InCleanup  == InScenario /\ cur.step = Steps + 1

Tick ==
  /\ InScenario
  /\ \/ cur.time = "before" /\ cur' = [cur EXCEPT !.time = "at"]
     \/ cur.time = "at" /\ cur' = [cur EXCEPT !.time = "after"]
  /\ UNCHANGED <<session, consumed, queue, call, receipt, inflight, dispatched>>

\* A reset's observation is kept before it is compared with its request.
AnswerReset ==
  /\ InStep /\ Answered /\ cur.awaits = "reset"
  /\ \/ \E timely \in BOOLEAN :
          NextStep([cur EXCEPT !.draft.reset = Observed(TRUE, cur.sequence),
                               !.draft.timely = timely], Others)
     \/ \E other \in {Observed(FALSE, cur.sequence), Observed(TRUE, cur.sequence - 1),
                      Observed(TRUE, cur.sequence + 1)} :
          Finally(session, Mismatch([cur EXCEPT !.draft.reset = other]), Others)
  /\ UNCHANGED <<consumed, queue>>

\* Mutation of Reported: the scenario's status stays.
Reported_KeepsStatus(run, status, negative, timely) ==
  [run EXCEPT !.draft.reason = "reported",
              !.draft.negative = @ \cup (IF negative THEN {"reported"} ELSE {}),
              !.draft.timely = @ /\ timely]
\* A nested result that is not PASS ends the steps, with the adapter's own reason.
Reported(run, status, negative, timely) ==
  [run EXCEPT !.draft.status = status, !.draft.reason = "reported",
              !.draft.negative = @ \cup (IF negative THEN {"reported"} ELSE {}),
              !.draft.timely = @ /\ timely]

PushAction(run, status) ==
  [run EXCEPT !.draft.actions = Append(@, run.action), !.draft.results = Append(@, status)]

PushEvidence(run, status) ==
  [PushAction(run, "PASS") EXCEPT
     !.draft.observations = Append(@, run.observation),
     !.draft.evidence = Append(@, [sequence |-> cur.sequence, status |-> status])]

AnswerAct ==
  /\ InStep /\ Answered /\ cur.awaits = "act"
  /\ \/ Proceed([cur EXCEPT !.observation = session.sequence + 1], "observe", Others)
     \/ \E status \in Status \ {"PASS"}, negative, timely \in BOOLEAN :
          Finally(session, Reported(PushAction(cur, status), status, negative, timely), Others)
  /\ UNCHANGED <<consumed, queue>>

AnswerObserve ==
  /\ InStep /\ Answered /\ cur.awaits = "observe"
  /\ Proceed(cur, "collectEvidence", Others)
  /\ UNCHANGED <<consumed, queue>>

AnswerEvidence ==
  /\ InStep /\ Answered /\ cur.awaits = "collectEvidence"
  /\ \E timely \in BOOLEAN :
       \/ NextStep([PushEvidence(cur, "PASS") EXCEPT !.draft.timely = @ /\ timely], Others)
       \/ \E status \in Status \ {"PASS"}, negative \in BOOLEAN :
            Finally(session, Reported(PushEvidence(cur, status), status, negative, timely),
                    Others)
  /\ UNCHANGED <<consumed, queue>>

\* The adapter rejects, or its answer is not one, or not the answer to this request.
AnswerFails ==
  /\ InStep /\ Answered
  /\ \E run \in {Thrown(cur, "adapter-failed", "adapter-operation-failed"), Mismatch(cur)} :
       Finally(session, run, Others)
  /\ UNCHANGED <<consumed, queue>>

TimeoutStep ==
  /\ InStep
  /\ Finally(Quarantined(session),
             Thrown(cur, "adapter-timeout", "adapter-operation-timeout"), Attached)
  /\ UNCHANGED <<consumed, queue>>

\* Mutation of AnswerCleanup: an observation that is not the cleanup's stays in the receipt.
AnswerCleanup_Kept ==
  /\ InCleanup /\ Answered
  /\ \E bound, timely \in BOOLEAN :
       Sealed([session EXCEPT !.quarantined = ~bound],
              [cur EXCEPT !.draft.cleanup = Observed(TRUE, cur.sequence),
                          !.draft.timely = @ /\ timely], Others)
  /\ UNCHANGED <<consumed, queue>>
AnswerCleanup ==
  /\ InCleanup /\ Answered
  /\ \/ \E timely \in BOOLEAN :
          Sealed(session, [cur EXCEPT !.draft.cleanup = Observed(TRUE, cur.sequence),
                                      !.draft.timely = @ /\ timely], Others)
     \/ Sealed([session EXCEPT !.quarantined = TRUE], CleanupFailed(cur), Others)
  /\ UNCHANGED <<consumed, queue>>

TimeoutCleanup ==
  /\ InCleanup
  /\ Sealed(Quarantined(session), CleanupFailed(cur), Attached)
  /\ UNCHANGED <<consumed, queue>>

Next ==
  \/ \E c \in Calls : \/ Invoke(c) \/ RefuseDirect(c) \/ StartDirect(c)
                      \/ RefuseScenario(c) \/ StartScenario(c)
  \/ AnswerDirect \/ TimeoutDirect
  \/ StartRecovery \/ AnswerRecovery \/ TimeoutRecovery
  \/ Tick \/ AnswerReset \/ AnswerAct \/ AnswerObserve \/ AnswerEvidence
  \/ AnswerFails \/ TimeoutStep \/ AnswerCleanup \/ TimeoutCleanup
  \/ quarantineAfterLateSettlement

Timeout == TimeoutDirect \/ TimeoutRecovery \/ TimeoutStep \/ TimeoutCleanup
Start   == StartRecovery \/ \E c \in Calls : RefuseDirect(c) \/ RefuseScenario(c)
                                             \/ StartDirect(c) \/ StartScenario(c)

\* Timers fire and queued operations start; the adapter owes nothing.
Spec == Init /\ [][Next]_vars /\ WF_vars(Timeout) /\ WF_vars(Start)

(***************************************************************************)
(* Properties.                                                              *)
(***************************************************************************)
TypeOK ==
  /\ session \in [sequence : Nat, quarantined : BOOLEAN, recoveryScheduled : BOOLEAN]
  /\ consumed \subseteq Nat
  /\ queue \in Seq(Item)
  /\ call \in [Calls -> [status : {"idle", "queued", "returned", "rejected", "refused"},
                        kind : Kind \cup {"none"}, sequence : Nat, cleanup : BOOLEAN]]
  /\ cur.item \in Item /\ cur.step \in 0 .. Steps + 1
  /\ inflight \subseteq [sequence : Nat, recovers : BOOLEAN]
  /\ dispatched \in Nat

\* The adapter never runs two calls of a session at once, however late one is: a call that
\* timed out keeps everybody away until it has settled (quarantineAfterLateSettlement).
NoOverlap == \A x, y \in inflight : x = y

\* A recovery is pending exactly when one is scheduled: attached to a call that still runs,
\* queued, or running.  A flag that stayed behind would keep the session quarantined for ever.
RecoveryPending ==
  session.recoveryScheduled <=>
    \/ \E x \in inflight : x.recovers
    \/ \E i \in DOMAIN queue : queue[i] = Recovery
    \/ Recovers

\* Whatever waited in the queue while the session was quarantined, only the recovery's reset
\* reaches the adapter (requireSessionAvailable, checked again when the operation starts).
OnlyRecoveryInQuarantine ==
  [][dispatched' # dispatched /\ session.quarantined => cur'.item = Recovery]_vars

\* A snapshot is restored only if no call reached the adapter since the one that took it, and
\* none is running (validateSnapshotForRestore, reserveNextSequence).
RestoreIsFresh ==
  [][\A c \in Calls : cur' # cur /\ cur'.item = c /\ cur'.awaits = "restore"
       => dispatched = call[c].sequence /\ inflight = {}]_vars

\* A scenario that ran yields a receipt its own validator takes -- except when its request is
\* dated ahead of the coordinator's clock, the deadline passed and no timeout says so, the
\* first reset's observation belongs elsewhere, an UNVERIFIED result has negative paths, a
\* nested time or the size is out of bounds, or all passed and the coordinator does not clean
\* up.
Excused(r) ==
  \/ r.ahead \/ ~r.timely \/ ~r.fits
  \/ ~WithinDeadline(r)
  \/ /\ r.reason = "receipt-invalid" /\ r.actions = <<>> /\ IsObserved(r.reset)
     /\ ~r.reset.identity \/ r.reset.sequence \in {r.sequence, r.sequence + 1}
  \/ r.reason = "reported" /\ r.status = "UNVERIFIED" /\ "reported" \in r.negative
  \/ r.status = "PASS" /\ ~IsObserved(r.cleanup)

ScenariosYieldReceipts ==
  receipt = NoReceipt \/ validateEnvironmentScenarioReceipt(receipt) \/ Excused(receipt)

\* A receipt says PASS only when every step passed and the session was cleaned up after them:
\* nothing of the scenario runs on, and the session is open for the next one.
PassLeavesNothing ==
  [][receipt' # receipt /\ receipt'.status = "PASS" /\ validateEnvironmentScenarioReceipt(receipt')
       => /\ ~session'.quarantined /\ inflight' = {}
          /\ receipt'.sequence = dispatched']_vars

\* Every call settles, though the adapter may never answer: a timeout ends each wait, and a
\* failed operation does not stop the queue (serialize).
CallsSettle == \A c \in Calls : call[c].status = "queued" ~> call[c].status # "queued"
=============================================================================
