----------------------- MODULE EnvironmentSessionProofs -----------------------
(***************************************************************************)
(* What holds of every session, for any number of calls and steps.          *)
(*                                                                          *)
(* A session is in one of five phases, by its two flags.  Open: nothing is  *)
(* late, and at most the awaited call runs.  Late: a call timed out, runs,  *)
(* and carries the recovery.  Settled: it has settled, nothing runs, and    *)
(* the recovery waits in the queue.  Recovering: its reset is awaited.      *)
(* Closed: the recovery or a cleanup failed; nothing will run again, though *)
(* one late reset may.  Every action keeps or changes the phase, and the    *)
(* properties are read off the phases.                                      *)
(*                                                                          *)
(* The receipts rest on a second invariant, of the draft that the running   *)
(* scenario composes.  While its steps go on the draft is determined: all   *)
(* that was recorded passed, each with the next sequence.  Once they have   *)
(* ended it is composed: whatever the finally block makes of it, and        *)
(* whatever becomes of its cleanup, the validator takes it.                 *)
(***************************************************************************)
EXTENDS EnvironmentSession, FiniteSetTheorems, TLAPS

SessionType == [sequence : Nat, quarantined : BOOLEAN, recoveryScheduled : BOOLEAN]
CallType == [status : {"idle", "queued", "returned", "rejected", "refused"},
             kind : Kind \cup {"none"}, sequence : Nat, cleanup : BOOLEAN]

Shape(run) ==
  run = [item |-> run.item, awaits |-> run.awaits, sequence |-> run.sequence,
         step |-> run.step, action |-> run.action, observation |-> run.observation,
         time |-> run.time, draft |-> run.draft]

HoldsCalls(q) == \A i \in DOMAIN q : q[i] \in Calls

\* The queue holds the recovery once.
HoldsRecovery(q) ==
  \E i \in DOMAIN q : q[i] = Recovery /\ \A j \in DOMAIN q \ {i} : q[j] \in Calls

OnlyAwaited == inflight = {[sequence |-> cur.sequence, recovers |-> FALSE]}

Open ==
  /\ ~session.quarantined /\ ~session.recoveryScheduled /\ HoldsCalls(queue)
  /\ \/ cur = Idle /\ inflight = {}
     \/ Runs /\ cur.item \in Calls /\ OnlyAwaited

Late ==
  /\ session.quarantined /\ session.recoveryScheduled /\ HoldsCalls(queue)
  /\ cur = Idle
  /\ \E n \in Nat : inflight = {[sequence |-> n, recovers |-> TRUE]}

Settled ==
  /\ session.quarantined /\ session.recoveryScheduled /\ HoldsRecovery(queue)
  /\ cur = Idle /\ inflight = {}

Recovering ==
  /\ session.quarantined /\ session.recoveryScheduled /\ HoldsCalls(queue)
  /\ Runs /\ cur.item = Recovery /\ OnlyAwaited

Closed ==
  /\ session.quarantined /\ ~session.recoveryScheduled /\ HoldsCalls(queue)
  /\ cur = Idle
  /\ \/ inflight = {}
     \/ \E n \in Nat : inflight = {[sequence |-> n, recovers |-> FALSE]}

Phase == Open \/ Late \/ Settled \/ Recovering \/ Closed

\* Whatever was taken by a snapshot, or is asked of a restore, had reached the adapter.
Reached ==
  /\ dispatched <= session.sequence
  /\ \A c \in Calls : /\ call[c].kind = "restore" => call[c].sequence <= dispatched
                      /\ call[c].kind = "snapshot" /\ call[c].status = "returned"
                           => call[c].sequence <= dispatched
                      /\ call[c].kind = "snapshot" /\ Runs /\ cur.item = c
                           => call[c].sequence <= dispatched

\* A call that waits or runs is made once, and a scenario makes no restore.
Made ==
  /\ \A i \in DOMAIN queue : queue[i] \in Calls => call[queue[i]].status # "idle"
  /\ Runs /\ cur.item \in Calls =>
       /\ call[cur.item].status # "idle"
       /\ IsScenario(cur.item) => cur.awaits # "restore"
  /\ \A c \in Calls : call[c].kind = "none" => call[c].status = "idle"

Typed == TypeOK /\ Shape(cur) /\ cur.sequence \in Nat

IInv == Typed /\ Phase /\ Reached /\ Made

(***************************************************************************)
(* The queue.                                                               *)
(***************************************************************************)
LEMMA QueueTail ==
  ASSUME NEW q \in Seq(Item), q # <<>>
  PROVE  /\ Head(q) \in Item /\ Tail(q) \in Seq(Item)
         /\ \A i \in DOMAIN Tail(q) : i + 1 \in DOMAIN q /\ Tail(q)[i] = q[i + 1]
         /\ HoldsCalls(q) => HoldsCalls(Tail(q)) /\ Head(q) \in Calls
BY DEF HoldsCalls

LEMMA QueueAppend ==
  ASSUME NEW q \in Seq(Item), NEW x \in Item
  PROVE  /\ Append(q, x) \in Seq(Item)
         /\ \A i \in DOMAIN Append(q, x) : \/ i \in DOMAIN q /\ Append(q, x)[i] = q[i]
                                           \/ Append(q, x)[i] = x
         /\ HoldsCalls(q) /\ x \in Calls => HoldsCalls(Append(q, x))
BY DEF HoldsCalls

LEMMA RecoveryAppended ==
  ASSUME NEW q \in Seq(Item), HoldsCalls(q)
  PROVE  HoldsRecovery(Append(q, Recovery))
BY DEF HoldsCalls, HoldsRecovery

LEMMA RecoveryTaken ==
  ASSUME NEW q \in Seq(Item), q # <<>>, HoldsRecovery(q), Head(q) = Recovery
  PROVE  HoldsCalls(Tail(q))
<1>1. PICK i \in DOMAIN q : q[i] = Recovery /\ \A j \in DOMAIN q \ {i} : q[j] \in Calls
  BY DEF HoldsRecovery
<1>2. i = 1
  BY <1>1, CallsAssumption
<1> QED
  BY <1>1, <1>2, QueueTail DEF HoldsCalls

LEMMA RecoveryKept ==
  ASSUME NEW q \in Seq(Item), q # <<>>, HoldsRecovery(q), Head(q) \in Calls
  PROVE  HoldsRecovery(Tail(q))
<1>1. PICK i \in DOMAIN q : q[i] = Recovery /\ \A j \in DOMAIN q \ {i} : q[j] \in Calls
  BY DEF HoldsRecovery
<1>2. i # 1
  BY <1>1, CallsAssumption
<1>3. i - 1 \in DOMAIN Tail(q) /\ Tail(q)[i - 1] = Recovery
  BY <1>1, <1>2
<1>4. \A j \in DOMAIN Tail(q) \ {i - 1} : Tail(q)[j] \in Calls
  BY <1>1, <1>2
<1> QED
  BY <1>3, <1>4 DEF HoldsRecovery

(***************************************************************************)
(* How a scenario goes on: it ends, or it sends its next call.              *)
(***************************************************************************)
IsRun(run, item) == Shape(run) /\ run.item = item /\ run.step \in 0 .. Steps + 1

Ended(s, item, calls) ==
  /\ session' = s /\ cur' = Idle /\ inflight' = calls /\ dispatched' = dispatched
  /\ \E v \in {"returned", "refused"} : Settle(item, v)

Sent(s, item, calls) ==
  /\ session' = reserveNextSequence(s) /\ dispatched' = session'.sequence
  /\ call' = call
  /\ inflight' = calls \cup {[sequence |-> session'.sequence, recovers |-> FALSE]}
  /\ IsRun(cur', item) /\ cur'.awaits \notin {"none", "restore"}
  /\ cur'.sequence = session'.sequence

LateEnd(s) == [reserveNextSequence(s) EXCEPT !.quarantined = TRUE]

GoesOn(s, item, calls) ==
  \/ Ended(s, item, calls)
  \/ /\ ~s.quarantined
     /\ \/ Sent(s, item, calls) \/ Ended(LateEnd(s), item, calls)
        \/ LET t == reserveNextSequence(s) IN
             \/ Ended(t, item, calls) \/ Sent(t, item, calls)
             \/ Ended(LateEnd(t), item, calls)

LEMMA RunChanges ==
  ASSUME NEW run, NEW item, IsRun(run, item), NEW reason, NEW path,
         NEW k \in 0 .. Steps + 1
  PROVE  /\ IsRun(Thrown(run, reason, path), item)
         /\ IsRun(Mismatch(run), item)
         /\ IsRun(CleanupFailed(run), item)
         /\ IsRun([run EXCEPT !.draft.negative = @ \cup {"cleanup-deferred"}], item)
         /\ IsRun([run EXCEPT !.step = k], item)
<1>1. \A d : IsRun([run EXCEPT !.draft = d], item)
  BY DEF IsRun, Shape
<1>2. IsRun([run EXCEPT !.draft.negative = @ \cup {"cleanup-deferred"}], item)
  BY <1>1 DEF IsRun, Shape
<1>3. \A a, b : IsRun(Thrown(run, a, b), item)
  <2>1. TAKE a, b
  <2>2. Thrown(run, a, b) = [run EXCEPT !.draft = Thrown(run, a, b).draft]
    BY DEF IsRun, Shape, Thrown
  <2> QED
    BY <1>1, <2>2
<1>4. IsRun(CleanupFailed(run), item)
  <2>1. CleanupFailed(run) = [run EXCEPT !.draft = CleanupFailed(run).draft]
    BY DEF IsRun, Shape, CleanupFailed
  <2> QED
    BY <1>1, <2>1
<1>5. IsRun([run EXCEPT !.step = k], item)
  BY DEF IsRun, Shape
<1> QED
  BY <1>2, <1>3, <1>4, <1>5 DEF Mismatch

LEMMA PushIsRun ==
  ASSUME NEW run, NEW item, IsRun(run, item), NEW status
  PROVE  /\ IsRun(PushAction(run, status), item) /\ PushAction(run, status).step = run.step
         /\ IsRun(PushEvidence(run, status), item) /\ PushEvidence(run, status).step = run.step
<1>1. ASSUME NEW w, IsRun(w, item), NEW v
      PROVE  IsRun(PushAction(w, v), item) /\ PushAction(w, v).step = w.step
  <2>1. PushAction(w, v) = [w EXCEPT !.draft = PushAction(w, v).draft]
    BY <1>1 DEF IsRun, Shape, PushAction
  <2> QED
    BY <1>1, <2>1 DEF IsRun, Shape
<1>2. PICK r : r = PushAction(run, "PASS")
  OBVIOUS
<1>3. IsRun(r, item) /\ r.step = run.step
  BY <1>1, <1>2
<1>4. PICK e : e = PushEvidence(run, status)
  OBVIOUS
<1>5. e = [r EXCEPT !.draft = e.draft]
  BY <1>2, <1>3, <1>4 DEF PushEvidence, IsRun, Shape
<1> QED
  BY <1>1, <1>3, <1>4, <1>5 DEF IsRun, Shape

LEMMA ReportedIsRun ==
  ASSUME NEW run, NEW item, IsRun(run, item), NEW status, NEW negative, NEW timely
  PROVE  IsRun(Reported(run, status, negative, timely), item)
<1>1. PICK r : r = Reported(run, status, negative, timely)
  OBVIOUS
<1>2. r = [run EXCEPT !.draft = r.draft]
  BY <1>1 DEF Reported, IsRun, Shape
<1> QED
  BY <1>1, <1>2 DEF IsRun, Shape

LEMMA SealedEnds ==
  ASSUME NEW s, NEW run, NEW item, NEW calls, IsRun(run, item), Sealed(s, run, calls)
  PROVE  Ended(s, item, calls)
BY DEF IsRun, Sealed, Ended, Verdict

LEMMA DispatchSends ==
  ASSUME NEW s \in SessionType, NEW run, NEW item, NEW calls, NEW operation,
         IsRun(run, item), operation \notin {"none", "restore"},
         Dispatch(reserveNextSequence(s), run, operation, calls), call' = call
  PROVE  Sent(s, item, calls)
<1> DEFINE n == reserveNextSequence(s).sequence
<1>1. cur' = [run EXCEPT !.awaits = operation, !.sequence = n]
  BY DEF Dispatch
<1>2. IsRun(cur', item) /\ cur'.awaits = operation /\ cur'.sequence = n
  BY <1>1 DEF IsRun, Shape
<1> QED
  BY <1>2 DEF Dispatch, Sent

LEMMA ReserveType ==
  ASSUME NEW s \in SessionType
  PROVE  /\ reserveNextSequence(s) \in SessionType
         /\ reserveNextSequence(s).sequence = s.sequence + 1
         /\ reserveNextSequence(s).quarantined = s.quarantined
         /\ reserveNextSequence(s).recoveryScheduled = s.recoveryScheduled
         /\ LateEnd(s) \in SessionType
         /\ LateEnd(s).sequence = s.sequence + 1
         /\ LateEnd(s).quarantined
         /\ LateEnd(s).recoveryScheduled = s.recoveryScheduled
<1> DEFINE t == reserveNextSequence(s)
<1>1. /\ t \in SessionType /\ t.sequence = s.sequence + 1
      /\ t.quarantined = s.quarantined /\ t.recoveryScheduled = s.recoveryScheduled
  BY DEF SessionType, reserveNextSequence
<1>2. ASSUME NEW u \in SessionType
      PROVE  LET v == [u EXCEPT !.quarantined = TRUE] IN
               /\ v \in SessionType /\ v.sequence = u.sequence
               /\ v.quarantined /\ v.recoveryScheduled = u.recoveryScheduled
  BY DEF SessionType
<1> HIDE DEF t
<1>3. LateEnd(s) = [t EXCEPT !.quarantined = TRUE]
  BY DEF LateEnd, t
<1> QED
  BY <1>1, <1>2, <1>3 DEF t

LEMMA FinallyGoesOn ==
  ASSUME NEW s \in SessionType, NEW run, NEW item, NEW calls, IsRun(run, item),
         Finally(s, run, calls)
  PROVE  \/ Ended(s, item, calls)
         \/ ~s.quarantined /\ (Sent(s, item, calls) \/ Ended(LateEnd(s), item, calls))
<1>0. Steps + 1 \in 0 .. Steps + 1
  BY StepsAssumption
<1>1. CASE ~call[run.item].cleanup
  BY <1>1, SealedEnds DEF Finally
<1>2. CASE call[run.item].cleanup /\ s.quarantined
  <2> DEFINE r == [run EXCEPT !.draft.negative = @ \cup {"cleanup-deferred"}]
  <2>1. IsRun(r, item)
    BY RunChanges, <1>0
  <2>2. Sealed(s, r, calls)
    BY <1>2 DEF Finally
  <2> QED
    BY <2>1, <2>2, SealedEnds
<1>3. CASE call[run.item].cleanup /\ ~s.quarantined /\ run.time = "before"
  <2> DEFINE r == [run EXCEPT !.step = Steps + 1]
  <2>1. IsRun(r, item)
    BY RunChanges, <1>0
  <2>2. Dispatch(reserveNextSequence(s), r, "reset", calls) /\ call' = call
    BY <1>3 DEF Finally
  <2> QED
    BY <2>1, <2>2, <1>3, DispatchSends
<1>4. CASE call[run.item].cleanup /\ ~s.quarantined /\ run.time # "before"
  <2>1. IsRun(CleanupFailed(run), item)
    BY RunChanges, <1>0
  <2>2. Sealed(LateEnd(s), CleanupFailed(run), calls)
    BY <1>4 DEF Finally, LateEnd
  <2> QED
    BY <2>1, <2>2, <1>4, SealedEnds
<1> QED
  BY <1>1, <1>2, <1>3, <1>4

LEMMA FinallyIsGoesOn ==
  ASSUME NEW s \in SessionType, NEW run, NEW item, NEW calls, IsRun(run, item),
         Finally(s, run, calls)
  PROVE  GoesOn(s, item, calls)
BY FinallyGoesOn DEF GoesOn

LEMMA ProceedGoesOn ==
  ASSUME session \in SessionType, ~session.quarantined,
         NEW run, NEW item, NEW calls, NEW operation, IsRun(run, item),
         operation \notin {"none", "restore"}, Proceed(run, operation, calls)
  PROVE  GoesOn(session, item, calls)
<1> DEFINE t == reserveNextSequence(session)
<1>1. CASE run.time = "before"
  <2>1. Dispatch(t, run, operation, calls) /\ call' = call
    BY <1>1 DEF Proceed
  <2> QED
    BY <2>1, DispatchSends DEF GoesOn
<1>2. CASE run.time # "before"
  <2> DEFINE r == Thrown(run, "deadline-expired", "adapter-operation-timeout")
  <2>1. 0 \in 0 .. Steps + 1
    BY StepsAssumption
  <2>2. IsRun(r, item)
    BY RunChanges, <2>1
  <2>3. Finally(t, r, calls)
    BY <1>2 DEF Proceed
  <2>4. t \in SessionType
    BY ReserveType
  <2>5. \/ Ended(t, item, calls)
        \/ Sent(t, item, calls) \/ Ended(LateEnd(t), item, calls)
    BY <2>2, <2>3, <2>4, FinallyGoesOn
  <2> QED
    BY <2>5 DEF GoesOn
<1> QED
  BY <1>1, <1>2

LEMMA NextStepGoesOn ==
  ASSUME session \in SessionType, ~session.quarantined,
         NEW run, NEW item, NEW calls, IsRun(run, item), run.step \in 0 .. Steps,
         NextStep(run, calls)
  PROVE  GoesOn(session, item, calls)
<1>1. CASE run.step = Steps /\ Finally(session, run, calls)
  BY <1>1, FinallyIsGoesOn
<1>2. CASE /\ run.step # Steps
           /\ Proceed([run EXCEPT !.step = @ + 1, !.action = session.sequence + 1], "act", calls)
  <2>1. PICK r : r = [run EXCEPT !.step = @ + 1, !.action = session.sequence + 1]
    OBVIOUS
  <2>2. run.step + 1 \in 0 .. Steps + 1
    BY <1>2, StepsAssumption
  <2>3. IsRun(r, item)
    BY <2>1, <2>2 DEF IsRun, Shape
  <2>4. Proceed(r, "act", calls)
    BY <1>2, <2>1
  <2> QED
    BY <2>3, <2>4, ProceedGoesOn
<1>3. CASE run.step # Steps /\ Finally(session, Mismatch(run), calls)
  <2>1. 0 \in 0 .. Steps + 1
    BY StepsAssumption
  <2>2. IsRun(Mismatch(run), item)
    BY <2>1, RunChanges
  <2> QED
    BY <2>2, <1>3, FinallyIsGoesOn
<1> QED
  BY <1>1, <1>2, <1>3 DEF NextStep

CallSet == [sequence : Nat, recovers : BOOLEAN]

LEMMA SettleCall ==
  ASSUME call \in [Calls -> CallType], NEW c \in Calls, NEW v \in {"returned", "rejected", "refused"},
         Settle(c, v)
  PROVE  /\ call' \in [Calls -> CallType] /\ call'[c].status = v
         /\ \A d \in Calls : /\ call'[d].kind = call[d].kind
                             /\ call'[d].sequence = call[d].sequence
                             /\ d # c => call'[d] = call[d]
<1>1. /\ call'[c] = [call[c] EXCEPT !.status = v]
      /\ \A d \in Calls \ {c} : call'[d] = call[d]
      /\ DOMAIN call' = Calls
  BY DEF Settle
<1>2. call[c] \in CallType
  OBVIOUS
<1>3. /\ call'[c] \in CallType /\ call'[c].status = v
      /\ call'[c].kind = call[c].kind /\ call'[c].sequence = call[c].sequence
  BY <1>1, <1>2 DEF CallType
<1>4. call' = [d \in Calls |-> call'[d]]
  BY <1>1 DEF Settle
<1> QED
  BY <1>1, <1>3, <1>4

\* All that the invariant needs to know of a scenario that goes on from s.
LEMMA Outcomes ==
  ASSUME NEW s \in SessionType, NEW item, NEW calls, GoesOn(s, item, calls)
  PROVE  \E t \in SessionType :
           /\ session' = t
           /\ s.sequence <= t.sequence /\ t.recoveryScheduled = s.recoveryScheduled
           /\ \/ Ended(t, item, calls) /\ (s.quarantined => t = s)
              \/ /\ ~t.quarantined /\ ~s.quarantined /\ s.sequence < t.sequence
                 /\ dispatched' = t.sequence /\ cur'.sequence = t.sequence
                 /\ IsRun(cur', item) /\ cur'.awaits \notin {"none", "restore"}
                 /\ call' = call
                 /\ inflight' = calls \cup {[sequence |-> t.sequence, recovers |-> FALSE]}
<1> DEFINE t1 == reserveNextSequence(s)
           t2 == reserveNextSequence(t1)
<1>1. /\ t1 \in SessionType /\ t1.sequence = s.sequence + 1 /\ t1.quarantined = s.quarantined
      /\ t1.recoveryScheduled = s.recoveryScheduled
      /\ LateEnd(s) \in SessionType /\ LateEnd(s).sequence = s.sequence + 1
      /\ LateEnd(s).recoveryScheduled = s.recoveryScheduled
  BY ReserveType
<1>2. /\ t2 \in SessionType /\ t2.sequence = t1.sequence + 1 /\ t2.quarantined = t1.quarantined
      /\ t2.recoveryScheduled = t1.recoveryScheduled
      /\ LateEnd(t1) \in SessionType /\ LateEnd(t1).sequence = t1.sequence + 1
      /\ LateEnd(t1).recoveryScheduled = t1.recoveryScheduled
  BY <1>1, ReserveType
<1>3. s.sequence \in Nat
  BY DEF SessionType
<1> HIDE DEF t1, t2
<1>4. CASE Ended(s, item, calls)
  BY <1>3, <1>4 DEF Ended
<1>5. CASE ~s.quarantined /\ Ended(LateEnd(s), item, calls)
  BY <1>1, <1>3, <1>5 DEF Ended
<1>6. CASE ~s.quarantined /\ Ended(t1, item, calls)
  BY <1>1, <1>3, <1>6 DEF Ended
<1>7. CASE ~s.quarantined /\ Ended(LateEnd(t1), item, calls)
  BY <1>1, <1>2, <1>3, <1>7 DEF Ended
<1>8. CASE ~s.quarantined /\ Sent(s, item, calls)
  BY <1>1, <1>3, <1>8 DEF Sent, t1
<1>9. CASE ~s.quarantined /\ Sent(t1, item, calls)
  BY <1>1, <1>2, <1>3, <1>9 DEF Sent, t1, t2
<1> QED
  BY <1>4, <1>5, <1>6, <1>7, <1>8, <1>9 DEF GoesOn, t1, t2

LEMMA IdleShape ==
  /\ Shape(Idle) /\ Idle.item = Recovery /\ Idle.step = 0 /\ Idle.sequence = 0
  /\ Idle.awaits = "none" /\ 0 \in 0 .. Steps + 1 /\ Recovery \notin Calls
BY StepsAssumption, CallsAssumption DEF Idle, Shape

LEMMA Types ==
  TypeOK <=> /\ session \in SessionType /\ consumed \subseteq Nat /\ queue \in Seq(Item)
             /\ call \in [Calls -> CallType]
             /\ cur.item \in Item /\ cur.step \in 0 .. Steps + 1
             /\ inflight \subseteq CallSet /\ dispatched \in Nat
BY DEF TypeOK, SessionType, CallType, CallSet

LEMMA GoesOnInv ==
  ASSUME IInv, NEW s \in SessionType, session.sequence <= s.sequence, ~s.recoveryScheduled,
         NEW item \in Calls, IsScenario(item), call[item].status # "idle",
         GoesOn(s, item, {}), consumed' = consumed,
         queue' \in Seq(Item), HoldsCalls(queue'),
         \A i \in DOMAIN queue' : \E j \in DOMAIN queue : queue'[i] = queue[j]
  PROVE  IInv'
<1>1. PICK t \in SessionType :
           /\ session' = t
           /\ s.sequence <= t.sequence /\ t.recoveryScheduled = s.recoveryScheduled
           /\ \/ Ended(t, item, {}) /\ (s.quarantined => t = s)
              \/ /\ ~t.quarantined /\ ~s.quarantined /\ s.sequence < t.sequence
                 /\ dispatched' = t.sequence /\ cur'.sequence = t.sequence
                 /\ IsRun(cur', item) /\ cur'.awaits \notin {"none", "restore"}
                 /\ call' = call
                 /\ inflight' = {} \cup {[sequence |-> t.sequence, recovers |-> FALSE]}
  BY Outcomes
<1>2. /\ session \in SessionType /\ consumed \subseteq Nat /\ call \in [Calls -> CallType]
      /\ dispatched \in Nat /\ dispatched <= session.sequence
      /\ session.sequence \in Nat /\ s.sequence \in Nat /\ t.sequence \in Nat
      /\ s.recoveryScheduled = FALSE
  BY Types DEF IInv, Typed, Reached, SessionType
<1>3. CASE Ended(t, item, {}) /\ (s.quarantined => t = s)
  <2>1. PICK v \in {"returned", "refused"} : Settle(item, v)
    BY <1>3 DEF Ended
  <2>2. /\ call' \in [Calls -> CallType] /\ call'[item].status = v
        /\ \A d \in Calls : /\ call'[d].kind = call[d].kind
                            /\ call'[d].sequence = call[d].sequence
                            /\ d # item => call'[d] = call[d]
    BY <1>2, <2>1, SettleCall
  <2>3. cur' = Idle /\ inflight' = {} /\ dispatched' = dispatched
    BY <1>3 DEF Ended
  <2>4. Typed'
    <3>1. cur'.item \in Item /\ cur'.step \in 0 .. Steps + 1 /\ Shape(cur)' /\ cur'.sequence \in Nat
      BY <2>3, IdleShape DEF Shape, Item
    <3> QED
      BY <1>1, <1>2, <2>2, <2>3, <3>1 DEF Typed, TypeOK, SessionType, CallType
  <2>5. Phase'
    BY <1>1, <1>2, <2>3, <1>3 DEF Phase, Open, Closed, SessionType
  <2>6. Reached'
    BY <1>1, <1>2, <2>2, <2>3, IdleShape DEF IInv, Reached, Runs, IsScenario
  <2>7. Made'
    BY <2>2, <2>3, IdleShape DEF IInv, Made, Runs
  <2> QED
    BY <2>4, <2>5, <2>6, <2>7 DEF IInv
<1>4. CASE /\ ~t.quarantined /\ ~s.quarantined /\ s.sequence < t.sequence
           /\ dispatched' = t.sequence /\ cur'.sequence = t.sequence
           /\ IsRun(cur', item) /\ cur'.awaits \notin {"none", "restore"}
           /\ call' = call
           /\ inflight' = {[sequence |-> t.sequence, recovers |-> FALSE]}
  <2>1. Typed'
    BY <1>1, <1>2, <1>4 DEF Typed, TypeOK, SessionType, CallType, IsRun, Item, Shape
  <2>2. Phase'
    BY <1>1, <1>2, <1>4 DEF Phase, Open, IsRun, Runs, OnlyAwaited
  <2>3. Reached'
    <3>1. /\ dispatched' = t.sequence /\ session' = t /\ dispatched <= dispatched'
          /\ cur'.item = item
      BY <1>1, <1>2, <1>4 DEF IsRun
    <3>2. \A c \in Calls : call[c].sequence \in Nat
      BY <1>2 DEF CallType
    <3> QED
      BY <1>2, <1>4, <3>1, <3>2 DEF IInv, Reached, IsScenario
  <2>4. Made'
    BY <1>4 DEF IInv, Made, IsRun, IsScenario
  <2> QED
    BY <2>1, <2>2, <2>3, <2>4 DEF IInv
<1> QED
  BY <1>1, <1>3, <1>4

(***************************************************************************)
(* A scenario runs only in an open session, with its call alone.            *)
(***************************************************************************)
LEMMA InScenarioIsOpen ==
  ASSUME IInv, Runs, cur.item \in Calls
  PROVE  /\ Open /\ OnlyAwaited /\ Others = {}
         /\ session \in SessionType /\ session.sequence \in Nat
         /\ ~session.quarantined /\ session.recoveryScheduled = FALSE
         /\ IsRun(cur, cur.item) /\ call[cur.item].status # "idle"
         /\ queue \in Seq(Item) /\ HoldsCalls(queue)
<1>1. Open /\ OnlyAwaited
  BY CallsAssumption, IdleShape
  DEF IInv, Phase, Open, Late, Settled, Recovering, Closed, Runs
<1>2. Others = {}
  BY <1>1 DEF OnlyAwaited, Others, Awaited, Runs
<1> QED
  BY <1>1, <1>2 DEF IInv, Typed, TypeOK, SessionType, Open, IsRun, Made

ScenarioAnswer == \/ AnswerReset \/ AnswerAct \/ AnswerObserve \/ AnswerEvidence
                  \/ AnswerFails \/ AnswerCleanup

LEMMA AnswerGoesOn ==
  ASSUME IInv, ScenarioAnswer
  PROVE  /\ Runs /\ cur.item \in Calls /\ IsScenario(cur.item)
         /\ UNCHANGED <<consumed, queue>>
         /\ \E s \in SessionType :
              /\ session.sequence <= s.sequence /\ ~s.recoveryScheduled
              /\ GoesOn(s, cur.item, {})
<1>0. InScenario /\ UNCHANGED <<consumed, queue>>
  BY DEF ScenarioAnswer, AnswerReset, AnswerAct, AnswerObserve, AnswerEvidence, AnswerFails,
         AnswerCleanup, InStep, InCleanup
<1>1. Runs /\ cur.item \in Calls /\ IsScenario(cur.item)
  BY <1>0 DEF InScenario
<1>2. /\ Others = {} /\ session \in SessionType /\ session.sequence \in Nat
      /\ ~session.quarantined /\ session.recoveryScheduled = FALSE /\ IsRun(cur, cur.item)
  BY <1>1, InScenarioIsOpen
<1>3. SUFFICES GoesOn(session, cur.item, {})
               \/ Ended([session EXCEPT !.quarantined = TRUE], cur.item, {})
  <2> DEFINE q == [session EXCEPT !.quarantined = TRUE]
  <2>1. q \in SessionType /\ q.sequence = session.sequence /\ q.recoveryScheduled = FALSE
    BY <1>2 DEF SessionType
  <2> HIDE DEF q
  <2>2. Ended(q, cur.item, {}) => GoesOn(q, cur.item, {})
    BY DEF GoesOn
  <2> QED
    <3>1. session.sequence <= session.sequence /\ session.sequence <= q.sequence
      BY <1>2, <2>1
    <3>2. CASE GoesOn(session, cur.item, {})
      BY <1>0, <1>1, <1>2, <3>1, <3>2
    <3>3. CASE GoesOn(q, cur.item, {})
      BY <1>0, <1>1, <2>1, <3>1, <3>3
    <3> QED
      BY <1>3, <2>2, <3>2, <3>3 DEF q
<1>4. \A n \in {0} : n \in 0 .. Steps + 1
  BY StepsAssumption
<1>5. CASE AnswerReset
  <2>1. cur.step \in 0 .. Steps
    <3>1. cur.step <= Steps
      BY <1>5 DEF AnswerReset, InStep
    <3> QED
      BY <1>2, <3>1, StepsAssumption DEF IsRun
  <2>2. CASE \E timely \in BOOLEAN :
               NextStep([cur EXCEPT !.draft.reset = Observed(TRUE, cur.sequence),
                                    !.draft.timely = timely], Others)
    <3>1. PICK run : \E timely \in BOOLEAN :
                 /\ run = [cur EXCEPT !.draft.reset = Observed(TRUE, cur.sequence),
                                      !.draft.timely = timely]
                 /\ NextStep(run, Others)
      BY <2>2
    <3>2. IsRun(run, cur.item) /\ run.step \in 0 .. Steps
      BY <1>2, <2>1, <3>1 DEF IsRun, Shape
    <3> QED
      BY <1>2, <3>1, <3>2, NextStepGoesOn
  <2>3. ASSUME NEW other, Finally(session, Mismatch([cur EXCEPT !.draft.reset = other]), Others)
        PROVE  GoesOn(session, cur.item, {})
    <3>1. PICK run : run = [cur EXCEPT !.draft.reset = other]
      OBVIOUS
    <3>2. IsRun(run, cur.item)
      BY <1>2, <3>1 DEF IsRun, Shape
    <3>3. IsRun(Mismatch(run), cur.item)
      BY <1>4, <3>2, RunChanges
    <3> QED
      BY <1>2, <2>3, <3>1, <3>3, FinallyIsGoesOn
  <2> QED
    BY <1>5, <2>2, <2>3 DEF AnswerReset
<1>6. CASE AnswerAct
  <2>1. CASE Proceed([cur EXCEPT !.observation = session.sequence + 1], "observe", Others)
    <3>1. PICK run : run = [cur EXCEPT !.observation = session.sequence + 1]
      OBVIOUS
    <3>2. IsRun(run, cur.item)
      BY <1>2, <3>1 DEF IsRun, Shape
    <3> QED
      BY <1>2, <2>1, <3>1, <3>2, ProceedGoesOn
  <2>2. ASSUME NEW status, NEW negative, NEW timely,
               Finally(session, Reported(PushAction(cur, status), status, negative, timely), Others)
        PROVE  GoesOn(session, cur.item, {})
    <3>1. IsRun(PushAction(cur, status), cur.item)
      BY <1>2, PushIsRun
    <3>2. IsRun(Reported(PushAction(cur, status), status, negative, timely), cur.item)
      BY <3>1, ReportedIsRun
    <3> QED
      BY <1>2, <2>2, <3>2, FinallyIsGoesOn
  <2> QED
    BY <1>6, <2>1, <2>2 DEF AnswerAct
<1>7. CASE AnswerObserve
  BY <1>2, <1>7, ProceedGoesOn DEF AnswerObserve
<1>8. CASE AnswerEvidence
  <2>0. cur.step \in 0 .. Steps
    BY <1>2, <1>8, StepsAssumption DEF AnswerEvidence, InStep, IsRun
  <2>1. ASSUME NEW timely \in BOOLEAN,
               NextStep([PushEvidence(cur, "PASS") EXCEPT !.draft.timely = @ /\ timely], Others)
        PROVE  GoesOn(session, cur.item, {})
    <3>1. PICK run : run = [PushEvidence(cur, "PASS") EXCEPT !.draft.timely = @ /\ timely]
      OBVIOUS
    <3>2. IsRun(PushEvidence(cur, "PASS"), cur.item) /\ PushEvidence(cur, "PASS").step = cur.step
      BY <1>2, PushIsRun
    <3>3. IsRun(run, cur.item) /\ run.step \in 0 .. Steps
      BY <2>0, <3>1, <3>2 DEF IsRun, Shape
    <3> QED
      BY <1>2, <2>1, <3>1, <3>3, NextStepGoesOn
  <2>2. ASSUME NEW status, NEW negative, NEW timely,
               Finally(session, Reported(PushEvidence(cur, status), status, negative, timely), Others)
        PROVE  GoesOn(session, cur.item, {})
    <3>1. IsRun(PushEvidence(cur, status), cur.item)
      BY <1>2, PushIsRun
    <3>2. IsRun(Reported(PushEvidence(cur, status), status, negative, timely), cur.item)
      BY <3>1, ReportedIsRun
    <3> QED
      BY <1>2, <2>2, <3>2, FinallyIsGoesOn
  <2> QED
    BY <1>8, <2>1, <2>2 DEF AnswerEvidence
<1>9. CASE AnswerFails
  <2>1. IsRun(Thrown(cur, "adapter-failed", "adapter-operation-failed"), cur.item)
        /\ IsRun(Mismatch(cur), cur.item)
    BY <1>2, <1>4, RunChanges
  <2> QED
    BY <1>2, <1>9, <2>1, FinallyIsGoesOn DEF AnswerFails
<1>10. CASE AnswerCleanup
  <2>1. CASE \E timely \in BOOLEAN :
               Sealed(session, [cur EXCEPT !.draft.cleanup = Observed(TRUE, cur.sequence),
                                           !.draft.timely = @ /\ timely], Others)
    <3>1. PICK run : \E timely \in BOOLEAN :
                 /\ run = [cur EXCEPT !.draft.cleanup = Observed(TRUE, cur.sequence),
                                      !.draft.timely = @ /\ timely]
                 /\ Sealed(session, run, Others)
      BY <2>1
    <3>2. IsRun(run, cur.item)
      BY <1>2, <3>1 DEF IsRun, Shape
    <3> QED
      BY <1>2, <3>1, <3>2, SealedEnds DEF GoesOn
  <2>2. CASE Sealed([session EXCEPT !.quarantined = TRUE], CleanupFailed(cur), Others)
    <3>1. IsRun(CleanupFailed(cur), cur.item)
      BY <1>2, <1>4, RunChanges
    <3> QED
      BY <1>2, <2>2, <3>1, SealedEnds
  <2> QED
    BY <1>10, <2>1, <2>2 DEF AnswerCleanup
<1> QED
  BY <1>5, <1>6, <1>7, <1>8, <1>9, <1>10 DEF ScenarioAnswer

(***************************************************************************)
(* Every action preserves the invariant.                                    *)
(***************************************************************************)
LEMMA Kinds ==
  /\ Kind = Direct \cup {"runScenario"} /\ "none" \notin Kind
  /\ "restore" \in Direct /\ "none" \notin Direct
BY DEF Kind, Direct

LEMMA HeadIsMade ==
  ASSUME IInv, queue # <<>>, Head(queue) \in Calls
  PROVE  call[Head(queue)].status # "idle"
<1>1. queue \in Seq(Item)
  BY DEF IInv, Typed, TypeOK
<1>2. 1 \in DOMAIN queue /\ queue[1] = Head(queue)
  BY <1>1
<1> QED
  BY <1>2 DEF IInv, Made

LEMMA CallEnds ==
  ASSUME IInv, NEW c \in Calls, NEW v \in {"returned", "rejected", "refused"}, Settle(c, v),
         call[c].status # "idle",
         v = "returned" /\ call[c].kind = "snapshot" => call[c].sequence <= dispatched,
         session' \in SessionType, session.sequence <= session'.sequence,
         cur' = Idle, inflight' \subseteq CallSet, dispatched' = dispatched, consumed' = consumed,
         queue' \in Seq(Item),
         \A i \in DOMAIN queue' : \E j \in DOMAIN queue : queue'[i] = queue[j]
  PROVE  Typed' /\ Reached' /\ Made'
<1>1. /\ consumed \subseteq Nat /\ call \in [Calls -> CallType]
      /\ dispatched \in Nat /\ dispatched <= session.sequence
      /\ session.sequence \in Nat /\ session'.sequence \in Nat
  BY Types DEF IInv, Typed, Reached, SessionType
<1>2. /\ call' \in [Calls -> CallType] /\ call'[c].status = v
      /\ \A d \in Calls : /\ call'[d].kind = call[d].kind
                          /\ call'[d].sequence = call[d].sequence
                          /\ d # c => call'[d] = call[d]
  BY <1>1, SettleCall
<1>3. Typed'
  <2>1. cur'.item \in Item /\ cur'.step \in 0 .. Steps + 1 /\ Shape(cur)' /\ cur'.sequence \in Nat
    BY IdleShape DEF Shape, Item
  <2> QED
    BY <1>1, <1>2, <2>1 DEF Typed, TypeOK, SessionType, CallType, CallSet
<1>4. Reached'
  BY <1>1, <1>2, IdleShape DEF IInv, Reached, Runs
<1>5. Made'
  BY <1>2, IdleShape DEF IInv, Made, Runs
<1> QED
  BY <1>3, <1>4, <1>5

LEMMA TailQueue ==
  ASSUME IInv, queue # <<>>, queue' = Tail(queue)
  PROVE  /\ queue' \in Seq(Item)
         /\ \A i \in DOMAIN queue' : \E j \in DOMAIN queue : queue'[i] = queue[j]
         /\ HoldsCalls(queue) => HoldsCalls(queue')
         /\ Head(queue) \in Calls /\ HoldsRecovery(queue) => HoldsRecovery(queue')
         /\ Head(queue) = Recovery => ~HoldsCalls(queue)
<1>1. queue \in Seq(Item)
  BY DEF IInv, Typed, TypeOK
<1>2. Head(queue) = Recovery => ~HoldsCalls(queue)
  BY <1>1, QueueTail, CallsAssumption
<1> QED
  BY <1>1, <1>2, QueueTail, RecoveryKept

LEMMA InitInv ==
  Init => IInv
<1> SUFFICES ASSUME Init PROVE IInv
  OBVIOUS
<1> USE DEF Init
<1>1. Typed
  BY IdleShape DEF Typed, TypeOK, NoCall, Kind, Direct, Item
<1>2. Phase
  BY DEF Phase, Open, HoldsCalls
<1>3. Reached
  BY DEF Reached, NoCall
<1>4. Made
  BY IdleShape DEF Made, Runs, NoCall
<1> QED
  BY <1>1, <1>2, <1>3, <1>4 DEF IInv

LEMMA InvokeInv ==
  ASSUME IInv, NEW c \in Calls, Invoke(c)
  PROVE  IInv'
<1>0. /\ session \in SessionType /\ session.sequence \in Nat /\ dispatched \in Nat
      /\ call \in [Calls -> CallType] /\ queue \in Seq(Item) /\ c \in Item
  BY Types DEF IInv, Typed, SessionType, Item
<1>1. /\ call[c].status = "idle"
      /\ UNCHANGED <<session, consumed, cur, inflight, dispatched>>
  BY DEF Invoke
<1>2. PICK kind \in Kind, cleanup \in BOOLEAN, n \in 0 .. session.sequence + 2 :
        /\ n \in Asked(kind)
        /\ \/ /\ ~session.quarantined
              /\ Asks(c, kind, n, cleanup, "queued")
              /\ queue' = Append(queue, c)
           \/ /\ session.quarantined /\ kind \in Direct
              /\ Asks(c, kind, n, cleanup, "rejected")
              /\ queue' = queue
           \/ /\ session.quarantined /\ kind = "runScenario"
              /\ Asks(c, kind, n, cleanup, Verdict(receipt'))
              /\ queue' = queue
  BY DEF Invoke
<1>3. PICK status \in {"queued", "rejected", "returned", "refused"} :
        /\ Asks(c, kind, n, cleanup, status)
        /\ status = "returned" => kind = "runScenario"
  BY <1>2 DEF Verdict
<1>4. /\ call' = [call EXCEPT ![c] = [status |-> status, kind |-> kind, sequence |-> n,
                                      cleanup |-> cleanup]]
      /\ [status |-> status, kind |-> kind, sequence |-> n, cleanup |-> cleanup] \in CallType
  BY <1>0, <1>3 DEF Asks, CallType
<1>5. /\ call' \in [Calls -> CallType]
      /\ call'[c].status = status /\ call'[c].kind = kind /\ call'[c].sequence = n
      /\ \A d \in Calls \ {c} : call'[d] = call[d]
  BY <1>0, <1>4
<1>6. kind = "restore" => n <= dispatched
  BY <1>2 DEF Asked, Snapshots, IInv, Reached
<1>7. Runs => cur.item # c
  BY <1>1 DEF IInv, Made
<1>8. /\ queue' \in Seq(Item)
      /\ \A i \in DOMAIN queue' : \/ \E j \in DOMAIN queue : queue'[i] = queue[j]
                                  \/ queue'[i] = c
      /\ \/ queue' = queue
         \/ ~session.quarantined /\ (HoldsCalls(queue) => HoldsCalls(queue'))
  <2>1. CASE queue' = queue
    BY <1>0, <2>1
  <2>2. CASE queue' = Append(queue, c) /\ ~session.quarantined
    <3>1. \A i \in DOMAIN Append(queue, c) :
             \/ i \in DOMAIN queue /\ Append(queue, c)[i] = queue[i]
             \/ Append(queue, c)[i] = c
      BY <1>0, QueueAppend
    <3> QED
      BY <1>0, <2>2, <3>1, QueueAppend
  <2> QED
    BY <1>2, <2>1, <2>2
<1>9. Typed'
  BY <1>1, <1>5, <1>8 DEF IInv, Typed, TypeOK, CallType, Shape
<1>10. Phase'
  <2>1. CASE queue' = queue
    BY <1>1, <2>1 DEF IInv, Phase, Open, Late, Settled, Recovering, Closed, OnlyAwaited, Runs
  <2>2. CASE ~session.quarantined /\ (HoldsCalls(queue) => HoldsCalls(queue'))
    BY <1>1, <2>2 DEF IInv, Phase, Open, Late, Settled, Recovering, Closed, OnlyAwaited, Runs
  <2> QED
    BY <1>8, <2>1, <2>2
<1>11. Reached'
  BY <1>1, <1>3, <1>5, <1>6, <1>7 DEF IInv, Reached, Runs
<1>12. Made'
  <2>1. \A i \in DOMAIN queue' : queue'[i] \in Calls => call'[queue'[i]].status # "idle"
    BY <1>5, <1>8 DEF IInv, Made
  <2>2. (Runs /\ cur.item \in Calls =>
           /\ call[cur.item].status # "idle"
           /\ IsScenario(cur.item) => cur.awaits # "restore")'
    BY <1>1, <1>5, <1>7 DEF IInv, Made, Runs, IsScenario
  <2>3. \A d \in Calls : call'[d].kind = "none" => call'[d].status = "idle"
    BY <1>5, Kinds DEF IInv, Made
  <2> QED
    BY <2>1, <2>2, <2>3 DEF Made
<1> QED
  BY <1>9, <1>10, <1>11, <1>12 DEF IInv

LEMMA RefuseInv ==
  ASSUME IInv, NEW c \in Calls, RefuseDirect(c) \/ RefuseScenario(c)
  PROVE  IInv'
<1>1. /\ cur = Idle /\ queue # <<>> /\ Head(queue) = c /\ queue' = Tail(queue)
      /\ consumed' = consumed
  BY DEF RefuseDirect, RefuseScenario, RunsDirect, RunsScenario, Front
<1>2. /\ UNCHANGED <<session, cur, inflight, dispatched>>
      /\ \E v \in {"returned", "rejected", "refused"} :
           Settle(c, v) /\ (v = "returned" => IsScenario(c))
  <2>1. CASE RefuseDirect(c)
    BY <2>1 DEF RefuseDirect
  <2>2. CASE RefuseScenario(c)
    <3>1. PICK run : \E time \in Time :
                 /\ run = [Idle EXCEPT !.item = c, !.time = time, !.draft =
                             EmptyReceipt("UNVERIFIED", "unavailable", session.sequence, time)]
                 /\ Sealed(session, run, inflight)
      BY <2>2 DEF RefuseScenario
    <3>2. IsRun(run, c)
      BY <3>1, IdleShape DEF IsRun, Shape
    <3>3. Ended(session, c, inflight)
      BY <3>1, <3>2, SealedEnds
    <3> QED
      BY <1>1, <2>2, <3>3 DEF Ended, RefuseScenario, RunsScenario
  <2> QED
    BY <2>1, <2>2
<1>3. PICK v \in {"returned", "rejected", "refused"} :
        Settle(c, v) /\ (v = "returned" => IsScenario(c))
  BY <1>2
<1>4. Typed' /\ Reached' /\ Made'
  <2>1. v = "returned" /\ call[c].kind = "snapshot" => call[c].sequence <= dispatched
    BY <1>3 DEF IsScenario
  <2>2. /\ session' \in SessionType /\ session.sequence <= session'.sequence
        /\ inflight' \subseteq CallSet
    BY <1>2, Types DEF IInv, Typed, SessionType
  <2> QED
    BY <1>1, <1>2, <1>3, <2>1, <2>2, TailQueue, HeadIsMade, CallEnds
<1>5. Phase'
  BY <1>1, <1>2, TailQueue, IdleShape
  DEF IInv, Phase, Open, Late, Settled, Recovering, Closed, Runs
<1> QED
  BY <1>4, <1>5 DEF IInv

LEMMA StartDirectInv ==
  ASSUME IInv, NEW c \in Calls, StartDirect(c)
  PROVE  IInv'
<1> DEFINE t == reserveNextSequence(session)
<1>1. /\ cur = Idle /\ queue # <<>> /\ Head(queue) = c /\ queue' = Tail(queue)
      /\ ~session.quarantined /\ ~IsScenario(c) /\ call' = call
      /\ consumed' = consumed \/ consumed' = consumed \cup {call[c].sequence}
  BY DEF StartDirect, RunsDirect, Front, Admits
<1>2. /\ session \in SessionType /\ session.sequence \in Nat /\ call \in [Calls -> CallType]
      /\ consumed \subseteq Nat /\ dispatched \in Nat /\ dispatched <= session.sequence
  BY Types DEF IInv, Typed, SessionType, Reached
<1>3. Open /\ inflight = {}
  BY <1>1, IdleShape DEF IInv, Phase, Open, Late, Settled, Recovering, Closed, Runs
<1>4. /\ t \in SessionType /\ t.sequence = session.sequence + 1
      /\ ~t.quarantined /\ ~t.recoveryScheduled
  BY <1>2, <1>3, ReserveType DEF Open
<1>5. /\ session' = t /\ dispatched' = t.sequence
      /\ inflight' = {[sequence |-> t.sequence, recovers |-> FALSE]}
      /\ cur' = [[Idle EXCEPT !.item = c] EXCEPT !.awaits = call[c].kind, !.sequence = t.sequence]
  BY <1>3 DEF StartDirect, Dispatch
<1>6. PICK run : run = [Idle EXCEPT !.item = c]
  OBVIOUS
<1>7. IsRun(run, c)
  BY <1>6, IdleShape DEF IsRun, Shape
<1>8. cur' = [run EXCEPT !.awaits = call[c].kind, !.sequence = t.sequence]
  BY <1>5, <1>6
<1>9. IsRun(cur', c) /\ cur'.awaits = call[c].kind /\ cur'.sequence = t.sequence
  BY <1>7, <1>8 DEF IsRun, Shape
<1> HIDE DEF t
<1>10. /\ call[c].kind = "restore" => call[c].sequence <= dispatched
       /\ call[c].kind # "restore" => call[c].sequence = t.sequence
       /\ call[c].sequence \in Nat /\ call[c].status # "idle" /\ call[c].kind \in Direct
  <2>1. call[c].kind # "restore" => call[c].sequence = session.sequence + 1
    BY DEF StartDirect, Admits
  <2>2. call[c].status # "idle" /\ call[c].kind # "none"
    BY <1>1, HeadIsMade DEF IInv, Made
  <2>3. call[c].kind = "restore" => call[c].sequence <= dispatched
    BY DEF IInv, Reached
  <2>4. call[c] \in CallType
    BY <1>2
  <2> QED
    BY <1>1, <1>4, <2>1, <2>2, <2>3, <2>4, Kinds DEF CallType, IsScenario
<1>11. Typed'
  <2>1. queue' \in Seq(Item)
    BY <1>1, TailQueue
  <2>2. consumed' \subseteq Nat
    BY <1>1, <1>2, <1>10
  <2> QED
    BY <1>1, <1>2, <1>4, <1>5, <1>9, <2>1, <2>2
    DEF Typed, TypeOK, SessionType, CallType, IsRun, Item, Shape
<1>12. Phase'
  BY <1>1, <1>3, <1>4, <1>5, <1>9, <1>10, TailQueue
  DEF Phase, Open, IsRun, Runs, OnlyAwaited, Direct
<1>13. Reached'
  <2>1. dispatched <= dispatched' /\ dispatched' \in Nat /\ dispatched' = session'.sequence
    BY <1>2, <1>4, <1>5
  <2>2. \A d \in Calls : call[d].sequence \in Nat
    BY <1>2 DEF CallType
  <2> QED
    BY <1>1, <1>2, <1>5, <1>9, <1>10, <2>1, <2>2 DEF IInv, Reached, IsRun
<1>14. Made'
  BY <1>1, <1>9, <1>10, TailQueue DEF IInv, Made, IsRun, IsScenario
<1> QED
  BY <1>11, <1>12, <1>13, <1>14 DEF IInv

LEMMA AnswerDirectInv ==
  ASSUME IInv, AnswerDirect
  PROVE  IInv'
<1>1. /\ Runs /\ cur.item \in Calls /\ cur' = Idle /\ inflight' = Others
      /\ UNCHANGED <<session, consumed, queue, dispatched>>
  BY DEF AnswerDirect, IsDirect
<1>2. PICK v \in {"returned", "rejected"} : Settle(cur.item, v)
  BY DEF AnswerDirect
<1>3. Open /\ Others = {} /\ session \in SessionType /\ session.sequence \in Nat
      /\ queue \in Seq(Item) /\ call[cur.item].status # "idle"
  BY <1>1, InScenarioIsOpen
<1>4. call[cur.item].kind = "snapshot" => call[cur.item].sequence <= dispatched
  BY <1>1 DEF IInv, Reached
<1>5. Typed' /\ Reached' /\ Made'
  BY <1>1, <1>2, <1>3, <1>4, CallEnds DEF CallSet
<1>6. Phase'
  BY <1>1, <1>3 DEF Phase, Open
<1> QED
  BY <1>5, <1>6 DEF IInv

LEMMA QuarantinedType ==
  ASSUME NEW s \in SessionType
  PROVE  /\ Quarantined(s) \in SessionType /\ Quarantined(s).sequence = s.sequence
         /\ Quarantined(s).quarantined /\ Quarantined(s).recoveryScheduled
BY DEF Quarantined, SessionType

\* A timeout leaves the call that is late, with the recovery attached.
LEMMA CallTimesOut ==
  ASSUME IInv, Runs, cur.item \in Calls, NEW v \in {"rejected", "returned", "refused"},
         Settle(cur.item, v), v = "returned" => IsScenario(cur.item),
         session' = Quarantined(session), inflight' = Attached, cur' = Idle,
         UNCHANGED <<consumed, queue, dispatched>>
  PROVE  IInv'
<1>1. /\ Open /\ OnlyAwaited /\ session \in SessionType /\ session.sequence \in Nat
      /\ ~session.recoveryScheduled /\ queue \in Seq(Item) /\ HoldsCalls(queue)
      /\ call[cur.item].status # "idle"
  BY InScenarioIsOpen
<1>2. cur.sequence \in Nat
  BY DEF IInv, Typed
<1>3. inflight' = {[sequence |-> cur.sequence, recovers |-> TRUE]}
  BY <1>1 DEF Attached, OnlyAwaited, Awaited, Runs
<1>4. /\ session' \in SessionType /\ session'.sequence = session.sequence
      /\ session'.quarantined /\ session'.recoveryScheduled
  BY <1>1, QuarantinedType
<1>5. Typed' /\ Reached' /\ Made'
  <2>1. v = "returned" /\ call[cur.item].kind = "snapshot" =>
          call[cur.item].sequence <= dispatched
    BY DEF IsScenario
  <2>2. inflight' \subseteq CallSet
    BY <1>2, <1>3 DEF CallSet
  <2> QED
    BY <1>1, <1>4, <2>1, <2>2, CallEnds
<1>6. Phase'
  BY <1>1, <1>2, <1>3, <1>4 DEF Phase, Late
<1> QED
  BY <1>5, <1>6 DEF IInv

LEMMA TimeoutInv ==
  ASSUME IInv, TimeoutDirect \/ TimeoutStep \/ TimeoutCleanup
  PROVE  IInv'
<1>1. CASE TimeoutDirect
  <2>1. /\ Runs /\ cur.item \in Calls /\ Settle(cur.item, "rejected")
        /\ session' = Quarantined(session) /\ inflight' = Attached /\ cur' = Idle
        /\ UNCHANGED <<consumed, queue, dispatched>>
    BY <1>1 DEF TimeoutDirect, IsDirect
  <2> QED
    BY <2>1, CallTimesOut
<1>2. CASE TimeoutStep \/ TimeoutCleanup
  <2>1. /\ Runs /\ cur.item \in Calls /\ IsScenario(cur.item)
        /\ UNCHANGED <<consumed, queue>>
    BY <1>2 DEF TimeoutStep, TimeoutCleanup, InStep, InCleanup, InScenario
  <2>2. IsRun(cur, cur.item) /\ Quarantined(session) \in SessionType
        /\ Quarantined(session).quarantined /\ 0 \in 0 .. Steps + 1
    BY <2>1, InScenarioIsOpen, QuarantinedType, IdleShape
  <2>3. Ended(Quarantined(session), cur.item, Attached)
    <3>1. CASE TimeoutStep
      <4> DEFINE run == Thrown(cur, "adapter-timeout", "adapter-operation-timeout")
      <4>1. IsRun(run, cur.item)
        BY <2>2, RunChanges
      <4>2. Finally(Quarantined(session), run, Attached)
        BY <3>1 DEF TimeoutStep
      <4> HIDE DEF run
      <4> QED
        BY <2>2, <4>1, <4>2, FinallyGoesOn
    <3>2. CASE TimeoutCleanup
      <4>1. IsRun(CleanupFailed(cur), cur.item)
        BY <2>2, RunChanges
      <4> QED
        BY <3>2, <4>1, SealedEnds DEF TimeoutCleanup
    <3> QED
      BY <1>2, <3>1, <3>2
  <2>4. PICK v \in {"returned", "refused"} : Settle(cur.item, v)
    BY <2>3 DEF Ended
  <2> QED
    BY <2>1, <2>3, <2>4, CallTimesOut DEF Ended
<1> QED
  BY <1>1, <1>2

LEMMA StartScenarioInv ==
  ASSUME IInv, NEW c \in Calls, StartScenario(c)
  PROVE  IInv' /\ GoesOn(session, c, {}) /\ ~session.quarantined
<1>1. /\ cur = Idle /\ queue # <<>> /\ Head(queue) = c /\ queue' = Tail(queue)
      /\ ~session.quarantined /\ IsScenario(c) /\ consumed' = consumed
  BY DEF StartScenario, RunsScenario, Front
<1>2. Open /\ inflight = {} /\ session \in SessionType
  BY <1>1, IdleShape, Types DEF IInv, Typed, Phase, Open, Late, Settled, Recovering, Closed, Runs
<1>3. PICK run : \E time \in Time :
        /\ run = [Idle EXCEPT !.item = c, !.time = time, !.draft = Fresh]
        /\ \/ /\ Dispatch(reserveNextSequence(session), run, "reset", inflight)
              /\ call' = call
           \/ Sealed(session, Mismatch(run), inflight)
           \/ Finally(reserveNextSequence(session),
                      Thrown(run, "deadline-expired", "adapter-operation-timeout"), inflight)
  BY DEF StartScenario
<1>4. IsRun(run, c)
  BY <1>3, IdleShape DEF IsRun, Shape
<1>5. GoesOn(session, c, {})
  <2>1. CASE Dispatch(reserveNextSequence(session), run, "reset", inflight) /\ call' = call
    BY <1>1, <1>2, <1>4, <2>1, DispatchSends DEF GoesOn
  <2>2. CASE Sealed(session, Mismatch(run), inflight)
    <3>1. IsRun(Mismatch(run), c)
      BY <1>4, IdleShape, RunChanges
    <3> QED
      BY <1>2, <2>2, <3>1, SealedEnds DEF GoesOn
  <2>3. CASE Finally(reserveNextSequence(session),
                     Thrown(run, "deadline-expired", "adapter-operation-timeout"), inflight)
    <3>1. IsRun(Thrown(run, "deadline-expired", "adapter-operation-timeout"), c)
      BY <1>4, IdleShape, RunChanges
    <3>2. reserveNextSequence(session) \in SessionType
      BY <1>2, ReserveType
    <3>3. LET t == reserveNextSequence(session) IN
            \/ Ended(t, c, {}) \/ Sent(t, c, {}) \/ Ended(LateEnd(t), c, {})
      BY <1>2, <2>3, <3>1, <3>2, FinallyGoesOn
    <3> QED
      BY <1>1, <3>3 DEF GoesOn
  <2> QED
    BY <1>3, <2>1, <2>2, <2>3
<1>6. session.sequence <= session.sequence /\ ~session.recoveryScheduled /\ HoldsCalls(queue)
  BY <1>2 DEF Open, SessionType
<1> QED
  BY <1>1, <1>2, <1>5, <1>6, TailQueue, HeadIsMade, GoesOnInv

LEMMA ScenarioAnswerInv ==
  ASSUME IInv, ScenarioAnswer
  PROVE  IInv'
<1>1. /\ Runs /\ cur.item \in Calls /\ IsScenario(cur.item)
      /\ consumed' = consumed /\ queue' = queue
  BY AnswerGoesOn
<1>2. PICK s \in SessionType : /\ session.sequence <= s.sequence /\ ~s.recoveryScheduled
                               /\ GoesOn(s, cur.item, {})
  BY AnswerGoesOn
<1>3. queue \in Seq(Item) /\ HoldsCalls(queue) /\ call[cur.item].status # "idle"
  BY <1>1, InScenarioIsOpen
<1> QED
  BY <1>1, <1>2, <1>3, GoesOnInv

LEMMA TickInv ==
  ASSUME IInv, Tick
  PROVE  IInv' /\ cur'.awaits = cur.awaits /\ cur'.item = cur.item
<1>1. /\ Runs /\ cur.item \in Calls
      /\ UNCHANGED <<session, consumed, queue, call, inflight, dispatched>>
  BY DEF Tick, InScenario
<1>2. PICK time : cur' = [cur EXCEPT !.time = time]
  BY DEF Tick
<1>3. /\ Shape(cur') /\ cur'.item = cur.item /\ cur'.step = cur.step
      /\ cur'.sequence = cur.sequence /\ cur'.awaits = cur.awaits
  BY <1>2 DEF IInv, Typed, Shape
<1>4. Typed'
  BY <1>1, <1>3 DEF IInv, Typed, TypeOK, Shape
<1>5. Phase'
  BY <1>1, <1>3, InScenarioIsOpen, IdleShape DEF Phase, Open, OnlyAwaited, Runs
<1>6. Reached' /\ Made'
  BY <1>1, <1>3 DEF IInv, Reached, Made, Runs, IsScenario
<1> QED
  BY <1>3, <1>4, <1>5, <1>6 DEF IInv

(***************************************************************************)
(* The recovery.                                                            *)
(***************************************************************************)
\* The recovery touches no call.
LEMMA CallsStay ==
  ASSUME IInv, session' \in SessionType, session.sequence <= session'.sequence,
         dispatched' \in Nat, dispatched <= dispatched', dispatched' <= session'.sequence,
         IsRun(cur', Recovery), cur'.sequence \in Nat, inflight' \subseteq CallSet,
         UNCHANGED <<consumed, call>>, queue' \in Seq(Item),
         \A i \in DOMAIN queue' : (\E j \in DOMAIN queue : queue'[i] = queue[j])
                                  \/ queue'[i] = Recovery
  PROVE  Typed' /\ Reached' /\ Made'
<1>1. Typed'
  BY DEF IInv, Typed, TypeOK, SessionType, CallSet, IsRun, Item, Shape
<1>2. Reached'
  <2>1. \A c \in Calls : call[c].sequence \in Nat
    BY Types DEF IInv, Typed, CallType
  <2>2. dispatched \in Nat
    BY DEF IInv, Typed, TypeOK
  <2> QED
    BY <2>1, <2>2, CallsAssumption DEF IInv, Reached, IsRun, Runs
<1>3. Made'
  BY CallsAssumption DEF IInv, Made, IsRun, IsScenario
<1> QED
  BY <1>1, <1>2, <1>3

LEMMA StartRecoveryInv ==
  ASSUME IInv, StartRecovery
  PROVE  IInv' /\ cur'.item = Recovery
<1> DEFINE t == reserveNextSequence(session)
<1>1. /\ cur = Idle /\ queue # <<>> /\ Head(queue) = Recovery /\ queue' = Tail(queue)
      /\ session.quarantined /\ UNCHANGED <<consumed, call>>
  BY DEF StartRecovery, Front
<1>2. /\ session \in SessionType /\ session.sequence \in Nat /\ queue \in Seq(Item)
      /\ dispatched \in Nat /\ dispatched <= session.sequence
  BY Types DEF IInv, Typed, SessionType, Reached
<1>3. Settled
  BY <1>1, TailQueue, IdleShape DEF IInv, Phase, Open, Late, Recovering, Closed, Runs
<1>4. HoldsCalls(queue')
  BY <1>1, <1>2, <1>3, RecoveryTaken DEF Settled
<1>5. /\ t \in SessionType /\ t.sequence = session.sequence + 1
      /\ t.quarantined /\ t.recoveryScheduled
  BY <1>2, <1>3, ReserveType DEF Settled
<1>6. /\ session' = t /\ dispatched' = t.sequence
      /\ inflight' = {[sequence |-> t.sequence, recovers |-> FALSE]}
      /\ cur' = [Idle EXCEPT !.awaits = "reset", !.sequence = t.sequence]
  BY <1>3 DEF StartRecovery, Dispatch, Settled
<1>7. IsRun(cur', Recovery) /\ cur'.awaits = "reset" /\ cur'.sequence = t.sequence
  BY <1>6, IdleShape DEF IsRun, Shape
<1> HIDE DEF t
<1>8. Typed' /\ Reached' /\ Made'
  BY <1>1, <1>2, <1>5, <1>6, <1>7, TailQueue, CallsStay DEF CallSet
<1>9. Phase'
  BY <1>4, <1>5, <1>6, <1>7 DEF Phase, Recovering, IsRun, Runs, OnlyAwaited
<1> QED
  BY <1>7, <1>8, <1>9 DEF IInv, IsRun

LEMMA RecoveryEndsInv ==
  ASSUME IInv, AnswerRecovery \/ TimeoutRecovery
  PROVE  IInv'
<1>1. /\ Runs /\ cur.item = Recovery /\ cur' = Idle
      /\ UNCHANGED <<consumed, queue, call, dispatched>>
  BY DEF AnswerRecovery, TimeoutRecovery, Recovers
<1>2. Recovering
  BY <1>1, IdleShape DEF IInv, Phase, Open, Late, Settled, Closed, Runs
<1>3. /\ session \in SessionType /\ session.sequence \in Nat /\ queue \in Seq(Item)
      /\ dispatched \in Nat /\ dispatched <= session.sequence /\ cur.sequence \in Nat
      /\ inflight = {[sequence |-> cur.sequence, recovers |-> FALSE]}
  BY <1>2, Types DEF IInv, Typed, SessionType, Reached, Recovering, OnlyAwaited
<1>4. IsRun(cur', Recovery) /\ cur'.sequence \in Nat
  BY <1>1, IdleShape DEF IsRun
<1>5. /\ session' \in SessionType /\ session'.sequence = session.sequence
      /\ ~session'.recoveryScheduled
      /\ \/ inflight' = {}
         \/ inflight' = inflight /\ session'.quarantined
  <2>1. CASE AnswerRecovery
    <3>1. Others = {}
      BY <1>1, <1>3 DEF Others, Awaited, Runs
    <3>2. PICK bound \in BOOLEAN :
            session' = [session EXCEPT !.recoveryScheduled = FALSE, !.quarantined = ~bound]
      BY <2>1 DEF AnswerRecovery
    <3>3. inflight' = {}
      BY <2>1, <3>1 DEF AnswerRecovery
    <3> QED
      BY <1>3, <3>2, <3>3 DEF SessionType
  <2>2. CASE TimeoutRecovery
    BY <1>2, <1>3, <2>2 DEF TimeoutRecovery, SessionType, Recovering
  <2> QED
    BY <2>1, <2>2
<1>6. Typed' /\ Reached' /\ Made'
  <2>1. inflight' \subseteq CallSet
    <3>1. inflight \subseteq CallSet
      BY Types DEF IInv, Typed
    <3> QED
      BY <1>5, <3>1
  <2> QED
    BY <1>1, <1>3, <1>4, <1>5, <2>1, CallsStay
<1>7. Phase'
  BY <1>1, <1>2, <1>3, <1>5 DEF Phase, Open, Closed, Recovering
<1> QED
  BY <1>6, <1>7 DEF IInv

LEMMA LateSettlementInv ==
  ASSUME IInv, quarantineAfterLateSettlement
  PROVE  IInv'
<1>1. PICK x \in Others :
        /\ inflight' = inflight \ {x}
        /\ queue' = IF x.recovers THEN Append(queue, Recovery) ELSE queue
        /\ UNCHANGED <<session, consumed, call, cur, dispatched>>
  BY DEF quarantineAfterLateSettlement
<1>2. ~Runs
  <2>1. SUFFICES ASSUME Runs PROVE FALSE
    OBVIOUS
  <2>2. OnlyAwaited
    BY <2>1, IdleShape DEF IInv, Phase, Open, Late, Settled, Recovering, Closed, Runs
  <2>3. x \in inflight /\ ~Awaited(x)
    BY DEF Others
  <2> QED
    BY <2>1, <2>2, <2>3 DEF OnlyAwaited, Awaited, Runs
<1>3. cur = Idle /\ x \in inflight
  BY <1>1, <1>2 DEF IInv, Phase, Open, Late, Settled, Recovering, Closed, Others
<1>4. /\ session \in SessionType /\ session.sequence \in Nat /\ queue \in Seq(Item)
      /\ dispatched \in Nat /\ dispatched <= session.sequence /\ cur.sequence \in Nat
      /\ inflight \subseteq CallSet
  BY Types DEF IInv, Typed, SessionType, Reached
<1>5. IsRun(cur', Recovery) /\ cur'.sequence \in Nat
  BY <1>1, <1>3, IdleShape DEF IsRun
<1>6. /\ queue' \in Seq(Item)
      /\ \A i \in DOMAIN queue' : (\E j \in DOMAIN queue : queue'[i] = queue[j])
                                  \/ queue'[i] = Recovery
  <2>1. Recovery \in Item
    BY DEF Item
  <2>2. /\ Append(queue, Recovery) \in Seq(Item)
        /\ \A i \in DOMAIN Append(queue, Recovery) :
             \/ i \in DOMAIN queue /\ Append(queue, Recovery)[i] = queue[i]
             \/ Append(queue, Recovery)[i] = Recovery
    BY <1>4, <2>1, QueueAppend
  <2>3. CASE x.recovers
    BY <1>1, <2>2, <2>3
  <2>4. CASE ~x.recovers
    BY <1>1, <1>4, <2>4
  <2> QED
    BY <2>3, <2>4
<1>7. Typed' /\ Reached' /\ Made'
  BY <1>1, <1>4, <1>5, <1>6, CallsStay
<1>8. Phase'
  <2>1. CASE Late
    <3>1. PICK n \in Nat : inflight = {[sequence |-> n, recovers |-> TRUE]}
      BY <2>1 DEF Late
    <3>2. x = [sequence |-> n, recovers |-> TRUE]
      BY <1>3, <3>1
    <3>3. x.recovers /\ inflight' = {}
      BY <1>1, <3>1, <3>2
    <3> QED
      BY <1>1, <1>3, <1>4, <2>1, <3>3, RecoveryAppended DEF Phase, Late, Settled
  <2>2. CASE Closed
    <3>1. PICK n \in Nat : inflight = {[sequence |-> n, recovers |-> FALSE]}
      BY <1>3, <2>2 DEF Closed
    <3>2. x = [sequence |-> n, recovers |-> FALSE]
      BY <1>3, <3>1
    <3>3. ~x.recovers /\ inflight' = {}
      BY <1>1, <3>1, <3>2
    <3> QED
      BY <1>1, <1>3, <2>2, <3>3 DEF Phase, Closed
  <2> QED
    BY <1>2, <1>3, <2>1, <2>2 DEF IInv, Phase, Open, Settled, Recovering
<1> QED
  BY <1>7, <1>8 DEF IInv

(***************************************************************************)
(* The invariant, and what it says of every session.                        *)
(***************************************************************************)
LEMMA StutterInv ==
  ASSUME IInv, UNCHANGED vars
  PROVE  IInv'
<1> USE DEF vars
<1>1. Typed' /\ Reached' /\ Made'
  BY DEF IInv, Typed, TypeOK, Shape, Reached, Made, Runs, IsScenario
<1>2. Phase'
  BY DEF IInv, Phase, Open, Late, Settled, Recovering, Closed, OnlyAwaited, Runs
<1> QED
  BY <1>1, <1>2 DEF IInv

\* Every action preserves the phases, the bounds of what was reached, and the types.
THEOREM Inductive ==
  IInv /\ [Next]_vars => IInv'
<1> SUFFICES ASSUME IInv, [Next]_vars PROVE IInv'
  OBVIOUS
<1>1. ASSUME NEW c \in Calls, Invoke(c) PROVE IInv'
  BY <1>1, InvokeInv
<1>2. ASSUME NEW c \in Calls, RefuseDirect(c) \/ RefuseScenario(c) PROVE IInv'
  BY <1>2, RefuseInv
<1>3. ASSUME NEW c \in Calls, StartDirect(c) PROVE IInv'
  BY <1>3, StartDirectInv
<1>4. ASSUME NEW c \in Calls, StartScenario(c) PROVE IInv'
  BY <1>4, StartScenarioInv
<1>5. CASE AnswerDirect
  BY <1>5, AnswerDirectInv
<1>6. CASE TimeoutDirect \/ TimeoutStep \/ TimeoutCleanup
  BY <1>6, TimeoutInv
<1>7. CASE StartRecovery
  BY <1>7, StartRecoveryInv
<1>8. CASE AnswerRecovery \/ TimeoutRecovery
  BY <1>8, RecoveryEndsInv
<1>9. CASE Tick
  BY <1>9, TickInv
<1>10. CASE \/ AnswerReset \/ AnswerAct \/ AnswerObserve \/ AnswerEvidence
            \/ AnswerFails \/ AnswerCleanup
  BY <1>10, ScenarioAnswerInv DEF ScenarioAnswer
<1>11. CASE quarantineAfterLateSettlement
  BY <1>11, LateSettlementInv
<1>12. CASE UNCHANGED vars
  BY <1>12, StutterInv
<1> QED
  BY <1>1, <1>2, <1>3, <1>4, <1>5, <1>6, <1>7, <1>8, <1>9, <1>10, <1>11, <1>12 DEF Next

\* The invariant holds of every behaviour.
THEOREM SpecIInv ==
  Spec => []IInv
BY InitInv, Inductive, PTL DEF Spec

\* The session's state keeps its types.
THEOREM SpecTypeOK ==
  Spec => []TypeOK
<1>1. IInv => TypeOK
  BY DEF IInv, Typed
<1> QED
  BY <1>1, SpecIInv, PTL

\* The adapter never runs two calls of a session at once, for any number of calls, of steps
\* and of timeouts: awaitAdapter's quarantine keeps all away until the late call settled.
THEOREM SpecNoOverlap ==
  Spec => []NoOverlap
<1>1. IInv => NoOverlap
  BY DEF IInv, Phase, Open, Late, Settled, Recovering, Closed, OnlyAwaited, NoOverlap
<1> QED
  BY <1>1, SpecIInv, PTL

\* recoveryScheduled is set exactly while a recovery is attached to a late call, queued or
\* running: no timeout schedules a second one, and none is forgotten.
THEOREM SpecRecoveryPending ==
  Spec => []RecoveryPending
<1>1. ASSUME HoldsCalls(queue)
      PROVE  ~ \E i \in DOMAIN queue : queue[i] = Recovery
  BY <1>1, CallsAssumption DEF HoldsCalls
<1>2. ASSUME IInv PROVE RecoveryPending
  <2>1. CASE Open
    <3>1. ~Recovers /\ \A x \in inflight : ~x.recovers
      BY <2>1, IdleShape DEF Open, OnlyAwaited, Recovers, Runs
    <3> QED
      BY <1>1, <2>1, <3>1 DEF Open, RecoveryPending
  <2>2. CASE Late
    BY <2>2 DEF Late, RecoveryPending
  <2>3. CASE Settled
    BY <2>3 DEF Settled, HoldsRecovery, RecoveryPending
  <2>4. CASE Recovering
    BY <2>4 DEF Recovering, Recovers, RecoveryPending
  <2>5. CASE Closed
    <3>1. ~Recovers /\ \A x \in inflight : ~x.recovers
      BY <2>5, IdleShape DEF Closed, Recovers, Runs
    <3> QED
      BY <1>1, <2>5, <3>1 DEF Closed, RecoveryPending
  <2> QED
    BY <1>2, <2>1, <2>2, <2>3, <2>4, <2>5 DEF IInv, Phase
<1> QED
  BY <1>2, SpecIInv, PTL

\* Which actions reach the adapter: a scenario only in an open session, and never to restore.
LEMMA ScenarioDispatches ==
  ASSUME NEW s \in SessionType, NEW item, NEW calls, GoesOn(s, item, calls)
  PROVE  /\ dispatched' # dispatched => ~s.quarantined
         /\ cur' # Idle => cur'.awaits # "restore"
<1>1. PICK t \in SessionType :
           \/ Ended(t, item, calls)
           \/ ~s.quarantined /\ cur'.awaits \notin {"none", "restore"}
  BY Outcomes
<1> QED
  BY <1>1 DEF Ended

LEMMA ScenarioActions ==
  ASSUME IInv,
         \/ ScenarioAnswer \/ TimeoutStep \/ TimeoutCleanup
         \/ \E c \in Calls : StartScenario(c) \/ RefuseScenario(c)
  PROVE  /\ dispatched' # dispatched => ~session.quarantined
         /\ cur' # Idle /\ cur' # cur => cur'.awaits # "restore"
<1>1. CASE ScenarioAnswer
  <2>1. Runs /\ cur.item \in Calls
    BY <1>1, AnswerGoesOn
  <2>2. ~session.quarantined
    BY <2>1, InScenarioIsOpen
  <2>3. PICK s \in SessionType : GoesOn(s, cur.item, {})
    BY <1>1, AnswerGoesOn
  <2> QED
    BY <2>2, <2>3, ScenarioDispatches
<1>2. CASE TimeoutStep \/ TimeoutCleanup
  <2>1. Runs /\ cur.item \in Calls
    BY <1>2 DEF TimeoutStep, TimeoutCleanup, InStep, InCleanup, InScenario
  <2>2. ~session.quarantined /\ session \in SessionType /\ IsRun(cur, cur.item)
    BY <2>1, InScenarioIsOpen
  <2>3. cur' # Idle => cur'.awaits # "restore"
    <3>1. CASE TimeoutStep
      <4>1. PICK run : /\ run = Thrown(cur, "adapter-timeout", "adapter-operation-timeout")
                       /\ Finally(Quarantined(session), run, Attached)
        BY <3>1 DEF TimeoutStep
      <4>2. IsRun(run, cur.item) /\ Quarantined(session) \in SessionType
        BY <2>2, <4>1, RunChanges, QuarantinedType, IdleShape
      <4> QED
        BY <4>1, <4>2, FinallyIsGoesOn, ScenarioDispatches
    <3>2. CASE TimeoutCleanup
      BY <3>2 DEF TimeoutCleanup, Sealed
    <3> QED
      BY <1>2, <3>1, <3>2
  <2> QED
    BY <2>2, <2>3
<1>3. ASSUME NEW c \in Calls, StartScenario(c)
      PROVE  /\ ~session.quarantined
             /\ cur' # Idle => cur'.awaits # "restore"
  <2>1. GoesOn(session, c, {}) /\ ~session.quarantined /\ session \in SessionType
    BY <1>3, StartScenarioInv, Types DEF IInv, Typed
  <2> QED
    BY <2>1, ScenarioDispatches
<1>4. ASSUME NEW c \in Calls, RefuseScenario(c)
      PROVE  dispatched' = dispatched /\ cur' = Idle
  BY <1>4 DEF RefuseScenario, Sealed
<1> QED
  BY <1>1, <1>2, <1>3, <1>4

\* While the session is quarantined only the recovery's reset reaches the adapter, whatever
\* was queued before (requireSessionAvailable when the operation starts).
THEOREM SpecOnlyRecoveryInQuarantine ==
  Spec => OnlyRecoveryInQuarantine
<1>1. ASSUME IInv, [Next]_vars, dispatched' # dispatched, session.quarantined
      PROVE  cur'.item = Recovery
  <2> USE <1>1
  <2>1. ~ScenarioAnswer /\ ~TimeoutStep /\ ~TimeoutCleanup
    BY ScenarioActions
  <2>2. \A c \in Calls : ~StartScenario(c) /\ ~RefuseScenario(c)
    BY ScenarioActions
  <2>3. \A c \in Calls : ~Invoke(c) /\ ~RefuseDirect(c) /\ ~StartDirect(c)
    BY DEF Invoke, RefuseDirect, StartDirect, Admits
  <2>4. ~AnswerDirect /\ ~TimeoutDirect /\ ~AnswerRecovery /\ ~TimeoutRecovery /\ ~Tick
        /\ ~quarantineAfterLateSettlement /\ ~UNCHANGED vars
    BY DEF AnswerDirect, TimeoutDirect, AnswerRecovery, TimeoutRecovery, Tick,
           quarantineAfterLateSettlement, vars
  <2>5. StartRecovery
    BY <2>1, <2>2, <2>3, <2>4 DEF Next, ScenarioAnswer
  <2> QED
    BY <2>5, StartRecoveryInv
<1>2. IInv /\ [Next]_vars =>
        (dispatched' # dispatched /\ session.quarantined => cur'.item = Recovery)
  BY <1>1
<1>3. IInv /\ [Next]_vars =>
        [dispatched' # dispatched /\ session.quarantined => cur'.item = Recovery]_vars
  BY <1>2
<1> QED
  BY <1>3, SpecIInv, PTL DEF Spec, OnlyRecoveryInQuarantine

\* A restore reaches the adapter only with the snapshot of the call that reached it last, and
\* when no call runs (validateSnapshotForRestore and reserveNextSequence).
THEOREM SpecRestoreIsFresh ==
  Spec => RestoreIsFresh
<1>1. ASSUME IInv, [Next]_vars, NEW c \in Calls,
             cur' # cur, cur'.item = c, cur'.awaits = "restore"
      PROVE  dispatched = call[c].sequence /\ inflight = {}
  <2> USE <1>1
  <2>0. cur' # Idle
    BY IdleShape
  <2>1. ~ScenarioAnswer /\ ~TimeoutStep /\ ~TimeoutCleanup
    BY <2>0, ScenarioActions
  <2>2. \A d \in Calls : ~StartScenario(d) /\ ~RefuseScenario(d)
    BY <2>0, ScenarioActions
  <2>3. \A d \in Calls : ~Invoke(d) /\ ~RefuseDirect(d)
    BY DEF Invoke, RefuseDirect
  <2>4. ~AnswerDirect /\ ~TimeoutDirect /\ ~AnswerRecovery /\ ~TimeoutRecovery
        /\ ~quarantineAfterLateSettlement /\ ~UNCHANGED vars
    BY <2>0 DEF AnswerDirect, TimeoutDirect, AnswerRecovery, TimeoutRecovery,
                quarantineAfterLateSettlement, vars
  <2>5. ~Tick
    <3>1. SUFFICES ASSUME Tick PROVE FALSE
      OBVIOUS
    <3>2. Runs /\ cur.item \in Calls /\ IsScenario(cur.item)
      BY <3>1 DEF Tick, InScenario
    <3>3. cur.awaits # "restore"
      BY <3>2 DEF IInv, Made
    <3> QED
      BY <3>1, <3>3, TickInv
  <2>6. ~StartRecovery
    BY StartRecoveryInv, CallsAssumption
  <2>7. PICK d \in Calls : StartDirect(d)
    BY <2>1, <2>2, <2>3, <2>4, <2>5, <2>6 DEF Next, ScenarioAnswer
  <2>8. cur = Idle /\ ~session.quarantined /\ Admits(d)
    BY <2>7 DEF StartDirect, RunsDirect, Front, Admits
  <2>9. inflight = {}
    BY <2>8, IdleShape DEF IInv, Phase, Open, Late, Settled, Recovering, Closed, Runs
  <2>10. cur'.item = d /\ cur'.awaits = call[d].kind
    <3>1. PICK run : run = [Idle EXCEPT !.item = d]
      OBVIOUS
    <3>2. IsRun(run, d)
      BY <3>1, IdleShape DEF IsRun, Shape
    <3>3. PICK n : cur' = [run EXCEPT !.awaits = call[d].kind, !.sequence = n]
      BY <2>7, <3>1 DEF StartDirect, Dispatch
    <3> QED
      BY <3>2, <3>3 DEF IsRun, Shape
  <2>11. d = c /\ call[c].kind = "restore"
    BY <2>10
  <2>12. call[c].sequence = session.sequence /\ call[c].sequence <= dispatched
         /\ dispatched <= session.sequence
    BY <2>8, <2>11 DEF Admits, IInv, Reached
  <2>13. dispatched \in Nat /\ session.sequence \in Nat
    BY DEF IInv, Typed, TypeOK
  <2> QED
    BY <2>9, <2>12, <2>13
<1>2. IInv /\ [Next]_vars =>
        [\A c \in Calls : cur' # cur /\ cur'.item = c /\ cur'.awaits = "restore"
           => dispatched = call[c].sequence /\ inflight = {}]_vars
  BY <1>1
<1> QED
  BY <1>2, SpecIInv, PTL DEF Spec, RestoreIsFresh

(***************************************************************************)
(* What a scenario composes.                                                *)
(***************************************************************************)
ReceiptShape(d) ==
  d = [status |-> d.status, reason |-> d.reason, negative |-> d.negative, time |-> d.time,
       sequence |-> d.sequence, reset |-> d.reset, actions |-> d.actions,
       results |-> d.results, observations |-> d.observations, evidence |-> d.evidence,
       cleanup |-> d.cleanup, ahead |-> d.ahead, timely |-> d.timely, fits |-> d.fits]

\* The draft d holds k steps that began at b, of which only the last may not have passed: its
\* action with that result, or its evidence with that finding.  Each operation has the next
\* sequence.
Took(d, b, k, result, finding) ==
  LET m == IF result = "PASS" THEN k ELSE k - 1 IN
  /\ d.reset = Observed(TRUE, b)
  /\ d.actions = [i \in 1 .. k |-> b + 3 * i - 2]
  /\ d.results = [i \in 1 .. k |-> IF i = k THEN result ELSE "PASS"]
  /\ d.observations = [i \in 1 .. m |-> b + 3 * i - 1]
  /\ d.evidence = [i \in 1 .. m |-> [sequence |-> b + 3 * i,
                                     status |-> IF i = k THEN finding ELSE "PASS"]]
  /\ d.cleanup = NoObservation

\* What the draft holds agrees with its verdict.
Agrees(d) ==
  /\ d.status \in Status /\ ReasonIffNotPass(d)
  /\ d.status = "PASS" =>
       /\ d.negative = {} /\ NonPass(d) = {} /\ IsObserved(d.reset) /\ Len(d.actions) = Steps
       /\ Len(d.observations) = Steps /\ Len(d.evidence) = Steps
  /\ d.status = "FAIL" => "FAIL" \in NonPass(d) \/ d.negative # {}
  /\ d.status = "UNVERIFIED" =>
       NonPass(d) = {"UNVERIFIED"} /\ d.reason = "reported" /\ d.negative \subseteq {"reported"}
  /\ NonPass(d) # {} => d.reason = "reported"

\* The operations of d ended at or before q, or some were not recorded.
EndsAt(d, q) ==
  /\ Cursor(d) \in Nat
  /\ \A a \in Operations(d) : a[1] \in 0 .. 3 * Steps /\ a[2] \in Nat /\ a[2] <= q
  /\ q = Cursor(d) \/ (Unrecorded(d) /\ q >= Cursor(d) + 1)

InOrder(d, q) ==
  /\ IsObserved(d.reset) => d.reset.identity
  /\ ResultsMatch(d)
  /\ Len(d.observations) = Cardinality(Passed(d)) /\ Len(d.evidence) = Cardinality(Passed(d))
  /\ Monotonic(d) /\ EndsAt(d, q)

\* The first reset's observation belongs to another call.
Astray(d, q) ==
  /\ d.reason = "receipt-invalid" /\ d.actions = <<>> /\ IsObserved(d.reset)
  /\ ~d.reset.identity \/ d.reset.sequence = q + 1

\* A draft whose steps have ended, at the sequence q.
Composed(d, q) ==
  /\ ReceiptShape(d) /\ q \in Nat /\ d.cleanup = NoObservation
  /\ Agrees(d) /\ (Astray(d, q) \/ InOrder(d, q))

\* A draft whose steps go on: they all passed.
OnCourse(run) ==
  LET d == run.draft
      b == d.reset.sequence IN
  /\ ReceiptShape(d) /\ d.status = "PASS" /\ d.reason = "none" /\ d.negative = {}
  /\ \/ run.awaits = "reset" /\ run.step = 0 /\ d = Fresh
     \/ /\ run.step \in 1 .. Steps /\ b \in Nat \ {0}
        /\ Took(d, b, run.step - 1, "PASS", "PASS")
        /\ run.action = b + 3 * run.step - 2
        /\ \/ run.awaits = "act" /\ run.sequence = run.action
           \/ /\ run.awaits = "observe"
              /\ run.observation = run.sequence /\ run.sequence = b + 3 * run.step - 1
           \/ /\ run.awaits = "collectEvidence"
              /\ run.observation = run.sequence - 1 /\ run.sequence = b + 3 * run.step

\* The receipt of the last scenario, and the draft of the one that runs.
ReceiptInv ==
  /\ ScenariosYieldReceipts
  /\ InScenario =>
       /\ session.sequence = cur.sequence /\ dispatched = cur.sequence /\ cur.sequence # 0
       /\ InStep => OnCourse(cur)
       /\ InCleanup => cur.awaits = "reset" /\ Composed(cur.draft, cur.sequence - 1)

(***************************************************************************)
(* The cursor and the records of a draft.                                   *)
(***************************************************************************)
LEMMA CursorIs ==
  ASSUME NEW r, NEW m \in Nat, \E a \in Operations(r) : a[2] = m,
         \A a \in Operations(r) : a[2] \in Nat /\ a[2] <= m
  PROVE  Cursor(r) = m
<1> DEFINE P(s) == \A a \in Operations(r) : a[2] <= s
           S == {a[2] : a \in Operations(r)}
           c == CHOOSE s \in S : P(s)
<1>1. m \in S /\ P(m) /\ Operations(r) # {}
  OBVIOUS
<1>2. c \in S /\ P(c)
  BY <1>1
<1>3. c \in Nat /\ c <= m /\ m <= c
  BY <1>1, <1>2
<1>4. Cursor(r) = c
  BY <1>1 DEF Cursor
<1> QED
  BY <1>3, <1>4

\* What is read of a receipt's records depends on its records alone.
LEMMA SameRecords ==
  ASSUME NEW r, NEW d, r.reset = d.reset, r.actions = d.actions, r.results = d.results,
         r.observations = d.observations, r.evidence = d.evidence
  PROVE  /\ Passed(r) = Passed(d) /\ NonPass(r) = NonPass(d)
         /\ ResultsMatch(r) <=> ResultsMatch(d)
         /\ r.cleanup = d.cleanup =>
              /\ Operations(r) = Operations(d) /\ Cursor(r) = Cursor(d)
              /\ Monotonic(r) <=> Monotonic(d)
<1>1. Passed(r) = Passed(d) /\ NonPass(r) = NonPass(d)
  BY DEF Passed, NonPass
<1>2. ResultsMatch(r) <=> ResultsMatch(d)
  BY <1>1 DEF ResultsMatch
<1>3. ASSUME r.cleanup = d.cleanup
      PROVE  Operations(r) = Operations(d)
  BY <1>3 DEF Operations
<1>4. ASSUME Operations(r) = Operations(d)
      PROVE  Cursor(r) = Cursor(d) /\ (Monotonic(r) <=> Monotonic(d))
  <2>1. Cursor(r) = Cursor(d)
    BY <1>4 DEF Cursor
  <2>2. Monotonic(r) <=> Monotonic(d)
    BY <1>4 DEF Monotonic
  <2> QED
    BY <2>1, <2>2
<1> QED
  BY <1>1, <1>2, <1>3, <1>4

Last(k, result) == IF result = "PASS" THEN 3 * k ELSE 3 * k - 2

LEMMA TookOperations ==
  ASSUME NEW d, NEW b \in Nat \ {0}, NEW k \in 0 .. Steps, NEW result \in Status,
         NEW finding \in Status, Took(d, b, k, result, finding), k = 0 => result = "PASS"
  PROVE  /\ \A a \in Operations(d) : a[1] \in 0 .. Last(k, result) /\ a[2] = b + a[1]
         /\ \E a \in Operations(d) : a[2] = b + Last(k, result)
<1> DEFINE m == IF result = "PASS" THEN k ELSE k - 1
           last == Last(k, result)
<1>0. /\ k \in Nat /\ m \in Nat /\ m <= k /\ last \in Nat /\ 3 * m <= last /\ 3 * k - 2 <= last
      /\ b \in Nat /\ b # 0
  BY StepsAssumption DEF Last
<1>1. IsObserved(d.reset) /\ At(0, d.reset) = {<<0, b>>}
  BY <1>0 DEF Took, Observed, IsObserved, NoObservation, At
<1>2. At(3 * Steps + 1, d.cleanup) = {}
  BY DEF Took, IsObserved, At
<1>3. \A i \in DOMAIN d.actions : i \in 1 .. k /\ d.actions[i] = b + (3 * i - 2)
  BY <1>0 DEF Took
<1>4. \A i \in DOMAIN d.observations : i \in 1 .. m /\ d.observations[i] = b + (3 * i - 1)
  BY <1>0 DEF Took
<1>5. \A i \in DOMAIN d.evidence : i \in 1 .. m /\ d.evidence[i].sequence = b + 3 * i
  BY <1>0 DEF Took
<1>6. ASSUME NEW a \in Operations(d)
      PROVE  a[1] \in 0 .. last /\ a[2] = b + a[1]
  <2>1. CASE a \in At(0, d.reset)
    BY <1>0, <1>1, <2>1
  <2>2. ASSUME NEW i \in DOMAIN d.actions, a = <<3 * i - 2, d.actions[i]>>
        PROVE  a[1] \in 0 .. last /\ a[2] = b + a[1]
    BY <1>0, <1>3, <2>2
  <2>3. ASSUME NEW i \in DOMAIN d.observations, a = <<3 * i - 1, d.observations[i]>>
        PROVE  a[1] \in 0 .. last /\ a[2] = b + a[1]
    <3>1. i \in 1 .. m /\ a[1] = 3 * i - 1 /\ a[2] = b + (3 * i - 1)
      BY <1>4, <2>3
    <3>2. 3 * i <= 3 * m
      BY <3>1, <1>0
    <3> QED
      BY <1>0, <3>1, <3>2
  <2>4. ASSUME NEW i \in DOMAIN d.evidence, a = <<3 * i, d.evidence[i].sequence>>
        PROVE  a[1] \in 0 .. last /\ a[2] = b + a[1]
    <3>1. i \in 1 .. m /\ a[1] = 3 * i /\ a[2] = b + 3 * i
      BY <1>5, <2>4
    <3>2. 3 * i <= 3 * m
      BY <3>1, <1>0
    <3> QED
      BY <1>0, <3>1, <3>2
  <2> QED
    BY <1>2, <2>1, <2>2, <2>3, <2>4 DEF Operations
<1>7. \E a \in Operations(d) : a[2] = b + last
  <2>1. CASE k = 0
    <3>1. last = 0 /\ <<0, b>> \in Operations(d)
      BY <1>1, <2>1 DEF Operations, Last
    <3> QED
      BY <3>1, <1>0
  <2>2. CASE k # 0 /\ result = "PASS"
    <3>1. k \in DOMAIN d.evidence /\ d.evidence[k].sequence = b + 3 * k /\ last = 3 * k
      BY <1>0, <2>2 DEF Took, Last
    <3>2. <<3 * k, d.evidence[k].sequence>> \in Operations(d)
      BY <3>1 DEF Operations
    <3> QED
      BY <3>1, <3>2
  <2>3. CASE k # 0 /\ result # "PASS"
    <3>1. k \in DOMAIN d.actions /\ d.actions[k] = b + (3 * k - 2) /\ last = 3 * k - 2
      BY <1>0, <2>3 DEF Took, Last
    <3>2. <<3 * k - 2, d.actions[k]>> \in Operations(d)
      BY <3>1 DEF Operations
    <3> QED
      BY <3>1, <3>2
  <2> QED
    BY <2>1, <2>2, <2>3
<1> QED
  BY <1>6, <1>7

\* The records of a draft are those the validator asks for.
LEMMA TookRecords ==
  ASSUME NEW d, NEW b \in Nat \ {0}, NEW k \in 0 .. Steps, NEW result \in Status,
         NEW finding \in Status, Took(d, b, k, result, finding), k = 0 => result = "PASS"
  PROVE  /\ ResultsMatch(d) /\ Len(d.actions) = k
         /\ Len(d.observations) = Cardinality(Passed(d))
         /\ Len(d.evidence) = Cardinality(Passed(d))
         /\ result = "PASS" => Len(d.evidence) = k
         /\ k = 0 => NonPass(d) = {}
         /\ k # 0 /\ result # "PASS" => NonPass(d) = {result}
         /\ k # 0 /\ result = "PASS" => NonPass(d) = {finding} \ {"PASS"}
<1> DEFINE m == IF result = "PASS" THEN k ELSE k - 1
<1>0. k \in Nat /\ m \in Nat /\ m <= k /\ k <= Steps
  BY StepsAssumption
<1>1. /\ Len(d.actions) = k /\ Len(d.results) = k /\ DOMAIN d.results = 1 .. k
      /\ Len(d.observations) = m /\ Len(d.evidence) = m /\ DOMAIN d.evidence = 1 .. m
  BY <1>0 DEF Took
<1>2. \A i \in 1 .. k : d.results[i] = IF i = k THEN result ELSE "PASS"
  BY DEF Took
<1>3. \A i \in 1 .. m : d.evidence[i].status = IF i = k THEN finding ELSE "PASS"
  BY DEF Took
<1>4. Passed(d) = 1 .. m
  BY <1>0, <1>1, <1>2 DEF Passed
<1>5. Cardinality(1 .. m) = m
  <2>1. 1 \in Int /\ m \in Int
    BY <1>0
  <2>2. Cardinality(1 .. m) = IF 1 > m THEN 0 ELSE m - 1 + 1
    BY <2>1, FS_Interval, Zenon
  <2> QED
    BY <1>0, <2>2
<1>6. ResultsMatch(d)
  BY <1>0, <1>1, <1>2 DEF ResultsMatch, Passed
<1>7. k = 0 => NonPass(d) = {}
  BY <1>0, <1>1 DEF NonPass
<1>8. k # 0 /\ result # "PASS" => NonPass(d) = {result}
  BY <1>0, <1>1, <1>2, <1>3 DEF NonPass
<1>9. k # 0 /\ result = "PASS" => NonPass(d) = {finding} \ {"PASS"}
  BY <1>0, <1>1, <1>2, <1>3 DEF NonPass
<1> QED
  BY <1>1, <1>4, <1>5, <1>6, <1>7, <1>8, <1>9

LEMMA TookInOrder ==
  ASSUME NEW d, NEW b \in Nat \ {0}, NEW k \in 0 .. Steps, NEW result \in Status,
         NEW finding \in Status, Took(d, b, k, result, finding), k = 0 => result = "PASS",
         NEW q \in Nat, q >= b + Last(k, result), q = b + Last(k, result) \/ Unrecorded(d)
  PROVE  InOrder(d, q)
<1> DEFINE last == Last(k, result)
<1>0. last \in Nat /\ last <= 3 * Steps /\ b \in Nat
  BY StepsAssumption DEF Last
<1>1. /\ \A a \in Operations(d) : a[1] \in 0 .. last /\ a[2] = b + a[1]
      /\ \E a \in Operations(d) : a[2] = b + last
  BY TookOperations
<1> HIDE DEF last
<1>2. Monotonic(d)
  BY <1>0, <1>1 DEF Monotonic
<1>3. \A a \in Operations(d) : a[1] \in Nat /\ a[2] \in Nat /\ a[1] <= 3 * Steps /\ a[2] <= b + last
  BY <1>0, <1>1, StepsAssumption
<1>4. Cursor(d) = b + last
  BY <1>0, <1>1, <1>3, CursorIs
<1>5. EndsAt(d, q)
  <2>1. q >= b + last /\ (q = b + last \/ Unrecorded(d))
    BY DEF last
  <2>2. q = Cursor(d) \/ (Unrecorded(d) /\ q >= Cursor(d) + 1)
    BY <2>1, <1>0, <1>4
  <2>3. \A a \in Operations(d) : a[1] \in 0 .. 3 * Steps /\ a[2] \in Nat /\ a[2] <= q
    BY <2>1, <1>0, <1>3, StepsAssumption
  <2> QED
    BY <1>0, <1>4, <2>2, <2>3 DEF EndsAt
<1>6. d.reset.identity
  BY DEF Took, Observed
<1> QED
  BY <1>2, <1>5, <1>6, TookRecords DEF InOrder

(***************************************************************************)
(* The receipts that a composed draft becomes.                              *)
(***************************************************************************)
LEMMA DerivedIs ==
  ASSUME NEW r, Agrees(r), r.status = "PASS" => IsObserved(r.cleanup),
         r.status = "UNVERIFIED" => r.negative = {}
  PROVE  r.status = DerivedStatus(r)
<1>1. CASE r.status = "PASS"
  <2>1. r.negative = {} /\ NonPass(r) = {} /\ CompletePass(r)
    BY <1>1 DEF Agrees, CompletePass
  <2> QED
    BY <1>1, <2>1 DEF DerivedStatus
<1>2. CASE r.status = "FAIL"
  <2>1. "FAIL" \in NonPass(r) \/ r.negative # {}
    BY <1>2 DEF Agrees
  <2> QED
    BY <1>2, <2>1 DEF DerivedStatus
<1>3. CASE r.status = "UNVERIFIED"
  <2>1. NonPass(r) = {"UNVERIFIED"} /\ r.negative = {}
    BY <1>3 DEF Agrees
  <2>2. ~("FAIL" \in NonPass(r) \/ r.negative # {}) /\ "UNVERIFIED" \in NonPass(r)
    BY <2>1
  <2> QED
    BY <1>3, <2>2 DEF DerivedStatus
<1> QED
  BY <1>1, <1>2, <1>3 DEF Agrees, Status

LEMMA Accepted ==
  ASSUME NEW r, Agrees(r), IsObserved(r.reset) => r.reset.identity, ResultsMatch(r),
         Len(r.observations) = Cardinality(Passed(r)), Len(r.evidence) = Cardinality(Passed(r)),
         Cardinality(Passed(r)) \in Nat, Monotonic(r), SequenceMatches(r)
  PROVE  validateEnvironmentScenarioReceipt(r) \/ Excused(r)
<1> SUFFICES ASSUME ~Excused(r) PROVE validateEnvironmentScenarioReceipt(r)
  OBVIOUS
<1>1. r.timely /\ r.fits /\ ~r.ahead /\ WithinDeadline(r)
  BY DEF Excused
<1>2. r.status = "PASS" => IsObserved(r.cleanup)
  BY DEF Excused
<1>3. r.status = "UNVERIFIED" => r.negative = {}
  <2>1. r.status = "UNVERIFIED" => r.reason = "reported" /\ r.negative \subseteq {"reported"}
    BY DEF Agrees
  <2>2. r.status = "UNVERIFIED" => "reported" \notin r.negative
    BY <2>1 DEF Excused
  <2> QED
    BY <2>1, <2>2
<1>4. r.status = DerivedStatus(r)
  BY <1>2, <1>3, DerivedIs
<1>5. EvidenceMatches(r)
  BY DEF EvidenceMatches
<1>6. ReasonIffNotPass(r) /\ (NonPass(r) # {} => r.reason = "reported")
  BY DEF Agrees
<1> QED
  BY <1>1, <1>4, <1>5, <1>6 DEF validateEnvironmentScenarioReceipt

SameRecordsAs(r, d) ==
  /\ r.reset = d.reset /\ r.actions = d.actions /\ r.results = d.results
  /\ r.observations = d.observations /\ r.evidence = d.evidence

SameVerdictAs(r, d) == r.status = d.status /\ r.reason = d.reason /\ r.negative = d.negative

LEMMA SameAgrees ==
  ASSUME NEW r, NEW d, SameRecordsAs(r, d), SameVerdictAs(r, d), Agrees(d)
  PROVE  Agrees(r)
<1>1. NonPass(r) = NonPass(d)
  BY SameRecords DEF SameRecordsAs
<1> QED
  BY <1>1 DEF Agrees, SameRecordsAs, SameVerdictAs, ReasonIffNotPass

\* The receipt of a scenario that did not clean up, or whose cleanup was deferred.
LEMMA UncleanedReceipt ==
  ASSUME NEW d, NEW q, Composed(d, q), NEW r, SameRecordsAs(r, d), SameVerdictAs(r, d),
         r.cleanup = d.cleanup, r.sequence = q
  PROVE  validateEnvironmentScenarioReceipt(r) \/ Excused(r)
<1>1. q \in Nat /\ Agrees(r)
  BY SameAgrees DEF Composed
<1>2. CASE Astray(d, q)
  BY <1>2 DEF Astray, Excused, SameRecordsAs, SameVerdictAs
<1>3. CASE InOrder(d, q)
  <2>1. /\ ResultsMatch(r) <=> ResultsMatch(d)
        /\ Passed(r) = Passed(d) /\ Cursor(r) = Cursor(d) /\ (Monotonic(r) <=> Monotonic(d))
    BY SameRecords DEF SameRecordsAs
  <2>2. Unrecorded(r) <=> Unrecorded(d)
    BY DEF Unrecorded, SameVerdictAs
  <2>3. /\ ResultsMatch(r) /\ Monotonic(r) /\ (IsObserved(r.reset) => r.reset.identity)
        /\ Len(r.observations) = Cardinality(Passed(r)) /\ Len(r.evidence) = Cardinality(Passed(r))
    BY <1>3, <2>1 DEF InOrder, SameRecordsAs
  <2>4. SequenceMatches(r)
    BY <1>3, <2>1, <2>2 DEF InOrder, EndsAt, SequenceMatches
  <2>5. Cardinality(Passed(r)) \in Nat
    BY <1>3, <2>1 DEF InOrder
  <2> QED
    BY <1>1, <2>3, <2>4, <2>5, Accepted
<1> QED
  BY <1>2, <1>3 DEF Composed

\* The receipt of a scenario whose cleanup failed, or came too late.
LEMMA FailedReceipt ==
  ASSUME NEW d, NEW q, Composed(d, q), NEW r, SameRecordsAs(r, d), r.status = "FAIL",
         r.negative = d.negative \cup {"cleanup-failed"},
         r.reason = (IF d.reason = "none" THEN "cleanup-failed" ELSE d.reason),
         r.cleanup = d.cleanup, r.sequence = q + 1
  PROVE  validateEnvironmentScenarioReceipt(r) \/ Excused(r)
<1>1. /\ ResultsMatch(r) <=> ResultsMatch(d)
      /\ NonPass(r) = NonPass(d) /\ Passed(r) = Passed(d)
      /\ Cursor(r) = Cursor(d) /\ (Monotonic(r) <=> Monotonic(d))
  BY SameRecords DEF SameRecordsAs
<1>2. q \in Nat /\ Agrees(r)
  BY <1>1 DEF Composed, Agrees, Status, ReasonIffNotPass
<1>3. CASE Astray(d, q)
  BY <1>3 DEF Astray, Excused, SameRecordsAs
<1>4. CASE InOrder(d, q)
  <2>1. Unrecorded(r)
    BY DEF Unrecorded
  <2>2. /\ ResultsMatch(r) /\ Monotonic(r) /\ (IsObserved(r.reset) => r.reset.identity)
        /\ Len(r.observations) = Cardinality(Passed(r)) /\ Len(r.evidence) = Cardinality(Passed(r))
    BY <1>1, <1>4 DEF InOrder, SameRecordsAs
  <2>3. q + 1 >= Cursor(r) + 1
    BY <1>1, <1>2, <1>4 DEF InOrder, EndsAt
  <2>4. SequenceMatches(r)
    BY <2>1, <2>3 DEF SequenceMatches
  <2>5. Cardinality(Passed(r)) \in Nat
    BY <1>1, <1>4 DEF InOrder
  <2> QED
    BY <1>2, <2>2, <2>4, <2>5, Accepted
<1> QED
  BY <1>3, <1>4 DEF Composed

\* The receipt of a scenario that was cleaned up.
LEMMA CleanedReceipt ==
  ASSUME NEW d, NEW q, Composed(d, q), NEW r, SameRecordsAs(r, d), SameVerdictAs(r, d),
         r.cleanup = Observed(TRUE, q + 1), r.sequence = q + 1
  PROVE  validateEnvironmentScenarioReceipt(r) \/ Excused(r)
<1>1. /\ ResultsMatch(r) <=> ResultsMatch(d)
      /\ NonPass(r) = NonPass(d) /\ Passed(r) = Passed(d)
  BY SameRecords DEF SameRecordsAs
<1>2. q \in Nat /\ Agrees(r)
  BY SameAgrees DEF Composed
<1>3. CASE Astray(d, q)
  BY <1>3 DEF Astray, Excused, SameRecordsAs, SameVerdictAs
<1>4. CASE InOrder(d, q)
  <2> DEFINE last == <<3 * Steps + 1, q + 1>>
  <2>1. Operations(r) = Operations(d) \cup {last}
    <3>1. At(3 * Steps + 1, r.cleanup) = {last}
      BY <1>2 DEF At, Observed, IsObserved, NoObservation
    <3>2. At(3 * Steps + 1, d.cleanup) = {}
      BY DEF At, IsObserved, Composed
    <3> QED
      BY <3>1, <3>2 DEF Operations, SameRecordsAs
  <2>2. \A a \in Operations(d) : a[1] \in 0 .. 3 * Steps /\ a[2] \in Nat /\ a[2] <= q
    BY <1>4 DEF InOrder, EndsAt
  <2>3. last[1] = 3 * Steps + 1 /\ last[2] = q + 1
    OBVIOUS
  <2> HIDE DEF last
  <2>4. Monotonic(r)
    <3>1. SUFFICES ASSUME NEW a \in Operations(r), NEW b \in Operations(r), a[1] < b[1]
                   PROVE  a[2] < b[2]
      BY DEF Monotonic
    <3>2. CASE a \in Operations(d) /\ b \in Operations(d)
      BY <1>4, <3>1, <3>2 DEF InOrder, Monotonic
    <3>3. CASE b = last /\ a \in Operations(d)
      BY <1>2, <2>2, <2>3, <3>3
    <3>4. CASE a = last
      BY <2>1, <2>2, <2>3, <3>1, <3>4, StepsAssumption
    <3> QED
      BY <2>1, <3>2, <3>3, <3>4
  <2>5. Cursor(r) = q + 1
    <3>1. q + 1 \in Nat /\ last \in Operations(r)
      BY <1>2, <2>1
    <3>2. \A a \in Operations(r) : a[2] \in Nat /\ a[2] <= q + 1
      BY <1>2, <2>1, <2>2, <2>3
    <3> QED
      BY <2>3, <3>1, <3>2, CursorIs
  <2>6. /\ ResultsMatch(r) /\ (IsObserved(r.reset) => r.reset.identity)
        /\ Len(r.observations) = Cardinality(Passed(r)) /\ Len(r.evidence) = Cardinality(Passed(r))
    BY <1>1, <1>4 DEF InOrder, SameRecordsAs
  <2>7. Cardinality(Passed(r)) \in Nat
    BY <1>1, <1>4 DEF InOrder
  <2> QED
    BY <1>2, <2>4, <2>5, <2>6, <2>7, Accepted DEF SequenceMatches
<1> QED
  BY <1>3, <1>4 DEF Composed

(***************************************************************************)
(* How the drafts of a scenario come about.                                 *)
(***************************************************************************)
Clean(d) == d.status = "PASS" /\ d.reason = "none" /\ d.negative = {}

LEMMA FreshShape ==
  /\ ReceiptShape(Fresh) /\ Clean(Fresh) /\ Fresh.cleanup = NoObservation
  /\ Fresh.reset = NoObservation /\ Fresh.actions = <<>> /\ Fresh.results = <<>>
  /\ Fresh.observations = <<>> /\ Fresh.evidence = <<>>
BY DEF Fresh, EmptyReceipt, ReceiptShape, Clean

\* Nothing was recorded: the first reset is not over.
LEMMA EmptyInOrder ==
  ASSUME NEW d, d.reset = NoObservation, d.cleanup = NoObservation, d.actions = <<>>,
         d.results = <<>>, d.observations = <<>>, d.evidence = <<>>, Unrecorded(d),
         NEW q \in Nat
  PROVE  InOrder(d, q) /\ NonPass(d) = {}
<1>1. Operations(d) = {}
  BY DEF Operations, At, IsObserved
<1>2. Cursor(d) = 0 /\ Monotonic(d)
  BY <1>1 DEF Cursor, Monotonic
<1>3. EndsAt(d, q)
  BY <1>1, <1>2 DEF EndsAt
<1>4. Passed(d) = {} /\ NonPass(d) = {}
  BY DEF Passed, NonPass
<1>5. Cardinality({}) = 0
  BY FS_EmptySet
<1>6. ResultsMatch(d)
  BY StepsAssumption DEF ResultsMatch
<1> QED
  BY <1>2, <1>3, <1>4, <1>5, <1>6 DEF InOrder, IsObserved

\* Only the first reset was recorded, with an earlier sequence.
LEMMA ResetInOrder ==
  ASSUME NEW d, NEW n \in Nat, d.reset = Observed(TRUE, n), d.cleanup = NoObservation,
         d.actions = <<>>, d.results = <<>>, d.observations = <<>>, d.evidence = <<>>,
         Unrecorded(d)
  PROVE  InOrder(d, n + 1)
<1>1. Operations(d) = {<<0, n>>}
  BY DEF Operations, At, IsObserved, Observed, NoObservation
<1>2. Cursor(d) = n /\ Monotonic(d)
  <2>1. \A a \in Operations(d) : a[1] = 0 /\ a[2] = n
    BY <1>1
  <2>2. \E a \in Operations(d) : a[2] = n
    BY <1>1
  <2>3. \A a \in Operations(d) : a[2] \in Nat /\ a[2] <= n
    BY <2>1
  <2>4. Cursor(d) = n
    BY <2>2, <2>3, CursorIs
  <2>5. Monotonic(d)
    BY <2>1 DEF Monotonic
  <2> QED
    BY <2>4, <2>5
<1>3. EndsAt(d, n + 1)
  BY <1>1, <1>2, StepsAssumption DEF EndsAt
<1>4. Passed(d) = {}
  BY DEF Passed
<1>5. Cardinality({}) = 0
  BY FS_EmptySet
<1>6. ResultsMatch(d)
  BY StepsAssumption DEF ResultsMatch
<1>7. d.reset.identity
  BY DEF Observed
<1> QED
  BY <1>2, <1>3, <1>4, <1>5, <1>6, <1>7 DEF InOrder

\* A failure: nothing that was recorded before it had failed.
LEMMA FailureAgrees ==
  ASSUME NEW d, d.status = "FAIL", d.reason # "none", d.negative # {}, NonPass(d) = {}
  PROVE  Agrees(d)
BY DEF Agrees, Status, ReasonIffNotPass

LEMMA PassedRecords ==
  ASSUME NEW d, NEW b \in Nat \ {0}, NEW k \in 0 .. Steps, Took(d, b, k, "PASS", "PASS")
  PROVE  /\ NonPass(d) = {} /\ Len(d.actions) = k /\ Len(d.evidence) = k
         /\ Len(d.observations) = Len(d.evidence)
<1>1. "PASS" \in Status
  BY DEF Status
<1>2. /\ Len(d.actions) = k /\ Len(d.evidence) = k
      /\ Len(d.observations) = Len(d.evidence)
      /\ k = 0 => NonPass(d) = {}
      /\ k # 0 => NonPass(d) = {"PASS"} \ {"PASS"}
  BY <1>1, TookRecords
<1> QED
  BY <1>2

\* Every step passed, or the next step failed.
LEMMA CompleteIsComposed ==
  ASSUME NEW d, ReceiptShape(d), Clean(d), NEW b \in Nat \ {0},
         Took(d, b, Steps, "PASS", "PASS"), NEW q \in Nat, q = b + 3 * Steps
  PROVE  Composed(d, q)
<1>1. Steps \in 0 .. Steps /\ Steps # 0 /\ Last(Steps, "PASS") = 3 * Steps
  BY StepsAssumption DEF Last
<1>2. "PASS" \in Status
  BY DEF Status
<1>3. InOrder(d, q)
  <2>1. q >= b + Last(Steps, "PASS") /\ q = b + Last(Steps, "PASS")
    BY <1>1
  <2> QED
    BY <1>1, <1>2, <2>1, TookInOrder
<1>4. /\ Len(d.actions) = Steps /\ Len(d.evidence) = Steps /\ NonPass(d) = {}
      /\ Len(d.observations) = Len(d.evidence)
  BY <1>1, <1>2, PassedRecords
<1>5. IsObserved(d.reset)
  BY DEF Took, IsObserved, Observed, NoObservation
<1>6. Agrees(d)
  BY <1>4, <1>5 DEF Agrees, Clean, Status, ReasonIffNotPass
<1> QED
  BY <1>3, <1>6 DEF Composed, Took

LEMMA FailedIsComposed ==
  ASSUME NEW d, ReceiptShape(d), NEW b \in Nat \ {0}, NEW k \in 0 .. Steps,
         Took(d, b, k, "PASS", "PASS"), NEW q \in Nat, q >= b + 3 * k,
         d.status = "FAIL", d.reason # "none", d.negative \ {"reported"} # {}
  PROVE  Composed(d, q)
<1>1. Last(k, "PASS") = 3 * k /\ "PASS" \in Status /\ Unrecorded(d)
  BY DEF Last, Status, Unrecorded
<1>2. InOrder(d, q)
  BY <1>1, TookInOrder
<1>3. NonPass(d) = {}
  BY <1>1, PassedRecords
<1>4. Agrees(d)
  BY <1>3, FailureAgrees
<1> QED
  BY <1>2, <1>4 DEF Composed, Took

\* A step's action, or its evidence, did not pass; the adapter gave the reason.
LEMMA ReportedIsComposed ==
  ASSUME NEW d, ReceiptShape(d), NEW b \in Nat \ {0}, NEW k \in 1 .. Steps,
         NEW result \in Status, NEW finding \in Status, Took(d, b, k, result, finding),
         NEW status \in Status \ {"PASS"},
         result = status \/ (result = "PASS" /\ finding = status),
         d.status = status, d.reason = "reported", d.negative \subseteq {"reported"},
         NEW q \in Nat, q = b + Last(k, result)
  PROVE  Composed(d, q)
<1>1. k \in 0 .. Steps /\ k # 0
  OBVIOUS
<1>2. InOrder(d, q)
  <2>1. q >= b + Last(k, result)
    OBVIOUS
  <2> QED
    BY <1>1, <2>1, TookInOrder
<1>3. NonPass(d) = {status}
  <2>1. CASE result = status
    <3>1. result # "PASS"
      BY <2>1
    <3>2. NonPass(d) = {result}
      BY <1>1, <3>1, TookRecords
    <3> QED
      BY <2>1, <3>2
  <2>2. CASE result = "PASS" /\ finding = status
    <3>1. NonPass(d) = {finding} \ {"PASS"}
      BY <1>1, <2>2, TookRecords
    <3> QED
      BY <2>2, <3>1
  <2> QED
    BY <2>1, <2>2
<1>4. Agrees(d)
  BY <1>3 DEF Agrees, Status, ReasonIffNotPass
<1> QED
  BY <1>2, <1>4 DEF Composed, Took

(***************************************************************************)
(* A step that is recorded.                                                 *)
(***************************************************************************)
LEMMA AppendedStep ==
  ASSUME NEW k \in Nat, NEW f, f = [i \in 1 .. k |-> f[i]], NEW x
  PROVE  Append(f, x) = [i \in 1 .. k + 1 |-> IF i = k + 1 THEN x ELSE f[i]]
<1>1. Len(f) = k /\ DOMAIN f = 1 .. k
  OBVIOUS
<1> QED
  BY <1>1

\* The records after the action of the next step did not pass.
LEMMA ActionTaken ==
  ASSUME NEW d, NEW b \in Nat, NEW k \in Nat, Took(d, b, k, "PASS", "PASS"),
         NEW e, NEW status \in Status \ {"PASS"},
         e.actions = Append(d.actions, b + 3 * (k + 1) - 2),
         e.results = Append(d.results, status), e.reset = d.reset,
         e.observations = d.observations, e.evidence = d.evidence, e.cleanup = d.cleanup
  PROVE  Took(e, b, k + 1, status, "PASS")
<1>1. /\ d.actions = [i \in 1 .. k |-> b + 3 * i - 2] /\ d.results = [i \in 1 .. k |-> "PASS"]
      /\ d.observations = [i \in 1 .. k |-> b + 3 * i - 1]
      /\ d.evidence = [i \in 1 .. k |-> [sequence |-> b + 3 * i, status |-> "PASS"]]
  BY DEF Took
<1>2. e.actions = [i \in 1 .. k + 1 |-> b + 3 * i - 2]
  BY <1>1
<1>3. e.results = [i \in 1 .. k + 1 |-> IF i = k + 1 THEN status ELSE "PASS"]
  BY <1>1
<1>4. e.evidence = [i \in 1 .. k |-> [sequence |-> b + 3 * i,
                                      status |-> IF i = k + 1 THEN "PASS" ELSE "PASS"]]
  BY <1>1
<1>5. k + 1 - 1 = k
  OBVIOUS
<1> QED
  BY <1>1, <1>2, <1>3, <1>4, <1>5 DEF Took

\* The records after the evidence of the next step.
LEMMA EvidenceTaken ==
  ASSUME NEW d, NEW b \in Nat, NEW k \in Nat, Took(d, b, k, "PASS", "PASS"),
         NEW e, NEW status \in Status,
         e.actions = Append(d.actions, b + 3 * (k + 1) - 2),
         e.results = Append(d.results, "PASS"), e.reset = d.reset,
         e.observations = Append(d.observations, b + 3 * (k + 1) - 1),
         e.evidence = Append(d.evidence, [sequence |-> b + 3 * (k + 1), status |-> status]),
         e.cleanup = d.cleanup
  PROVE  Took(e, b, k + 1, "PASS", status)
<1>1. /\ d.actions = [i \in 1 .. k |-> b + 3 * i - 2] /\ d.results = [i \in 1 .. k |-> "PASS"]
      /\ d.observations = [i \in 1 .. k |-> b + 3 * i - 1]
      /\ d.evidence = [i \in 1 .. k |-> [sequence |-> b + 3 * i, status |-> "PASS"]]
  BY DEF Took
<1>2. e.actions = [i \in 1 .. k + 1 |-> b + 3 * i - 2]
  BY <1>1
<1>3. e.results = [i \in 1 .. k + 1 |-> IF i = k + 1 THEN "PASS" ELSE "PASS"]
  BY <1>1
<1>4. e.observations = [i \in 1 .. k + 1 |-> b + 3 * i - 1]
  BY <1>1
<1>5. e.evidence = [i \in 1 .. k + 1 |-> [sequence |-> b + 3 * i,
                                          status |-> IF i = k + 1 THEN status ELSE "PASS"]]
  <2> DEFINE g == [i \in 1 .. k + 1 |-> [sequence |-> b + 3 * i,
                                         status |-> IF i = k + 1 THEN status ELSE "PASS"]]
  <2>0. PICK x, f : x = [sequence |-> b + 3 * (k + 1), status |-> status] /\ f = d.evidence
    OBVIOUS
  <2>1. e.evidence = [i \in 1 .. k + 1 |-> IF i = k + 1 THEN x ELSE f[i]]
    <3>0. k \in Nat
      OBVIOUS
    <3>1. f = [i \in 1 .. k |-> f[i]]
      BY <1>1, <2>0
    <3>2. e.evidence = Append(f, x)
      BY <2>0
    <3> QED
      BY ONLY <3>0, <3>1, <3>2, AppendedStep
  <2>2. ASSUME NEW i \in 1 .. k + 1
        PROVE  (IF i = k + 1 THEN x ELSE f[i])
                 = [sequence |-> b + 3 * i, status |-> IF i = k + 1 THEN status ELSE "PASS"]
    <3>1. CASE i = k + 1
      BY <2>0, <3>1
    <3>2. CASE i # k + 1
      <4>0. k \in Nat /\ i \in 1 .. k + 1
        OBVIOUS
      <4>1. i \in 1 .. k
        BY ONLY <3>2, <4>0
      <4>2. f[i] = [sequence |-> b + 3 * i, status |-> "PASS"]
        BY <1>1, <2>0, <4>1
      <4> QED
        BY <3>2, <4>2
    <3> QED
      BY <3>1, <3>2
  <2> QED
    BY <2>1, <2>2
<1> QED
  BY <1>2, <1>3, <1>4, <1>5 DEF Took

(***************************************************************************)
(* How a scenario goes on: its receipt, its cleanup or its next step.       *)
(***************************************************************************)
Delivered ==
  /\ cur' = Idle /\ receipt'.cleanup = NoObservation
  /\ validateEnvironmentScenarioReceipt(receipt') \/ Excused(receipt')

Running(item) ==
  /\ cur'.item = item /\ call' = call /\ receipt' \in {receipt, NoReceipt}
  /\ session'.sequence = cur'.sequence /\ dispatched' = cur'.sequence /\ cur'.sequence # 0

Continues(item) ==
  \/ Delivered
  \/ /\ Running(item) /\ cur'.step = Steps + 1 /\ cur'.awaits = "reset"
     /\ Composed(cur'.draft, cur'.sequence - 1)
  \/ Running(item) /\ cur'.step \in 0 .. Steps /\ OnCourse(cur')

LEMMA SealedReceipt ==
  ASSUME NEW s, NEW run, ReceiptShape(run.draft), NEW calls, Sealed(s, run, calls)
  PROVE  /\ cur' = Idle /\ SameRecordsAs(receipt', run.draft)
         /\ SameVerdictAs(receipt', run.draft)
         /\ receipt'.cleanup = run.draft.cleanup /\ receipt'.sequence = s.sequence
<1>1. PICK fits, ahead : receipt' = [run.draft EXCEPT !.sequence = s.sequence, !.time = run.time,
                                                      !.ahead = ahead, !.fits = fits]
  BY DEF Sealed
<1>2. PICK d : d = run.draft
  OBVIOUS
<1>3. PICK r : r = receipt'
  OBVIOUS
<1>4. r = [d EXCEPT !.sequence = s.sequence, !.time = run.time, !.ahead = ahead,
                    !.fits = fits]
  BY <1>1, <1>2, <1>3
<1>5. ReceiptShape(d)
  BY <1>2
<1>6. /\ SameRecordsAs(r, d) /\ SameVerdictAs(r, d)
      /\ r.cleanup = d.cleanup /\ r.sequence = s.sequence
  BY <1>4, <1>5 DEF ReceiptShape, SameRecordsAs, SameVerdictAs
<1>7. cur' = Idle
  BY DEF Sealed
<1> QED
  BY <1>2, <1>3, <1>6, <1>7

LEMMA ThrownDraft ==
  ASSUME NEW run, Shape(run), ReceiptShape(run.draft), NEW reason, NEW path
  PROVE  LET e == Thrown(run, reason, path).draft IN
         /\ ReceiptShape(e) /\ SameRecordsAs(e, run.draft) /\ e.cleanup = run.draft.cleanup
         /\ e.status = "FAIL" /\ e.reason = reason
         /\ e.negative = run.draft.negative \cup {path}
<1> DEFINE d == run.draft
           e == Thrown(run, reason, path).draft
<1>1. e = [d EXCEPT !.status = "FAIL", !.reason = reason, !.negative = @ \cup {path}]
  BY DEF Thrown, Shape, ReceiptShape
<1>2. ASSUME NEW x, ReceiptShape(x), NEW y,
             y = [x EXCEPT !.status = "FAIL", !.reason = reason, !.negative = @ \cup {path}]
      PROVE  /\ ReceiptShape(y) /\ SameRecordsAs(y, x) /\ y.cleanup = x.cleanup
             /\ y.status = "FAIL" /\ y.reason = reason /\ y.negative = x.negative \cup {path}
  BY <1>2 DEF ReceiptShape, SameRecordsAs
<1> QED
  BY <1>1, <1>2

LEMMA CleanupFailedDraft ==
  ASSUME NEW run, Shape(run), ReceiptShape(run.draft)
  PROVE  LET d == run.draft
             e == CleanupFailed(run).draft IN
         /\ ReceiptShape(e) /\ SameRecordsAs(e, d) /\ e.cleanup = d.cleanup
         /\ e.status = "FAIL" /\ e.negative = d.negative \cup {"cleanup-failed"}
         /\ e.reason = (IF d.reason = "none" THEN "cleanup-failed" ELSE d.reason)
<1> DEFINE d == run.draft
           e == CleanupFailed(run).draft
           Change(x) == [x EXCEPT !.status = "FAIL", !.negative = @ \cup {"cleanup-failed"},
                                  !.reason = IF @ = "none" THEN "cleanup-failed" ELSE @]
<1>1. e = Change(d)
  BY DEF CleanupFailed, Shape, ReceiptShape
<1>2. ASSUME NEW x, ReceiptShape(x), NEW y, y = Change(x)
      PROVE  /\ ReceiptShape(y) /\ SameRecordsAs(y, x) /\ y.cleanup = x.cleanup
             /\ y.status = "FAIL" /\ y.negative = x.negative \cup {"cleanup-failed"}
             /\ y.reason = (IF x.reason = "none" THEN "cleanup-failed" ELSE x.reason)
  BY <1>2 DEF ReceiptShape, SameRecordsAs
<1> QED
  BY <1>1, <1>2

LEMMA DeferredDraft ==
  ASSUME NEW d, ReceiptShape(d), d.status = "FAIL", NEW q, Composed(d, q), NEW path
  PROVE  Composed([d EXCEPT !.negative = @ \cup {path}], q)
<1> DEFINE e == [d EXCEPT !.negative = @ \cup {path}]
<1>1. /\ ReceiptShape(e) /\ SameRecordsAs(e, d) /\ e.cleanup = d.cleanup
      /\ e.status = "FAIL" /\ e.reason = d.reason /\ e.negative = d.negative \cup {path}
  BY DEF ReceiptShape, SameRecordsAs
<1> HIDE DEF e
<1>2. /\ ResultsMatch(e) <=> ResultsMatch(d)
      /\ NonPass(e) = NonPass(d) /\ Passed(e) = Passed(d) /\ Operations(e) = Operations(d)
      /\ Cursor(e) = Cursor(d) /\ (Monotonic(e) <=> Monotonic(d))
  BY <1>1, SameRecords DEF SameRecordsAs
<1>3. Agrees(e)
  BY <1>1, <1>2 DEF Composed, Agrees, ReasonIffNotPass
<1>4. Unrecorded(d) => Unrecorded(e)
  BY <1>1 DEF Unrecorded
<1>5. InOrder(d, q) => InOrder(e, q)
  BY <1>1, <1>2, <1>4 DEF InOrder, EndsAt, SameRecordsAs
<1>6. Astray(d, q) => Astray(e, q)
  BY <1>1 DEF Astray, SameRecordsAs
<1>7. Composed(e, q)
  BY <1>1, <1>3, <1>5, <1>6 DEF Composed
<1> QED
  BY <1>7 DEF e

\* What was dispatched for a run.
LEMMA DispatchedRun ==
  ASSUME NEW s \in SessionType, NEW run, NEW item, IsRun(run, item), NEW calls, NEW operation,
         Dispatch(reserveNextSequence(s), run, operation, calls), call' = call,
         receipt' \in {receipt, NoReceipt}
  PROVE  /\ Running(item) /\ cur'.sequence = s.sequence + 1 /\ cur'.awaits = operation
         /\ cur'.step = run.step /\ cur'.draft = run.draft
         /\ cur'.action = run.action /\ cur'.observation = run.observation
<1>1. /\ session' = reserveNextSequence(s) /\ dispatched' = reserveNextSequence(s).sequence
      /\ cur' = [run EXCEPT !.awaits = operation, !.sequence = reserveNextSequence(s).sequence]
  BY DEF Dispatch
<1>2. reserveNextSequence(s).sequence = s.sequence + 1 /\ s.sequence \in Nat
  BY ReserveType DEF SessionType
<1>3. cur' = [run EXCEPT !.awaits = operation, !.sequence = s.sequence + 1]
  BY <1>1, <1>2
<1>4. /\ cur'.item = item /\ cur'.sequence = s.sequence + 1 /\ cur'.awaits = operation
      /\ cur'.step = run.step /\ cur'.draft = run.draft
      /\ cur'.action = run.action /\ cur'.observation = run.observation
  BY <1>3 DEF IsRun, Shape
<1>5. cur'.sequence # 0
  BY <1>2, <1>4
<1> QED
  BY <1>1, <1>2, <1>4, <1>5 DEF Running

LEMMA FinallyContinues ==
  ASSUME NEW s \in SessionType, NEW run, NEW item, IsRun(run, item), NEW calls,
         Composed(run.draft, s.sequence), s.quarantined => run.draft.status = "FAIL",
         Finally(s, run, calls)
  PROVE  Continues(item)
<1> DEFINE d == run.draft
           q == s.sequence
<1>0. /\ ReceiptShape(d) /\ Shape(run) /\ run.item = item /\ q \in Nat
      /\ d.cleanup = NoObservation /\ Steps \in Nat
  BY StepsAssumption DEF Composed, IsRun, SessionType
<1>1. CASE ~call[run.item].cleanup
  <2>1. Sealed(s, run, calls)
    BY <1>1 DEF Finally
  <2>2. /\ cur' = Idle /\ SameRecordsAs(receipt', d) /\ SameVerdictAs(receipt', d)
        /\ receipt'.cleanup = d.cleanup /\ receipt'.sequence = q
    BY <1>0, <2>1, SealedReceipt
  <2>3. validateEnvironmentScenarioReceipt(receipt') \/ Excused(receipt')
    BY <2>2, UncleanedReceipt
  <2> QED
    BY <1>0, <2>2, <2>3 DEF Continues, Delivered
<1>2. CASE call[run.item].cleanup /\ s.quarantined
  <2>1. PICK w : w = [run EXCEPT !.draft.negative = @ \cup {"cleanup-deferred"}]
    OBVIOUS
  <2>2. w.draft = [d EXCEPT !.negative = @ \cup {"cleanup-deferred"}]
    BY <1>0, <2>1 DEF Shape
  <2>3. Composed(w.draft, q)
    BY <1>0, <1>2, <2>2, DeferredDraft
  <2>4. Sealed(s, w, calls)
    BY <1>2, <2>1 DEF Finally
  <2>5. /\ cur' = Idle /\ SameRecordsAs(receipt', w.draft) /\ SameVerdictAs(receipt', w.draft)
        /\ receipt'.cleanup = w.draft.cleanup /\ receipt'.sequence = q
    BY <2>3, <2>4, SealedReceipt DEF Composed
  <2>6. validateEnvironmentScenarioReceipt(receipt') \/ Excused(receipt')
    BY <2>3, <2>5, UncleanedReceipt
  <2> QED
    BY <2>3, <2>5, <2>6 DEF Continues, Delivered, Composed
<1>3. CASE call[run.item].cleanup /\ ~s.quarantined /\ run.time = "before"
  <2>1. PICK w : w = [run EXCEPT !.step = Steps + 1]
    OBVIOUS
  <2>2. IsRun(w, item) /\ w.draft = d /\ w.step = Steps + 1
    BY <1>0, <2>1 DEF IsRun, Shape
  <2>3. Dispatch(reserveNextSequence(s), w, "reset", calls) /\ call' = call /\ receipt' = receipt
    BY <1>3, <2>1 DEF Finally
  <2>4. /\ Running(item) /\ cur'.sequence = s.sequence + 1 /\ cur'.awaits = "reset"
        /\ cur'.step = Steps + 1 /\ cur'.draft = d
    BY <2>2, <2>3, DispatchedRun
  <2>5. cur'.sequence - 1 = q
    BY <1>0, <2>4
  <2> QED
    BY <2>4, <2>5 DEF Continues
<1>4. CASE call[run.item].cleanup /\ ~s.quarantined /\ run.time # "before"
  <2>1. PICK w : w = CleanupFailed(run)
    OBVIOUS
  <2>2. /\ ReceiptShape(w.draft) /\ SameRecordsAs(w.draft, d) /\ w.draft.cleanup = d.cleanup
        /\ w.draft.status = "FAIL" /\ w.draft.negative = d.negative \cup {"cleanup-failed"}
        /\ w.draft.reason = (IF d.reason = "none" THEN "cleanup-failed" ELSE d.reason)
    BY <1>0, <2>1, CleanupFailedDraft
  <2>3. Sealed(LateEnd(s), w, calls)
    BY <1>4, <2>1 DEF Finally, LateEnd
  <2>4. /\ cur' = Idle /\ SameRecordsAs(receipt', w.draft) /\ SameVerdictAs(receipt', w.draft)
        /\ receipt'.cleanup = w.draft.cleanup /\ receipt'.sequence = q + 1
    BY <2>2, <2>3, SealedReceipt, ReserveType
  <2>5. validateEnvironmentScenarioReceipt(receipt') \/ Excused(receipt')
    <3>1. /\ SameRecordsAs(receipt', d) /\ receipt'.status = "FAIL"
          /\ receipt'.negative = d.negative \cup {"cleanup-failed"}
          /\ receipt'.reason = (IF d.reason = "none" THEN "cleanup-failed" ELSE d.reason)
          /\ receipt'.cleanup = d.cleanup
      BY <2>2, <2>4 DEF SameRecordsAs, SameVerdictAs
    <3> QED
      BY <2>4, <3>1, FailedReceipt
  <2> QED
    BY <1>0, <2>2, <2>4, <2>5 DEF Continues, Delivered
<1> QED
  BY <1>1, <1>2, <1>3, <1>4

LEMMA TookKept ==
  ASSUME NEW d, NEW e, SameRecordsAs(e, d), e.cleanup = d.cleanup, NEW b, NEW k, NEW result,
         NEW finding, Took(d, b, k, result, finding)
  PROVE  Took(e, b, k, result, finding)
BY DEF Took, SameRecordsAs

Path == NegativePath \ {"reported"}

\* A run whose steps all passed, k of them, is thrown out of the next.
LEMMA ThrownIsComposed ==
  ASSUME NEW run, Shape(run), ReceiptShape(run.draft), Clean(run.draft), NEW q \in Nat,
         \/ run.draft = Fresh
         \/ \E b \in Nat \ {0}, k \in 0 .. Steps :
              Took(run.draft, b, k, "PASS", "PASS") /\ q >= b + 3 * k,
         NEW reason, reason # "none", NEW path \in Path
  PROVE  LET e == Thrown(run, reason, path).draft IN Composed(e, q) /\ e.status = "FAIL"
<1>1. PICK w : w = Thrown(run, reason, path)
  OBVIOUS
<1>2. PICK d : d = run.draft
  OBVIOUS
<1>3. PICK e : e = w.draft
  OBVIOUS
<1>4. /\ ReceiptShape(e) /\ SameRecordsAs(e, d) /\ e.cleanup = d.cleanup
      /\ e.status = "FAIL" /\ e.reason = reason /\ e.negative = d.negative \cup {path}
  BY <1>1, <1>2, <1>3, ThrownDraft
<1>5. e.negative = {path} /\ e.negative \ {"reported"} # {} /\ Unrecorded(e)
  BY <1>2, <1>4 DEF Clean, Path, Unrecorded
<1>6. Composed(e, q)
  <2>1. CASE d = Fresh
    <3>1. InOrder(e, q) /\ NonPass(e) = {}
      BY <1>4, <1>5, <2>1, FreshShape, EmptyInOrder DEF SameRecordsAs
    <3>2. Agrees(e)
      BY <1>4, <1>5, <3>1, FailureAgrees
    <3> QED
      BY <1>4, <2>1, <3>1, <3>2, FreshShape DEF Composed
  <2>2. CASE \E b \in Nat \ {0}, k \in 0 .. Steps :
               Took(d, b, k, "PASS", "PASS") /\ q >= b + 3 * k
    <3>1. PICK b \in Nat \ {0}, k \in 0 .. Steps :
               Took(d, b, k, "PASS", "PASS") /\ q >= b + 3 * k
      BY <2>2
    <3>2. Took(e, b, k, "PASS", "PASS")
      BY <1>4, <3>1, TookKept
    <3> QED
      BY <1>4, <1>5, <3>1, <3>2, FailedIsComposed
  <2> QED
    BY <1>2, <2>1, <2>2
<1> QED
  BY <1>1, <1>3, <1>4, <1>6

\* Where the steps stand when the next operation of step k + 1 is due.
Due(run, b, k, operation) ==
  /\ run.step = k + 1 /\ run.action = b + 3 * k + 1
  /\ \/ operation = "act" /\ session.sequence = b + 3 * k
     \/ /\ operation = "observe"
        /\ session.sequence = b + 3 * k + 1 /\ run.observation = b + 3 * k + 2
     \/ /\ operation = "collectEvidence"
        /\ session.sequence = b + 3 * k + 2 /\ run.observation = b + 3 * k + 2

LEMMA ProceedContinues ==
  ASSUME session \in SessionType, NEW run, NEW item, IsRun(run, item), NEW calls,
         NEW operation, ReceiptShape(run.draft), Clean(run.draft), NEW b \in Nat \ {0},
         NEW k \in Nat, k < Steps, Took(run.draft, b, k, "PASS", "PASS"),
         Due(run, b, k, operation), Proceed(run, operation, calls)
  PROVE  Continues(item)
<1> DEFINE t == reserveNextSequence(session)
<1>0. /\ session.sequence \in Nat /\ Shape(run) /\ run.item = item /\ b \in Nat /\ b # 0
      /\ Steps \in Nat
  BY StepsAssumption DEF SessionType, IsRun
<1>1. CASE run.time = "before"
  <2>1. Dispatch(t, run, operation, calls) /\ call' = call /\ receipt' = receipt
    BY <1>1 DEF Proceed
  <2>2. /\ Running(item) /\ cur'.sequence = session.sequence + 1 /\ cur'.awaits = operation
        /\ cur'.step = run.step /\ cur'.draft = run.draft
        /\ cur'.action = run.action /\ cur'.observation = run.observation
    BY <2>1, DispatchedRun
  <2>3. PICK w : w = cur'
    OBVIOUS
  <2>4. /\ w.draft = run.draft /\ w.step = k + 1 /\ w.step \in 1 .. Steps /\ w.step - 1 = k
        /\ w.awaits = operation /\ w.action = b + 3 * w.step - 2
    BY <1>0, <2>2, <2>3 DEF Due
  <2>5. \/ w.awaits = "act" /\ w.sequence = w.action
        \/ /\ w.awaits = "observe"
           /\ w.observation = w.sequence /\ w.sequence = b + 3 * w.step - 1
        \/ /\ w.awaits = "collectEvidence"
           /\ w.observation = w.sequence - 1 /\ w.sequence = b + 3 * w.step
    BY <1>0, <2>2, <2>3 DEF Due
  <2>6. run.draft.reset.sequence = b
    BY DEF Took, Observed
  <2>7. OnCourse(w)
    BY <2>4, <2>5, <2>6 DEF OnCourse, Clean
  <2> QED
    BY <1>0, <2>2, <2>3, <2>4, <2>7 DEF Continues
<1>2. CASE run.time # "before"
  <2>1. PICK w : w = Thrown(run, "deadline-expired", "adapter-operation-timeout")
    OBVIOUS
  <2>2. t \in SessionType /\ t.sequence = session.sequence + 1
    BY ReserveType
  <2>3. t.sequence \in Nat /\ t.sequence >= b + 3 * k /\ k \in 0 .. Steps
    BY <1>0, <2>2 DEF Due
  <2>4. "adapter-operation-timeout" \in Path
    BY DEF Path, NegativePath
  <2>5. Composed(w.draft, t.sequence) /\ w.draft.status = "FAIL"
    BY <1>0, <2>1, <2>3, <2>4, ThrownIsComposed
  <2>6. IsRun(w, item)
    BY <1>0, <2>1, RunChanges, IdleShape
  <2>7. Finally(t, w, calls)
    BY <1>2, <2>1 DEF Proceed
  <2> HIDE DEF t
  <2> QED
    BY <2>2, <2>5, <2>6, <2>7, FinallyContinues
<1> QED
  BY <1>1, <1>2

LEMMA NextStepContinues ==
  ASSUME session \in SessionType, ~session.quarantined, NEW run, NEW item, IsRun(run, item),
         NEW calls, ReceiptShape(run.draft), Clean(run.draft), NEW b \in Nat \ {0},
         NEW k \in 0 .. Steps, Took(run.draft, b, k, "PASS", "PASS"), run.step = k,
         session.sequence = b + 3 * k, NextStep(run, calls)
  PROVE  Continues(item)
<1>0. /\ session.sequence \in Nat /\ Shape(run) /\ run.item = item /\ b \in Nat /\ b # 0
      /\ Steps \in Nat /\ k \in Nat
  BY StepsAssumption DEF SessionType, IsRun
<1>1. CASE k = Steps /\ Finally(session, run, calls)
  <2>1. Composed(run.draft, session.sequence)
    BY <1>0, <1>1, CompleteIsComposed
  <2> QED
    BY <1>1, <2>1, FinallyContinues
<1>2. CASE /\ k # Steps
           /\ Proceed([run EXCEPT !.step = @ + 1, !.action = session.sequence + 1], "act", calls)
  <2>1. PICK w : w = [run EXCEPT !.step = @ + 1, !.action = session.sequence + 1]
    OBVIOUS
  <2>2. /\ IsRun(w, item) /\ w.draft = run.draft /\ w.step = k + 1
        /\ w.action = session.sequence + 1
    <3>1. k + 1 \in 0 .. Steps + 1
      BY <1>0
    <3>2. /\ Shape(w) /\ w.item = item /\ w.draft = run.draft /\ w.step = k + 1
          /\ w.action = session.sequence + 1
      BY <1>0, <2>1 DEF Shape
    <3> QED
      BY <3>1, <3>2 DEF IsRun
  <2>3. Due(w, b, k, "act")
    BY <1>0, <2>2 DEF Due
  <2>4. k < Steps
    BY <1>0, <1>2
  <2> QED
    BY <1>0, <1>2, <2>1, <2>2, <2>3, <2>4, ProceedContinues
<1>3. CASE k # Steps /\ Finally(session, Mismatch(run), calls)
  <2>1. PICK w : w = Mismatch(run)
    OBVIOUS
  <2>2. w = Thrown(run, "receipt-invalid", "adapter-receipt-mismatch")
    BY <2>1 DEF Mismatch
  <2>3. "adapter-receipt-mismatch" \in Path
    BY DEF Path, NegativePath
  <2>4. session.sequence >= b + 3 * k
    BY <1>0
  <2>5. Composed(w.draft, session.sequence)
    BY <1>0, <2>2, <2>3, <2>4, ThrownIsComposed
  <2>6. IsRun(w, item)
    BY <1>0, <2>1, RunChanges, IdleShape
  <2> QED
    BY <1>3, <2>1, <2>5, <2>6, FinallyContinues
<1> QED
  BY <1>1, <1>2, <1>3 DEF NextStep

(***************************************************************************)
(* The answers and timeouts of a scenario's steps.                          *)
(***************************************************************************)
\* Step k + 1 awaits an operation; k steps are recorded.
Awaits(b, k) ==
  /\ Took(cur.draft, b, k, "PASS", "PASS") /\ cur.step = k + 1 /\ cur.action = b + 3 * k + 1
  /\ \/ cur.awaits = "act" /\ session.sequence = b + 3 * k + 1
     \/ /\ cur.awaits = "observe"
        /\ session.sequence = b + 3 * k + 2 /\ cur.observation = b + 3 * k + 2
     \/ /\ cur.awaits = "collectEvidence"
        /\ session.sequence = b + 3 * k + 3 /\ cur.observation = b + 3 * k + 2

LEMMA CourseRun ==
  ASSUME IInv, ReceiptInv, InStep
  PROVE  /\ session \in SessionType /\ ~session.quarantined /\ IsRun(cur, cur.item)
         /\ Shape(cur) /\ ReceiptShape(cur.draft) /\ Clean(cur.draft) /\ Others = {}
         /\ session.sequence = cur.sequence /\ session.sequence \in Nat \ {0}
         /\ \/ cur.awaits = "reset" /\ cur.step = 0 /\ cur.draft = Fresh
            \/ cur.awaits # "reset" /\ \E b \in Nat \ {0}, k \in 0 .. Steps - 1 : Awaits(b, k)
<1>1. InScenario /\ Runs /\ cur.item \in Calls
  BY DEF InStep, InScenario
<1>2. /\ session \in SessionType /\ ~session.quarantined /\ IsRun(cur, cur.item)
      /\ Others = {} /\ session.sequence \in Nat
  BY <1>1, InScenarioIsOpen
<1>3. OnCourse(cur) /\ session.sequence = cur.sequence /\ cur.sequence # 0
  BY <1>1 DEF ReceiptInv
<1>4. CASE cur.awaits = "reset" /\ cur.step = 0 /\ cur.draft = Fresh
  BY <1>2, <1>3, <1>4 DEF OnCourse, Clean, IsRun
<1>5. CASE ~(cur.awaits = "reset" /\ cur.step = 0 /\ cur.draft = Fresh)
  <2> DEFINE b == cur.draft.reset.sequence
             k == cur.step - 1
  <2>1. /\ cur.step \in 1 .. Steps /\ b \in Nat \ {0} /\ Took(cur.draft, b, k, "PASS", "PASS")
        /\ cur.action = b + 3 * cur.step - 2
        /\ \/ cur.awaits = "act" /\ cur.sequence = cur.action
           \/ /\ cur.awaits = "observe"
              /\ cur.observation = cur.sequence /\ cur.sequence = b + 3 * cur.step - 1
           \/ /\ cur.awaits = "collectEvidence"
              /\ cur.observation = cur.sequence - 1 /\ cur.sequence = b + 3 * cur.step
    BY <1>3, <1>5 DEF OnCourse
  <2>2. k \in 0 .. Steps - 1 /\ cur.step = k + 1 /\ b \in Nat /\ Steps \in Nat
    BY <2>1, StepsAssumption
  <2> HIDE DEF b, k
  <2>3. Awaits(b, k) /\ cur.awaits # "reset"
    BY <1>3, <2>1, <2>2 DEF Awaits
  <2> QED
    BY <1>2, <1>3, <2>1, <2>2, <2>3 DEF OnCourse, Clean, IsRun
<1> QED
  BY <1>4, <1>5

\* Wherever a step is thrown out, its draft is composed.
LEMMA StepThrown ==
  ASSUME IInv, ReceiptInv, InStep, NEW reason, reason # "none", NEW path \in Path
  PROVE  LET w == Thrown(cur, reason, path) IN
         /\ Composed(w.draft, session.sequence) /\ w.draft.status = "FAIL"
         /\ IsRun(w, cur.item)
<1>1. /\ IsRun(cur, cur.item) /\ Shape(cur) /\ ReceiptShape(cur.draft) /\ Clean(cur.draft)
      /\ session.sequence \in Nat
      /\ \/ cur.draft = Fresh
         \/ \E b \in Nat \ {0}, k \in 0 .. Steps - 1 : Awaits(b, k)
  BY CourseRun
<1>2. \/ cur.draft = Fresh
      \/ \E b \in Nat \ {0}, k \in 0 .. Steps :
           Took(cur.draft, b, k, "PASS", "PASS") /\ session.sequence >= b + 3 * k
  <2>1. ASSUME NEW b \in Nat \ {0}, NEW k \in 0 .. Steps - 1, Awaits(b, k)
        PROVE  /\ k \in 0 .. Steps /\ Took(cur.draft, b, k, "PASS", "PASS")
               /\ session.sequence >= b + 3 * k
    BY <1>1, <2>1, StepsAssumption DEF Awaits
  <2> QED
    BY <1>1, <2>1
<1> QED
  BY <1>1, <1>2, ThrownIsComposed, RunChanges, IdleShape

LEMMA FailureContinues ==
  ASSUME IInv, ReceiptInv, AnswerFails \/ TimeoutStep
  PROVE  Continues(cur.item)
<1>1. InStep
  BY DEF AnswerFails, TimeoutStep
<1>2. PICK s, reason, path, calls :
        /\ s \in {session, Quarantined(session)} /\ reason # "none" /\ path \in Path
        /\ Finally(s, Thrown(cur, reason, path), calls)
  <2>1. CASE AnswerFails
    BY <2>1 DEF AnswerFails, Mismatch, Path, NegativePath
  <2>2. CASE TimeoutStep
    BY <2>2 DEF TimeoutStep, Path, NegativePath
  <2> QED
    BY <2>1, <2>2
<1>3. session \in SessionType
  BY <1>1, CourseRun
<1>4. Quarantined(session) \in SessionType /\ Quarantined(session).sequence = session.sequence
  BY <1>3, QuarantinedType DEF Quarantined, SessionType
<1>5. s \in SessionType /\ s.sequence = session.sequence
  BY <1>2, <1>3, <1>4
<1>6. PICK w : w = Thrown(cur, reason, path)
  OBVIOUS
<1>7. Composed(w.draft, s.sequence) /\ w.draft.status = "FAIL" /\ IsRun(w, cur.item)
  BY <1>1, <1>2, <1>5, <1>6, StepThrown
<1> QED
  BY <1>2, <1>5, <1>6, <1>7, FinallyContinues

LEMMA ResetContinues ==
  ASSUME IInv, ReceiptInv, AnswerReset
  PROVE  Continues(cur.item)
<1>1. InStep /\ cur.awaits = "reset"
  BY DEF AnswerReset
<1>2. /\ session \in SessionType /\ ~session.quarantined /\ IsRun(cur, cur.item) /\ Shape(cur)
      /\ ReceiptShape(cur.draft) /\ Clean(cur.draft)
      /\ session.sequence = cur.sequence /\ session.sequence \in Nat \ {0}
      /\ cur.step = 0 /\ cur.draft = Fresh
  BY <1>1, CourseRun
<1> DEFINE n == cur.sequence
<1>3. ASSUME NEW timely,
             NextStep([cur EXCEPT !.draft.reset = Observed(TRUE, n), !.draft.timely = timely],
                      Others)
      PROVE  Continues(cur.item)
  <2>1. PICK w : w = [cur EXCEPT !.draft.reset = Observed(TRUE, n), !.draft.timely = timely]
    OBVIOUS
  <2>2. /\ IsRun(w, cur.item) /\ w.step = 0
        /\ w.draft = [Fresh EXCEPT !.reset = Observed(TRUE, n), !.timely = timely]
    BY <1>2, <2>1 DEF IsRun, Shape
  <2>3. /\ ReceiptShape(w.draft) /\ Clean(w.draft) /\ w.draft.reset = Observed(TRUE, n)
        /\ w.draft.actions = <<>> /\ w.draft.results = <<>> /\ w.draft.observations = <<>>
        /\ w.draft.evidence = <<>> /\ w.draft.cleanup = NoObservation
    BY <2>2 DEF Fresh, EmptyReceipt, ReceiptShape, Clean
  <2>4. Took(w.draft, n, 0, "PASS", "PASS")
    BY <2>3 DEF Took
  <2>5. 0 \in 0 .. Steps /\ session.sequence = n + 3 * 0 /\ n \in Nat \ {0}
    BY <1>2, StepsAssumption
  <2>6. NextStep(w, Others)
    BY <1>3, <2>1
  <2> QED
    BY <1>2, <2>2, <2>3, <2>4, <2>5, <2>6, NextStepContinues
<1>4. ASSUME NEW other \in {Observed(FALSE, n), Observed(TRUE, n - 1), Observed(TRUE, n + 1)},
             Finally(session, Mismatch([cur EXCEPT !.draft.reset = other]), Others)
      PROVE  Continues(cur.item)
  <2>1. PICK v : v = [cur EXCEPT !.draft.reset = other]
    OBVIOUS
  <2>2. PICK w : w = Mismatch(v)
    OBVIOUS
  <2>3. IsRun(v, cur.item) /\ v.draft = [Fresh EXCEPT !.reset = other]
    BY <1>2, <2>1 DEF IsRun, Shape
  <2>4. /\ ReceiptShape(v.draft) /\ v.draft.reset = other /\ v.draft.negative = {}
        /\ v.draft.actions = <<>> /\ v.draft.results = <<>> /\ v.draft.observations = <<>>
        /\ v.draft.evidence = <<>> /\ v.draft.cleanup = NoObservation
    BY <2>3 DEF Fresh, EmptyReceipt, ReceiptShape
  <2>5. PICK d : d = w.draft
    OBVIOUS
  <2>6. /\ ReceiptShape(d) /\ SameRecordsAs(d, v.draft) /\ d.cleanup = v.draft.cleanup
        /\ d.status = "FAIL" /\ d.reason = "receipt-invalid"
        /\ d.negative = v.draft.negative \cup {"adapter-receipt-mismatch"}
    <3>1. Shape(v) /\ d = Thrown(v, "receipt-invalid", "adapter-receipt-mismatch").draft
      BY <2>2, <2>3, <2>5 DEF Mismatch, IsRun
    <3> QED
      BY <2>4, <3>1, ThrownDraft
  <2>7. /\ d.reset = other /\ d.actions = <<>> /\ d.results = <<>> /\ d.observations = <<>>
        /\ d.evidence = <<>> /\ d.cleanup = NoObservation /\ Unrecorded(d) /\ d.negative # {}
    BY <2>4, <2>6 DEF SameRecordsAs, Unrecorded
  <2>8. NonPass(d) = {}
    BY <2>7 DEF NonPass
  <2>9. Agrees(d)
    BY <2>6, <2>7, <2>8, FailureAgrees
  <2>10. Astray(d, n) \/ InOrder(d, n)
    <3>1. CASE other = Observed(TRUE, n - 1)
      <4>1. n - 1 \in Nat /\ n - 1 + 1 = n
        BY <1>2
      <4>2. InOrder(d, n - 1 + 1)
        BY <2>7, <3>1, <4>1, ResetInOrder
      <4> QED
        BY <4>1, <4>2
    <3>2. CASE other \in {Observed(FALSE, n), Observed(TRUE, n + 1)}
      <4>1. IsObserved(other) /\ (~other.identity \/ other.sequence = n + 1)
        BY <1>2, <3>2 DEF Observed, IsObserved, NoObservation
      <4> QED
        BY <2>6, <2>7, <4>1 DEF Astray
    <3> QED
      BY <3>1, <3>2
  <2>11. Composed(w.draft, session.sequence)
    BY <1>2, <2>5, <2>6, <2>7, <2>9, <2>10 DEF Composed
  <2>12. IsRun(w, cur.item)
    BY <2>2, <2>3, RunChanges, IdleShape
  <2>13. Finally(session, w, Others)
    BY <1>4, <2>1, <2>2
  <2> QED
    BY <1>2, <2>11, <2>12, <2>13, FinallyContinues
<1> QED
  BY <1>3, <1>4 DEF AnswerReset

LEMMA ReportedDraft ==
  ASSUME NEW run, Shape(run), ReceiptShape(run.draft), NEW status, NEW negative, NEW timely
  PROVE  LET d == run.draft
             e == Reported(run, status, negative, timely).draft IN
         /\ ReceiptShape(e) /\ SameRecordsAs(e, d) /\ e.cleanup = d.cleanup
         /\ e.status = status /\ e.reason = "reported"
         /\ e.negative = d.negative \cup (IF negative THEN {"reported"} ELSE {})
<1>1. PICK d : d = run.draft
  OBVIOUS
<1>2. PICK e : e = Reported(run, status, negative, timely).draft
  OBVIOUS
<1>3. e = [d EXCEPT !.status = status, !.reason = "reported",
                    !.negative = @ \cup (IF negative THEN {"reported"} ELSE {}),
                    !.timely = @ /\ timely]
  BY <1>1, <1>2 DEF Reported, Shape, ReceiptShape
<1>4. ReceiptShape(d)
  BY <1>1
<1>5. /\ ReceiptShape(e) /\ SameRecordsAs(e, d) /\ e.cleanup = d.cleanup
      /\ e.status = status /\ e.reason = "reported"
      /\ e.negative = d.negative \cup (IF negative THEN {"reported"} ELSE {})
  BY <1>3, <1>4 DEF ReceiptShape, SameRecordsAs
<1> QED
  BY <1>1, <1>2, <1>5

LEMMA PushActionDraft ==
  ASSUME NEW run, Shape(run), ReceiptShape(run.draft), NEW status
  PROVE  LET d == run.draft
             e == PushAction(run, status).draft IN
         /\ ReceiptShape(e) /\ SameVerdictAs(e, d) /\ e.cleanup = d.cleanup /\ e.reset = d.reset
         /\ e.actions = Append(d.actions, run.action) /\ e.results = Append(d.results, status)
         /\ e.observations = d.observations /\ e.evidence = d.evidence
<1>1. PICK d : d = run.draft
  OBVIOUS
<1>2. PICK e : e = PushAction(run, status).draft
  OBVIOUS
<1>3. e = [d EXCEPT !.actions = Append(@, run.action), !.results = Append(@, status)]
  BY <1>1, <1>2 DEF PushAction, Shape, ReceiptShape
<1>4. ReceiptShape(d)
  BY <1>1
<1>5. /\ ReceiptShape(e) /\ SameVerdictAs(e, d) /\ e.cleanup = d.cleanup /\ e.reset = d.reset
      /\ e.actions = Append(d.actions, run.action) /\ e.results = Append(d.results, status)
      /\ e.observations = d.observations /\ e.evidence = d.evidence
  BY <1>3, <1>4 DEF ReceiptShape, SameVerdictAs
<1> QED
  BY <1>1, <1>2, <1>5

LEMMA PushEvidenceDraft ==
  ASSUME NEW run, Shape(run), ReceiptShape(run.draft), NEW status
  PROVE  LET d == run.draft
             e == PushEvidence(run, status).draft IN
         /\ ReceiptShape(e) /\ SameVerdictAs(e, d) /\ e.cleanup = d.cleanup /\ e.reset = d.reset
         /\ e.actions = Append(d.actions, run.action) /\ e.results = Append(d.results, "PASS")
         /\ e.observations = Append(d.observations, run.observation)
         /\ e.evidence = Append(d.evidence, [sequence |-> cur.sequence, status |-> status])
<1>1. PICK d : d = run.draft
  OBVIOUS
<1>2. PICK w : w = PushAction(run, "PASS")
  OBVIOUS
<1>3. PICK c : c = w.draft
  OBVIOUS
<1>4. /\ ReceiptShape(c) /\ SameVerdictAs(c, d) /\ c.cleanup = d.cleanup /\ c.reset = d.reset
      /\ c.actions = Append(d.actions, run.action) /\ c.results = Append(d.results, "PASS")
      /\ c.observations = d.observations /\ c.evidence = d.evidence
  BY <1>1, <1>2, <1>3, PushActionDraft
<1>5. Shape(w)
  BY <1>2 DEF PushAction, Shape
<1>6. PICK e : e = PushEvidence(run, status).draft
  OBVIOUS
<1>7. e = [c EXCEPT !.observations = Append(@, run.observation),
                    !.evidence = Append(@, [sequence |-> cur.sequence, status |-> status])]
  BY <1>2, <1>3, <1>4, <1>5, <1>6 DEF PushEvidence, Shape, ReceiptShape
<1>8. /\ ReceiptShape(e) /\ SameVerdictAs(e, c) /\ e.cleanup = c.cleanup /\ e.reset = c.reset
      /\ e.actions = c.actions /\ e.results = c.results
      /\ e.observations = Append(c.observations, run.observation)
      /\ e.evidence = Append(c.evidence, [sequence |-> cur.sequence, status |-> status])
  BY <1>4, <1>7 DEF ReceiptShape, SameVerdictAs
<1>9. SameVerdictAs(e, d)
  BY <1>4, <1>8 DEF SameVerdictAs
<1> QED
  BY <1>1, <1>4, <1>6, <1>8, <1>9

\* A result that is not PASS ends the steps; w is the run with that result.
LEMMA ReportedContinues ==
  ASSUME session \in SessionType, ~session.quarantined, NEW w, NEW item, IsRun(w, item),
         ReceiptShape(w.draft), Clean(w.draft), NEW b \in Nat \ {0}, NEW k \in 1 .. Steps,
         NEW result \in Status, NEW finding \in Status,
         Took(w.draft, b, k, result, finding), NEW status \in Status \ {"PASS"},
         result = status \/ (result = "PASS" /\ finding = status),
         session.sequence = b + Last(k, result), NEW negative, NEW timely, NEW calls,
         Finally(session, Reported(w, status, negative, timely), calls)
  PROVE  Continues(item)
<1>1. PICK v : v = Reported(w, status, negative, timely)
  OBVIOUS
<1>2. PICK e : e = v.draft
  OBVIOUS
<1>3. /\ ReceiptShape(e) /\ SameRecordsAs(e, w.draft) /\ e.cleanup = w.draft.cleanup
      /\ e.status = status /\ e.reason = "reported"
      /\ e.negative = w.draft.negative \cup (IF negative THEN {"reported"} ELSE {})
  BY <1>1, <1>2, ReportedDraft DEF IsRun
<1>4. e.negative \subseteq {"reported"}
  BY <1>3 DEF Clean
<1>5. Took(e, b, k, result, finding)
  BY <1>3, TookKept
<1>6. session.sequence \in Nat
  BY DEF SessionType
<1>7. Composed(e, session.sequence)
  BY <1>3, <1>4, <1>5, <1>6, ReportedIsComposed
<1>8. IsRun(v, item)
  BY <1>1, ReportedIsRun
<1> QED
  BY <1>1, <1>2, <1>7, <1>8, FinallyContinues

LEMMA ActContinues ==
  ASSUME IInv, ReceiptInv, AnswerAct
  PROVE  Continues(cur.item)
<1>1. InStep /\ cur.awaits = "act"
  BY DEF AnswerAct
<1>2. /\ session \in SessionType /\ ~session.quarantined /\ IsRun(cur, cur.item) /\ Shape(cur)
      /\ ReceiptShape(cur.draft) /\ Clean(cur.draft)
      /\ session.sequence = cur.sequence /\ session.sequence \in Nat
  BY <1>1, CourseRun
<1>3. PICK b \in Nat \ {0}, k \in 0 .. Steps - 1 : Awaits(b, k)
  BY <1>1, CourseRun
<1>4. /\ Took(cur.draft, b, k, "PASS", "PASS") /\ cur.step = k + 1 /\ cur.action = b + 3 * k + 1
      /\ session.sequence = b + 3 * k + 1
      /\ b \in Nat /\ k \in Nat /\ k < Steps /\ k + 1 \in 1 .. Steps
  BY <1>1, <1>3, StepsAssumption DEF Awaits
<1>5. ASSUME Proceed([cur EXCEPT !.observation = session.sequence + 1], "observe", Others)
      PROVE  Continues(cur.item)
  <2>1. PICK w : w = [cur EXCEPT !.observation = session.sequence + 1]
    OBVIOUS
  <2>2. /\ IsRun(w, cur.item) /\ w.draft = cur.draft /\ w.step = cur.step
        /\ w.action = cur.action /\ w.observation = session.sequence + 1
    BY <1>2, <2>1 DEF IsRun, Shape
  <2>3. Due(w, b, k, "observe")
    BY <1>4, <2>2 DEF Due
  <2> QED
    BY <1>2, <1>4, <1>5, <2>1, <2>2, <2>3, ProceedContinues
<1>6. ASSUME NEW status \in Status \ {"PASS"}, NEW negative \in BOOLEAN, NEW timely \in BOOLEAN,
             Finally(session, Reported(PushAction(cur, status), status, negative, timely), Others)
      PROVE  Continues(cur.item)
  <2>1. PICK w : w = PushAction(cur, status)
    OBVIOUS
  <2>2. IsRun(w, cur.item)
    BY <1>2, <2>1, PushIsRun
  <2>3. /\ ReceiptShape(w.draft) /\ SameVerdictAs(w.draft, cur.draft)
        /\ w.draft.cleanup = cur.draft.cleanup /\ w.draft.reset = cur.draft.reset
        /\ w.draft.actions = Append(cur.draft.actions, cur.action)
        /\ w.draft.results = Append(cur.draft.results, status)
        /\ w.draft.observations = cur.draft.observations
        /\ w.draft.evidence = cur.draft.evidence
    BY <1>2, <2>1, PushActionDraft
  <2>4. Clean(w.draft)
    BY <1>2, <2>3 DEF Clean, SameVerdictAs
  <2>5. cur.action = b + 3 * (k + 1) - 2
    BY <1>4
  <2>6. Took(w.draft, b, k + 1, status, "PASS")
    BY <1>4, <2>3, <2>5, ActionTaken
  <2>7. session.sequence = b + Last(k + 1, status) /\ status \in Status /\ "PASS" \in Status
    BY <1>4 DEF Last, Status
  <2>8. Finally(session, Reported(w, status, negative, timely), Others)
    BY <1>6, <2>1
  <2> QED
    BY <1>2, <1>4, <2>2, <2>3, <2>4, <2>6, <2>7, <2>8, ReportedContinues
<1> QED
  BY <1>5, <1>6 DEF AnswerAct

LEMMA ObserveContinues ==
  ASSUME IInv, ReceiptInv, AnswerObserve
  PROVE  Continues(cur.item)
<1>1. InStep /\ cur.awaits = "observe" /\ Proceed(cur, "collectEvidence", Others)
  BY DEF AnswerObserve
<1>2. /\ session \in SessionType /\ IsRun(cur, cur.item)
      /\ ReceiptShape(cur.draft) /\ Clean(cur.draft)
  BY <1>1, CourseRun
<1>3. PICK b \in Nat \ {0}, k \in 0 .. Steps - 1 : Awaits(b, k)
  BY <1>1, CourseRun
<1>4. Took(cur.draft, b, k, "PASS", "PASS") /\ k \in Nat /\ k < Steps
  BY <1>3, StepsAssumption DEF Awaits
<1>5. Due(cur, b, k, "collectEvidence")
  BY <1>1, <1>3 DEF Awaits, Due
<1> QED
  BY <1>1, <1>2, <1>4, <1>5, ProceedContinues

LEMMA EvidenceContinues ==
  ASSUME IInv, ReceiptInv, AnswerEvidence
  PROVE  Continues(cur.item)
<1>1. InStep /\ cur.awaits = "collectEvidence"
  BY DEF AnswerEvidence
<1>2. /\ session \in SessionType /\ ~session.quarantined /\ IsRun(cur, cur.item) /\ Shape(cur)
      /\ ReceiptShape(cur.draft) /\ Clean(cur.draft)
      /\ session.sequence = cur.sequence /\ session.sequence \in Nat
  BY <1>1, CourseRun
<1>3. PICK b \in Nat \ {0}, k \in 0 .. Steps - 1 : Awaits(b, k)
  BY <1>1, CourseRun
<1>4. /\ Took(cur.draft, b, k, "PASS", "PASS") /\ cur.step = k + 1 /\ cur.action = b + 3 * k + 1
      /\ session.sequence = b + 3 * k + 3 /\ cur.observation = b + 3 * k + 2
      /\ b \in Nat /\ k \in Nat /\ k < Steps /\ k + 1 \in 1 .. Steps /\ k + 1 \in 0 .. Steps
  BY <1>1, <1>3, StepsAssumption DEF Awaits
<1>5. ASSUME NEW status \in Status, NEW w, w = PushEvidence(cur, status)
      PROVE  /\ IsRun(w, cur.item) /\ w.step = k + 1 /\ ReceiptShape(w.draft) /\ Clean(w.draft)
             /\ Took(w.draft, b, k + 1, "PASS", status)
  <2>1. IsRun(w, cur.item) /\ w.step = k + 1
    BY <1>2, <1>4, <1>5, PushIsRun
  <2>2. /\ ReceiptShape(w.draft) /\ SameVerdictAs(w.draft, cur.draft)
        /\ w.draft.cleanup = cur.draft.cleanup /\ w.draft.reset = cur.draft.reset
        /\ w.draft.actions = Append(cur.draft.actions, cur.action)
        /\ w.draft.results = Append(cur.draft.results, "PASS")
        /\ w.draft.observations = Append(cur.draft.observations, cur.observation)
        /\ w.draft.evidence = Append(cur.draft.evidence,
                                     [sequence |-> cur.sequence, status |-> status])
    BY <1>2, <1>5, PushEvidenceDraft
  <2>3. Clean(w.draft)
    BY <1>2, <2>2 DEF Clean, SameVerdictAs
  <2>4. /\ cur.action = b + 3 * (k + 1) - 2 /\ cur.observation = b + 3 * (k + 1) - 1
        /\ cur.sequence = b + 3 * (k + 1)
    BY <1>2, <1>4
  <2>5. Took(w.draft, b, k + 1, "PASS", status)
    BY <1>4, <2>2, <2>4, EvidenceTaken
  <2> QED
    BY <2>1, <2>2, <2>3, <2>5
<1>6. ASSUME NEW timely \in BOOLEAN,
             NextStep([PushEvidence(cur, "PASS") EXCEPT !.draft.timely = @ /\ timely], Others)
      PROVE  Continues(cur.item)
  <2>1. PICK w : w = PushEvidence(cur, "PASS")
    OBVIOUS
  <2>2. /\ IsRun(w, cur.item) /\ w.step = k + 1 /\ ReceiptShape(w.draft) /\ Clean(w.draft)
        /\ Took(w.draft, b, k + 1, "PASS", "PASS")
    BY <1>5, <2>1 DEF Status
  <2>3. PICK v : v = [w EXCEPT !.draft.timely = @ /\ timely]
    OBVIOUS
  <2>4. IsRun(v, cur.item) /\ v.step = k + 1 /\ v.draft = [w.draft EXCEPT !.timely = @ /\ timely]
    BY <2>2, <2>3 DEF IsRun, Shape, ReceiptShape
  <2>5. PICK d : d = w.draft
    OBVIOUS
  <2>6. PICK e : e = v.draft
    OBVIOUS
  <2>7. ReceiptShape(e) /\ SameRecordsAs(e, d) /\ SameVerdictAs(e, d) /\ e.cleanup = d.cleanup
    BY <2>2, <2>4, <2>5, <2>6 DEF ReceiptShape, SameRecordsAs, SameVerdictAs
  <2>8. Clean(e) /\ Took(e, b, k + 1, "PASS", "PASS")
    BY <2>2, <2>5, <2>7, TookKept DEF Clean, SameVerdictAs
  <2>9. NextStep(v, Others) /\ session.sequence = b + 3 * (k + 1)
    BY <1>4, <1>6, <2>1, <2>3
  <2> QED
    BY <1>2, <1>4, <2>4, <2>6, <2>7, <2>8, <2>9, NextStepContinues
<1>7. ASSUME NEW status \in Status \ {"PASS"}, NEW negative \in BOOLEAN, NEW timely \in BOOLEAN,
             Finally(session, Reported(PushEvidence(cur, status), status, negative, timely),
                     Others)
      PROVE  Continues(cur.item)
  <2>1. PICK w : w = PushEvidence(cur, status)
    OBVIOUS
  <2>2. /\ IsRun(w, cur.item) /\ ReceiptShape(w.draft) /\ Clean(w.draft)
        /\ Took(w.draft, b, k + 1, "PASS", status)
    BY <1>5, <2>1
  <2>3. session.sequence = b + Last(k + 1, "PASS") /\ status \in Status /\ "PASS" \in Status
    BY <1>4 DEF Last, Status
  <2>4. Finally(session, Reported(w, status, negative, timely), Others)
    BY <1>7, <2>1
  <2> QED
    BY <1>2, <1>4, <2>2, <2>3, <2>4, ReportedContinues
<1> QED
  BY <1>6, <1>7 DEF AnswerEvidence

(***************************************************************************)
(* The end of a scenario, its start, and what else happens.                 *)
(***************************************************************************)
\* A receipt that tells of a cleanup leaves nothing of its scenario.
Left ==
  receipt' # receipt /\ IsObserved(receipt'.cleanup) =>
    ~session'.quarantined /\ inflight' = {} /\ receipt'.sequence = dispatched'

LEMMA CleanupEnds ==
  ASSUME IInv, ReceiptInv, AnswerCleanup \/ TimeoutCleanup
  PROVE  ReceiptInv' /\ Left
<1>1. InCleanup /\ InScenario /\ Runs /\ cur.item \in Calls
  BY DEF AnswerCleanup, TimeoutCleanup, InCleanup, InScenario
<1>2. /\ session \in SessionType /\ ~session.quarantined /\ Others = {} /\ Shape(cur)
      /\ session.sequence \in Nat
  BY <1>1, InScenarioIsOpen DEF IsRun
<1>3. PICK d : d = cur.draft
  OBVIOUS
<1>4. PICK q : q = cur.sequence - 1
  OBVIOUS
<1>5. /\ session.sequence = cur.sequence /\ dispatched = cur.sequence /\ cur.sequence = q + 1
      /\ Composed(d, q) /\ ReceiptShape(d) /\ d.cleanup = NoObservation
  BY <1>1, <1>2, <1>3, <1>4 DEF ReceiptInv, Composed
<1>6. ASSUME NEW timely,
             Sealed(session, [cur EXCEPT !.draft.cleanup = Observed(TRUE, cur.sequence),
                                         !.draft.timely = @ /\ timely], Others)
      PROVE  /\ cur' = Idle
             /\ validateEnvironmentScenarioReceipt(receipt') \/ Excused(receipt')
             /\ ~session'.quarantined /\ inflight' = {} /\ receipt'.sequence = dispatched'
  <2>1. PICK w : w = [cur EXCEPT !.draft.cleanup = Observed(TRUE, cur.sequence),
                                 !.draft.timely = @ /\ timely]
    OBVIOUS
  <2>2. PICK e : e = w.draft
    OBVIOUS
  <2>3. e = [d EXCEPT !.cleanup = Observed(TRUE, q + 1), !.timely = @ /\ timely]
    BY <1>2, <1>3, <1>5, <2>1, <2>2 DEF Shape, ReceiptShape
  <2>4. /\ ReceiptShape(e) /\ SameRecordsAs(e, d) /\ SameVerdictAs(e, d)
        /\ e.cleanup = Observed(TRUE, q + 1)
    BY <1>5, <2>3 DEF ReceiptShape, SameRecordsAs, SameVerdictAs
  <2>5. Sealed(session, w, Others)
    BY <1>6, <2>1
  <2>6. /\ cur' = Idle /\ SameRecordsAs(receipt', e) /\ SameVerdictAs(receipt', e)
        /\ receipt'.cleanup = e.cleanup /\ receipt'.sequence = session.sequence
    BY <2>2, <2>4, <2>5, SealedReceipt
  <2>7. SameRecordsAs(receipt', d) /\ SameVerdictAs(receipt', d)
    BY <2>4, <2>6 DEF SameRecordsAs, SameVerdictAs
  <2>8. validateEnvironmentScenarioReceipt(receipt') \/ Excused(receipt')
    BY <1>5, <2>4, <2>6, <2>7, CleanedReceipt
  <2>9. session' = session /\ inflight' = Others /\ dispatched' = dispatched
    BY <2>5 DEF Sealed
  <2> QED
    BY <1>2, <1>5, <2>6, <2>8, <2>9
<1>7. ASSUME NEW s, s.sequence = session.sequence, NEW calls,
             Sealed(s, CleanupFailed(cur), calls)
      PROVE  /\ cur' = Idle /\ receipt'.cleanup = NoObservation
             /\ validateEnvironmentScenarioReceipt(receipt') \/ Excused(receipt')
  <2>1. PICK e : e = CleanupFailed(cur).draft
    OBVIOUS
  <2>2. /\ ReceiptShape(e) /\ SameRecordsAs(e, d) /\ e.cleanup = d.cleanup
        /\ e.status = "FAIL" /\ e.negative = d.negative \cup {"cleanup-failed"}
        /\ e.reason = (IF d.reason = "none" THEN "cleanup-failed" ELSE d.reason)
    BY <1>2, <1>3, <1>5, <2>1, CleanupFailedDraft
  <2>3. /\ cur' = Idle /\ SameRecordsAs(receipt', e) /\ SameVerdictAs(receipt', e)
        /\ receipt'.cleanup = e.cleanup /\ receipt'.sequence = s.sequence
    BY <1>7, <2>1, <2>2, SealedReceipt
  <2>4. /\ SameRecordsAs(receipt', d) /\ receipt'.status = "FAIL"
        /\ receipt'.negative = d.negative \cup {"cleanup-failed"}
        /\ receipt'.reason = (IF d.reason = "none" THEN "cleanup-failed" ELSE d.reason)
        /\ receipt'.cleanup = d.cleanup /\ receipt'.sequence = q + 1
    BY <1>5, <1>7, <2>2, <2>3 DEF SameRecordsAs, SameVerdictAs
  <2> QED
    BY <1>5, <2>3, <2>4, FailedReceipt
<1>8. ASSUME Sealed(Quarantined(session), CleanupFailed(cur), Attached)
               \/ Sealed([session EXCEPT !.quarantined = TRUE], CleanupFailed(cur), Others)
      PROVE  /\ cur' = Idle /\ receipt'.cleanup = NoObservation
             /\ validateEnvironmentScenarioReceipt(receipt') \/ Excused(receipt')
  <2>1. /\ Quarantined(session).sequence = session.sequence
        /\ [session EXCEPT !.quarantined = TRUE].sequence = session.sequence
    BY <1>2, QuarantinedType DEF SessionType
  <2> QED
    BY <1>7, <1>8, <2>1
<1>9. /\ cur' = Idle /\ Left
      /\ validateEnvironmentScenarioReceipt(receipt') \/ Excused(receipt')
  <2>1. CASE TimeoutCleanup
    BY <1>8, <2>1 DEF TimeoutCleanup, Left, IsObserved
  <2>2. CASE AnswerCleanup
    BY <1>6, <1>8, <2>2 DEF AnswerCleanup, Left, IsObserved
  <2> QED
    BY <2>1, <2>2
<1>10. ~InScenario'
  BY <1>9, IdleShape DEF InScenario, Runs
<1> QED
  BY <1>9, <1>10 DEF ReceiptInv, ScenariosYieldReceipts

LEMMA ContinuesInv ==
  ASSUME ReceiptInv, NEW item, Continues(item)
  PROVE  ReceiptInv' /\ Left
<1>0. Steps \in Nat /\ NoReceipt.cleanup = NoObservation
  BY StepsAssumption DEF NoReceipt, EmptyReceipt
<1>1. CASE Delivered
  <2>1. ~InScenario'
    BY <1>1, IdleShape DEF Delivered, InScenario, Runs
  <2>2. Left
    BY <1>1 DEF Delivered, Left, IsObserved
  <2> QED
    BY <1>1, <2>1, <2>2 DEF Delivered, ReceiptInv, ScenariosYieldReceipts
<1>2. CASE /\ Running(item) /\ cur'.step = Steps + 1 /\ cur'.awaits = "reset"
           /\ Composed(cur'.draft, cur'.sequence - 1)
  <2>1. ~InStep'
    BY <1>0, <1>2 DEF InStep
  <2>2. ScenariosYieldReceipts' /\ Left
    BY <1>0, <1>2 DEF Running, ReceiptInv, ScenariosYieldReceipts, Left, IsObserved
  <2> QED
    BY <1>2, <2>1, <2>2 DEF Running, ReceiptInv
<1>3. CASE Running(item) /\ cur'.step \in 0 .. Steps /\ OnCourse(cur')
  <2>1. ~InCleanup'
    BY <1>0, <1>3 DEF InCleanup
  <2>2. ScenariosYieldReceipts' /\ Left
    BY <1>0, <1>3 DEF Running, ReceiptInv, ScenariosYieldReceipts, Left, IsObserved
  <2> QED
    BY <1>3, <2>1, <2>2 DEF Running, ReceiptInv
<1> QED
  BY <1>1, <1>2, <1>3 DEF Continues

LEMMA StartContinues ==
  ASSUME IInv, NEW c \in Calls, StartScenario(c)
  PROVE  Continues(c)
<1>1. session \in SessionType /\ session.sequence \in Nat
  BY Types DEF IInv, Typed, SessionType
<1>2. PICK run : \E time \in Time :
        /\ run = [Idle EXCEPT !.item = c, !.time = time, !.draft = Fresh]
        /\ \/ /\ Dispatch(reserveNextSequence(session), run, "reset", inflight)
              /\ call' = call /\ receipt' = NoReceipt
           \/ Sealed(session, Mismatch(run), inflight)
           \/ Finally(reserveNextSequence(session),
                      Thrown(run, "deadline-expired", "adapter-operation-timeout"), inflight)
  BY DEF StartScenario
<1>3. IsRun(run, c) /\ run.draft = Fresh /\ run.step = 0
  BY <1>2, IdleShape DEF IsRun, Shape
<1>4. CASE /\ Dispatch(reserveNextSequence(session), run, "reset", inflight)
           /\ call' = call /\ receipt' = NoReceipt
  <2>1. /\ Running(c) /\ cur'.awaits = "reset" /\ cur'.step = 0 /\ cur'.draft = Fresh
    BY <1>1, <1>3, <1>4, DispatchedRun
  <2>2. PICK w : w = cur'
    OBVIOUS
  <2>3. OnCourse(w)
    BY <2>1, <2>2, FreshShape DEF OnCourse, Clean
  <2>4. 0 \in 0 .. Steps
    BY StepsAssumption
  <2> QED
    BY <2>1, <2>2, <2>3, <2>4 DEF Continues
<1>5. CASE Sealed(session, Mismatch(run), inflight)
  <2>1. PICK w : w = Mismatch(run)
    OBVIOUS
  <2>2. w = Thrown(run, "receipt-invalid", "adapter-receipt-mismatch")
    BY <2>1 DEF Mismatch
  <2>3. "adapter-receipt-mismatch" \in Path
    BY DEF Path, NegativePath
  <2>4. Composed(w.draft, session.sequence)
    BY <1>1, <1>3, <2>2, <2>3, FreshShape, ThrownIsComposed DEF IsRun
  <2>5. /\ cur' = Idle /\ SameRecordsAs(receipt', w.draft) /\ SameVerdictAs(receipt', w.draft)
        /\ receipt'.cleanup = w.draft.cleanup /\ receipt'.sequence = session.sequence
    BY <1>5, <2>1, <2>4, SealedReceipt DEF Composed
  <2>6. validateEnvironmentScenarioReceipt(receipt') \/ Excused(receipt')
    BY <2>4, <2>5, UncleanedReceipt
  <2> QED
    BY <2>4, <2>5, <2>6 DEF Continues, Delivered, Composed
<1>6. CASE Finally(reserveNextSequence(session),
                   Thrown(run, "deadline-expired", "adapter-operation-timeout"), inflight)
  <2>1. PICK w : w = Thrown(run, "deadline-expired", "adapter-operation-timeout")
    OBVIOUS
  <2>2. PICK s : s = reserveNextSequence(session)
    OBVIOUS
  <2>3. s \in SessionType /\ s.sequence \in Nat
    BY <1>1, <2>2, ReserveType DEF SessionType
  <2>4. "adapter-operation-timeout" \in Path
    BY DEF Path, NegativePath
  <2>5. Composed(w.draft, s.sequence) /\ w.draft.status = "FAIL"
    BY <1>3, <2>1, <2>3, <2>4, FreshShape, ThrownIsComposed DEF IsRun
  <2>6. IsRun(w, c)
    BY <1>3, <2>1, IdleShape, RunChanges
  <2>7. Finally(s, w, inflight)
    BY <1>6, <2>1, <2>2
  <2> QED
    BY <2>3, <2>5, <2>6, <2>7, FinallyContinues
<1> QED
  BY <1>2, <1>4, <1>5, <1>6

\* The receipt of a scenario that never ran.
LEMMA UnavailableReceipt ==
  ASSUME NEW r, NEW n, NEW time, NEW d, d = EmptyReceipt("UNVERIFIED", "unavailable", n, time),
         SameRecordsAs(r, d), SameVerdictAs(r, d), r.cleanup = d.cleanup
  PROVE  /\ validateEnvironmentScenarioReceipt(r) \/ Excused(r)
         /\ r.cleanup = NoObservation
<1>1. /\ r.status = "UNVERIFIED" /\ r.reason = "unavailable" /\ r.negative = {}
      /\ r.reset = NoObservation /\ r.cleanup = NoObservation /\ r.actions = <<>>
      /\ r.results = <<>> /\ r.observations = <<>> /\ r.evidence = <<>>
  BY DEF EmptyReceipt, SameRecordsAs, SameVerdictAs
<1>2. ASSUME ~Excused(r) PROVE validateEnvironmentScenarioReceipt(r)
  <2>1. r.fits /\ r.timely /\ ~r.ahead /\ WithinDeadline(r)
    BY <1>2 DEF Excused
  <2>2. Operations(r) = {} /\ NonPass(r) = {} /\ Passed(r) = {} /\ ~IsObserved(r.reset)
    BY <1>1 DEF Operations, NonPass, Passed, At, IsObserved
  <2>3. Monotonic(r) /\ SequenceMatches(r)
    BY <1>1, <2>2 DEF Monotonic, SequenceMatches, IsEmptyUnverified
  <2>4. Cardinality({}) = 0
    BY FS_EmptySet
  <2>5. ResultsMatch(r) /\ EvidenceMatches(r)
    BY <1>1, <2>2, <2>4, StepsAssumption DEF ResultsMatch, EvidenceMatches
  <2>6. r.status = DerivedStatus(r) /\ ReasonIffNotPass(r)
    BY <1>1, <2>2 DEF DerivedStatus, CompletePass, ReasonIffNotPass
  <2> QED
    BY <2>1, <2>2, <2>3, <2>5, <2>6 DEF validateEnvironmentScenarioReceipt
<1> QED
  BY <1>1, <1>2

LEMMA EmptyShape ==
  ASSUME NEW status, NEW reason, NEW n, NEW time
  PROVE  ReceiptShape(EmptyReceipt(status, reason, n, time))
BY DEF EmptyReceipt, ReceiptShape

LEMMA RefuseScenarioReceipt ==
  ASSUME NEW c \in Calls, RefuseScenario(c)
  PROVE  Delivered
<1>1. PICK time \in Time :
        Sealed(session, [Idle EXCEPT !.item = c, !.time = time, !.draft =
                 EmptyReceipt("UNVERIFIED", "unavailable", session.sequence, time)], inflight)
  BY DEF RefuseScenario
<1>2. PICK d : d = EmptyReceipt("UNVERIFIED", "unavailable", session.sequence, time)
  OBVIOUS
<1>3. PICK run : run = [Idle EXCEPT !.item = c, !.time = time, !.draft = d]
  OBVIOUS
<1>4. run.draft = d /\ Sealed(session, run, inflight)
  BY <1>1, <1>2, <1>3 DEF Idle
<1>5. ReceiptShape(d)
  BY <1>2, EmptyShape
<1>6. /\ cur' = Idle /\ SameRecordsAs(receipt', d) /\ SameVerdictAs(receipt', d)
      /\ receipt'.cleanup = d.cleanup
  BY <1>4, <1>5, SealedReceipt
<1> QED
  BY <1>2, <1>6, UnavailableReceipt DEF Delivered

LEMMA InvokeReceipt ==
  ASSUME IInv, ReceiptInv, NEW c \in Calls, Invoke(c)
  PROVE  ReceiptInv' /\ Left
<1>1. /\ call[c].status = "idle" /\ cur' = cur /\ session' = session /\ dispatched' = dispatched
      /\ \E k, n, cleanup, status : Asks(c, k, n, cleanup, status)
      /\ \/ receipt' = receipt
         \/ \E time, ahead : receipt' = [EmptyReceipt("UNVERIFIED", "unavailable",
                                                    session.sequence, time)
                                          EXCEPT !.ahead = ahead]
  BY DEF Invoke
<1>2. ASSUME Runs, cur.item \in Calls
      PROVE  call'[cur.item] = call[cur.item]
  <2>1. cur.item # c
    BY <1>1, <1>2 DEF IInv, Made
  <2> QED
    BY <1>1, <1>2, <2>1 DEF Asks
<1>3. InScenario' => InScenario /\ (InStep' <=> InStep) /\ (InCleanup' <=> InCleanup)
  BY <1>1, <1>2 DEF InScenario, InStep, InCleanup, Runs, IsScenario
<1>4. ScenariosYieldReceipts' /\ Left
  <2>1. CASE receipt' = receipt
    BY <2>1 DEF ReceiptInv, ScenariosYieldReceipts, Left
  <2>2. CASE \E time, ahead : receipt' = [EmptyReceipt("UNVERIFIED", "unavailable",
                                                     session.sequence, time)
                                           EXCEPT !.ahead = ahead]
    <3>1. PICK d, ahead : /\ \E time : d = EmptyReceipt("UNVERIFIED", "unavailable",
                                                       session.sequence, time)
                          /\ receipt' = [d EXCEPT !.ahead = ahead]
      BY <2>2
    <3>2. ReceiptShape(d)
      BY <3>1, EmptyShape
    <3>3. /\ SameRecordsAs(receipt', d) /\ SameVerdictAs(receipt', d)
          /\ receipt'.cleanup = d.cleanup
      BY <3>1, <3>2 DEF ReceiptShape, SameRecordsAs, SameVerdictAs
    <3>4. /\ validateEnvironmentScenarioReceipt(receipt') \/ Excused(receipt')
          /\ receipt'.cleanup = NoObservation
      BY <3>1, <3>3, UnavailableReceipt
    <3> QED
      BY <3>4 DEF ScenariosYieldReceipts, Left, IsObserved
  <2> QED
    BY <1>1, <2>1, <2>2
<1> QED
  BY <1>1, <1>3, <1>4 DEF ReceiptInv

LEMMA TickReceipt ==
  ASSUME IInv, ReceiptInv, Tick
  PROVE  ReceiptInv' /\ Left
<1>1. InScenario /\ Runs /\ cur.item \in Calls
  BY DEF Tick, InScenario
<1>2. Shape(cur)
  BY <1>1, InScenarioIsOpen DEF IsRun
<1>3. PICK time : cur' = [cur EXCEPT !.time = time]
  BY DEF Tick
<1>4. /\ cur'.item = cur.item /\ cur'.awaits = cur.awaits /\ cur'.sequence = cur.sequence
      /\ cur'.step = cur.step /\ cur'.action = cur.action /\ cur'.draft = cur.draft
      /\ cur'.observation = cur.observation
  BY <1>2, <1>3 DEF Shape
<1>5. /\ session' = session /\ call' = call /\ receipt' = receipt /\ dispatched' = dispatched
  BY DEF Tick
<1>6. OnCourse(cur) => OnCourse(cur')
  BY <1>4 DEF OnCourse
<1>7. (InStep' <=> InStep) /\ (InCleanup' <=> InCleanup)
  BY <1>4, <1>5 DEF InScenario, InStep, InCleanup, Runs, IsScenario
<1>8. ScenariosYieldReceipts' /\ Left
  BY <1>5 DEF ReceiptInv, ScenariosYieldReceipts, Left
<1> QED
  BY <1>1, <1>4, <1>5, <1>6, <1>7, <1>8 DEF ReceiptInv

\* The actions of no scenario.
LEMMA OthersReceipt ==
  ASSUME IInv, ReceiptInv,
         \/ \E c \in Calls : RefuseDirect(c) \/ StartDirect(c)
         \/ AnswerDirect \/ TimeoutDirect \/ StartRecovery \/ AnswerRecovery \/ TimeoutRecovery
  PROVE  ReceiptInv' /\ Left
<1>1. receipt' = receipt \/ receipt' = NoReceipt
  BY DEF RefuseDirect, StartDirect, AnswerDirect, TimeoutDirect, StartRecovery, AnswerRecovery,
         TimeoutRecovery
<1>2. ~InScenario'
  <2>1. CASE \E c \in Calls : RefuseDirect(c)
    BY <2>1, IdleShape DEF RefuseDirect, RunsDirect, Front, InScenario, Runs
  <2>2. CASE \E c \in Calls : StartDirect(c)
    <3>1. PICK c \in Calls : StartDirect(c)
      BY <2>2
    <3>2. cur'.item = c /\ call' = call /\ ~IsScenario(c)
      BY <3>1 DEF StartDirect, RunsDirect, Dispatch, Idle
    <3> QED
      BY <3>2 DEF InScenario, IsScenario
  <2>3. CASE StartRecovery
    <3>1. cur'.item = Recovery
      BY <2>3 DEF StartRecovery, Dispatch, Idle
    <3> QED
      BY <3>1, CallsAssumption DEF InScenario
  <2>4. CASE AnswerDirect \/ TimeoutDirect \/ AnswerRecovery \/ TimeoutRecovery
    <3>1. cur' = Idle
      BY <2>4 DEF AnswerDirect, TimeoutDirect, AnswerRecovery, TimeoutRecovery
    <3> QED
      BY <3>1, IdleShape DEF InScenario, Runs
  <2> QED
    BY <2>1, <2>2, <2>3, <2>4
<1>3. NoReceipt.cleanup = NoObservation
  BY DEF NoReceipt, EmptyReceipt
<1>4. ScenariosYieldReceipts' /\ Left
  BY <1>1, <1>3 DEF ReceiptInv, ScenariosYieldReceipts, Left, IsObserved
<1> QED
  BY <1>2, <1>4 DEF ReceiptInv

LEMMA SameReceipt ==
  ASSUME ReceiptInv, UNCHANGED <<session, call, receipt, cur, dispatched>>
  PROVE  ReceiptInv' /\ Left
<1>1. /\ (InScenario' <=> InScenario) /\ (InStep' <=> InStep) /\ (InCleanup' <=> InCleanup)
  BY DEF InScenario, InStep, InCleanup, Runs, IsScenario
<1>2. ScenariosYieldReceipts' /\ Left
  BY DEF ReceiptInv, ScenariosYieldReceipts, Left
<1> QED
  BY <1>1, <1>2 DEF ReceiptInv

\* Every action keeps the receipt and the draft, and a cleaned receipt leaves nothing.
THEOREM ReceiptInductive ==
  IInv /\ ReceiptInv /\ [Next]_vars => ReceiptInv' /\ Left
<1> SUFFICES ASSUME IInv, ReceiptInv, [Next]_vars PROVE ReceiptInv' /\ Left
  OBVIOUS
<1>1. ASSUME NEW c \in Calls, Invoke(c) PROVE ReceiptInv' /\ Left
  BY <1>1, InvokeReceipt
<1>2. ASSUME NEW c \in Calls, RefuseScenario(c) PROVE ReceiptInv' /\ Left
  BY <1>2, RefuseScenarioReceipt, ContinuesInv DEF Continues
<1>3. ASSUME NEW c \in Calls, StartScenario(c) PROVE ReceiptInv' /\ Left
  BY <1>3, StartContinues, ContinuesInv
<1>4. CASE \/ \E c \in Calls : RefuseDirect(c) \/ StartDirect(c)
           \/ AnswerDirect \/ TimeoutDirect \/ StartRecovery \/ AnswerRecovery
           \/ TimeoutRecovery
  BY <1>4, OthersReceipt
<1>5. CASE AnswerReset \/ AnswerAct \/ AnswerObserve \/ AnswerEvidence
  BY <1>5, ResetContinues, ActContinues, ObserveContinues, EvidenceContinues, ContinuesInv
<1>6. CASE AnswerFails \/ TimeoutStep
  BY <1>6, FailureContinues, ContinuesInv
<1>7. CASE AnswerCleanup \/ TimeoutCleanup
  BY <1>7, CleanupEnds
<1>8. CASE Tick
  BY <1>8, TickReceipt
<1>9. CASE quarantineAfterLateSettlement
  BY <1>9, SameReceipt DEF quarantineAfterLateSettlement
<1>10. CASE UNCHANGED vars
  BY <1>10, SameReceipt DEF vars
<1> QED
  BY <1>1, <1>2, <1>3, <1>4, <1>5, <1>6, <1>7, <1>8, <1>9, <1>10 DEF Next

\* For any number of steps, and whatever the adapter answers, fails to answer or answers late,
\* runScenario composes a receipt that validateEnvironmentScenarioReceipt takes, but for the
\* exceptions that Excused names.
THEOREM SpecScenariosYieldReceipts ==
  Spec => []ScenariosYieldReceipts
<1>1. Init => ReceiptInv
  BY IdleShape DEF Init, ReceiptInv, ScenariosYieldReceipts, InScenario, Runs
<1>2. ReceiptInv => ScenariosYieldReceipts
  BY DEF ReceiptInv
<1>3. IInv /\ ReceiptInv /\ [Next]_vars => ReceiptInv'
  BY ReceiptInductive
<1> QED
  BY <1>1, <1>2, <1>3, SpecIInv, PTL DEF Spec

\* A receipt that says PASS and that its validator takes is composed when nothing of the
\* scenario runs on, and the session is open at the receipt's sequence.
THEOREM SpecPassLeavesNothing ==
  Spec => PassLeavesNothing
<1>1. Init => ReceiptInv
  BY IdleShape DEF Init, ReceiptInv, ScenariosYieldReceipts, InScenario, Runs
<1>2. IInv /\ ReceiptInv /\ [Next]_vars => ReceiptInv'
  BY ReceiptInductive
<1>3. ASSUME NEW r, r.status = "PASS", validateEnvironmentScenarioReceipt(r)
      PROVE  IsObserved(r.cleanup)
  <2>1. DerivedStatus(r) = "PASS"
    BY <1>3 DEF validateEnvironmentScenarioReceipt
  <2> QED
    BY <2>1 DEF DerivedStatus, CompletePass
<1>4. IInv /\ ReceiptInv /\ [Next]_vars =>
        [receipt' # receipt /\ receipt'.status = "PASS"
           /\ validateEnvironmentScenarioReceipt(receipt')
         => /\ ~session'.quarantined /\ inflight' = {}
            /\ receipt'.sequence = dispatched']_vars
  BY <1>3, ReceiptInductive DEF Left
<1> QED
  BY <1>1, <1>2, <1>4, SpecIInv, PTL DEF Spec, PassLeavesNothing
=============================================================================
