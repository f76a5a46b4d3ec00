----------------------- MODULE StateRepositoryProofs -----------------------
(***************************************************************************)
(* What holds of the state file for any number of calls, processes, errors  *)
(* and crashes, and any lengths of pipeline and history.                    *)
(*                                                                          *)
(* The argument: a mutator takes a state whose phases agree to one whose    *)
(* phases agree, so the file does when the one that was found did, whatever *)
(* the lock is worth.  As long as no lock was stolen, a call between its    *)
(* lock file and its release is the owner of the lock, for a lock is taken  *)
(* away only when it names a call of a dead process; so what a call has     *)
(* read is still in the file when it writes, and each write adds one to the *)
(* revision and to the history.                                             *)
(***************************************************************************)
EXTENDS StateRepository, SequenceTheorems, TLAPS

\* A state as the mutators see it: its phases are listed.
Normal == [currentPhase : PhaseKeys, status : Status, qualityGate : BOOLEAN,
           phases : [PhaseKeys -> PhaseStatus], history : Seq(Operation)]

Trimmed == {s \in Normal : Len(s.history) <= MaxHistory}

-----------------------------------------------------------------------------
(***************************************************************************)
(* The mutators.                                                            *)
(***************************************************************************)
LEMMA NormalFacts == /\ Normal \subseteq PipelineState
                     /\ Null \notin Normal
                     /\ 0 \in PhaseKeys /\ 1 \in PhaseKeys /\ LastPhase \in PhaseKeys
                     /\ PhaseKeys \subseteq Nat
                     /\ MaxHistory \in Nat \ {0}
BY PipelineAssumption, NullAssumption DEF Normal, PipelineState, PhaseKeys

LEMMA InitialPhases ==
  ASSUME NEW k \in PhaseKeys, NEW status \in Status
  PROVE  initializeDefaultPhases(k, status) \in [PhaseKeys -> PhaseStatus]
BY DEF initializeDefaultPhases, InitialPhaseStatus, PhaseStatus

\* The history that is kept is the end of the one that was given.
LEMMA TrimIsTail ==
  ASSUME NEW h \in Seq(Operation)
  PROVE  /\ trimHistory(h) \in Seq(Operation) /\ IsTail(trimHistory(h), h)
         /\ Len(trimHistory(h)) <= MaxHistory
<1>1. MaxHistory \in Nat /\ Len(h) \in Nat
  BY PipelineAssumption
<1>2. CASE Len(h) > MaxHistory
  <2> DEFINE m == Len(h) - MaxHistory + 1
  <2>1. m \in Int /\ \A i \in m .. Len(h) : h[i] \in Operation
    BY <1>1, <1>2
  <2>2. /\ SubSeq(h, m, Len(h)) \in Seq(Operation)
        /\ Len(SubSeq(h, m, Len(h))) = MaxHistory
        /\ \A i \in 1 .. MaxHistory : SubSeq(h, m, Len(h))[i] = h[m + i - 1]
    <3> HIDE DEF m
    <3>1. /\ SubSeq(h, m, Len(h)) \in Seq(Operation)
          /\ Len(SubSeq(h, m, Len(h))) = IF m <= Len(h) THEN Len(h) - m + 1 ELSE 0
          /\ \A i \in 1 .. Len(h) - m + 1 : SubSeq(h, m, Len(h))[i] = h[m + i - 1]
      BY <1>1, <2>1, SubSeqProperties
    <3>2. Len(h) - m + 1 = MaxHistory /\ m <= Len(h) + 1
      BY <1>1, <1>2 DEF m
    <3> QED BY <1>1, <2>1, <3>1, <3>2
  <2> QED BY <1>1, <1>2, <2>2 DEF trimHistory, IsTail
<1>3. CASE ~(Len(h) > MaxHistory)
  BY <1>1, <1>3 DEF trimHistory, IsTail
<1> QED BY <1>2, <1>3

\* A history that is the end of another is so also when an entry is added to both.
LEMMA AppendIsTail ==
  ASSUME NEW h \in Seq(Operation), NEW all \in Seq(Operation), NEW op \in Operation,
         IsTail(h, all)
  PROVE  /\ appendHistory(h, op) \in Seq(Operation)
         /\ IsTail(appendHistory(h, op), Append(all, op))
<1> DEFINE g == Append(h, op)
           a == Append(all, op)
           t == trimHistory(g)
<1>1. /\ Len(g) = Len(h) + 1 /\ g[Len(h) + 1] = op /\ \A i \in 1 .. Len(h) : g[i] = h[i]
      /\ Len(a) = Len(all) + 1 /\ a[Len(all) + 1] = op
      /\ \A i \in 1 .. Len(all) : a[i] = all[i]
      /\ g \in Seq(Operation)
  OBVIOUS
<1>2. t \in Seq(Operation) /\ IsTail(t, g)
  BY <1>1, TrimIsTail
<1> HIDE DEF g, a, t
<1>3. /\ MaxHistory \in Nat \ {0} /\ Len(h) \in Nat /\ Len(all) \in Nat /\ Len(t) \in Nat
      /\ Len(h) = IF Len(all) > MaxHistory THEN MaxHistory ELSE Len(all)
      /\ Len(t) = IF Len(g) > MaxHistory THEN MaxHistory ELSE Len(g)
  BY <1>2, PipelineAssumption DEF IsTail
<1>4. Len(t) = IF Len(a) > MaxHistory THEN MaxHistory ELSE Len(a)
  BY <1>1, <1>3
<1>5. ASSUME NEW i \in 1 .. Len(t) PROVE t[i] = a[Len(a) - Len(t) + i]
  <2>1. t[i] = g[Len(g) - Len(t) + i]
    BY <1>2 DEF IsTail
  <2>2. CASE i = Len(t)
    BY <1>1, <1>3, <2>1, <2>2
  <2>3. CASE i # Len(t)
    <3> DEFINE j == Len(g) - Len(t) + i
    <3>1. /\ j \in 1 .. Len(h)
          /\ Len(all) - Len(h) + j \in 1 .. Len(all)
          /\ Len(all) - Len(h) + j = Len(a) - Len(t) + i
      <4>1. Len(g) = Len(h) + 1 /\ Len(a) = Len(all) + 1
        BY <1>1
      <4>2. Len(t) = IF Len(h) + 1 > MaxHistory THEN MaxHistory ELSE Len(h) + 1
        BY <1>3, <4>1
      <4>3. /\ (Len(h) + 1) - Len(t) + i \in 1 .. Len(h)
            /\ Len(all) - Len(h) + ((Len(h) + 1) - Len(t) + i) \in 1 .. Len(all)
            /\ Len(all) - Len(h) + ((Len(h) + 1) - Len(t) + i) = (Len(all) + 1) - Len(t) + i
        <5>1. i \in Int /\ 1 <= i /\ i <= Len(t)
          BY <1>3
        <5>2. i < Len(t)
          BY <1>3, <2>3, <5>1
        <5>3. Len(t) <= Len(h) + 1
          BY <1>3, <4>2
        <5>4. Len(h) <= Len(all)
          BY <1>3
        <5>5. Len(h) \in Nat /\ Len(all) \in Nat /\ Len(t) \in Nat
          BY <1>3
        <5> QED BY <5>1, <5>2, <5>3, <5>4, <5>5
      <4> QED BY <4>1, <4>3
    <3>2. h[j] = all[Len(all) - Len(h) + j]
      BY <3>1 DEF IsTail
    <3> QED BY <1>1, <2>1, <3>1, <3>2
  <2> QED BY <2>2, <2>3
<1>6. IsTail(t, a)
  BY <1>4, <1>5 DEF IsTail
<1> QED BY <1>2, <1>6 DEF appendHistory, t, g, a

LEMMA NormalizeType ==
  ASSUME NEW s \in PipelineState \cup {Null}
  PROVE  /\ normalizeState(s) \in Trimmed
         /\ normalizeState(s).status = "WAITING_FOR_GATE" <=> Waiting([state |-> s])
<1>1. CASE s = Null
  <2>1. initializeDefaultPhases(0, "IDLE") \in [PhaseKeys -> PhaseStatus]
    BY NormalFacts, InitialPhases DEF Status
  <2>2. <<>> \in Seq(Operation) /\ Len(<<>>) <= MaxHistory
    BY NormalFacts
  <2>3. normalizeState(s) = DefaultState /\ DefaultState \in Trimmed
    BY <1>1, <2>1, <2>2, NormalFacts DEF normalizeState, DefaultState, Trimmed, Normal, Status
  <2> QED BY <1>1, <2>3 DEF DefaultState, Waiting
<1>2. CASE s # Null
  <2>1. s \in PipelineState
    BY <1>2
  <2>2. trimHistory(s.history) \in Seq(Operation) /\ Len(trimHistory(s.history)) <= MaxHistory
    BY <2>1, TrimIsTail DEF PipelineState
  <2>3. initializeDefaultPhases(s.currentPhase, s.status) \in [PhaseKeys -> PhaseStatus]
    BY <2>1, InitialPhases DEF PipelineState
  <2> DEFINE ps == IF s.phases = <<>> THEN initializeDefaultPhases(s.currentPhase, s.status)
                   ELSE s.phases
  <2>4. ps \in [PhaseKeys -> PhaseStatus]
    BY <2>1, <2>3 DEF PipelineState
  <2>5. normalizeState(s) = [s EXCEPT !.phases = ps, !.history = trimHistory(s.history)]
    BY <1>2 DEF normalizeState
  <2> HIDE DEF ps
  <2> QED BY <1>2, <2>1, <2>2, <2>4, <2>5 DEF Trimmed, Normal, PipelineState, Waiting
<1> QED BY <1>1, <1>2

\* A mutator keeps the type and the agreement, and tells its entry.
LEMMA MutatedKeeps ==
  ASSUME NEW s \in Normal, NEW op \in Operation, NEW gate \in BOOLEAN,
         gate => op = "requestGate", Mutated(op, gate, s) # Null
  PROVE  LET r == Mutated(op, gate, s)
         IN /\ r \in Normal
            /\ Agrees(s) => Agrees(r)
            /\ r.history = IF op = "update" THEN s.history ELSE appendHistory(s.history, op)
            /\ s.status = "WAITING_FOR_GATE" /\ r.status # "WAITING_FOR_GATE"
                 => op \in {"start", "approveGate", "fail"}
<1> DEFINE r == Mutated(op, gate, s)
           k == s.currentPhase
<1>1. /\ s.history \in Seq(Operation) /\ k \in PhaseKeys /\ s.status \in Status
      /\ s.phases \in [PhaseKeys -> PhaseStatus]
  BY DEF Normal
<1>2. ASSUME NEW e \in Operation PROVE appendHistory(s.history, e) \in Seq(Operation)
  <2>1. Append(s.history, e) \in Seq(Operation)
    BY <1>1
  <2> QED BY <2>1, TrimIsTail DEF appendHistory
<1>3. CASE op = "start"
  <2>1. r = startPipeline(s)
    BY <1>3 DEF Mutated
  <2>2. r \in Normal
    BY <1>2, <2>1, NormalFacts, InitialPhases
       DEF startPipeline, Normal, Status, Operation
  <2>3. Agrees(r)
    BY <2>1, PipelineAssumption DEF startPipeline, Agrees, initializeDefaultPhases,
       StatusOfCurrent, InitialPhaseStatus
  <2> QED BY <1>3, <2>1, <2>2, <2>3 DEF startPipeline
<1>4. CASE op = "advance" /\ k >= LastPhase
  <2>1. k = LastPhase /\ s.status # "WAITING_FOR_GATE"
        /\ r = [s EXCEPT !.qualityGate = FALSE, !.history = appendHistory(s.history, "advance"),
                         !.status = "COMPLETED", !.phases = [s.phases EXCEPT ![k] = "passed"]]
    BY <1>1, <1>4, PipelineAssumption DEF Mutated, advancePhase, PhaseKeys
  <2>2. r \in Normal
    <3>1. /\ appendHistory(s.history, "advance") \in Seq(Operation)
          /\ [s.phases EXCEPT ![k] = "passed"] \in [PhaseKeys -> PhaseStatus]
      BY <1>1, <1>2 DEF Operation, PhaseStatus
    <3> HIDE DEF r, k
    <3> QED BY <2>1, <3>1 DEF Normal, Status
  <2>3. Agrees(s) => Agrees(r)
    BY <1>1, <2>1 DEF Agrees, StatusOfCurrent, Normal
  <2> QED BY <1>4, <2>1, <2>2, <2>3 DEF Normal
<1>5. CASE op = "advance" /\ ~(k >= LastPhase)
  <2>1. k + 1 \in PhaseKeys /\ s.status # "WAITING_FOR_GATE"
        /\ r = [s EXCEPT !.qualityGate = FALSE, !.history = appendHistory(s.history, "advance"),
                         !.status = "IN_PROGRESS", !.currentPhase = k + 1,
                         !.phases = [[s.phases EXCEPT ![k] = "passed"]
                                       EXCEPT ![k + 1] = "running"]]
    BY <1>1, <1>5, PipelineAssumption DEF Mutated, advancePhase, PhaseKeys
  <2>2. r \in Normal
    <3>1. /\ appendHistory(s.history, "advance") \in Seq(Operation)
          /\ [[s.phases EXCEPT ![k] = "passed"] EXCEPT ![k + 1] = "running"]
               \in [PhaseKeys -> PhaseStatus]
      BY <1>1, <1>2, <2>1 DEF Operation, PhaseStatus
    <3> HIDE DEF r, k
    <3> QED BY <2>1, <3>1 DEF Normal, Status
  <2>3. Agrees(s) => Agrees(r)
    <3>1. SUFFICES ASSUME Agrees(s), NEW i \in PhaseKeys
                   PROVE  r.phases[i] = IF i < k + 1 THEN "passed"
                                        ELSE IF i = k + 1 THEN "running" ELSE "not_started"
      BY <2>1, <2>2 DEF Agrees, StatusOfCurrent, InitialPhaseStatus, Normal
    <3>2. s.phases[i] = IF i < k THEN "passed"
                        ELSE IF i = k THEN StatusOfCurrent(s.status) ELSE "not_started"
      BY <3>1 DEF Agrees
    <3>3. r.phases = [[s.phases EXCEPT ![k] = "passed"] EXCEPT ![k + 1] = "running"]
      BY <2>1 DEF Normal
    <3> QED BY <1>1, <2>1, <3>2, <3>3, NormalFacts
  <2> QED BY <1>5, <2>1, <2>2, <2>3 DEF Normal
<1>6. ASSUME NEW status \in {"WAITING_FOR_GATE", "IN_PROGRESS", "FAILED"},
             NEW entry \in Operation, NEW open \in BOOLEAN, open => status = "WAITING_FOR_GATE",
             r = [s EXCEPT !.status = status, !.qualityGate = open,
                           !.phases = [s.phases EXCEPT ![k] = StatusOfCurrent(status)],
                           !.history = appendHistory(s.history, entry)]
      PROVE  /\ r \in Normal /\ (Agrees(s) => Agrees(r)) /\ r.status = status
             /\ r.history = appendHistory(s.history, entry)
  <2>1. StatusOfCurrent(status) \in PhaseStatus /\ status \in Status
    BY DEF StatusOfCurrent, InitialPhaseStatus, PhaseStatus, Status
  <2>2. r \in Normal
    BY <1>1, <1>2, <1>6, <2>1 DEF Normal
  <2>3. Agrees(s) => Agrees(r)
    <3>1. SUFFICES ASSUME Agrees(s), NEW i \in PhaseKeys
                   PROVE  r.phases[i] = IF i < k THEN "passed"
                                        ELSE IF i = k THEN StatusOfCurrent(status)
                                        ELSE "not_started"
      BY <1>6, <2>2 DEF Agrees, Normal
    <3>2. s.phases[i] = IF i < k THEN "passed"
                        ELSE IF i = k THEN StatusOfCurrent(s.status) ELSE "not_started"
      BY <3>1 DEF Agrees
    <3>3. r.phases = [s.phases EXCEPT ![k] = StatusOfCurrent(status)]
      BY <1>6 DEF Normal
    <3> QED BY <1>1, <3>2, <3>3, NormalFacts
  <2> QED BY <1>6, <2>2, <2>3 DEF Normal
<1>7. CASE op = "requestGate"
  <2>1. r = [s EXCEPT !.status = "WAITING_FOR_GATE", !.qualityGate = gate,
                      !.phases = [s.phases EXCEPT ![k] = StatusOfCurrent("WAITING_FOR_GATE")],
                      !.history = appendHistory(s.history, "requestGate")]
    BY <1>7 DEF Mutated, requestGateApproval, StatusOfCurrent, InitialPhaseStatus, Normal
  <2> QED BY <1>6, <1>7, <2>1
<1>8. CASE op = "approveGate"
  <2>1. r = [s EXCEPT !.status = "IN_PROGRESS", !.qualityGate = FALSE,
                      !.phases = [s.phases EXCEPT ![k] = StatusOfCurrent("IN_PROGRESS")],
                      !.history = appendHistory(s.history, "approveGate")]
    BY <1>8 DEF Mutated, approveGate, StatusOfCurrent, InitialPhaseStatus, Normal
  <2> QED BY <1>6, <1>8, <2>1
<1>9. CASE op = "fail"
  <2>1. r = [s EXCEPT !.status = "FAILED", !.qualityGate = FALSE,
                      !.phases = [s.phases EXCEPT ![k] = StatusOfCurrent("FAILED")],
                      !.history = appendHistory(s.history, "fail")]
    BY <1>9 DEF Mutated, failPipeline, StatusOfCurrent, InitialPhaseStatus, Normal
  <2> QED BY <1>6, <1>9, <2>1
<1>10. CASE op = "update"
  BY <1>10 DEF Mutated, updateSubTask
<1> QED BY <1>3, <1>4, <1>5, <1>7, <1>8, <1>9, <1>10 DEF Operation

LEMMA MutatedTrims ==
  ASSUME NEW s \in Trimmed, NEW op \in Operation, NEW gate \in BOOLEAN,
         gate => op = "requestGate", Mutated(op, gate, s) # Null
  PROVE  Mutated(op, gate, s) \in Trimmed
<1>1. /\ appendHistory(s.history, op) \in Seq(Operation)
      /\ Len(appendHistory(s.history, op)) <= MaxHistory
  <2>1. Append(s.history, op) \in Seq(Operation)
    BY DEF Trimmed, Normal
  <2> QED BY <2>1, TrimIsTail DEF appendHistory
<1> QED BY <1>1, MutatedKeeps DEF Trimmed

LEMMA NormalizeTrimmed ==
  ASSUME NEW s \in Trimmed
  PROVE  normalizeState(s) = s
<1>1. s.phases # <<>> /\ s # Null
  BY NormalFacts DEF Trimmed, Normal
<1>2. trimHistory(s.history) = s.history
  BY PipelineAssumption DEF trimHistory, Trimmed, Normal
<1>3. normalizeState(s) = [s EXCEPT !.phases = s.phases, !.history = s.history]
  BY <1>1, <1>2 DEF normalizeState
<1> QED BY <1>3 DEF Trimmed, Normal

-----------------------------------------------------------------------------
(***************************************************************************)
(* The invariant.                                                           *)
(***************************************************************************)
CallType == [at : Step, found : Calls \cup {Null}, holds : BOOLEAN, seen : Envelope]
LockType == [owner : Calls \cup {Null}, written : BOOLEAN, aged : BOOLEAN]

\* The steps of the first call of a queue, and those of a transaction.
Active   == {"mkdir", "contain", "stat", "open", "inspect", "recheck", "unlink", "record",
             "read", "mutate", "release"}
Transact == {"record", "read", "mutate"}

Turn(c)   == calls[c].at \in Active => First(c)
Owns(c)   == calls[c].at \in Transact /\ ~stolen => lock.owner = c
Finds(c)  == calls[c].at \in {"recheck", "unlink"} =>
               calls[c].found \in Calls /\ Home[calls[c].found] \notin alive
Reads(c)  == calls[c].at = "mutate" =>
               /\ FoundInStep => Agrees(normalizeState(calls[c].seen.state))
               /\ ~stolen => calls[c].seen = file
Mortal(c) == Home[c] \notin alive => calls[c].at = "dead"

CallInv(c) == Turn(c) /\ Owns(c) /\ Finds(c) /\ Reads(c) /\ Mortal(c)

LockInv == lock.owner = Null => lock = Free

FileInv == /\ FoundInStep => Agrees(normalizeState(file.state))
           /\ file.revision > 0 => file.state \in Trimmed
           /\ ~stolen => /\ file.revision = stores
                         /\ IsTail(normalizeState(file.state).history, told)

RepositoryInv == TypeOK /\ LockInv /\ FileInv /\ \A c \in Calls : CallInv(c)

LEMMA RepositoryInit == Init => RepositoryInv
<1> SUFFICES ASSUME Init PROVE RepositoryInv
  OBVIOUS
<1>1. PICK s \in Legacy \cup {Null} : file = [revision |-> 0, state |-> s]
  BY DEF Init
<1>2. /\ s \in PipelineState \cup {Null} /\ inherited = s
      /\ file \in Envelope /\ New \in CallType /\ Free \in LockType
  BY <1>1, LegacyAssumption DEF Init, Envelope, New, CallType, Step, Free, LockType
<1>3. told \in Seq(Operation) /\ IsTail(normalizeState(s).history, told)
  <2>1. CASE s = Null
    <3>1. told = <<>> /\ normalizeState(s).history = <<>>
      BY <1>1, <2>1 DEF Init, normalizeState, DefaultState
    <3>2. ~(0 > MaxHistory) /\ Len(<<>>) = 0
      BY NormalFacts
    <3>3. IsTail(<<>>, <<>>)
      BY <3>2 DEF IsTail
    <3> QED BY <3>1, <3>3
  <2>2. CASE s # Null
    <3>1. s \in PipelineState /\ told = s.history /\ told \in Seq(Operation)
      BY <1>1, <1>2, <2>2 DEF Init, PipelineState
    <3>2. normalizeState(s).history = trimHistory(s.history)
      BY <2>2, <3>1 DEF normalizeState, PipelineState
    <3> QED BY <3>1, <3>2, TrimIsTail
  <2> QED BY <2>1, <2>2
<1>4. FoundInStep => Agrees(normalizeState(s))
  BY <1>1 DEF Init, FoundInStep
<1>5. TypeOK
  <2>1. queues \in [Processes -> Seq(Calls)]
    BY DEF Init
  <2>2. dir \in BOOLEAN
    BY DEF Init
  <2> QED BY <1>2, <1>3, <2>1, <2>2 DEF Init, TypeOK, CallType, LockType
<1>6. FileInv /\ LockInv
  BY <1>1, <1>3, <1>4 DEF Init, FileInv, LockInv
<1>7. \A c \in Calls : CallInv(c)
  BY HomeAssumption DEF Init, New, CallInv, Turn, Owns, Finds, Reads, Mortal, Active, Transact
<1> QED BY <1>5, <1>6, <1>7 DEF RepositoryInv

-----------------------------------------------------------------------------
\* A step of one call that leaves the state file alone.
LEMMA CallMoves ==
  ASSUME RepositoryInv, NEW c \in Calls, NEW r \in CallType,
         calls[c].at # "dead", calls' = [calls EXCEPT ![c] = r],
         UNCHANGED <<storeVars, alive>>,
         dir' \in BOOLEAN, faults' \in Nat, stolen' \in BOOLEAN, stolen => stolen',
         lock' \in LockType, lock'.owner = Null => lock' = Free,
         queues' \in [Processes -> Seq(Calls)],
         \A d \in Calls \ {c} : calls[d].at \in Active => First(d)',
         \A d \in Calls \ {c} : calls[d].at \in Transact /\ ~stolen' => lock'.owner = d,
         r.at \in Active => First(c)',
         r.at \in Transact /\ ~stolen' => lock'.owner = c,
         r.at \in {"recheck", "unlink"} => r.found \in Calls /\ Home[r.found] \notin alive,
         r.at = "mutate" => /\ FoundInStep => Agrees(normalizeState(r.seen.state))
                            /\ ~stolen => r.seen = file
  PROVE  RepositoryInv'
<1>1. TypeOK /\ calls \in [Calls -> CallType]
  BY DEF RepositoryInv, TypeOK, CallType
<1>2. calls'[c] = r /\ \A d \in Calls \ {c} : calls'[d] = calls[d]
  BY <1>1
<1>3. TypeOK'
  <2>1. calls' \in [Calls -> CallType]
    BY <1>1
  <2> QED BY <1>1, <2>1 DEF TypeOK, CallType, LockType, storeVars
<1>4. FileInv' /\ LockInv'
  BY DEF RepositoryInv, FileInv, LockInv, storeVars, FoundInStep
<1>5. CallInv(c)'
  <2>1. Home[c] \in alive
    BY DEF RepositoryInv, CallInv, Mortal
  <2> QED BY <1>2, <2>1 DEF CallInv, Turn, Owns, Finds, Reads, Mortal, storeVars, FoundInStep
<1>6. ASSUME NEW d \in Calls \ {c} PROVE CallInv(d)'
  <2>1. CallInv(d)
    BY DEF RepositoryInv
  <2> QED BY <1>2, <2>1 DEF CallInv, Turn, Owns, Finds, Reads, Mortal, storeVars, FoundInStep
<1> QED BY <1>3, <1>4, <1>5, <1>6 DEF RepositoryInv

\* ... and the lock and the queues as well.
LEMMA CallGoes ==
  ASSUME RepositoryInv, NEW c \in Calls, NEW r \in CallType,
         calls[c].at # "dead", calls' = [calls EXCEPT ![c] = r],
         UNCHANGED <<storeVars, alive, queues, stolen>>,
         dir' \in BOOLEAN, faults' \in Nat,
         lock' \in LockType, lock'.owner = lock.owner, lock'.owner = Null => lock' = Free,
         r.at \in Active => First(c),
         r.at \in Transact => calls[c].at \in Transact,
         r.at \in {"recheck", "unlink"} => r.found \in Calls /\ Home[r.found] \notin alive,
         r.at = "mutate" => r.seen = file
  PROVE  RepositoryInv'
<1>1. TypeOK /\ CallInv(c) /\ FileInv
  BY DEF RepositoryInv
<1>2. \A d \in Calls : First(d)' <=> First(d)
  BY DEF First
<1>3. \A d \in Calls \ {c} : /\ calls[d].at \in Active => First(d)'
                             /\ calls[d].at \in Transact /\ ~stolen' => lock'.owner = d
  BY <1>2 DEF RepositoryInv, CallInv, Turn, Owns
<1>4. r.at \in Transact /\ ~stolen' => lock'.owner = c
  BY <1>1 DEF CallInv, Owns
<1> QED BY <1>1, <1>2, <1>3, <1>4, CallMoves DEF TypeOK, FileInv

\* The steps before the lock and around a lock of somebody else.
LEMMA WaitingSteps ==
  ASSUME RepositoryInv, NEW c \in Calls,
         \/ LookForDirectory(c) \/ MakeDirectory(c) \/ LookForLock(c) \/ StatLock(c)
         \/ (OpenLock(c) /\ lock # Free) \/ Inspect(c) \/ Recheck(c) \/ TimeOut(c)
         \/ WriteRecord(c) \/ ReadState(c)
  PROVE  RepositoryInv'
<1>1. /\ TypeOK /\ CallInv(c) /\ LockInv /\ FileInv
      /\ calls \in [Calls -> CallType] /\ calls[c] \in CallType
      /\ lock \in LockType /\ dir \in BOOLEAN /\ faults \in Nat /\ file \in Envelope
  BY DEF RepositoryInv, TypeOK, CallType, LockType
<1>2. ASSUME NEW step \in Step, Goto(c, step),
             calls[c].at \notin {"idle", "done", "dead", "jammed"},
             UNCHANGED <<storeVars, alive, queues, stolen>>, dir' \in BOOLEAN, faults' \in Nat,
             lock' \in LockType, lock'.owner = lock.owner, lock'.owner = Null => lock' = Free,
             calls[c].at = "queued" => First(c),
             step \in Transact => calls[c].at \in Transact,
             step \notin {"recheck", "mutate"},
             step = "unlink" => calls[c].at = "recheck"
      PROVE  RepositoryInv'
  <2> DEFINE r == [calls[c] EXCEPT !.at = step]
  <2>1. /\ r \in CallType /\ r.at = step /\ r.found = calls[c].found
        /\ calls' = [calls EXCEPT ![c] = r]
    BY <1>1, <1>2 DEF CallType, Goto
  <2>2. First(c)
    BY <1>1, <1>2 DEF CallInv, Turn, Active, CallType, Step
  <2>3. step = "unlink" => calls[c].found \in Calls /\ Home[calls[c].found] \notin alive
    BY <1>1, <1>2 DEF CallInv, Finds
  <2> HIDE DEF r
  <2> QED BY <1>2, <2>1, <2>2, <2>3, CallGoes
<1>3. CASE LookForDirectory(c) \/ MakeDirectory(c) \/ LookForLock(c) \/ StatLock(c)
  BY <1>1, <1>2, <1>3 DEF LookForDirectory, MakeDirectory, LookForLock, StatLock, processVars,
     Step, Transact, LockInv
<1>4. CASE (OpenLock(c) /\ lock # Free) \/ TimeOut(c)
  BY <1>1, <1>2, <1>4 DEF OpenLock, TimeOut, processVars, Step, Transact, LockInv
<1>5. CASE WriteRecord(c)
  <2>1. /\ lock' \in LockType /\ lock'.owner = lock.owner
        /\ lock'.owner = Null => lock' = Free
    BY <1>1, <1>5, HomeAssumption DEF WriteRecord, LockType, LockInv
  <2>2. faults' \in Nat
    BY <1>1, <1>5 DEF WriteRecord
  <2> QED BY <1>1, <1>2, <1>5, <2>1, <2>2 DEF WriteRecord, Step, Transact
<1>6. CASE Inspect(c) \/ Recheck(c)
  <2>1. PICK r \in CallType :
          /\ calls' = [calls EXCEPT ![c] = r]
          /\ r.at \in {"open", "release", "recheck", "unlink"}
          /\ r.at = "recheck" => r.found \in Calls /\ Home[r.found] \notin alive
          /\ r.at = "unlink" => calls[c].at = "recheck" /\ r.found = calls[c].found
    <3>1. CASE Inspect(c)
      <4>1. CASE lock = Free \/ Occupied
        <5> DEFINE r == [calls[c] EXCEPT !.at = "open"]
        <5>1. r \in CallType /\ r.at = "open" /\ calls' = [calls EXCEPT ![c] = r]
          BY <1>1, <3>1, <4>1 DEF Inspect, CallType, Step
        <5> QED BY <5>1
      <4>2. CASE ~(lock = Free \/ Occupied) /\ ~lock.written
        <5> DEFINE r == [calls[c] EXCEPT !.at = "release"]
        <5>1. r \in CallType /\ r.at = "release" /\ calls' = [calls EXCEPT ![c] = r]
          BY <1>1, <3>1, <4>2 DEF Inspect, CallType, Step
        <5> QED BY <5>1
      <4>3. CASE ~(lock = Free \/ Occupied) /\ lock.written
        <5> DEFINE r == [calls[c] EXCEPT !.at = "recheck", !.found = lock.owner]
        <5>1. lock.owner \in Calls /\ Home[lock.owner] \notin alive
          BY <1>1, <4>3 DEF Occupied, LockInv, LockType
        <5>2. /\ r \in CallType /\ r.at = "recheck" /\ r.found = lock.owner
              /\ calls' = [calls EXCEPT ![c] = r]
          BY <1>1, <3>1, <4>3, <5>1 DEF Inspect, CallType, Step
        <5> QED BY <5>1, <5>2
      <4> QED BY <4>1, <4>2, <4>3
    <3>2. CASE Recheck(c)
      <4>1. CASE lock = Free \/ Replaced(c)
        <5> DEFINE r == [calls[c] EXCEPT !.at = "open", !.found = Null]
        <5>1. r \in CallType /\ r.at = "open" /\ calls' = [calls EXCEPT ![c] = r]
          BY <1>1, <3>2, <4>1 DEF Recheck, CallType, Step
        <5> QED BY <5>1
      <4>2. CASE ~(lock = Free \/ Replaced(c))
        <5> DEFINE r == [calls[c] EXCEPT !.at = "unlink"]
        <5>1. /\ r \in CallType /\ r.at = "unlink" /\ r.found = calls[c].found
              /\ calls' = [calls EXCEPT ![c] = r] /\ calls[c].at = "recheck"
          BY <1>1, <3>2, <4>2 DEF Recheck, CallType, Step
        <5> QED BY <5>1
      <4> QED BY <4>1, <4>2
    <3> QED BY <1>6, <3>1, <3>2
  <2>2. /\ First(c) /\ calls[c].at # "dead"
        /\ calls[c].at = "recheck" => calls[c].found \in Calls /\ Home[calls[c].found] \notin alive
    BY <1>1, <1>6 DEF Inspect, Recheck, CallInv, Turn, Active, Finds
  <2>3. UNCHANGED <<storeVars, alive, queues, stolen, dir, lock, faults>>
    BY <1>6 DEF Inspect, Recheck, processVars
  <2> QED BY <1>1, <2>1, <2>2, <2>3, CallGoes DEF Transact, LockInv
<1>7. CASE ReadState(c)
  <2> DEFINE r == [calls[c] EXCEPT !.at = "mutate", !.seen = file]
  <2>1. /\ r \in CallType /\ r.at = "mutate" /\ r.seen = file
        /\ calls' = [calls EXCEPT ![c] = r]
    BY <1>1, <1>7 DEF ReadState, CallType, Step
  <2>2. First(c) /\ calls[c].at = "read"
    BY <1>1, <1>7 DEF ReadState, CallInv, Turn, Active
  <2>3. UNCHANGED <<storeVars, alive, queues, stolen, dir, lock, faults>>
    BY <1>7 DEF ReadState, processVars
  <2> HIDE DEF r
  <2> QED BY <1>1, <2>1, <2>2, <2>3, CallGoes DEF Transact, LockInv
<1> QED BY <1>3, <1>4, <1>5, <1>6, <1>7

\* The steps that take a lock or give it up, and the end of a call.
LEMMA LockSteps ==
  ASSUME RepositoryInv, NEW c \in Calls,
         (OpenLock(c) /\ lock = Free) \/ Unlink(c) \/ Release(c)
  PROVE  RepositoryInv'
<1>1. /\ TypeOK /\ CallInv(c) /\ LockInv /\ FileInv
      /\ calls \in [Calls -> CallType] /\ calls[c] \in CallType
      /\ lock \in LockType /\ dir \in BOOLEAN /\ faults \in Nat /\ stolen \in BOOLEAN
      /\ queues \in [Processes -> Seq(Calls)] /\ Home[c] \in Processes
      /\ Free \in LockType /\ New \in CallType /\ Free.owner = Null
  BY HomeAssumption DEF RepositoryInv, TypeOK, CallType, LockType, Free, New, Step, Envelope
<1>2. \A d \in Calls \ {c} : CallInv(d)
  BY DEF RepositoryInv
<1>3. CASE OpenLock(c) /\ lock = Free
  <2> DEFINE r == [calls[c] EXCEPT !.at = "record", !.holds = TRUE]
  <2>1. /\ r \in CallType /\ r.at = "record" /\ calls' = [calls EXCEPT ![c] = r]
    BY <1>1, <1>3 DEF OpenLock, CallType, Step
  <2>2. lock' \in LockType /\ lock'.owner = c /\ lock' = [Free EXCEPT !.owner = c]
    BY <1>1, <1>3 DEF OpenLock, LockType, Free
  <2>3. UNCHANGED <<storeVars, alive, queues, stolen, dir, faults>> /\ calls[c].at = "open"
    BY <1>3 DEF OpenLock, processVars
  <2>4. \A d \in Calls \ {c} : /\ calls[d].at \in Active => First(d)'
                               /\ ~(calls[d].at \in Transact /\ ~stolen)
    BY <1>1, <1>2, <1>3, <2>3, HomeAssumption DEF CallInv, Turn, Owns, First
  <2>5. First(c)'
    BY <1>1, <2>3 DEF CallInv, Turn, Active, First
  <2> HIDE DEF r
  <2> QED BY <1>1, <2>1, <2>2, <2>3, <2>4, <2>5, HomeAssumption, CallMoves
<1>4. CASE Unlink(c)
  <2> DEFINE r == [calls[c] EXCEPT !.at = "open", !.found = Null]
  <2>1. /\ r \in CallType /\ r.at = "open" /\ calls' = [calls EXCEPT ![c] = r]
    BY <1>1, <1>4 DEF Unlink, CallType, Step
  <2>2. /\ UNCHANGED <<storeVars, alive, queues, dir, faults>> /\ calls[c].at = "unlink"
        /\ lock' = Free /\ stolen' = (stolen \/ Replaced(c))
    BY <1>4 DEF Unlink, processVars
  <2>3. ASSUME NEW d \in Calls \ {c}
        PROVE  /\ calls[d].at \in Active => First(d)'
               /\ calls[d].at \in Transact => stolen'
    <3>1. CASE ~(calls[d].at \in Transact /\ ~stolen)
      BY <1>2, <2>2, <3>1 DEF CallInv, Turn, First
    <3>2. CASE calls[d].at \in Transact /\ ~stolen
      <4>1. lock.owner = d /\ Home[d] \in alive /\ Home[calls[c].found] \notin alive
        BY <1>1, <1>2, <2>2, <3>2 DEF CallInv, Owns, Mortal, Finds, Transact
      <4>2. Replaced(c)
        BY <1>1, <4>1, HomeAssumption DEF Replaced
      <4> QED BY <1>2, <2>2, <4>2 DEF CallInv, Turn, First
    <3> QED BY <3>1, <3>2
  <2>4. First(c)'
    BY <1>1, <2>2 DEF CallInv, Turn, Active, First
  <2>5. stolen' \in BOOLEAN
    BY <1>1, <2>2 DEF Replaced
  <2> HIDE DEF r
  <2> QED BY <1>1, <2>1, <2>2, <2>3, <2>4, <2>5, CallMoves DEF Transact
<1>5. CASE Release(c)
  <2> DEFINE r == [New EXCEPT !.at = "done"]
  <2>1. /\ r \in CallType /\ r.at = "done" /\ calls' = [calls EXCEPT ![c] = r]
    BY <1>1, <1>5 DEF Release, CallType, Step, New, Envelope
  <2>2. /\ UNCHANGED <<storeVars, alive, stolen, dir, faults>> /\ calls[c].at = "release"
        /\ lock' = lock \/ (lock.owner = c /\ lock' = Free)
        /\ queues' = [queues EXCEPT ![Home[c]] = Tail(@)]
    BY <1>5 DEF Release
  <2>3. First(c) /\ queues[Home[c]] \in Seq(Calls) /\ queues[Home[c]] # <<>>
    BY <1>1, <2>2 DEF CallInv, Turn, Active, First
  <2>4. queues' \in [Processes -> Seq(Calls)]
    BY <1>1, <2>2, <2>3, HeadTailProperties
  <2>5. ASSUME NEW d \in Calls \ {c}
        PROVE  /\ calls[d].at \in Active => First(d)'
               /\ calls[d].at \in Transact /\ ~stolen' => lock'.owner = d
    <3>1. calls[d].at \in Active => First(d) /\ Home[d] # Home[c]
      BY <1>2, <2>3 DEF CallInv, Turn, First
    <3>2. Home[d] \in Processes
      BY HomeAssumption
    <3> QED BY <1>1, <1>2, <2>2, <3>1, <3>2 DEF CallInv, Owns, First
  <2>6. lock' \in LockType /\ (lock'.owner = Null => lock' = Free)
    BY <1>1, <2>2 DEF LockInv
  <2> HIDE DEF r
  <2> QED BY <1>1, <2>1, <2>2, <2>4, <2>5, <2>6, CallMoves DEF Active, Transact
<1> QED BY <1>3, <1>4, <1>5

\* What a mutator makes of the state a call has read, when it does not refuse.
LEMMA CandidateFacts ==
  ASSUME RepositoryInv, NEW c \in Calls, calls[c].at = "mutate",
         NEW op \in Operation, NEW gate \in BOOLEAN, gate => op = "requestGate",
         Candidate(c, op, gate) # Null
  PROVE  /\ Candidate(c, op, gate) \in Trimmed
         /\ FoundInStep => Agrees(Candidate(c, op, gate))
         /\ Waiting(calls[c].seen) /\ Candidate(c, op, gate).status # "WAITING_FOR_GATE"
              => op \in {"start", "approveGate", "fail"}
         /\ ~stolen => IsTail(Candidate(c, op, gate).history,
                              IF op = "update" THEN told ELSE Append(told, op))
<1> DEFINE seen == calls[c].seen
           s == normalizeState(seen.state)
           r == Candidate(c, op, gate)
<1>1. /\ seen \in Envelope /\ CallInv(c) /\ FileInv /\ told \in Seq(Operation)
      /\ seen.state \in PipelineState \cup {Null}
  BY DEF RepositoryInv, TypeOK, Envelope
<1>2. /\ s \in Trimmed /\ s \in Normal /\ s.history \in Seq(Operation)
      /\ s.status = "WAITING_FOR_GATE" <=> Waiting(seen)
  BY <1>1, NormalizeType DEF Trimmed, Normal, Waiting
<1>3. r = Mutated(op, gate, s)
  BY DEF Candidate
<1>4. FoundInStep => Agrees(s)
  BY <1>1 DEF CallInv, Reads
<1> HIDE DEF s, r
<1>5. /\ r \in Trimmed /\ (FoundInStep => Agrees(r))
      /\ s.status = "WAITING_FOR_GATE" /\ r.status # "WAITING_FOR_GATE"
           => op \in {"start", "approveGate", "fail"}
      /\ r.history = IF op = "update" THEN s.history ELSE appendHistory(s.history, op)
  BY <1>2, <1>3, <1>4, MutatedKeeps, MutatedTrims DEF r
<1>6. ASSUME ~stolen PROVE IsTail(r.history, IF op = "update" THEN told ELSE Append(told, op))
  <2>1. s = normalizeState(file.state)
    BY <1>1, <1>6 DEF CallInv, Reads, s
  <2>2. IsTail(s.history, told)
    BY <1>1, <1>6, <2>1 DEF FileInv
  <2> QED BY <1>1, <1>2, <1>5, <2>2, AppendIsTail
<1> QED BY <1>2, <1>5, <1>6 DEF r

LEMMA WriteStateKeeps ==
  ASSUME RepositoryInv, NEW c \in Calls, WriteState(c)
  PROVE  RepositoryInv'
<1>1. /\ TypeOK /\ CallInv(c) /\ LockInv /\ FileInv
      /\ calls \in [Calls -> CallType] /\ calls[c] \in CallType
      /\ file \in Envelope /\ told \in Seq(Operation) /\ stores \in Nat /\ faults \in Nat
      /\ Asked[c] \subseteq Operation
  BY AskedAssumption DEF RepositoryInv, TypeOK, CallType
<1> DEFINE r == [calls[c] EXCEPT !.at = "release", !.seen = New.seen]
<1>2. /\ r \in CallType /\ r.at = "release" /\ calls' = [calls EXCEPT ![c] = r]
  BY <1>1 DEF WriteState, CallType, Step, New, Envelope
<1> HIDE DEF r
<1>3. /\ UNCHANGED <<dir, lock, queues, alive, stolen>> /\ calls[c].at = "mutate"
      /\ faults' \in Nat
  BY <1>1 DEF WriteState
<1>4. CASE UNCHANGED storeVars
  <2>1. First(c) /\ dir \in BOOLEAN /\ lock \in LockType
    BY <1>1, <1>3 DEF CallInv, Turn, Active, TypeOK, LockType
  <2> QED BY <1>1, <1>2, <1>3, <1>4, <2>1, CallGoes DEF Transact, LockInv
<1>5. ASSUME NEW op \in Operation, NEW gate \in BOOLEAN, gate => op = "requestGate",
             Candidate(c, op, gate) # Null, Replace(c, op, gate)
      PROVE  RepositoryInv'
  <2> DEFINE n == Candidate(c, op, gate)
  <2>1. /\ n \in Trimmed /\ (FoundInStep => Agrees(n)) /\ n \in PipelineState
        /\ ~stolen => IsTail(n.history, IF op = "update" THEN told ELSE Append(told, op))
    BY <1>3, <1>5, CandidateFacts, NormalFacts DEF Trimmed
  <2>2. /\ file' = [revision |-> calls[c].seen.revision + 1, state |-> n]
        /\ stores' = stores + 1
        /\ told' = IF op = "update" THEN told ELSE Append(told, op)
        /\ inherited' = inherited
    BY <1>5 DEF Replace
  <2> HIDE DEF n
  <2>3. calls[c].seen.revision \in Nat
    BY <1>1 DEF CallType, Envelope
  <2>4. normalizeState(n) = n
    BY <2>1, NormalizeTrimmed
  <2>5. TypeOK'
    <3>1. calls' \in [Calls -> CallType]
      BY <1>1, <1>2
    <3>2. file' \in Envelope /\ told' \in Seq(Operation) /\ stores' \in Nat
      BY <1>1, <2>1, <2>2, <2>3 DEF Envelope
    <3> QED BY <1>1, <1>3, <2>2, <3>1, <3>2 DEF TypeOK, CallType
  <2>6. FileInv'
    <3>1. ~stolen => calls[c].seen.revision = stores
      BY <1>1, <1>3 DEF CallInv, Reads, FileInv
    <3> QED BY <1>3, <2>1, <2>2, <2>3, <2>4, <3>1 DEF FileInv, FoundInStep
  <2>7. LockInv'
    BY <1>1, <1>3 DEF LockInv
  <2>8. ASSUME NEW d \in Calls PROVE CallInv(d)'
    <3>1. CallInv(d)
      BY DEF RepositoryInv
    <3>2. CASE d = c
      BY <1>1, <1>2, <1>3, <3>1, <3>2
         DEF CallInv, Turn, Owns, Finds, Reads, Mortal, Active, Transact, First
    <3>3. CASE d # c
      <4>1. calls'[d] = calls[d]
        BY <1>1, <1>2, <3>3
      <4>2. calls[d].at = "mutate" => stolen
        BY <1>1, <1>3, <3>1, <3>3 DEF CallInv, Owns, Transact
      <4> QED BY <1>3, <2>2, <3>1, <4>1, <4>2
              DEF CallInv, Turn, Owns, Finds, Reads, Mortal, First, FoundInStep
    <3> QED BY <3>2, <3>3
  <2> QED BY <2>5, <2>6, <2>7, <2>8 DEF RepositoryInv
<1> QED BY <1>1, <1>4, <1>5 DEF WriteState

\* The steps that no call makes.
LEMMA OtherSteps ==
  ASSUME RepositoryInv,
         AgeLock \/ (\E c \in Calls : Begin(c)) \/ \E p \in Processes : Crash(p)
  PROVE  RepositoryInv'
<1>1. /\ TypeOK /\ LockInv /\ FileInv /\ \A c \in Calls : CallInv(c)
      /\ calls \in [Calls -> CallType] /\ queues \in [Processes -> Seq(Calls)]
      /\ lock \in LockType
  BY DEF RepositoryInv, TypeOK, CallType, LockType
<1>2. CASE AgeLock
  <2>1. lock' \in LockType /\ lock'.owner = lock.owner /\ lock.owner # Null
    BY <1>1, <1>2 DEF AgeLock, LockType, LockInv
  <2>2. UNCHANGED <<storeVars, queues, alive, faults, dir, calls, stolen>>
    BY <1>2 DEF AgeLock, processVars
  <2>3. TypeOK' /\ FileInv' /\ LockInv'
    BY <1>1, <2>1, <2>2 DEF TypeOK, FileInv, LockInv, storeVars, FoundInStep, LockType
  <2>4. \A c \in Calls : CallInv(c)'
    BY <1>1, <2>1, <2>2
       DEF CallInv, Turn, Owns, Finds, Reads, Mortal, First, storeVars, FoundInStep
  <2> QED BY <2>3, <2>4 DEF RepositoryInv
<1>3. ASSUME NEW c \in Calls, Begin(c) PROVE RepositoryInv'
  <2> DEFINE r == [calls[c] EXCEPT !.at = "queued"]
  <2>1. /\ r \in CallType /\ r.at = "queued" /\ calls' = [calls EXCEPT ![c] = r]
    BY <1>1, <1>3 DEF Begin, Goto, CallType, Step
  <2>2. /\ UNCHANGED <<storeVars, dir, lock, alive, faults, stolen>> /\ calls[c].at = "idle"
        /\ queues' = [queues EXCEPT ![Home[c]] = Append(@, c)] /\ Home[c] \in Processes
    BY <1>3, HomeAssumption DEF Begin
  <2>3. queues' \in [Processes -> Seq(Calls)]
    BY <1>1, <2>2
  <2>4. ASSUME NEW d \in Calls \ {c}
        PROVE  /\ calls[d].at \in Active => First(d)'
               /\ calls[d].at \in Transact /\ ~stolen' => lock'.owner = d
    <3>1. First(d) => First(d)'
      <4>1. Home[d] \in Processes
        BY HomeAssumption
      <4>2. queues[Home[d]] \in Seq(Calls)
        BY <1>1, <4>1
      <4>3. queues[Home[d]] # <<>> =>
              /\ Append(queues[Home[d]], c) # <<>>
              /\ Head(Append(queues[Home[d]], c)) = Head(queues[Home[d]])
        BY <4>2
      <4> QED BY <1>1, <2>2, <4>1, <4>3 DEF First
    <3> QED BY <1>1, <2>2, <3>1 DEF CallInv, Turn, Owns
  <2> HIDE DEF r
  <2> QED BY <1>1, <2>1, <2>2, <2>3, <2>4, CallMoves DEF Active, Transact, TypeOK, LockInv
<1>4. ASSUME NEW p \in Processes, Crash(p) PROVE RepositoryInv'
  <2>1. /\ UNCHANGED <<storeVars, dir, lock, faults, stolen>> /\ alive' = alive \ {p}
        /\ calls' = [c \in Calls |-> IF Home[c] = p THEN [New EXCEPT !.at = "dead"] ELSE calls[c]]
        /\ queues' = [queues EXCEPT ![p] = <<>>]
    BY <1>4 DEF Crash
  <2>2. TypeOK' /\ FileInv' /\ LockInv'
    <3>1. [New EXCEPT !.at = "dead"] \in CallType
      BY DEF New, CallType, Step, Envelope
    <3>2. calls' \in [Calls -> CallType]
      BY <1>1, <2>1, <3>1
    <3>3. queues' \in [Processes -> Seq(Calls)]
      BY <1>1, <2>1
    <3> QED BY <1>1, <2>1, <3>2, <3>3
            DEF TypeOK, FileInv, LockInv, storeVars, FoundInStep, CallType
  <2>3. ASSUME NEW c \in Calls PROVE CallInv(c)'
    <3>1. CASE Home[c] = p
      <4>1. calls'[c].at = "dead"
        BY <2>1, <3>1 DEF New
      <4> QED BY <4>1 DEF CallInv, Turn, Owns, Finds, Reads, Mortal, Active, Transact
    <3>2. CASE Home[c] # p
      <4>1. calls'[c] = calls[c] /\ CallInv(c) /\ Home[c] \in Processes
        BY <1>1, <2>1, <3>2, HomeAssumption
      <4>2. First(c) => First(c)'
        BY <1>1, <2>1, <3>2, <4>1 DEF First
      <4> QED BY <2>1, <3>2, <4>1, <4>2
              DEF CallInv, Turn, Owns, Finds, Reads, Mortal, storeVars, FoundInStep
    <3> QED BY <3>1, <3>2
  <2> QED BY <2>2, <2>3 DEF RepositoryInv
<1> QED BY <1>2, <1>3, <1>4

LEMMA RepositoryNext == RepositoryInv /\ [Next]_vars => RepositoryInv'
<1> SUFFICES ASSUME RepositoryInv, [Next]_vars PROVE RepositoryInv'
  OBVIOUS
<1>1. ASSUME NEW c \in Calls, Program(c) PROVE RepositoryInv'
  BY <1>1, WaitingSteps, LockSteps, WriteStateKeeps, Zenon DEF Program
<1>2. CASE UNCHANGED vars
  <2>1. UNCHANGED <<file, dir, lock, queues, calls, alive, faults, stores, told, inherited, stolen>>
    BY <1>2 DEF vars
  <2> QED BY <2>1 DEF RepositoryInv, TypeOK, LockInv, FileInv, CallInv, Turn, Owns, Finds,
          Reads, Mortal, First, FoundInStep
<1> QED BY <1>1, <1>2, OtherSteps DEF Next

-----------------------------------------------------------------------------
\* The invariant holds of every run.
THEOREM SafeRepository == Safe => []RepositoryInv
BY RepositoryInit, RepositoryNext, PTL DEF Safe

\* What the state file, the lock, the queues and the calls hold is of their types: no
\* mutator leaves the phases of the pipeline or the values of its status.
THEOREM SpecTypeOK == Spec => []TypeOK
<1>1. RepositoryInv => TypeOK
  BY DEF RepositoryInv
<1> QED BY <1>1, SafeRepository, PTL DEF Spec

\* No update of the state file is lost, whoever crashes or fails, unless a lock was stolen
\* (withLock, transact, trimHistory).
THEOREM SpecNothingLost == Spec => []NothingLost
<1>1. RepositoryInv => NothingLost
  <2> SUFFICES ASSUME RepositoryInv, ~stolen, stores > 0
               PROVE  IsTail(file.state.history, told)
    BY DEF RepositoryInv, FileInv, NothingLost
  <2> QED BY NormalizeTrimmed DEF RepositoryInv, FileInv
<1> QED BY <1>1, SafeRepository, PTL DEF Spec

\* The premise of PhasesAgree holds where there was no file, and for a file of an older version
\* that lists no phases, has no gate and is not completed (normalizeState).
LEMMA FoundFresh ==
  ASSUME inherited = Null \/ /\ inherited \in PipelineState /\ inherited.phases = <<>>
                             /\ inherited.status # "COMPLETED" /\ ~inherited.qualityGate
  PROVE  FoundInStep
<1> DEFINE s == inherited
<1>1. CASE s = Null
  BY <1>1, NormalFacts DEF FoundInStep, normalizeState, DefaultState, Agrees,
     initializeDefaultPhases, InitialPhaseStatus, StatusOfCurrent
<1>2. CASE s # Null
  <2>1. /\ s \in PipelineState /\ s.phases = <<>> /\ s.status # "COMPLETED" /\ ~s.qualityGate
        /\ normalizeState(s) =
             [s EXCEPT !.phases = initializeDefaultPhases(s.currentPhase, s.status),
                       !.history = trimHistory(s.history)]
    BY <1>2 DEF normalizeState
  <2>2. /\ normalizeState(s).phases = initializeDefaultPhases(s.currentPhase, s.status)
        /\ normalizeState(s).currentPhase = s.currentPhase
        /\ normalizeState(s).status = s.status
        /\ normalizeState(s).qualityGate = s.qualityGate
    BY <2>1 DEF PipelineState
  <2> QED BY <2>1, <2>2 DEF FoundInStep, Agrees, initializeDefaultPhases, StatusOfCurrent
<1> QED BY <1>1, <1>2

\* The phases of the pipeline in the file are in step with its phase and its status, whichever
\* operations were made and whatever became of the lock, if the state that was found there is
\* so once it is normalised (normalizeState, PipelineService's mutators).
THEOREM SpecPhasesAgree == Spec => []PhasesAgree
<1>1. RepositoryInv => PhasesAgree
  BY NormalizeTrimmed DEF RepositoryInv, FileInv, PhasesAgree
<1> QED BY <1>1, SafeRepository, PTL DEF Spec

\* A pending gate ends only by an approval, a failure or a new start (advancePhase).
THEOREM SpecGateHolds == Spec => GateHolds
<1> DEFINE Holds == stolen \/ (Waiting(file) /\ ~Waiting(file')
                       => told'[Len(told')] \in {"approveGate", "fail", "start"})
<1>1. RepositoryInv /\ [Next]_vars => [Holds]_file
  <2> SUFFICES ASSUME RepositoryInv, Next, ~stolen, file' # file, Waiting(file), ~Waiting(file')
               PROVE  told'[Len(told')] \in {"approveGate", "fail", "start"}
    BY DEF vars
  <2>1. PICK c \in Calls : WriteState(c)
    BY DEF Next, Program, Begin, AgeLock, Crash, LookForDirectory, MakeDirectory, LookForLock,
       StatLock, OpenLock, WriteRecord, Inspect, Recheck, TimeOut, Unlink, ReadState, Release,
       storeVars
  <2>2. PICK op \in Operation, gate \in BOOLEAN :
          (gate => op = "requestGate") /\ Candidate(c, op, gate) # Null /\ Replace(c, op, gate)
    BY <2>1, AskedAssumption DEF WriteState, storeVars
  <2>3. /\ Candidate(c, op, gate) \in Trimmed
        /\ Waiting(calls[c].seen) /\ Candidate(c, op, gate).status # "WAITING_FOR_GATE"
             => op \in {"start", "approveGate", "fail"}
    BY <2>1, <2>2, CandidateFacts DEF WriteState
  <2>4. calls[c].seen = file
    BY <2>1 DEF RepositoryInv, CallInv, Reads, WriteState
  <2>5. op \in {"start", "approveGate", "fail"}
    BY <2>2, <2>3, <2>4 DEF Replace, Waiting
  <2>6. told' = Append(told, op) /\ told \in Seq(Operation)
    BY <2>2, <2>5 DEF Replace, RepositoryInv, TypeOK
  <2> QED BY <2>5, <2>6
<1> QED BY <1>1, SafeRepository, PTL DEF Spec, Safe, GateHolds
=============================================================================
