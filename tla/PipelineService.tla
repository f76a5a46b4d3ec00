-------------------------- MODULE PipelineService --------------------------
(***************************************************************************)
(* What each operation of PipelineService does to the pipeline state: the   *)
(* mutators it hands to the repository's transactions.  The state keeps     *)
(* what decides whether a pipeline may go on: the phase, the status, the    *)
(* list of phase states, whether a quality gate is open, and the history,   *)
(* of which only the operation an entry tells of is kept.  Mode, progress,  *)
(* times, messages and self healing are data that nothing here reads.       *)
(***************************************************************************)
EXTENDS Integers, Sequences

CONSTANTS LastPhase,    \* index of the last of PIPELINE_PHASES
          MaxHistory,   \* PIPELINE_HISTORY_MAX_ENTRIES
          Null          \* no state: nothing saved yet, or a mutator that refuses

ASSUME PipelineAssumption == LastPhase \in Nat \ {0} /\ MaxHistory \in Nat \ {0}

PhaseKeys == 0 .. LastPhase

Status      == {"IDLE", "IN_PROGRESS", "WAITING_FOR_GATE", "COMPLETED", "FAILED"}
PhaseStatus == {"not_started", "running", "waiting_review", "passed", "failed"}
Operation   == {"start", "advance", "requestGate", "approveGate", "fail", "update"}

\* A state of an older version has an empty list of phases.
PipelineState == [currentPhase : PhaseKeys, status : Status, qualityGate : BOOLEAN,
                  phases : [PhaseKeys -> PhaseStatus] \cup {<<>>}, history : Seq(Operation)]

ASSUME NullAssumption == Null \notin PipelineState

(***************************************************************************)
(* initializeDefaultPhases, trimHistory, appendHistory, normalizeState.     *)
(***************************************************************************)
InitialPhaseStatus(status) ==
  CASE status = "FAILED"           -> "failed"
    [] status = "WAITING_FOR_GATE" -> "waiting_review"
    [] status = "IDLE"             -> "not_started"
    [] OTHER                       -> "running"

initializeDefaultPhases(index, status) ==
  [k \in PhaseKeys |-> IF k < index THEN "passed"
                       ELSE IF k = index THEN InitialPhaseStatus(status)
                       ELSE "not_started"]

trimHistory(history) ==
  IF Len(history) > MaxHistory
  THEN SubSeq(history, Len(history) - MaxHistory + 1, Len(history))
  ELSE history

appendHistory(history, entry) == trimHistory(Append(history, entry))

DefaultState == [currentPhase |-> 0, status |-> "IDLE", qualityGate |-> FALSE,
                 phases |-> initializeDefaultPhases(0, "IDLE"), history |-> <<>>]

normalizeState(s) ==
  IF s = Null THEN DefaultState
  ELSE [s EXCEPT !.phases = IF @ = <<>> THEN initializeDefaultPhases(s.currentPhase, s.status)
                            ELSE @,
                 !.history = trimHistory(@)]

(***************************************************************************)
(* The operations, on a normalised state.  A refusal returns Null, and then *)
(* nothing is written and nothing published.                                *)
(***************************************************************************)
startPipeline(s) ==
  [currentPhase |-> 1, status |-> "IN_PROGRESS", qualityGate |-> FALSE,
   phases |-> initializeDefaultPhases(1, "IN_PROGRESS"),
   history |-> appendHistory(s.history, "start")]

advancePhase(s) ==
  LET passed == [s.phases EXCEPT ![s.currentPhase] = "passed"]
      next   == s.currentPhase + 1
      told   == [s EXCEPT !.qualityGate = FALSE, !.history = appendHistory(@, "advance")]
  IN IF s.status = "WAITING_FOR_GATE" THEN Null
     ELSE IF s.currentPhase >= LastPhase
     THEN [told EXCEPT !.status = "COMPLETED", !.phases = passed]
     ELSE [told EXCEPT !.status = "IN_PROGRESS", !.currentPhase = next,
                       !.phases = [passed EXCEPT ![next] = "running"]]

requestGateApproval(s, gate) ==
  [s EXCEPT !.status = "WAITING_FOR_GATE", !.qualityGate = gate,
            !.phases[s.currentPhase] = "waiting_review",
            !.history = appendHistory(@, "requestGate")]

\* Mutation of approveGate: the phase itself is left waiting for its review.
approveGate_PhaseLeft(s) ==
  IF s.status # "WAITING_FOR_GATE" THEN Null
  ELSE [s EXCEPT !.status = "IN_PROGRESS", !.qualityGate = FALSE,
                 !.history = appendHistory(@, "approveGate")]
approveGate(s) ==
  IF s.status # "WAITING_FOR_GATE" THEN Null
  ELSE [s EXCEPT !.status = "IN_PROGRESS", !.qualityGate = FALSE,
                 !.phases[s.currentPhase] = "running",
                 !.history = appendHistory(@, "approveGate")]

failPipeline(s) ==
  [s EXCEPT !.status = "FAILED", !.qualityGate = FALSE,
            !.phases[s.currentPhase] = "failed",
            !.history = appendHistory(@, "fail")]

\* updateSubTask and updateSelfHealing: only data that this state leaves out.
updateSubTask(s) == s

Mutated(op, gate, s) ==
  CASE op = "start"       -> startPipeline(s)
    [] op = "advance"     -> advancePhase(s)
    [] op = "requestGate" -> requestGateApproval(s, gate)
    [] op = "approveGate" -> approveGate(s)
    [] op = "fail"        -> failPipeline(s)
    [] op = "update"      -> updateSubTask(s)

(***************************************************************************)
(* The list of phases tells the same story as the phase and the status: all *)
(* before the current one passed, all after it not started, and the current *)
(* one as the status says.                                                  *)
(***************************************************************************)
StatusOfCurrent(status) ==
  IF status = "COMPLETED" THEN "passed" ELSE InitialPhaseStatus(status)

Agrees(s) ==
  /\ \A k \in PhaseKeys : s.phases[k] = IF k < s.currentPhase THEN "passed"
                                        ELSE IF k = s.currentPhase THEN StatusOfCurrent(s.status)
                                        ELSE "not_started"
  /\ s.status = "COMPLETED" => s.currentPhase = LastPhase
  /\ s.qualityGate => s.status = "WAITING_FOR_GATE"
=============================================================================
