-------------------------- MODULE TrajectoryEvents --------------------------
(***************************************************************************)
(* The vocabulary of a trajectory: the kinds of lifecycle events, what a   *)
(* sequence of them still owes, and the verdict TrajectoryLedger.append     *)
(* reaches on a candidate from the events it has read                      *)
(* (mcp/src/runtime/trajectory-ledger.ts).                                  *)
(*                                                                         *)
(* A hash chain is a sequence: an event names its predecessor by position, *)
(* and a tip {sequence, hash} is the length of the chain it ends.          *)
(***************************************************************************)
EXTENDS Integers, Sequences, FiniteSets

CONSTANTS
  EventIds,         \* eventId values
  Subjects,         \* scope, operation and disposer ids (and request ids)
  MaxEvents,        \* TrajectoryLedgerOptions.maxEvents
  MaxEventBytes,    \* maxEventBytes, in units of event size
  MaxControlBytes,  \* MAX_CONTROL_EVENT_BYTES
  MaxTotalBytes     \* maxTotalBytes

\* The constructor accepts positive safe integers only.
ASSUME LimitsAssumption ==
  /\ MaxEvents \in Nat \ {0}
  /\ MaxEventBytes \in Nat \ {0}
  /\ MaxControlBytes \in Nat \ {0}
  /\ MaxTotalBytes \in Nat \ {0}

NoTip == -1          \* append called without an expectedTip
Tips  == 0..MaxEvents

-----------------------------------------------------------------------------
(* Kinds.  A matter is what one family of events is about: a scope, an     *)
(* operation, a disposer, or a cancellation request (whose subject is the  *)
(* id of the requesting event).                                            *)

ScopeKinds     == {"scope.opened", "scope.closed"}
OperationKinds == {"operation.started", "operation.settled"}
DisposerKinds  == {"disposer.registered", "disposer.started", "disposer.settled"}
CancelKinds    == {"cancellation.requested", "cancellation.acknowledged"}
RunKinds       == {"trajectory.opened", "trajectory.recovered", "finalization.started",
                   "finalization.receipt", "trajectory.terminal"}
Kinds == ScopeKinds \cup OperationKinds \cup DisposerKinds \cup CancelKinds \cup RunKinds

ControlKinds == Kinds \ {"trajectory.opened", "scope.opened", "operation.started",
                         "disposer.registered"}

\* A kind in OwingKinds leaves its matter open; a registered disposer is
\* still owed both its start and its settlement.
OwingKinds      == {"scope.opened", "operation.started", "disposer.registered",
                    "disposer.started", "cancellation.requested"}
OwingTwiceKinds == {"disposer.registered"}

Family(kind) ==
  CASE kind \in ScopeKinds     -> "scope"
    [] kind \in OperationKinds -> "operation"
    [] kind \in DisposerKinds  -> "disposer"
    [] kind \in CancelKinds    -> "cancellation"
    [] OTHER                   -> "trajectory"

Claims == {"none", "completed", "failed", "cancelled", "timed_out", "confirmed",
           "not_confirmed"}

\* What a caller passes to append.  "causes" are the causalEventIds, "epoch"
\* the writerEpoch of an opened or recovered event, "binds" the predecessor
\* sequence a receipt was digested over, "claim" the outcome or quiescence the
\* payload reports, "bytes" the encoded size.
Input == [id : EventIds, kind : Kinds, subject : Subjects, causes : SUBSET EventIds,
          epoch : Nat, binds : Nat, claim : Claims, bytes : Nat \ {0}]

\* A committed event also tells how many bytes the chain has up to its end.
Event == [id : EventIds, kind : Kinds, subject : Subjects, causes : SUBSET EventIds,
          epoch : Nat, binds : Nat, claim : Claims, bytes : Nat \ {0}, used : Nat]

SemanticInput(e) == [id |-> e.id, kind |-> e.kind, subject |-> e.subject,
                     causes |-> e.causes, epoch |-> e.epoch, binds |-> e.binds,
                     claim |-> e.claim, bytes |-> e.bytes]

UsedBytes(es) == IF es = <<>> THEN 0 ELSE es[Len(es)].used

Stamp(es, in) == [id |-> in.id, kind |-> in.kind, subject |-> in.subject,
                  causes |-> in.causes, epoch |-> in.epoch, binds |-> in.binds,
                  claim |-> in.claim, bytes |-> in.bytes, used |-> UsedBytes(es) + in.bytes]

Extend(es, in) == Append(es, Stamp(es, in))

-----------------------------------------------------------------------------
(* Folds over a chain.                                                     *)

Ids(es)         == {es[i].id : i \in DOMAIN es}
Has(es, kind)   == \E i \in DOMAIN es : es[i].kind = kind
Terminated(es)  == Has(es, "trajectory.terminal")
Matter(e)       == <<Family(e.kind), e.subject>>

\* No later event is about the same matter.
Standing(es, i) == \A j \in (i + 1)..Len(es) : Matter(es[j]) # Matter(es[i])

\* The matters whose last event is of one of these kinds.
StandingAt(es, kinds) ==
  {Matter(es[i]) : i \in {k \in DOMAIN es : es[k].kind \in kinds /\ Standing(es, k)}}

OpenScopes(es)       == {s \in Subjects : <<"scope", s>> \in StandingAt(es, OwingKinds)}
ActiveOperations(es) == {s \in Subjects : <<"operation", s>> \in StandingAt(es, OwingKinds)}
PendingDisposers(es) == {s \in Subjects : <<"disposer", s>> \in StandingAt(es, OwingKinds)}

\* Mutation of Obligations: a registered disposer owes its settlement only.
Obligations_DisposerOnce(es) ==
  IF Terminated(es) THEN 0
  ELSE Cardinality(StandingAt(es, OwingKinds))
       + (IF Has(es, "finalization.started") THEN 0 ELSE 1)
       + (IF Has(es, "finalization.receipt") THEN 0 ELSE 1)
       + 1

\* The control events that must still find room before the chain may end.
Obligations(es) ==
  IF Terminated(es) THEN 0
  ELSE Cardinality(StandingAt(es, OwingKinds))
       + Cardinality(StandingAt(es, OwingTwiceKinds))
       + (IF Has(es, "finalization.started") THEN 0 ELSE 1)
       + (IF Has(es, "finalization.receipt") THEN 0 ELSE 1)
       + 1

\* e pays one obligation of es: it settles (or, for a disposer, starts) an
\* owed matter, or is the first of the three events that end a trajectory.
Discharges(es, e) ==
  \/ /\ e.kind \notin OwingKinds
     /\ Matter(e) \in StandingAt(es, OwingKinds)
  \/ /\ e.kind = "disposer.started"
     /\ Matter(e) \in StandingAt(es, OwingTwiceKinds)
  \/ /\ e.kind \in {"finalization.started", "finalization.receipt"}
     /\ ~Has(es, e.kind)
  \/ e.kind = "trajectory.terminal"

EpochKinds == {"trajectory.opened", "trajectory.recovered"}

\* The writer epoch a recovery of this chain must claim.
NextEpoch(es) ==
  LET marks == {i \in DOMAIN es : es[i].kind \in EpochKinds}
      last  == CHOOSE i \in marks : \A j \in marks : j <= i
  IN  IF marks = {} THEN 0 ELSE es[last].epoch + 1

-----------------------------------------------------------------------------
(* Admission.                                                              *)

Oversized(in) == \/ in.bytes > MaxEventBytes
                 \/ in.kind \in ControlKinds /\ in.bytes > MaxControlBytes

\* Mutation of WellPlaced: a receipt may bind any predecessor.
WellPlaced_UnboundReceipt(es, in) ==
  /\ (in.kind = "trajectory.opened") <=> (es = <<>>)
  /\ in.causes \subseteq Ids(es)
  /\ in.kind = "trajectory.recovered" => in.epoch = NextEpoch(es)

\* The candidate stands where the chain allows its kind.
WellPlaced(es, in) ==
  /\ (in.kind = "trajectory.opened") <=> (es = <<>>)
  /\ in.causes \subseteq Ids(es)
  /\ in.kind = "trajectory.recovered" => in.epoch = NextEpoch(es)
  /\ in.kind = "finalization.receipt" => in.binds = Len(es)

\* After the candidate, every control event still owed has a slot and a
\* full-sized record's worth of bytes.
LeavesReserve(es, in) ==
  LET owed == Obligations(Extend(es, in))
      left == MaxTotalBytes - UsedBytes(es) - in.bytes
  IN  /\ MaxEvents - Len(es) - 1 >= owed
      /\ left >= owed * MaxControlBytes

CapacityRefusal(es, in) ==
  IF Len(es) >= MaxEvents THEN "TOTAL_CAPACITY_EXHAUSTED"
  ELSE IF UsedBytes(es) + in.bytes > MaxTotalBytes THEN "LEDGER_TOO_LARGE"
  ELSE IF in.kind \in ControlKinds THEN "FINALIZATION_CAPACITY_EXHAUSTED"
  ELSE "ORDINARY_CAPACITY_EXHAUSTED"

\* What append decides from the chain it has read, in the order it decides.
Verdict(es, in, expected) ==
  IF in.id \in Ids(es)
    THEN IF \E i \in DOMAIN es : SemanticInput(es[i]) = in
           THEN "idempotent" ELSE "DUPLICATE_EVENT_CONFLICT"
  ELSE IF expected # NoTip /\ expected # Len(es) THEN "EXPECTED_TIP_MISMATCH"
  ELSE IF Terminated(es)           THEN "TRAJECTORY_TERMINAL"
  ELSE IF ~WellPlaced(es, in)      THEN "INVALID_EVENT"
  ELSE IF Oversized(in)            THEN "EVENT_TOO_LARGE"
  ELSE IF ~LeavesReserve(es, in)   THEN CapacityRefusal(es, in)
  ELSE "append"

-----------------------------------------------------------------------------
(* The audit reconstruct and decodeEvent make of every chain they read.    *)

Decodes(es) ==
  /\ Len(es) <= MaxEvents
  /\ \A i \in DOMAIN es :
       /\ (es[i].kind = "trajectory.opened") <=> (i = 1)
       /\ es[i].kind = "trajectory.terminal" => i = Len(es)
       /\ es[i].kind = "finalization.receipt" => es[i].binds = i - 1
       /\ es[i].kind = "trajectory.recovered" => es[i].epoch = NextEpoch(SubSeq(es, 1, i - 1))
       /\ es[i].causes \subseteq Ids(SubSeq(es, 1, i - 1))
       /\ es[i].id \notin Ids(SubSeq(es, 1, i - 1))
       /\ es[i].bytes <= MaxEventBytes /\ es[i].used <= MaxTotalBytes
=============================================================================
