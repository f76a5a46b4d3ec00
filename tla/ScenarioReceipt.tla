-------------------------- MODULE ScenarioReceipt --------------------------
(***************************************************************************)
(* The receipt of a scenario, as runScenario composes it and as             *)
(* validateEnvironmentScenarioReceipt takes it for true.  A nested action,  *)
(* observation or evidence is its sequence; what binds it to its action is  *)
(* checked when it is received.  Times are kept as far as the validator     *)
(* tells them apart: the completion before, at or after the deadline,       *)
(* whether the request is dated ahead of the coordinator's clock, and       *)
(* whether every nested interval lies within the scenario's, in order.      *)
(***************************************************************************)
EXTENDS Integers, FiniteSets, Sequences

CONSTANT Steps     \* the number of steps a scenario declares

ASSUME StepsAssumption == Steps \in Nat \ {0}

Status == {"PASS", "FAIL", "UNVERIFIED"}
Time   == {"before", "at", "after"}

\* Why a scenario did not pass; "reported" is the adapter's own reason.
Reason == {"none", "adapter-timeout", "adapter-failed", "deadline-expired", "receipt-invalid",
           "cleanup-failed", "reported", "unavailable"}

NegativePath == {"adapter-operation-timeout", "adapter-operation-failed",
                 "adapter-receipt-mismatch", "cleanup-failed", "cleanup-deferred", "reported"}

\* An observation after a reset: whether it has the scenario's identity, and its sequence.
NoObservation == [identity |-> FALSE, sequence |-> 0]
Observed(identity, s) == [identity |-> identity, sequence |-> s]
IsObserved(o) == o # NoObservation

EmptyReceipt(status, reason, s, time) ==
  [status |-> status, reason |-> reason, negative |-> {}, time |-> time, sequence |-> s,
   reset |-> NoObservation, actions |-> <<>>, results |-> <<>>, observations |-> <<>>,
   evidence |-> <<>>, cleanup |-> NoObservation, ahead |-> FALSE, timely |-> TRUE,
   fits |-> TRUE]

(***************************************************************************)
(* What the validator asks.                                                 *)
(***************************************************************************)
ReasonIffNotPass(r) == (r.status = "PASS") <=> (r.reason = "none")

WithinDeadline(r) ==
  r.time = "after" =>
    /\ r.status = "FAIL"
    /\ \/ "adapter-operation-timeout" \in r.negative
       \/ r.reason \in {"deadline-expired", "adapter-timeout"}

Passed(r) == {i \in DOMAIN r.results : r.results[i] = "PASS"}

ResultsMatch(r) ==
  /\ Len(r.actions) = Len(r.results)
  /\ Len(r.actions) <= Steps
  /\ \A i \in DOMAIN r.results \ Passed(r) : i = Len(r.results)

Unrecorded(r) ==
  /\ r.status = "FAIL"
  /\ r.negative \ {"reported"} # {}

EvidenceMatches(r) ==
  LET n == Cardinality(Passed(r)) IN
  /\ Len(r.observations) <= n /\ Len(r.evidence) <= Len(r.observations)
  /\ n - Len(r.evidence) <= 1
  /\ Unrecorded(r) \/ (Len(r.observations) = n /\ Len(r.evidence) = n)

\* An observation stands in the receipt at its place, or not at all.
At(place, o) == IF IsObserved(o) THEN {<<place, o.sequence>>} ELSE {}

\* The operations that were accepted: their places in the receipt, and their sequences.
Operations(r) ==
  At(0, r.reset) \cup At(3 * Steps + 1, r.cleanup)
  \cup {<<3 * i - 2, r.actions[i]>> : i \in DOMAIN r.actions}
  \cup {<<3 * i - 1, r.observations[i]>> : i \in DOMAIN r.observations}
  \cup {<<3 * i, r.evidence[i].sequence>> : i \in DOMAIN r.evidence}

Monotonic(r) == \A a, b \in Operations(r) : a[1] < b[1] => a[2] < b[2]

\* The sequence at which the receipt's operations end.
Cursor(r) ==
  IF Operations(r) = {} THEN 0
  ELSE CHOOSE s \in {a[2] : a \in Operations(r)} : \A a \in Operations(r) : a[2] <= s

IsEmptyUnverified(r) == r.status = "UNVERIFIED" /\ Operations(r) = {}

SequenceMatches(r) ==
  \/ r.sequence = Cursor(r)
  \/ Unrecorded(r) /\ r.sequence >= Cursor(r) + 1
  \/ IsEmptyUnverified(r)

\* The nested statuses that are not PASS; a scenario stops at the first, so there is one.
NonPass(r) == ({r.results[i] : i \in DOMAIN r.results}
               \cup {r.evidence[i].status : i \in DOMAIN r.evidence}) \ {"PASS"}

CompletePass(r) ==
  /\ IsObserved(r.reset) /\ IsObserved(r.cleanup)
  /\ Len(r.actions) = Steps /\ Len(r.observations) = Steps /\ Len(r.evidence) = Steps
  /\ NonPass(r) = {}

DerivedStatus(r) ==
  IF "FAIL" \in NonPass(r) \/ r.negative # {} THEN "FAIL"
  ELSE IF "UNVERIFIED" \in NonPass(r) \/ ~CompletePass(r) THEN "UNVERIFIED"
  ELSE "PASS"

validateEnvironmentScenarioReceipt(r) ==
  /\ r.fits /\ ~r.ahead /\ r.timely
  /\ ReasonIffNotPass(r)
  /\ WithinDeadline(r)
  /\ IsObserved(r.reset) => r.reset.identity
  /\ ResultsMatch(r) /\ EvidenceMatches(r)
  /\ Monotonic(r) /\ SequenceMatches(r)
  /\ r.status = DerivedStatus(r)
  /\ NonPass(r) # {} => r.reason = "reported"
=============================================================================
