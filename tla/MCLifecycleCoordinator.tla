----------------------- MODULE MCLifecycleCoordinator -----------------------
(***************************************************************************)
(* Small trajectories: a root and one or two scopes under it, operations    *)
(* and disposers in them.                                                   *)
(***************************************************************************)
EXTENDS LifecycleCoordinator

MCEventIds == 0..(MaxEvents + 1)
MCSubjects == Scopes \cup Operations \cup Disposers \cup {Run}

\* Flat: scope "a" on the root, with o1 and d3 in it, o2, d1 and d2 in the root.
FlatParent      == [s \in Scopes \ {Root} |-> Root]
FlatScopeOf     == [o \in Operations |-> IF o = "o2" THEN Root ELSE "a"]
FlatDisposers   == [d \in Disposers |-> IF d = "d3" THEN "a" ELSE Root]

\* Nested: scope "b" in scope "a", with o1 and d2 in "b".
NestedParent    == [s \in Scopes \ {Root} |-> IF s = "a" THEN Root ELSE "a"]
NestedScopeOf   == [o \in Operations |-> "b"]
NestedDisposers == [d \in Disposers |-> IF d = "d1" THEN Root ELSE "b"]

\* One instance for two kinds of trajectories: callers either run, close and cancel work, in a
\* process that may crash, or register disposers, on a ledger that may fail once, be it
\* the opening of the second scope or anything in the absence of that scope.
Works == faults = 0 /\ registrationTail = <<>> /\ ~Has(log, "disposer.registered")
Disposes ==
  /\ faults = 0 \/ ~Present("a")
  /\ restarts = 0
  /\ \A o \in Operations : operations[o] = "idle"
  /\ \A s \in Scopes : cancellations[s] = "none"
  /\ \A i \in DOMAIN queue : queue[i].kind = "scope.closed" => queue[i].final

WorkOrDisposal == Works' \/ Disposes'
=============================================================================
