------------------------ MODULE LifecycleCoordinator ------------------------
(***************************************************************************)
(* One lifecycle coordinator over one trajectory                            *)
(* (mcp/src/runtime/lifecycle-coordinator.ts, class LifecycleCoordinator).   *)
(*                                                                         *)
(* Every operation of the coordinator is a task that runs to its next await: *)
(* it decides on the coordinator's memory, queues an event, and continues    *)
(* when the ledger has answered.  Appends are served one at a time in queue  *)
(* order, so tasks interleave between the decision and the answer.  The      *)
(* ledger is the atomic log TrajectoryLedger implements.                     *)
(***************************************************************************)
EXTENDS TrajectoryEvents

CONSTANTS
  Scopes, Root, Parent,        \* scope ids, rootScopeId, parentScopeId of the others
  Operations, ScopeOf,         \* operation ids and their scopes
  Disposers, DisposerScope,    \* disposer ids and their scopes
  Run,                         \* subject of the events about the trajectory itself
  Wants,                       \* outcomes finalize is asked for
  Cancellable,                 \* bound: scopes callers ask to cancel
  MaxCloses,                   \* bound: closeScope calls in flight
  MaxRegistrations,            \* bound: registerDisposer calls in flight
  MaxFaults,                   \* bound: appends and tip reads that fail with IO_ERROR
  MaxRestarts                  \* bound: crashes of the process

ASSUME TreeAssumption ==
  /\ Root \in Scopes
  /\ Parent \in [Scopes \ {Root} -> Scopes]
  /\ \A S \in SUBSET (Scopes \ {Root}) : S # {} => \E s \in S : Parent[s] \notin S
  /\ ScopeOf \in [Operations -> Scopes]
  /\ DisposerScope \in [Disposers -> Scopes]
  /\ Subjects = Scopes \cup Operations \cup Disposers \cup {Run}
  /\ EventIds = 0..(MaxEvents + 1)
  /\ Cancellable \subseteq Scopes
  /\ Wants \subseteq {"completed", "failed", "cancelled"}

\* open() has appended its two events, which leave room for the four still owed.
ASSUME RoomAssumption == MaxEvents >= 6 /\ MaxTotalBytes >= 2 + 4 * MaxControlBytes

ASSUME BoundsAssumption == {MaxCloses, MaxRegistrations, MaxFaults, MaxRestarts} \subseteq Nat

VARIABLES
  log,         \* the ledger
  queue,       \* appendTail: appends called and not answered, oldest first
  faults,      \* I/O errors so far
  state,       \* lifecycleState, "DOWN" while no process owns the trajectory
  scopes,      \* the scopes map
  operations,  \* where executeOperation is, per operation
  fenced,      \* operations whose result finalization has given up on
  disposers,   \* the disposers map
  registrationTail,  \* registrations called and not settled, oldest first
  cancellations,     \* cancellationPromises
  fin,         \* performFinalization: its position and local variables
  expired,     \* its deadline has passed
  restarts

ledgerVars == <<log, queue, faults>>
workVars   == <<operations, fenced>>
vars == <<ledgerVars, state, scopes, workVars, disposers, registrationTail, cancellations,
          fin, expired, restarts>>

NoId == 0   \* the empty openedEventId, which no event has: ids are positions

Absent == [status |-> "absent", openedEventId |-> NoId, aborted |-> FALSE]
NoFinalization == [pc |-> "none", want |-> "none", slowOperations |-> FALSE,
                   slowDisposers |-> FALSE, failedDisposers |-> FALSE, outcome |-> "none",
                   toClose |-> {}, quiescence |-> "none", tip |-> NoTip]

Opened(kind, subject, epoch) ==
  [id |-> 0, kind |-> kind, subject |-> subject, causes |-> {}, epoch |-> epoch, binds |-> 0,
   claim |-> "none", bytes |-> 1]

\* A queued append; "final" when performFinalization awaits it.  The kind
\* "flush" marks a flushAppends and is no event.
Entry(kind, subject, claim, final) ==
  [kind |-> kind, subject |-> subject, causes |-> {}, claim |-> claim, expect |-> NoTip,
   final |-> final, linked |-> FALSE]

\* The coordinator as open() returns it.
Init ==
  /\ log = LET first == Extend(<<>>, [Opened("trajectory.opened", Run, 1) EXCEPT !.id = 1])
           IN  Extend(first, [Opened("scope.opened", Root, 0) EXCEPT !.id = 2, !.causes = {1}])
  /\ queue = <<>>
  /\ faults = 0
  /\ state = "ACTIVE"
  /\ scopes = [s \in Scopes |-> IF s = Root THEN [Absent EXCEPT !.status = "open",
                                                               !.openedEventId = 2]
                                ELSE Absent]
  /\ operations = [o \in Operations |-> "idle"]
  /\ fenced = {}
  /\ disposers = [d \in Disposers |-> [status |-> "absent", ordinal |-> 0]]
  /\ registrationTail = <<>>
  /\ cancellations = [s \in Scopes |-> "none"]
  /\ fin = NoFinalization
  /\ expired = FALSE
  /\ restarts = 0

-----------------------------------------------------------------------------
(* The scope tree.                                                         *)

Present(s)   == scopes[s].status # "absent"
Open(s)      == scopes[s].status = "open"
Admitting(s) == Open(s) /\ ~scopes[s].aborted

\* x is a or below it, in the tree as the callers named it.
Beneath(x, a) == LET up[y \in Scopes] == y = a \/ (y # Root /\ up[Parent[y]]) IN up[x]

\* The walk from s towards the root through scopes of the map meets a.
Reaches(s, a) ==
  LET up[x \in Scopes] == x = a \/ (Present(x) /\ x # Root /\ up[Parent[x]]) IN up[s]

isDescendantOrSelf(s, a) == Present(a) /\ Reaches(s, a)

scopeDepth(s) == LET depth[x \in Scopes] == IF x = Root THEN 0 ELSE 1 + depth[Parent[x]]
                 IN  depth[s]

isScopeCancellationRequested(s) ==
  \E c \in Scopes : cancellations[c] # "none" /\ isDescendantOrSelf(s, c)

Active == {o \in Operations : operations[o] \notin {"idle", "done"}}

-----------------------------------------------------------------------------
(* Appends.                                                                *)

Send(entry) == queue' = Append(queue, entry)

\* The event of an entry, were it appended now.
InputOf(e) ==
  [id |-> Len(log) + 1, kind |-> e.kind, subject |-> e.subject, causes |-> e.causes,
   epoch |-> 0, binds |-> IF e.expect = NoTip THEN 0 ELSE e.expect, claim |-> e.claim,
   bytes |-> 1]

Admitted(e) == Verdict(log, InputOf(e), e.expect) = "append"

\* The ledger makes the oldest append durable; its caller does not know yet.
Link ==
  /\ queue # <<>>
  /\ LET e == Head(queue)
     IN  /\ e.kind # "flush"
         /\ ~e.linked
         /\ Admitted(e)
         /\ log' = Extend(log, InputOf(e))
         /\ queue' = [queue EXCEPT ![1].linked = TRUE]
  /\ UNCHANGED <<faults, state, scopes, workVars, disposers, registrationTail, cancellations,
                 fin, expired, restarts>>

\* The ledger answers the oldest append: it is durable, it was refused, or an
\* I/O error is reported, which says nothing about durability.  The awaiting
\* task continues and may queue more.
Answer(kind, final, ok, more) ==
  /\ queue # <<>>
  /\ LET e == Head(queue)
     IN  /\ e.kind = kind
         /\ e.final = final
         /\ \/ ok /\ e.linked /\ UNCHANGED faults
            \/ ~ok /\ ~e.linked /\ ~Admitted(e) /\ UNCHANGED faults
            \/ ~ok /\ faults < MaxFaults /\ faults' = faults + 1
  /\ queue' = Tail(queue) \o more
  /\ UNCHANGED log

Subject == Head(queue).subject

-----------------------------------------------------------------------------
(* Scopes.                                                                 *)

\* Bound: an id is not used again while a request to cancel it is on its way.
OpenScope(s) ==
  /\ state = "ACTIVE"
  /\ s # Root /\ ~Present(s)
  /\ cancellations[s] # "requesting"
  /\ Admitting(Parent[s])
  /\ scopes' = [scopes EXCEPT ![s] = [Absent EXCEPT !.status = "open"]]
  /\ Send([Entry("scope.opened", s, "none", FALSE)
             EXCEPT !.causes = {scopes[Parent[s]].openedEventId}])
  /\ UNCHANGED <<log, faults, state, workVars, disposers, registrationTail, cancellations,
                 fin, expired, restarts>>

OpenScopeReturns(ok) ==
  /\ Answer("scope.opened", FALSE, ok, <<>>)
  /\ scopes' = [scopes EXCEPT ![Subject] =
                  IF ok THEN [@ EXCEPT !.openedEventId = Len(log)] ELSE Absent]
  /\ UNCHANGED <<state, workVars, disposers, registrationTail, cancellations, fin, expired,
                 restarts>>

\* Mutation of CloseScope: the scope is marked before the append.
CloseScope_MarksFirst(s) ==
  /\ state \notin {"TERMINAL", "DOWN"}
  /\ s # Root /\ Open(s)
  /\ \A o \in Active : ScopeOf[o] # s
  /\ Cardinality({i \in DOMAIN queue : queue[i].kind = "scope.closed"}) < MaxCloses
  /\ scopes' = [scopes EXCEPT ![s].status = "closed"]
  /\ Send([Entry("scope.closed", s, "completed", FALSE)
             EXCEPT !.causes = {scopes[s].openedEventId}])
  /\ UNCHANGED <<log, faults, state, workVars, disposers, registrationTail, cancellations, fin,
                 expired, restarts>>

\* The checks run before the append; only its answer marks the scope closed.
CloseScope(s) ==
  /\ state \notin {"TERMINAL", "DOWN"}
  /\ s # Root /\ Open(s)
  /\ \A o \in Active : ScopeOf[o] # s
  /\ \A d \in Disposers :
       DisposerScope[d] = s => disposers[d].status \notin {"registered", "started"}
  /\ \A c \in Scopes \ {Root} : Open(c) => Parent[c] # s
  /\ Cardinality({i \in DOMAIN queue : queue[i].kind = "scope.closed"}) < MaxCloses
  /\ Send([Entry("scope.closed", s, "completed", FALSE)
             EXCEPT !.causes = {scopes[s].openedEventId}])
  /\ UNCHANGED <<log, faults, state, scopes, workVars, disposers, registrationTail,
                 cancellations, fin, expired, restarts>>

CloseScopeReturns(ok) ==
  /\ Answer("scope.closed", FALSE, ok, <<>>)
  /\ scopes' = [scopes EXCEPT ![Subject].status = IF ok /\ Present(Subject) THEN "closed" ELSE @]
  /\ UNCHANGED <<state, workVars, disposers, registrationTail, cancellations, fin, expired,
                 restarts>>

-----------------------------------------------------------------------------
(* Disposers.  Registrations run one after the other.                      *)

RegisterDisposer(d) ==
  /\ state = "ACTIVE"
  /\ Admitting(DisposerScope[d])
  /\ Len(registrationTail) < MaxRegistrations
  /\ registrationTail' = Append(registrationTail, d)
  /\ UNCHANGED <<ledgerVars, state, scopes, workVars, disposers, cancellations, fin, expired,
                 restarts>>

\* registerDisposerNow: a known disposer is returned as it is.
registerDisposerNow ==
  /\ registrationTail # <<>>
  /\ \A i \in DOMAIN queue : queue[i].kind # "disposer.registered"
  /\ LET d == Head(registrationTail)
     IN  \/ /\ disposers[d].status = "absent"
            /\ Send(Entry("disposer.registered", d, "none", FALSE))
            /\ UNCHANGED registrationTail
         \/ /\ disposers[d].status # "absent"
            /\ registrationTail' = Tail(registrationTail)
            /\ UNCHANGED queue
  /\ UNCHANGED <<log, faults, state, scopes, workVars, disposers, cancellations, fin, expired,
                 restarts>>

Registered == {d \in Disposers : disposers[d].status # "absent"}

RegisterReturns(ok) ==
  /\ Answer("disposer.registered", FALSE, ok, <<>>)
  /\ registrationTail' = Tail(registrationTail)
  /\ disposers' = [disposers EXCEPT ![Subject] =
                     IF ok THEN [status |-> "registered", ordinal |-> Cardinality(Registered) + 1]
                     ELSE @]
  /\ UNCHANGED <<state, scopes, workVars, cancellations, fin, expired, restarts>>

-----------------------------------------------------------------------------
(* Operations.                                                             *)

runOperation(o) ==
  /\ state = "ACTIVE"
  /\ Admitting(ScopeOf[o])
  /\ operations[o] = "idle"
  /\ operations' = [operations EXCEPT ![o] = "starting"]
  /\ Send(Entry("operation.started", o, "none", FALSE))
  /\ UNCHANGED <<log, faults, state, scopes, fenced, disposers, registrationTail, cancellations,
                 fin, expired, restarts>>

\* The handler gets the scope's signal; a scope that is gone throws instead,
\* before and in the catch block, which leaves the operation unsettled.
StartReturns(ok) ==
  /\ Answer("operation.started", FALSE, ok, <<>>)
  /\ operations' = [operations EXCEPT ![Subject] =
                      IF ok /\ Present(ScopeOf[Subject]) THEN "running" ELSE "done"]
  /\ UNCHANGED <<state, scopes, fenced, disposers, registrationTail, cancellations, fin, expired,
                 restarts>>

\* A settlement is still appended for o.
MaySettle(o) == o \notin fenced /\ state # "TERMINAL" /\ Present(ScopeOf[o])

\* Mutation of Late: only a propagated abort makes a result late.
Late_AbortOnly(o) == o \in fenced \/ scopes[ScopeOf[o]].aborted

Late(o) == \/ o \in fenced
           \/ scopes[ScopeOf[o]].aborted
           \/ isScopeCancellationRequested(ScopeOf[o])

Settlement(o, verdict) ==
  Entry("operation.settled", o, IF Late(o) THEN "cancelled" ELSE verdict, FALSE)

\* The handler resolves; what it returned counts as completed unless late.
HandlerReturns(o) ==
  /\ operations[o] = "running"
  /\ IF MaySettle(o)
       THEN /\ operations' = [operations EXCEPT ![o] = "settling"]
            /\ Send(Settlement(o, "completed"))
       ELSE /\ operations' = [operations EXCEPT ![o] = "done"]
            /\ UNCHANGED queue
  /\ UNCHANGED <<log, faults, state, scopes, fenced, disposers, registrationTail, cancellations,
                 fin, expired, restarts>>

\* The handler rejects: the catch block settles, once.
HandlerThrows(o) ==
  /\ operations[o] = "running"
  /\ IF MaySettle(o)
       THEN /\ operations' = [operations EXCEPT ![o] = "recording_failure"]
            /\ Send(Settlement(o, "failed"))
       ELSE /\ operations' = [operations EXCEPT ![o] = "done"]
            /\ UNCHANGED queue
  /\ UNCHANGED <<log, faults, state, scopes, fenced, disposers, registrationTail, cancellations,
                 fin, expired, restarts>>

\* A failed append of the settlement is itself caught, and settled again.
SettleReturns(ok) ==
  LET o     == Subject
      again == ~ok /\ operations[o] = "settling" /\ MaySettle(o)
  IN  /\ Answer("operation.settled", FALSE, ok,
                IF again THEN <<Settlement(o, "failed")>> ELSE <<>>)
      /\ operations' = [operations EXCEPT ![o] = IF again THEN "recording_failure" ELSE "done"]
      /\ UNCHANGED <<state, scopes, fenced, disposers, registrationTail, cancellations, fin,
                     expired, restarts>>

-----------------------------------------------------------------------------
(* Cancellation.  One promise per scope, kept even when it was rejected.   *)

\* Mutation of cancelScope: the state is set whatever it was.
cancelScope_AnyState(s) ==
  /\ cancellations[s] = "none"
  /\ Present(s)
  /\ cancellations' = [cancellations EXCEPT ![s] = "requesting"]
  /\ state' = IF s = Root THEN "CANCELLING" ELSE state
  /\ Send(Entry("cancellation.requested", s, "none", FALSE))

cancelScope(s) ==
  /\ cancellations[s] = "none"
  /\ Present(s)
  /\ cancellations' = [cancellations EXCEPT ![s] = "requesting"]
  /\ state' = IF s = Root /\ state = "ACTIVE" THEN "CANCELLING" ELSE state
  /\ Send(Entry("cancellation.requested", s, "none", FALSE))

Cancel(s) ==
  /\ state \notin {"TERMINAL", "DOWN"}
  /\ cancelScope(IF state = "FINALIZING" THEN Root ELSE s)
  /\ UNCHANGED <<log, faults, scopes, workVars, disposers, registrationTail, fin, expired,
                 restarts>>

\* A child's signal listens to its parent's, also past a scope that is gone.
abortSubtree(s) ==
  [x \in Scopes |-> [scopes[x] EXCEPT !.aborted = @ \/ (Present(x) /\ Beneath(x, s))]]

\* Mutation of CancelReturns: signals are aborted even if the request failed.
CancelReturns_AbortsAnyway(ok) ==
  LET s == Subject
  IN  /\ Answer("cancellation.requested", FALSE, ok,
                IF ok THEN <<Entry("cancellation.acknowledged", s, "none", FALSE)>> ELSE <<>>)
      /\ scopes' = abortSubtree(s)
      /\ cancellations' = [cancellations EXCEPT ![s] = IF ok THEN "acknowledging" ELSE "rejected"]
      /\ UNCHANGED <<state, workVars, disposers, registrationTail, fin, expired, restarts>>

CancelReturns(ok) ==
  LET s == Subject
  IN  /\ Answer("cancellation.requested", FALSE, ok,
                IF ok THEN <<Entry("cancellation.acknowledged", s, "none", FALSE)>> ELSE <<>>)
      /\ scopes' = IF ok THEN abortSubtree(s) ELSE scopes
      /\ cancellations' = [cancellations EXCEPT ![s] = IF ok THEN "acknowledging" ELSE "rejected"]
      /\ UNCHANGED <<state, workVars, disposers, registrationTail, fin, expired, restarts>>

AcknowledgeReturns(ok) ==
  /\ Answer("cancellation.acknowledged", FALSE, ok, <<>>)
  /\ cancellations' = [cancellations EXCEPT ![Subject] = IF ok THEN "resolved" ELSE "rejected"]
  /\ UNCHANGED <<state, scopes, workVars, disposers, registrationTail, fin, expired, restarts>>

-----------------------------------------------------------------------------
(* Finalization: one pass through performFinalization, never repeated.  A   *)
(* failed append rejects it, and the coordinator stays FINALIZING.          *)

TimedOut == fin.slowOperations \/ fin.slowDisposers

Advance(pc)     == fin' = [fin EXCEPT !.pc = pc]
AdvanceIf(ok, pc) == Advance(IF ok THEN pc ELSE "rejected")

\* The finalizer acts on its own, on its local variables and the queue.
OnlyFinalizer == UNCHANGED <<log, faults, state, scopes, workVars, disposers, registrationTail,
                             cancellations, expired, restarts>>

finalize(want) ==
  /\ state \notin {"TERMINAL", "DOWN"}
  /\ fin.pc = "none"
  /\ state' = "FINALIZING"
  /\ fin' = [fin EXCEPT !.pc = "starting", !.want = want]
  /\ Send(Entry("finalization.started", Run, "none", TRUE))
  /\ UNCHANGED <<log, faults, scopes, workVars, disposers, registrationTail, cancellations,
                 expired, restarts>>

Expire ==
  /\ fin.pc # "none" /\ ~expired
  /\ expired' = TRUE
  /\ UNCHANGED <<ledgerVars, state, scopes, workVars, disposers, registrationTail, cancellations,
                 fin, restarts>>

\* Storage that outlasts the marker's own window counts as one of the faults.
StartWindowExpires ==
  /\ fin.pc = "starting" /\ expired
  /\ faults < MaxFaults /\ faults' = faults + 1
  /\ Advance("rejected")
  /\ UNCHANGED <<log, queue, state, scopes, workVars, disposers, registrationTail, cancellations,
                 expired, restarts>>

FinalizationStartReturns(ok) ==
  /\ Answer("finalization.started", TRUE, ok, <<>>)
  /\ AdvanceIf(ok /\ fin.pc = "starting", "registrations")
  /\ UNCHANGED <<state, scopes, workVars, disposers, registrationTail, cancellations, expired,
                 restarts>>

AwaitRegistrations ==
  /\ fin.pc = "registrations"
  /\ \/ registrationTail = <<>> /\ Advance("operations")
     \/ registrationTail # <<>> /\ expired /\ Advance("rejected")
  /\ OnlyFinalizer /\ UNCHANGED queue

\* Mutation of OperationsSettle: nobody waits for the operations.
OperationsSettle_NoWait ==
  /\ fin.pc = "operations"
  /\ Advance("disposing")
  /\ OnlyFinalizer /\ UNCHANGED queue

OperationsSettle ==
  /\ fin.pc = "operations" /\ Active = {}
  /\ Advance("disposing")
  /\ OnlyFinalizer /\ UNCHANGED queue

\* Mutation of OperationsTimeOut: the unresolved operations are not counted.
OperationsTimeOut_Uncounted ==
  /\ fin.pc = "operations" /\ Active # {} /\ expired
  /\ Advance("cancelling")
  /\ \/ cancelScope(Root)
     \/ cancellations[Root] # "none" /\ UNCHANGED <<queue, state, cancellations>>
  /\ UNCHANGED <<log, faults, scopes, workVars, disposers, registrationTail, expired, restarts>>

\* Past the deadline the root is cancelled, unless it already was.
OperationsTimeOut ==
  /\ fin.pc = "operations" /\ Active # {} /\ expired
  /\ fin' = [fin EXCEPT !.pc = "cancelling", !.slowOperations = TRUE]
  /\ \/ cancelScope(Root)
     \/ cancellations[Root] # "none" /\ UNCHANGED <<queue, state, cancellations>>
  /\ UNCHANGED <<log, faults, scopes, workVars, disposers, registrationTail, expired, restarts>>

\* Mutation of FenceOperations: a rejected cancellation is awaited forever.
FenceOperations_OnlyResolved ==
  /\ fin.pc = "cancelling"
  /\ cancellations[Root] = "resolved"
  /\ Advance("disposing")
  /\ fenced' = fenced \cup Active
  /\ UNCHANGED <<ledgerVars, state, scopes, operations, disposers, registrationTail,
                 cancellations, expired, restarts>>

\* Once the cancellation has settled, what still runs is fenced.
FenceOperations ==
  /\ fin.pc = "cancelling"
  /\ cancellations[Root] \in {"resolved", "rejected"}
  /\ AdvanceIf(cancellations[Root] = "resolved", "disposing")
  /\ fenced' = IF cancellations[Root] = "resolved" THEN fenced \cup Active ELSE fenced
  /\ UNCHANGED <<ledgerVars, state, scopes, operations, disposers, registrationTail,
                 cancellations, expired, restarts>>

Ready == {d \in Disposers : disposers[d].status = "registered"}

\* Children before parents, and within a depth the last registered first.
Before(d, x) ==
  LET depth(y) == scopeDepth(DisposerScope[y])
  IN  \/ depth(d) > depth(x)
      \/ depth(d) = depth(x) /\ disposers[d].ordinal > disposers[x].ordinal

\* Mutation of DisposeNext: the disposers run unsorted.
DisposeNext_Unsorted ==
  /\ fin.pc = "disposing"
  /\ \E d \in Ready : Send(Entry("disposer.started", d, "none", TRUE))
  /\ Advance("starting_disposer")
  /\ OnlyFinalizer

\* Sorting asks for the depth of every scope, and throws for one that is gone.
DisposeNext ==
  /\ fin.pc = "disposing"
  /\ \/ /\ Cardinality(Registered) > 1
        /\ \E d \in Registered : ~isDescendantOrSelf(DisposerScope[d], Root)
        /\ Advance("rejected") /\ UNCHANGED queue
     \/ /\ Cardinality(Registered) > 1 =>
             \A d \in Registered : isDescendantOrSelf(DisposerScope[d], Root)
        /\ \E d \in Ready :
             /\ \A x \in Ready \ {d} : Before(d, x)
             /\ Send(Entry("disposer.started", d, "none", TRUE))
        /\ Advance("starting_disposer")
  /\ OnlyFinalizer

DisposerStartReturns(ok) ==
  /\ Answer("disposer.started", TRUE, ok, <<>>)
  /\ disposers' = [disposers EXCEPT ![Subject].status = IF ok THEN "started" ELSE @]
  /\ AdvanceIf(ok, "handling")
  /\ UNCHANGED <<state, scopes, workVars, registrationTail, cancellations, expired, restarts>>

\* The trusted handler resolves or rejects, or the deadline comes first.
HandlerEnds(how) ==
  /\ fin.pc = "handling"
  /\ how = "timed_out" => expired
  /\ fin' = [fin EXCEPT !.pc = "settling_disposer",
                        !.slowDisposers = @ \/ how = "timed_out",
                        !.failedDisposers = @ \/ how = "failed"]
  /\ \E d \in Disposers :
       /\ disposers[d].status = "started"
       /\ disposers' = [disposers EXCEPT ![d].status =
                          IF how = "timed_out" THEN "timed_out" ELSE "settled"]
       /\ Send(Entry("disposer.settled", d, how, TRUE))
  /\ UNCHANGED <<log, faults, state, scopes, workVars, registrationTail, cancellations, expired,
                 restarts>>

DisposerSettleReturns(ok) ==
  /\ Answer("disposer.settled", TRUE, ok, <<>>)
  /\ AdvanceIf(ok, "disposing")
  /\ UNCHANGED <<state, scopes, workVars, disposers, registrationTail, cancellations, expired,
                 restarts>>

effectiveOutcome ==
  IF TimedOut THEN "timed_out"
  ELSE IF fin.failedDisposers \/ fin.want = "failed" THEN "failed"
  ELSE IF cancellations[Root] # "none" \/ fin.want = "cancelled" THEN "cancelled"
  ELSE "completed"

BeginClosing ==
  /\ fin.pc = "disposing" /\ Ready = {}
  /\ LET open == {s \in Scopes : Open(s)}
     IN  IF Cardinality(open) > 1 /\ \E s \in open : ~isDescendantOrSelf(s, Root)
           THEN Advance("rejected")
           ELSE fin' = [fin EXCEPT !.pc = "closing", !.outcome = effectiveOutcome,
                                   !.toClose = open]
  /\ OnlyFinalizer /\ UNCHANGED queue

\* Deepest first, whatever became of the scope since it was listed.
CloseNext ==
  /\ fin.pc = "closing"
  /\ \E s \in fin.toClose :
       /\ \A x \in fin.toClose : scopeDepth(x) <= scopeDepth(s)
       /\ Send([Entry("scope.closed", s, fin.outcome, TRUE)
                  EXCEPT !.causes = {scopes[s].openedEventId}])
  /\ Advance("closing_scope")
  /\ OnlyFinalizer

FinalCloseReturns(ok) ==
  /\ Answer("scope.closed", TRUE, ok, <<>>)
  /\ scopes' = [scopes EXCEPT ![Subject].status = IF ok THEN "closed" ELSE @]
  /\ fin' = [fin EXCEPT !.pc = IF ok THEN "closing" ELSE "rejected",
                        !.toClose = @ \ {Subject}]
  /\ UNCHANGED <<state, workVars, disposers, registrationTail, cancellations, expired, restarts>>

flushAppends ==
  /\ fin.pc = "closing" /\ fin.toClose = {}
  /\ Send(Entry("flush", Run, "none", TRUE))
  /\ Advance("flushing")
  /\ OnlyFinalizer

FlushReturns ==
  /\ queue # <<>> /\ Head(queue).kind = "flush"
  /\ queue' = Tail(queue)
  /\ IF fin.pc = "flushing"
       THEN /\ fin' = [fin EXCEPT !.pc = "tip", !.quiescence =
                         IF ~TimedOut /\ \A s \in Scopes : ~Open(s)
                           THEN "confirmed" ELSE "not_confirmed"]
            /\ UNCHANGED state
       ELSE /\ Advance("done")
            /\ state' = "TERMINAL"
  /\ UNCHANGED <<log, faults, scopes, workVars, disposers, registrationTail, cancellations,
                 expired, restarts>>

\* Reading the tip beside an append of another task may find HEAD.json ahead
\* of the files it listed, and then fails (TrajectoryLedger!CompareHead).
ReadTip ==
  /\ fin.pc = "tip"
  /\ \/ /\ fin' = [fin EXCEPT !.pc = "receipt", !.tip = Len(log)]
        /\ UNCHANGED faults
     \/ /\ queue # <<>>
        /\ Advance("rejected") /\ UNCHANGED faults
     \/ /\ faults < MaxFaults /\ faults' = faults + 1
        /\ Advance("rejected")
  /\ UNCHANGED <<log, queue, state, scopes, workVars, disposers, registrationTail, cancellations,
                 expired, restarts>>

SendReceipt ==
  /\ fin.pc = "receipt"
  /\ Send([Entry("finalization.receipt", Run, fin.quiescence, TRUE) EXCEPT !.expect = fin.tip])
  /\ Advance("sealing")
  /\ OnlyFinalizer

ReceiptReturns(ok) ==
  /\ Answer("finalization.receipt", TRUE, ok,
            IF ok THEN <<Entry("trajectory.terminal", Run, fin.outcome, TRUE)>> ELSE <<>>)
  /\ AdvanceIf(ok, "terminal")
  /\ UNCHANGED <<state, scopes, workVars, disposers, registrationTail, cancellations, expired,
                 restarts>>

TerminalReturns(ok) ==
  /\ Answer("trajectory.terminal", TRUE, ok,
            IF ok THEN <<Entry("flush", Run, "none", TRUE)>> ELSE <<>>)
  /\ AdvanceIf(ok, "last_flush")
  /\ UNCHANGED <<state, scopes, workVars, disposers, registrationTail, cancellations, expired,
                 restarts>>

-----------------------------------------------------------------------------
(* The process dies with everything but the ledger; a later one may recover *)
(* the trajectory from a checkpoint that binds the current tip.             *)

Crash ==
  /\ state # "DOWN" /\ restarts < MaxRestarts
  /\ state' = "DOWN"
  /\ restarts' = restarts + 1
  /\ queue' = <<>>
  /\ scopes' = [s \in Scopes |-> Absent]
  /\ operations' = [o \in Operations |-> "idle"]
  /\ fenced' = {}
  /\ disposers' = [d \in Disposers |-> [status |-> "absent", ordinal |-> 0]]
  /\ registrationTail' = <<>>
  /\ cancellations' = [s \in Scopes |-> "none"]
  /\ fin' = NoFinalization
  /\ expired' = FALSE
  /\ UNCHANGED <<log, faults>>

Recorded(kind, subject) == \E i \in DOMAIN log : log[i].kind = kind /\ log[i].subject = subject

\* The last event that opened scope s.
OpeningOf(s) ==
  CHOOSE i \in DOMAIN log :
    /\ log[i].kind = "scope.opened" /\ log[i].subject = s
    /\ \A j \in (i + 1)..Len(log) : ~(log[j].kind = "scope.opened" /\ log[j].subject = s)

recover ==
  LET recovered == [Opened("trajectory.recovered", Run, NextEpoch(log))
                      EXCEPT !.id = Len(log) + 1, !.causes = {log[Len(log)].id}]
  IN
  /\ state = "DOWN"
  /\ ~Terminated(log)
  /\ PendingDisposers(log) = {} /\ ActiveOperations(log) = {}
  /\ ~Has(log, "cancellation.requested") /\ ~Has(log, "finalization.started")
  /\ OpenScopes(log) = {Root}
  /\ Verdict(log, recovered, Len(log)) = "append"
  /\ log' = Extend(log, recovered)
  /\ state' = "ACTIVE"
  /\ scopes' = [s \in Scopes |->
                  IF Recorded("scope.opened", s)
                    THEN [Absent EXCEPT
                            !.status = IF Recorded("scope.closed", s) THEN "closed" ELSE "open",
                            !.openedEventId = log[OpeningOf(s)].id]
                    ELSE Absent]
  /\ operations' = [o \in Operations |->
                      IF Recorded("operation.started", o) THEN "done" ELSE "idle"]
  /\ UNCHANGED <<queue, faults, fenced, disposers, registrationTail, cancellations, fin, expired,
                 restarts>>

-----------------------------------------------------------------------------

\* The ledger answers an append and its task goes on.
Answered ==
  \E ok \in BOOLEAN :
    \/ OpenScopeReturns(ok) \/ CloseScopeReturns(ok) \/ RegisterReturns(ok)
    \/ StartReturns(ok) \/ SettleReturns(ok) \/ CancelReturns(ok) \/ AcknowledgeReturns(ok)
    \/ FinalizationStartReturns(ok) \/ DisposerStartReturns(ok) \/ DisposerSettleReturns(ok)
    \/ FinalCloseReturns(ok) \/ ReceiptReturns(ok) \/ TerminalReturns(ok)

Serve == Link \/ Answered \/ FlushReturns

\* Steps the finalizer takes on its own.
Finalizing ==
  \/ AwaitRegistrations \/ OperationsSettle \/ OperationsTimeOut \/ FenceOperations
  \/ DisposeNext \/ BeginClosing \/ CloseNext \/ flushAppends \/ ReadTip \/ SendReceipt
  \/ HandlerEnds("timed_out")

Requested ==
  \/ \E s \in Scopes : OpenScope(s) \/ CloseScope(s)
  \/ \E s \in Cancellable : Cancel(s)
  \/ \E d \in Disposers : RegisterDisposer(d)
  \/ \E o \in Operations : runOperation(o)
  \/ \E want \in Wants : finalize(want)

Handled ==
  \/ \E o \in Operations : HandlerReturns(o) \/ HandlerThrows(o)
  \/ \E how \in {"completed", "failed"} : HandlerEnds(how)

Next == \/ Requested \/ Handled \/ Serve \/ registerDisposerNow \/ Finalizing
        \/ Expire \/ StartWindowExpires \/ Crash \/ recover

Safe == Init /\ [][Next]_vars

\* The ledger answers, timers fire, and the finalizer and the registrations
\* take their turns.  No handler has to return.
Spec == Safe /\ WF_vars(Serve) /\ WF_vars(registerDisposerNow) /\ WF_vars(Finalizing)
             /\ WF_vars(Expire)

-----------------------------------------------------------------------------
(* Properties.                                                             *)

TypeOK ==
  /\ log \in Seq(Event)
  /\ faults \in 0..MaxFaults /\ restarts \in 0..MaxRestarts
  /\ state \in {"ACTIVE", "CANCELLING", "FINALIZING", "TERMINAL", "DOWN"}
  /\ scopes \in [Scopes -> [status : {"absent", "open", "closed"}, openedEventId : EventIds,
                            aborted : BOOLEAN]]
  /\ operations \in [Operations -> {"idle", "starting", "running", "settling",
                                    "recording_failure", "done"}]
  /\ fenced \subseteq Operations
  /\ disposers \in [Disposers -> [status : {"absent", "registered", "started", "settled",
                                            "timed_out"}, ordinal : Nat]]
  /\ registrationTail \in Seq(Disposers)
  /\ cancellations \in [Scopes -> {"none", "requesting", "acknowledging", "resolved", "rejected"}]
  /\ fin.pc = "rejected" => state = "FINALIZING"
  /\ expired \in BOOLEAN

\* Every operation on the ledger was started in a scope that stood open there.
\* The code breaks it when the opening of a scope is refused after an operation
\* was accepted in it; what follows is then not owed for that operation.
StartsInOpenScopes ==
  \A j \in DOMAIN log : log[j].kind = "operation.started" =>
     ScopeOf[log[j].subject] \in OpenScopes(SubSeq(log, 1, j - 1))

\* "Cancellation is persisted before abort propagation": a scope's signal is
\* aborted only under a durable request, whatever failed on the way.
AbortIsDurable ==
  \A s \in Scopes : scopes[s].aborted =>
     \E a \in Scopes : Beneath(s, a) /\ Recorded("cancellation.requested", a)

\* A cancellation that is on the ledger wins over every later result: no
\* operation under it is settled as completed after it.
NoCompletionAfterCancel ==
  StartsInOpenScopes => \A i, j \in DOMAIN log :
     /\ i < j
     /\ log[i].kind = "cancellation.requested"
     /\ log[j].kind = "operation.settled"
     /\ Beneath(ScopeOf[log[j].subject], log[i].subject)
     => log[j].claim # "completed"

\* "Disposers run child-before-parent and LIFO", and at most once each, even
\* when registrations or starts failed after they were durable, for as long
\* as the process that knows their order lives.
DisposalOrder ==
  state # "DOWN" => \A i, j \in DOMAIN log :
     i < j /\ log[i].kind = "disposer.started" /\ log[j].kind = "disposer.started" =>
       /\ log[i].subject # log[j].subject
       /\ Before(log[i].subject, log[j].subject)

\* A disposer never runs under a working operation: every operation has
\* settled by then, unless finalization has cancelled the root, or an I/O
\* error was reported for an event that is durable.
DisposersRunLast ==
  StartsInOpenScopes /\ faults = 0 => \A j \in DOMAIN log : log[j].kind = "disposer.started" =>
     LET before == SubSeq(log, 1, j - 1)
     IN  \/ ActiveOperations(before) = {}
         \/ \E i \in DOMAIN before : before[i].kind = "cancellation.requested"
                                   /\ before[i].subject = Root

\* "Only zero unresolved operations, scopes, and disposers may claim
\* confirmed": nothing stands open in the ledger a confirmed receipt ends,
\* unless an I/O error was reported for an event that is durable.
ConfirmedMeansQuiescent ==
  faults = 0 => \A i \in DOMAIN log :
     log[i].kind = "finalization.receipt" /\ log[i].claim = "confirmed" =>
       LET before == SubSeq(log, 1, i - 1)
       IN  OpenScopes(before) = {} /\ ActiveOperations(before) = {} /\ PendingDisposers(before) = {}

\* The same, owed only while no operation was started in a scope that was gone.
ConfirmedIsEarned == StartsInOpenScopes => ConfirmedMeansQuiescent

\* What the ledger still owes is in the coordinator's hands: whoever reads
\* the log alone never sees work the running process has forgotten, unless
\* finalization has given up on it or an I/O error hid what became durable.
AccountedFor ==
  StartsInOpenScopes /\ faults = 0 /\ state \notin {"DOWN", "TERMINAL"} =>
     /\ \A s \in OpenScopes(log) : Open(s)
     /\ ActiveOperations(log) \subseteq Active \cup fenced
     /\ \A d \in PendingDisposers(log) :
          \/ disposers[d].status \in {"registered", "started"}
          \/ \E i \in DOMAIN queue : queue[i].subject = d

\* Every finalization settles, although no operation or disposer need ever
\* return: the deadline and the ledger's answers are enough.
FinalizationSettles == fin.pc # "none" ~> fin.pc \in {"done", "rejected", "none"}

\* "while durable storage remains available, appends exactly one terminal
\* event".
FinalizationSeals == fin.pc # "none" ~> state = "TERMINAL"
=============================================================================
