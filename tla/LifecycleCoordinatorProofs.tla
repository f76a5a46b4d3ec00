---------------------- MODULE LifecycleCoordinatorProofs ----------------------
(***************************************************************************)
(* What holds of one lifecycle coordinator for every tree of scopes, every   *)
(* set of operations and disposers, every number of faults and crashes.     *)
(***************************************************************************)
EXTENDS LifecycleCoordinator, TrajectoryEventsProofs

\* A walk towards the root through the scopes of D that asks whether it meets a
\* is a function: the scopes from which it does are the least set with a that is
\* closed under children in D.
LEMMA WalkExists ==
  ASSUME NEW a \in Scopes, NEW D \in SUBSET Scopes
  PROVE  \E f : f = [y \in Scopes |-> y = a \/ (y \in D /\ y # Root /\ f[Parent[y]])]
<1> DEFINE Closed(T) == a \in T /\ \A z \in D \ {Root} : Parent[z] \in T => z \in T
           below == {y \in Scopes : \A T \in SUBSET Scopes : Closed(T) => y \in T}
           F == [y \in Scopes |-> y \in below]
<1>1. Root \in Scopes /\ \A z \in Scopes \ {Root} : Parent[z] \in Scopes
  BY TreeAssumption
<1>2. ASSUME NEW y \in Scopes
      PROVE  y \in below <=> (y = a \/ (y \in D /\ y # Root /\ Parent[y] \in below))
  <2>1. y = a => y \in below
    OBVIOUS
  <2>2. y \in D /\ y # Root /\ Parent[y] \in below => y \in below
    BY <1>1
  <2>3. y \in below => (y = a \/ (y \in D /\ y # Root /\ Parent[y] \in below))
    <3> DEFINE T == {z \in Scopes : z = a \/ (z \in D /\ z # Root /\ Parent[z] \in below)}
    <3>1. ASSUME NEW z \in D \ {Root}, Parent[z] \in T
          PROVE  Parent[z] \in below
      <4>1. Parent[z] = a => Parent[z] \in below
        BY <1>1
      <4>2. /\ Parent[z] \in D /\ Parent[z] # Root /\ Parent[Parent[z]] \in below
            => Parent[z] \in below
        BY <1>1
      <4> QED
        BY <3>1, <4>1, <4>2
    <3>2. Closed(T)
      BY <3>1
    <3> QED
      BY <3>2
  <2> QED
    BY <2>1, <2>2, <2>3
<1> HIDE DEF below
<1>3. ASSUME NEW y \in Scopes
      PROVE  (y \in below) = (y = a \/ (y \in D /\ y # Root /\ F[Parent[y]]))
  <2>1. CASE y = Root
    BY <1>2, <2>1
  <2>2. CASE y # Root
    <3>1. F[Parent[y]] = (Parent[y] \in below)
      BY <1>1, <2>2
    <3>2. (y \in below) = (y = a \/ (y \in D /\ y # Root /\ Parent[y] \in below))
      BY <1>2
    <3> QED
      BY <3>1, <3>2, Zenon
  <2> QED
    BY <2>1, <2>2
<1>4. F = [y \in Scopes |-> y = a \/ (y \in D /\ y # Root /\ F[Parent[y]])]
  BY <1>3
<1> QED
  BY <1>4

\* So Beneath is what its recursion says.
LEMMA BeneathUp ==
  ASSUME NEW a \in Scopes, NEW x \in Scopes
  PROVE  Beneath(x, a) <=> (x = a \/ (x # Root /\ Beneath(Parent[x], a)))
<1> DEFINE IsUp(f) == f = [y \in Scopes |-> y = a \/ (y # Root /\ f[Parent[y]])]
           up == CHOOSE f : IsUp(f)
<1>1. PICK g : g = [y \in Scopes |-> y = a \/ (y \in Scopes /\ y # Root /\ g[Parent[y]])]
  BY WalkExists
<1>2. IsUp(g)
  <2>1. \A y \in Scopes : (y = a \/ (y \in Scopes /\ y # Root /\ g[Parent[y]]))
                          = (y = a \/ (y # Root /\ g[Parent[y]]))
    OBVIOUS
  <2>2. [y \in Scopes |-> y = a \/ (y \in Scopes /\ y # Root /\ g[Parent[y]])]
          = [y \in Scopes |-> y = a \/ (y # Root /\ g[Parent[y]])]
    BY <2>1
  <2> QED
    BY <1>1, <2>2, Zenon
<1>3. IsUp(up)
  BY <1>2
<1>4. \A y \in Scopes : Beneath(y, a) = up[y]
  BY DEF Beneath
<1> HIDE DEF up
<1>5. up[x] = (x = a \/ (x # Root /\ up[Parent[x]]))
  BY <1>3
<1>6. x # Root => Parent[x] \in Scopes
  BY TreeAssumption
<1>7. CASE x = Root
  BY <1>4, <1>5, <1>7
<1>8. CASE x # Root
  BY <1>4, <1>5, <1>6, <1>8
<1> QED
  BY <1>7, <1>8

\* And so is Reaches, whatever scopes are present.
LEMMA ReachesUp ==
  ASSUME NEW a \in Scopes, NEW x \in Scopes
  PROVE  Reaches(x, a) <=> (x = a \/ (Present(x) /\ x # Root /\ Reaches(Parent[x], a)))
<1> DEFINE IsUp(f) == f = [y \in Scopes |-> y = a \/ (Present(y) /\ y # Root /\ f[Parent[y]])]
           up == CHOOSE f : IsUp(f)
           D == {y \in Scopes : Present(y)}
<1>1. PICK g : g = [y \in Scopes |-> y = a \/ (y \in D /\ y # Root /\ g[Parent[y]])]
  <2>1. D \in SUBSET Scopes
    OBVIOUS
  <2> HIDE DEF D
  <2> QED
    BY <2>1, WalkExists
<1>2. IsUp(g)
  <2>1. \A y \in Scopes : (y = a \/ (y \in D /\ y # Root /\ g[Parent[y]]))
                          = (y = a \/ (Present(y) /\ y # Root /\ g[Parent[y]]))
    OBVIOUS
  <2>2. [y \in Scopes |-> y = a \/ (y \in D /\ y # Root /\ g[Parent[y]])]
          = [y \in Scopes |-> y = a \/ (Present(y) /\ y # Root /\ g[Parent[y]])]
    BY <2>1
  <2> QED
    BY <1>1, <2>2, Zenon
<1>3. IsUp(up)
  BY <1>2
<1>4. \A y \in Scopes : Reaches(y, a) = up[y]
  BY DEF Reaches
<1> HIDE DEF up
<1>5. up[x] = (x = a \/ (Present(x) /\ x # Root /\ up[Parent[x]]))
  BY <1>3
<1>6. x # Root => Parent[x] \in Scopes
  BY TreeAssumption
<1>7. CASE x = Root
  BY <1>4, <1>5, <1>7
<1>8. CASE x # Root
  BY <1>4, <1>5, <1>6, <1>8
<1> QED
  BY <1>7, <1>8

\* Induction over the tree: what a scope passes on to its children and the root
\* has, every scope has.
LEMMA TreeInduction ==
  ASSUME NEW H \in SUBSET Scopes, Root \in H,
         \A s \in Scopes \ {Root} : Parent[s] \in H => s \in H
  PROVE  H = Scopes
<1> DEFINE S == Scopes \ H
<1>1. S \in SUBSET (Scopes \ {Root}) /\ \A s \in S : Parent[s] \in Scopes
  BY TreeAssumption
<1>2. \A s \in S : Parent[s] \in S
  BY <1>1
<1>3. S = {}
  BY <1>1, <1>2, TreeAssumption
<1> QED
  BY <1>3

\* A present scope whose ancestors are all present reaches whatever it is beneath.
LEMMA PresentReach ==
  ASSUME NEW P \in SUBSET Scopes,
         \A s \in P : Present(s) /\ (s # Root => Parent[s] \in P),
         NEW x \in P, NEW a \in Scopes, Beneath(x, a)
  PROVE  isDescendantOrSelf(x, a)
<1> DEFINE H == {s \in Scopes : s \in P /\ Beneath(s, a) => Reaches(s, a) /\ Present(a)}
<1>1. Root \in H
  <2>1. Root \in Scopes
    BY TreeAssumption
  <2>2. Beneath(Root, a) => Root = a
    BY <2>1, BeneathUp
  <2>3. Root = a => Reaches(Root, a)
    BY <2>1, ReachesUp
  <2> QED
    BY <2>1, <2>2, <2>3
<1>2. ASSUME NEW s \in Scopes \ {Root}, Parent[s] \in H
      PROVE  s \in H
  <2> SUFFICES ASSUME s \in P, Beneath(s, a) PROVE Reaches(s, a) /\ Present(a)
    OBVIOUS
  <2>1. CASE s = a
    BY <2>1, ReachesUp
  <2>2. CASE s # a
    <3>1. Beneath(Parent[s], a)
      BY <2>2, BeneathUp
    <3>2. Reaches(Parent[s], a) /\ Present(a)
      BY <1>2, <3>1
    <3> QED
      BY <3>2, ReachesUp
  <2> QED
    BY <2>1, <2>2
<1>3. x \in H
  BY <1>1, <1>2, TreeInduction
<1> QED
  BY <1>3 DEF isDescendantOrSelf

-----------------------------------------------------------------------------
(* The inductive invariant.                                                *)

\* Where the finalizer is past registrations, operations and disposers.
PastDisposal == {"closing", "closing_scope", "flushing", "tip", "receipt", "sealing",
                 "terminal", "last_flush", "done"}
PastOperations == {"disposing", "starting_disposer", "handling", "settling_disposer"}
                  \cup PastDisposal
PastRegistrations == {"operations", "cancelling"} \cup PastOperations
Pcs == {"none", "starting", "registrations", "rejected"} \cup PastRegistrations

\* The local variables of performFinalization.
FinType == [pc : Pcs, want : Claims, slowOperations : BOOLEAN, slowDisposers : BOOLEAN,
            failedDisposers : BOOLEAN, outcome : Claims, toClose : SUBSET Scopes,
            quiescence : Claims, tip : Tips \cup {NoTip}]

\* The fields of a queued append.
EntryFields == [kind : Kinds \cup {"flush"}, subject : Subjects, causes : SUBSET EventIds,
                claim : Claims, expect : Tips \cup {NoTip}, final : BOOLEAN, linked : BOOLEAN]

\* The subject of an event or an entry is of the sort its kind says.
Apt(e) ==
  /\ e.kind \in ScopeKinds \cup CancelKinds => e.subject \in Scopes
  /\ e.kind \in OperationKinds => e.subject \in Operations
  /\ e.kind \in DisposerKinds => e.subject \in Disposers

\* Only scope events name causes, only a receipt expects a tip.
EntryType == {e \in EntryFields :
                /\ Apt(e)
                /\ e.kind \notin ScopeKinds => e.causes = {}
                /\ e.kind # "finalization.receipt" => e.expect = NoTip
                /\ e.kind \notin {"trajectory.opened", "trajectory.recovered"}}

\* The types, those the model leaves to its actions included.
TypeInv ==
  /\ TypeOK
  /\ queue \in Seq(EntryType)
  /\ fin \in FinType
  /\ \A i \in DOMAIN log : Apt(log[i])
  /\ IsFiniteSet(Registered)

\* The log: ids are positions, the root opened once, parents opened first, and room
\* for what is owed.
LogInv ==
  /\ Len(log) >= 2
  /\ \A i \in DOMAIN log : log[i].id = i
  /\ log[1].kind = "trajectory.opened"
  /\ log[2].kind = "scope.opened" /\ log[2].subject = Root
  /\ \A i \in DOMAIN log : log[i].kind = "scope.opened" /\ log[i].subject = Root => i = 2
  /\ \A s \in Scopes \ {Root} :
       Recorded("scope.opened", s) => Recorded("scope.opened", Parent[s])
  /\ Has(log, "disposer.started") => Has(log, "finalization.started")
  /\ Len(log) <= MaxEvents
  /\ Reserve(log)

\* What the finalizer's position says of the rest of the coordinator.
PhaseInv ==
  /\ fin.pc = "none" <=> state \in {"ACTIVE", "CANCELLING", "DOWN"}
  /\ fin.pc = "done" <=> state = "TERMINAL"
  /\ fin.pc \in {"registrations"} \cup PastRegistrations => Has(log, "finalization.started")
  /\ fin.pc \in PastRegistrations => registrationTail = <<>>
  /\ Has(log, "disposer.started") /\ state # "DOWN" => fin.pc # "none" /\ registrationTail = <<>>
  /\ fin.pc = "cancelling" => fin.slowOperations
  /\ fin.pc \in PastOperations => Active \subseteq fenced
  /\ fenced # {} => fin.slowOperations /\ Recorded("cancellation.requested", Root)
  /\ \A d \in Disposers : disposers[d].status = "started" => fin.pc = "handling"
  /\ \A d, x \in Disposers :
       disposers[d].status = "started" /\ disposers[x].status = "started" => d = x
  /\ fin.pc \in PastDisposal => Ready = {}
  /\ fin.pc \in {"tip", "receipt", "sealing"} /\ fin.quiescence = "confirmed" =>
       ~TimedOut /\ \A s \in Scopes : ~Open(s)
  /\ Terminated(log) /\ state # "DOWN" =>
       \/ /\ fin.pc = "terminal" /\ queue # <<>>
          /\ Head(queue).linked /\ Head(queue).kind = "trajectory.terminal"
       \/ fin.pc \in {"last_flush", "done"}
       \/ fin.pc = "rejected" /\ faults > 0

\* A dead process keeps nothing but the ledger.
DownInv == state = "DOWN" =>
  /\ queue = <<>> /\ registrationTail = <<>> /\ fenced = {}
  /\ scopes = [s \in Scopes |-> Absent]
  /\ operations = [o \in Operations |-> "idle"]
  /\ \A d \in Disposers : disposers[d].status = "absent"
  /\ \A s \in Scopes : cancellations[s] = "none"

\* The opening of s is known to be durable.
Durable(s) == scopes[s].openedEventId # NoId

\* Where the finalizer waits for the answer to an event of its own.
FinalPc(kind) ==
  CASE kind = "disposer.started" -> "starting_disposer"
    [] kind = "disposer.settled" -> "settling_disposer"
    [] kind = "scope.closed" -> "closing_scope"
    [] kind = "finalization.receipt" -> "sealing"
    [] kind = "trajectory.terminal" -> "terminal"
    [] OTHER -> "none"

\* What an entry on the queue says of the task that waits for it.
AtFinalizer(e) ==
  /\ e.kind \in {"disposer.started", "disposer.settled", "flush"} \cup RunKinds => e.final
  /\ e.final =>
       \/ e.kind = "finalization.started" /\ fin.pc \in {"starting", "rejected"}
       \/ e.kind = "flush" /\ fin.pc \in {"flushing", "last_flush"}
       \/ /\ e.kind \in {"disposer.started", "disposer.settled", "scope.closed",
                         "finalization.receipt", "trajectory.terminal"}
          /\ fin.pc = FinalPc(e.kind)
  /\ e.kind = "finalization.receipt" => e.claim = fin.quiescence

\* An opening waits for a scope that is open but not known durable; no entry that
\* names the empty id as a cause becomes durable.
AtScope(e) ==
  /\ e.linked => NoId \notin e.causes
  /\ e.kind = "scope.opened" =>
       /\ e.subject # Root /\ Open(e.subject) /\ ~Durable(e.subject)
       /\ e.causes = {NoId} \/ Durable(Parent[e.subject])
  /\ e.kind = "scope.closed" => NoId \in e.causes \/ Durable(e.subject)

\* An operation waits for one answer at a time.
AtOperation(e) ==
  /\ e.kind = "operation.started" =>
       /\ operations[e.subject] = "starting"
       /\ ~e.linked => ~Recorded("operation.started", e.subject)
  /\ e.kind = "operation.settled" => operations[e.subject] \in {"settling", "recording_failure"}

\* The oldest registration waits for its answer, the finalizer for the others.
AtDisposer(e) ==
  /\ e.kind = "disposer.registered" =>
       /\ registrationTail # <<>> /\ e.subject = Head(registrationTail)
       /\ disposers[e.subject].status = "absent"
  /\ e.kind = "disposer.started" => disposers[e.subject].status = "registered"
  /\ e.kind = "disposer.settled" => disposers[e.subject].status \in {"settled", "timed_out"}

\* A request and its acknowledgement wait under a promise.
AtCancellation(e) ==
  /\ e.kind = "cancellation.requested" => cancellations[e.subject] # "none"
  /\ e.kind = "cancellation.acknowledged" =>
       cancellations[e.subject] # "none" /\ Recorded("cancellation.requested", e.subject)

\* Every entry finds its task where it waits.
Placed(e) == AtFinalizer(e) /\ AtScope(e) /\ AtOperation(e) /\ AtDisposer(e) /\ AtCancellation(e)

\* No two entries wait for the same answer.
Clash(e, f) ==
  \/ e.final /\ f.final
  \/ e.kind = "scope.opened" /\ f.kind = "scope.opened" /\ e.subject = f.subject
  \/ e.kind \in OperationKinds /\ f.kind \in OperationKinds /\ e.subject = f.subject
  \/ e.kind = "disposer.registered" /\ f.kind = "disposer.registered"

\* Only the oldest entry can be durable already, and it is the last event.
LinkedInv ==
  \A i \in DOMAIN queue : queue[i].linked =>
    /\ i = 1
    /\ log[Len(log)].kind = queue[i].kind /\ log[Len(log)].subject = queue[i].subject
    /\ log[Len(log)].claim = queue[i].claim

\* Every entry on the queue is placed.
PlacedInv == \A i \in DOMAIN queue : Placed(queue[i])

\* No two of them clash.
DistinctInv == \A i, j \in DOMAIN queue : i # j => ~Clash(queue[i], queue[j])

\* What is known durable is on the log, and parents are known durable first.
ScopeInv ==
  /\ \A s \in Scopes : Durable(s) => Present(s) /\ Recorded("scope.opened", s)
  /\ \A s \in Scopes \ {Root} : state # "DOWN" /\ Recorded("scope.opened", s) => Durable(Parent[s])
  /\ state # "DOWN" => Durable(Root)

\* What is idle was never started, and what works was.
OperationInv ==
  /\ \A o \in Operations :
       state # "DOWN" /\ operations[o] = "idle" => ~Recorded("operation.started", o)
  /\ \A o \in Operations :
       operations[o] \in {"running", "settling", "recording_failure"} =>
         Recorded("operation.started", o)

\* Requests on the log are known, and what was answered is on the log.
CancelInv ==
  /\ \A s \in Scopes :
       state # "DOWN" /\ Recorded("cancellation.requested", s) => cancellations[s] # "none"
  /\ \A s \in Scopes :
       cancellations[s] \in {"acknowledging", "resolved"} => Recorded("cancellation.requested", s)

\* No operation is settled as completed under a request that is durable or was
\* queued before.
CompletionInv == StartsInOpenScopes =>
  /\ NoCompletionAfterCancel
  /\ \A i \in DOMAIN queue :
       queue[i].kind = "operation.settled" /\ queue[i].claim = "completed" =>
         \A s \in Scopes : Beneath(ScopeOf[queue[i].subject], s) =>
           /\ ~Recorded("cancellation.requested", s)
           /\ \A j \in 1..(i - 1) :
                ~(queue[j].kind = "cancellation.requested" /\ queue[j].subject = s)

\* The oldest entry is durable and waits to be answered: kind and subject.
HeadIs(kind, s) ==
  queue # <<>> /\ Head(queue).linked /\ Head(queue).kind = kind /\ Head(queue).subject = s

\* What is ready was registered before everything that was started.
DisposalInv == state # "DOWN" =>
  /\ DisposalOrder
  /\ fin.pc # "rejected" => \A i \in DOMAIN log : log[i].kind = "disposer.started" =>
       \A x \in Ready :
         \/ x = log[i].subject /\ HeadIs("disposer.started", x)
         \/ x # log[i].subject /\ Before(log[i].subject, x)
  /\ \A i \in DOMAIN queue : queue[i].kind = "disposer.started" =>
       \A x \in Ready \ {queue[i].subject} : Before(queue[i].subject, x)

\* Scopes open on the log are open in the map, their openings known or about to be.
ScopesInv == faults = 0 /\ state \notin {"DOWN", "TERMINAL"} =>
  \A s \in OpenScopes(log) : Open(s) /\ (Durable(s) \/ HeadIs("scope.opened", s))

\* Disposers the log owes are registered, started or on the queue; a registration on
\* its way is not owed yet.
OwedInv == faults = 0 /\ state \notin {"DOWN", "TERMINAL"} =>
  /\ \A d \in PendingDisposers(log) :
       \/ disposers[d].status \in {"registered", "started"}
       \/ \E i \in DOMAIN queue : queue[i].kind \in DisposerKinds /\ queue[i].subject = d
  /\ \A i \in DOMAIN queue : queue[i].kind = "disposer.registered" /\ ~queue[i].linked =>
       queue[i].subject \notin PendingDisposers(log)

\* Operations the log owes are active or fenced; one that works has its scope.
WorkInv == faults = 0 /\ state \notin {"DOWN", "TERMINAL"} /\ StartsInOpenScopes =>
  /\ \A o \in Operations : operations[o] \in {"running", "settling", "recording_failure"} =>
       Durable(ScopeOf[o])
  /\ ActiveOperations(log) \subseteq Active \cup fenced

\* The inductive invariant.
IInv == /\ TypeInv /\ LogInv /\ PhaseInv /\ DownInv /\ LinkedInv /\ PlacedInv /\ DistinctInv
        /\ ScopeInv /\ OperationInv /\ CancelInv /\ AbortIsDurable /\ CompletionInv
        /\ DisposalInv /\ ScopesInv /\ OwedInv /\ WorkInv /\ DisposersRunLast
        /\ ConfirmedIsEarned

-----------------------------------------------------------------------------
(* The queue.                                                              *)

\* What Send and Answer do to a queue, position by position.
LEMMA AppendEntry ==
  ASSUME NEW T, NEW q \in Seq(T), NEW e \in T
  PROVE  /\ Append(q, e) \in Seq(T)
         /\ DOMAIN q = 1..Len(q) /\ Len(q) \in Nat
         /\ Len(Append(q, e)) = Len(q) + 1
         /\ DOMAIN Append(q, e) = 1..(Len(q) + 1)
         /\ \A i \in 1..Len(q) : Append(q, e)[i] = q[i]
         /\ Append(q, e)[Len(q) + 1] = e
BY AppendProperties, LenProperties

\* What Tail does to a queue, position by position.
LEMMA DropHead ==
  ASSUME NEW T, NEW q \in Seq(T), q # <<>>
  PROVE  /\ Tail(q) \in Seq(T)
         /\ Tail(q) \o <<>> = Tail(q)
         /\ Len(q) \in Nat \ {0} /\ DOMAIN q = 1..Len(q)
         /\ Head(q) = q[1] /\ q[1] \in T
         /\ Len(Tail(q)) = Len(q) - 1
         /\ DOMAIN Tail(q) = 1..(Len(q) - 1)
         /\ \A i \in 1..(Len(q) - 1) : Tail(q)[i] = q[i + 1]
BY HeadTailProperties, LenProperties, EmptySeq, ConcatEmptySeq, ElementOfSeq

\* And when the served task queues its next event.
LEMMA ReplaceHead ==
  ASSUME NEW T, NEW q \in Seq(T), q # <<>>, NEW e \in T
  PROVE  /\ Tail(q) \o <<e>> \in Seq(T)
         /\ Len(Tail(q) \o <<e>>) = Len(q)
         /\ DOMAIN (Tail(q) \o <<e>>) = 1..Len(q)
         /\ \A i \in 1..(Len(q) - 1) : (Tail(q) \o <<e>>)[i] = q[i + 1]
         /\ (Tail(q) \o <<e>>)[Len(q)] = e
<1>1. /\ Tail(q) \in Seq(T)
      /\ Len(q) \in Nat \ {0}
      /\ Len(Tail(q)) = Len(q) - 1
      /\ \A i \in 1..(Len(q) - 1) : Tail(q)[i] = q[i + 1]
  BY DropHead
<1>2. Tail(q) \o <<e>> = Append(Tail(q), e)
  BY <1>1, AppendIsConcat
<1> QED
  BY <1>1, <1>2, AppendEntry

\* And when the oldest entry becomes durable.
LEMMA LinkHead ==
  ASSUME NEW q \in Seq(EntryType), q # <<>>
  PROVE  LET r == [q EXCEPT ![1].linked = TRUE]
         IN  /\ r \in Seq(EntryType)
             /\ DOMAIN q = 1..Len(q) /\ Len(q) \in Nat \ {0}
             /\ Len(r) = Len(q)
             /\ DOMAIN r = 1..Len(q)
             /\ r[1] = [q[1] EXCEPT !.linked = TRUE]
             /\ \A i \in 2..Len(q) : r[i] = q[i]
<1> DEFINE e == [q[1] EXCEPT !.linked = TRUE]
<1>1. /\ Len(q) \in Nat \ {0} /\ DOMAIN q = 1..Len(q)
      /\ q[1] \in EntryType
  BY DropHead
<1>2. e \in EntryType
  BY <1>1 DEF EntryType, EntryFields, Apt
<1>3. [q EXCEPT ![1].linked = TRUE] = [q EXCEPT ![1] = e]
  OBVIOUS
<1> HIDE DEF e
<1> DEFINE r == [q EXCEPT ![1] = e]
<1>4. /\ r \in Seq(EntryType)
      /\ Len(r) = Len(q) /\ DOMAIN r = DOMAIN q
      /\ \A i \in 1..Len(q) : r[i] = IF i = 1 THEN e ELSE q[i]
  BY <1>1, <1>2, ExceptSeq
<1>5. r[1] = e /\ \A i \in 2..Len(q) : r[i] = q[i]
  BY <1>1, <1>4
<1> HIDE DEF r
<1>6. [q EXCEPT ![1].linked = TRUE] = r
  BY <1>3 DEF r
<1> QED
  BY <1>1, <1>4, <1>5, <1>6 DEF e

\* Entry e joins the queue in this step.
SentNow(e) ==
  \/ \E s \in Scopes :
       \/ /\ OpenScope(s)
          /\ e = [Entry("scope.opened", s, "none", FALSE)
                    EXCEPT !.causes = {scopes[Parent[s]].openedEventId}]
       \/ /\ CloseScope(s)
          /\ e = [Entry("scope.closed", s, "completed", FALSE)
                    EXCEPT !.causes = {scopes[s].openedEventId}]
       \/ /\ CloseNext /\ s \in fin.toClose
          /\ e = [Entry("scope.closed", s, fin.outcome, TRUE)
                    EXCEPT !.causes = {scopes[s].openedEventId}]
       \/ /\ cancelScope(s) /\ state # "DOWN"
          /\ e = Entry("cancellation.requested", s, "none", FALSE)
  \/ \E o \in Operations :
       \/ runOperation(o) /\ e = Entry("operation.started", o, "none", FALSE)
       \/ HandlerReturns(o) /\ MaySettle(o) /\ e = Settlement(o, "completed")
       \/ HandlerThrows(o) /\ MaySettle(o) /\ e = Settlement(o, "failed")
  \/ \E d \in Disposers :
       \/ /\ registerDisposerNow /\ d = Head(registrationTail) /\ disposers[d].status = "absent"
          /\ e = Entry("disposer.registered", d, "none", FALSE)
       \/ /\ DisposeNext /\ Advance("starting_disposer")
          /\ d \in Ready /\ \A x \in Ready \ {d} : Before(d, x)
          /\ e = Entry("disposer.started", d, "none", TRUE)
       \/ \E how \in {"completed", "failed", "timed_out"} :
            /\ HandlerEnds(how)
            /\ disposers[d].status = "started"
            /\ disposers' = [disposers EXCEPT ![d].status =
                               IF how = "timed_out" THEN "timed_out" ELSE "settled"]
            /\ e = Entry("disposer.settled", d, how, TRUE)
  \/ SettleReturns(FALSE) /\ operations[Subject] = "settling" /\ MaySettle(Subject)
     /\ e = Settlement(Subject, "failed")
  \/ CancelReturns(TRUE) /\ e = Entry("cancellation.acknowledged", Subject, "none", FALSE)
  \/ (\E want \in Wants : finalize(want)) /\ e = Entry("finalization.started", Run, "none", TRUE)
  \/ flushAppends /\ e = Entry("flush", Run, "none", TRUE)
  \/ SendReceipt /\ e = [Entry("finalization.receipt", Run, fin.quiescence, TRUE)
                           EXCEPT !.expect = fin.tip]
  \/ ReceiptReturns(TRUE) /\ e = Entry("trajectory.terminal", Run, fin.outcome, TRUE)
  \/ TerminalReturns(TRUE) /\ e = Entry("flush", Run, "none", TRUE)

\* The oldest entry leaves the queue in this step.
Served == Answered \/ FlushReturns

\* Every step but Link and Crash leaves the queue, adds an entry, or takes the
\* oldest one off and may add one.
LEMMA Queued ==
  ASSUME IInv, Next
  PROVE  \/ UNCHANGED queue
         \/ Link
         \/ Crash
         \/ \E e : SentNow(e) /\ queue' = Append(queue, e)
         \/ Served
<1> USE DEF SentNow, Send
<1>1. ASSUME NEW s \in Scopes, OpenScope(s) PROVE \E e : SentNow(e) /\ queue' = Append(queue, e)
  BY <1>1 DEF OpenScope
<1>2. ASSUME NEW s \in Scopes, CloseScope(s) PROVE \E e : SentNow(e) /\ queue' = Append(queue, e)
  BY <1>2 DEF CloseScope
<1>3. ASSUME NEW s \in Scopes, cancelScope(s), state # "DOWN"
      PROVE  \E e : SentNow(e) /\ queue' = Append(queue, e)
  BY <1>3 DEF cancelScope
<1>4. ASSUME NEW s \in Cancellable, Cancel(s)
      PROVE  \E e : SentNow(e) /\ queue' = Append(queue, e)
  BY <1>3, <1>4, TreeAssumption DEF Cancel
<1>5. ASSUME OperationsTimeOut
      PROVE  \/ UNCHANGED queue
             \/ \E e : SentNow(e) /\ queue' = Append(queue, e)
  BY <1>3, <1>5, TreeAssumption DEF OperationsTimeOut, IInv, PhaseInv
<1>6. ASSUME NEW o \in Operations, runOperation(o)
      PROVE  \E e : SentNow(e) /\ queue' = Append(queue, e)
  BY <1>6 DEF runOperation
<1>7. ASSUME NEW o \in Operations, HandlerReturns(o) \/ HandlerThrows(o)
      PROVE  \/ UNCHANGED queue
             \/ \E e : SentNow(e) /\ queue' = Append(queue, e)
  BY <1>7 DEF HandlerReturns, HandlerThrows
<1>8. ASSUME registerDisposerNow
      PROVE  \/ UNCHANGED queue
             \/ \E e : SentNow(e) /\ queue' = Append(queue, e)
  <2>1. Head(registrationTail) \in Disposers
    <3>1. registrationTail \in Seq(Disposers) /\ registrationTail # <<>>
      BY <1>8 DEF registerDisposerNow, IInv, TypeInv, TypeOK
    <3> QED
      BY <3>1, DropHead
  <2> QED
    BY <1>8, <2>1 DEF registerDisposerNow
<1>9. ASSUME DisposeNext
      PROVE  \/ UNCHANGED queue
             \/ \E e : SentNow(e) /\ queue' = Append(queue, e)
  <2>1. CASE UNCHANGED queue
    BY <2>1
  <2>2. CASE ~UNCHANGED queue
    <3>1. PICK d \in Ready : /\ \A x \in Ready \ {d} : Before(d, x)
                             /\ Send(Entry("disposer.started", d, "none", TRUE))
                             /\ Advance("starting_disposer")
      BY <1>9, <2>2 DEF DisposeNext
    <3>2. d \in Disposers
      BY DEF Ready
    <3> QED
      BY <1>9, <3>1, <3>2
  <2> QED
    BY <2>1, <2>2
<1>10. ASSUME NEW how \in {"completed", "failed", "timed_out"}, HandlerEnds(how)
       PROVE  \E e : SentNow(e) /\ queue' = Append(queue, e)
  BY <1>10 DEF HandlerEnds
<1>11. ASSUME CloseNext
       PROVE  \E e : SentNow(e) /\ queue' = Append(queue, e)
  <2>1. fin.toClose \subseteq Scopes
    BY DEF IInv, TypeInv, FinType
  <2> QED
    BY <1>11, <2>1 DEF CloseNext
<1>12. ASSUME NEW want \in Wants, finalize(want)
       PROVE  \E e : SentNow(e) /\ queue' = Append(queue, e)
  BY <1>12 DEF finalize
<1>13. ASSUME flushAppends \/ SendReceipt
       PROVE  \E e : SentNow(e) /\ queue' = Append(queue, e)
  BY <1>13 DEF flushAppends, SendReceipt
<1> HIDE DEF SentNow, Send
<1> QED
  BY <1>1, <1>2, <1>4, <1>5, <1>6, <1>7, <1>8, <1>9, <1>10, <1>11, <1>12, <1>13
     DEF Next, Requested, Handled, Serve, Served, Finalizing, RegisterDisposer,
         AwaitRegistrations, OperationsSettle, FenceOperations, BeginClosing, ReadTip, Expire,
         StartWindowExpires, recover, ledgerVars

\* The oldest entry, when there is one.
LEMMA HeadOfQueue ==
  ASSUME IInv, queue # <<>>
  PROVE  /\ 1 \in DOMAIN queue /\ Head(queue) = queue[1] /\ Subject = queue[1].subject
         /\ queue[1] \in EntryType
         /\ queue[1].kind \in ScopeKinds \cup CancelKinds => Subject \in Scopes
         /\ queue[1].kind \in OperationKinds => Subject \in Operations
         /\ queue[1].kind \in DisposerKinds => Subject \in Disposers
         /\ Placed(queue[1])
<1>1. queue \in Seq(EntryType)
  BY DEF IInv, TypeInv
<1>2. /\ Len(queue) \in Nat \ {0} /\ DOMAIN queue = 1..Len(queue)
      /\ Head(queue) = queue[1] /\ queue[1] \in EntryType
  BY <1>1, DropHead
<1> QED
  BY <1>2 DEF IInv, PlacedInv, Subject, EntryType, Apt

\* What joins the queue is an entry.
LEMMA SentType ==
  ASSUME IInv, NEW e, SentNow(e)
  PROVE  e \in EntryType
<1> USE DEF Entry
<1>1. /\ scopes \in [Scopes -> [status : {"absent", "open", "closed"}, openedEventId : EventIds,
                               aborted : BOOLEAN]]
      /\ fin \in FinType
  BY DEF IInv, TypeInv, TypeOK
<1>2. \A s \in Scopes : {scopes[s].openedEventId} \in SUBSET EventIds
  BY <1>1
<1>3. /\ Scopes \subseteq Subjects /\ Operations \subseteq Subjects
      /\ Disposers \subseteq Subjects /\ Run \in Subjects
      /\ Parent \in [Scopes \ {Root} -> Scopes]
  BY TreeAssumption
<1>4. ASSUME NEW kind \in (Kinds \cup {"flush"})
                          \ (ScopeKinds \cup {"trajectory.opened", "trajectory.recovered"}),
             NEW subject \in Subjects, NEW claim \in Claims, NEW final \in BOOLEAN,
             kind \in CancelKinds => subject \in Scopes,
             kind \in OperationKinds => subject \in Operations,
             kind \in DisposerKinds => subject \in Disposers
      PROVE  Entry(kind, subject, claim, final) \in EntryType
  BY <1>4 DEF EntryType, EntryFields, Apt
<1>5. ASSUME NEW kind \in ScopeKinds, NEW s \in Scopes, NEW claim \in Claims,
             NEW final \in BOOLEAN, NEW c \in Scopes
      PROVE  [Entry(kind, s, claim, final) EXCEPT !.causes = {scopes[c].openedEventId}]
               \in EntryType
  BY <1>2, <1>3 DEF EntryType, EntryFields, Apt, ScopeKinds, OperationKinds, DisposerKinds,
                    CancelKinds, Kinds
<1>6. ASSUME NEW claim \in Claims, NEW tip \in Tips \cup {NoTip}
      PROVE  [Entry("finalization.receipt", Run, claim, TRUE) EXCEPT !.expect = tip]
               \in EntryType
  BY <1>3 DEF EntryType, EntryFields, Apt, ScopeKinds, OperationKinds, DisposerKinds, CancelKinds,
              Kinds, RunKinds
<1>7. ASSUME NEW o \in Operations, NEW verdict \in {"completed", "failed"}
      PROVE  Settlement(o, verdict) \in EntryType
  BY <1>3, <1>4 DEF Settlement, OperationKinds, ScopeKinds, CancelKinds, DisposerKinds, Kinds,
                    Claims
<1> HIDE DEF Entry
<1> USE DEF ScopeKinds, OperationKinds, DisposerKinds, CancelKinds, RunKinds, Kinds, Claims
<1>8. ASSUME NEW s \in Scopes, OpenScope(s),
             e = [Entry("scope.opened", s, "none", FALSE)
                    EXCEPT !.causes = {scopes[Parent[s]].openedEventId}]
      PROVE  e \in EntryType
  BY <1>3, <1>5, <1>8 DEF OpenScope
<1>9. fin.toClose \subseteq Scopes /\ fin.outcome \in Claims /\ fin.quiescence \in Claims
      /\ fin.tip \in Tips \cup {NoTip}
  BY <1>1 DEF FinType
<1>10. SettleReturns(FALSE) => Subject \in Operations
  BY HeadOfQueue DEF SettleReturns, Answer
<1>11. CancelReturns(TRUE) => Subject \in Scopes
  BY HeadOfQueue DEF CancelReturns, Answer
<1>12. ASSUME NEW s \in Scopes,
              \/ e = [Entry("scope.closed", s, "completed", FALSE)
                        EXCEPT !.causes = {scopes[s].openedEventId}]
              \/ e = [Entry("scope.closed", s, fin.outcome, TRUE)
                        EXCEPT !.causes = {scopes[s].openedEventId}]
       PROVE  e \in EntryType
  <2>1. "scope.closed" \in ScopeKinds /\ "completed" \in Claims
    OBVIOUS
  <2>2. [Entry("scope.closed", s, "completed", FALSE)
           EXCEPT !.causes = {scopes[s].openedEventId}] \in EntryType
    BY <1>5, <2>1
  <2>3. [Entry("scope.closed", s, fin.outcome, TRUE)
           EXCEPT !.causes = {scopes[s].openedEventId}] \in EntryType
    BY <1>5, <1>9, <2>1
  <2> QED
    BY <1>12, <2>2, <2>3
<1>13. ASSUME NEW o \in Operations, e = Entry("operation.started", o, "none", FALSE)
       PROVE  e \in EntryType
  BY <1>3, <1>4, <1>13
<1>14. ASSUME NEW d \in Disposers,
              \/ e = Entry("disposer.registered", d, "none", FALSE)
              \/ e = Entry("disposer.started", d, "none", TRUE)
              \/ \E how \in {"completed", "failed", "timed_out"} :
                   e = Entry("disposer.settled", d, how, TRUE)
       PROVE  e \in EntryType
  BY <1>3, <1>4, <1>14
<1>15. ASSUME NEW s \in Scopes,
              \/ e = Entry("cancellation.requested", s, "none", FALSE)
              \/ e = Entry("cancellation.acknowledged", s, "none", FALSE)
       PROVE  e \in EntryType
  BY <1>3, <1>4, <1>15
<1>16. ASSUME \/ e = Entry("finalization.started", Run, "none", TRUE)
              \/ e = Entry("flush", Run, "none", TRUE)
              \/ e = Entry("trajectory.terminal", Run, fin.outcome, TRUE)
       PROVE  e \in EntryType
  BY <1>3, <1>4, <1>9, <1>16
<1> HIDE DEF ScopeKinds, OperationKinds, DisposerKinds, CancelKinds, RunKinds, Kinds, Claims
<1> QED
  BY <1>6, <1>7, <1>8, <1>9, <1>10, <1>11, <1>12, <1>13, <1>14, <1>15, <1>16 DEF SentNow

\* The queue after this step: what was on it moves up by k, and at most one
\* entry joins.
Flow(k) ==
  /\ Len(queue) \in Nat /\ DOMAIN queue = 1..Len(queue)
  /\ Len(queue') \in Nat /\ DOMAIN queue' = 1..Len(queue')
  /\ \A i \in DOMAIN queue' :
       \/ i + k \in DOMAIN queue /\ queue'[i] = queue[i + k]
       \/ i + k = Len(queue) + 1 /\ SentNow(queue'[i])
  /\ \A i \in DOMAIN queue : i > k => i - k \in DOMAIN queue' /\ queue'[i - k] = queue[i]

\* A served queue moves up by one.
LEMMA FlowOnServe ==
  ASSUME IInv, Served
  PROVE  queue # <<>> /\ Flow(1) /\ queue' \in Seq(EntryType)
<1>1. queue \in Seq(EntryType)
  BY DEF IInv, TypeInv
<1>2. \/ queue # <<>> /\ queue' = Tail(queue)
      \/ queue # <<>> /\ queue' = Tail(queue) \o <<>>
      \/ queue # <<>> /\ \E e : SentNow(e) /\ queue' = Tail(queue) \o <<e>>
  <2>1. ASSUME NEW ok \in BOOLEAN, SettleReturns(ok)
        PROVE  \/ queue # <<>> /\ queue' = Tail(queue) \o <<>>
               \/ queue # <<>> /\ \E e : SentNow(e) /\ queue' = Tail(queue) \o <<e>>
    <3>1. CASE ~ok /\ operations[Subject] = "settling" /\ MaySettle(Subject)
      <4>1. queue' = Tail(queue) \o <<Settlement(Subject, "failed")>> /\ queue # <<>>
        BY <2>1, <3>1 DEF SettleReturns, Answer
      <4>2. SettleReturns(FALSE)
        BY <2>1, <3>1
      <4> QED
        BY <3>1, <4>1, <4>2 DEF SentNow
    <3>2. CASE ~(~ok /\ operations[Subject] = "settling" /\ MaySettle(Subject))
      BY <2>1, <3>2 DEF SettleReturns, Answer
    <3> QED
      BY <3>1, <3>2
  <2>2. ASSUME NEW ok \in BOOLEAN, CancelReturns(ok) \/ ReceiptReturns(ok) \/ TerminalReturns(ok)
        PROVE  \/ queue # <<>> /\ queue' = Tail(queue) \o <<>>
               \/ queue # <<>> /\ \E e : SentNow(e) /\ queue' = Tail(queue) \o <<e>>
    <3>1. CASE ok
      <4>1. CancelReturns(TRUE) \/ ReceiptReturns(TRUE) \/ TerminalReturns(TRUE)
        BY <2>2, <3>1
      <4>2. /\ queue # <<>>
            /\ \/ /\ queue' = Tail(queue)
                              \o <<Entry("cancellation.acknowledged", Subject, "none", FALSE)>>
                  /\ CancelReturns(TRUE)
               \/ /\ queue' = Tail(queue)
                              \o <<Entry("trajectory.terminal", Run, fin.outcome, TRUE)>>
                  /\ ReceiptReturns(TRUE)
               \/ /\ queue' = Tail(queue) \o <<Entry("flush", Run, "none", TRUE)>>
                  /\ TerminalReturns(TRUE)
        BY <4>1 DEF CancelReturns, ReceiptReturns, TerminalReturns, Answer
      <4> QED
        BY <4>2 DEF SentNow
    <3>2. CASE ~ok
      BY <2>2, <3>2 DEF CancelReturns, ReceiptReturns, TerminalReturns, Answer
    <3> QED
      BY <3>1, <3>2
  <2> QED
    BY <2>1, <2>2 DEF Served, Answered, FlushReturns, OpenScopeReturns, CloseScopeReturns,
       RegisterReturns, StartReturns, AcknowledgeReturns, FinalizationStartReturns,
       DisposerStartReturns, DisposerSettleReturns, FinalCloseReturns, Answer
<1>3. queue # <<>>
  BY <1>2
<1>4. CASE queue' = Tail(queue)
  BY <1>1, <1>3, <1>4, DropHead DEF Flow
<1>5. CASE \E e : SentNow(e) /\ queue' = Tail(queue) \o <<e>>
  <2>1. PICK e : SentNow(e) /\ queue' = Tail(queue) \o <<e>>
    BY <1>5
  <2>2. e \in EntryType
    BY <2>1, SentType
  <2>3. /\ queue' \in Seq(EntryType)
        /\ Len(queue) \in Nat \ {0} /\ DOMAIN queue = 1..Len(queue)
        /\ Len(queue') = Len(queue)
        /\ DOMAIN queue' = 1..Len(queue)
        /\ \A i \in 1..(Len(queue) - 1) : queue'[i] = queue[i + 1]
        /\ queue'[Len(queue)] = e
    BY <1>1, <1>3, <2>1, <2>2, ReplaceHead, DropHead
  <2>4. Len(queue) \in Nat \ {0}
    BY <2>3
  <2>5. ASSUME NEW i \in 1..Len(queue)
        PROVE  \/ i + 1 \in DOMAIN queue /\ queue'[i] = queue[i + 1]
               \/ i + 1 = Len(queue) + 1 /\ SentNow(queue'[i])
    <3>1. CASE i = Len(queue)
      <4>1. queue'[i] = e
        BY <2>3, <3>1
      <4> QED
        BY <2>1, <2>4, <3>1, <4>1
    <3>2. CASE i # Len(queue)
      <4>1. i \in 1..(Len(queue) - 1) /\ i + 1 \in 1..Len(queue)
        BY <2>4, <3>2
      <4> QED
        BY <2>3, <4>1
    <3> QED
      BY <3>1, <3>2
  <2>6. \A i \in DOMAIN queue : i > 1 => i - 1 \in DOMAIN queue' /\ queue'[i - 1] = queue[i]
    BY <2>3
  <2> QED
    BY <1>3, <2>3, <2>5, <2>6 DEF Flow
<1> QED
  BY <1>1, <1>2, <1>3, <1>4, <1>5, DropHead

\* Every other step but Link and Crash leaves the queued entries in place.
LEMMA FlowOfStep ==
  ASSUME IInv, Next
  PROVE  /\ \/ Crash \/ Link \/ Served
            \/ Flow(0)
         /\ queue' \in Seq(EntryType)
<1>1. queue \in Seq(EntryType)
  BY DEF IInv, TypeInv
<1>2. Len(queue) \in Nat /\ DOMAIN queue = 1..Len(queue)
  BY <1>1, LenProperties
<1>3. CASE UNCHANGED queue
  BY <1>1, <1>2, <1>3 DEF Flow
<1>4. CASE \E e : SentNow(e) /\ queue' = Append(queue, e)
  <2>1. PICK e : SentNow(e) /\ queue' = Append(queue, e)
    BY <1>4
  <2>2. e \in EntryType
    BY <2>1, SentType
  <2>3. /\ queue' \in Seq(EntryType)
        /\ Len(queue') = Len(queue) + 1
        /\ DOMAIN queue' = 1..(Len(queue) + 1)
        /\ \A i \in 1..Len(queue) : queue'[i] = queue[i]
        /\ queue'[Len(queue) + 1] = e
    BY <1>1, <2>1, <2>2, AppendEntry
  <2> QED
    BY <1>2, <2>1, <2>3 DEF Flow
<1>5. CASE Crash
  BY <1>5, EmptySeq DEF Crash
<1>6. CASE Link
  BY <1>1, <1>6, LinkHead DEF Link
<1>7. CASE Served
  BY <1>7, FlowOnServe
<1> QED
  BY <1>3, <1>4, <1>5, <1>6, <1>7, Queued

\* A final answer finds the finalizer where it waits for it.
LEMMA Awaited ==
  ASSUME IInv, NEW ok \in BOOLEAN
  PROVE  /\ FinalizationStartReturns(ok) => fin.pc \in {"starting", "rejected"}
         /\ DisposerStartReturns(ok) => fin.pc = "starting_disposer"
         /\ DisposerSettleReturns(ok) => fin.pc = "settling_disposer"
         /\ FinalCloseReturns(ok) => fin.pc = "closing_scope"
         /\ ReceiptReturns(ok) => fin.pc = "sealing"
         /\ TerminalReturns(ok) => fin.pc = "terminal"
         /\ FlushReturns => fin.pc \in {"flushing", "last_flush"}
<1>1. queue # <<>> => AtFinalizer(queue[1]) /\ Head(queue) = queue[1]
  BY HeadOfQueue DEF Placed
<1>2. FinalizationStartReturns(ok) => fin.pc \in {"starting", "rejected"}
  BY <1>1 DEF FinalizationStartReturns, Answer, AtFinalizer, FinalPc
<1>3. DisposerStartReturns(ok) => fin.pc = "starting_disposer"
  BY <1>1 DEF DisposerStartReturns, Answer, AtFinalizer, FinalPc
<1>4. DisposerSettleReturns(ok) => fin.pc = "settling_disposer"
  BY <1>1 DEF DisposerSettleReturns, Answer, AtFinalizer, FinalPc
<1>5. FinalCloseReturns(ok) => fin.pc = "closing_scope"
  BY <1>1 DEF FinalCloseReturns, Answer, AtFinalizer, FinalPc
<1>6. ReceiptReturns(ok) => fin.pc = "sealing"
  BY <1>1 DEF ReceiptReturns, Answer, AtFinalizer, FinalPc
<1>7. TerminalReturns(ok) => fin.pc = "terminal"
  BY <1>1 DEF TerminalReturns, Answer, AtFinalizer, FinalPc
<1>8. FlushReturns => fin.pc \in {"flushing", "last_flush"}
  BY <1>1 DEF FlushReturns, AtFinalizer
<1> QED
  BY <1>2, <1>3, <1>4, <1>5, <1>6, <1>7, <1>8

-----------------------------------------------------------------------------
(* Which steps change which variable.                                      *)

\* Only the ledger's own step and a recovery append to the log.
LEMMA LogFrame == Next => UNCHANGED log \/ Link \/ recover
BY DEF Next, Requested, Handled, Serve, Answered, Finalizing, OpenScope, CloseScope, Cancel,
       RegisterDisposer, runOperation, finalize, HandlerReturns, HandlerThrows,
       HandlerEnds, OpenScopeReturns, CloseScopeReturns, RegisterReturns, StartReturns,
       SettleReturns, CancelReturns, AcknowledgeReturns, FinalizationStartReturns,
       DisposerStartReturns, DisposerSettleReturns, FinalCloseReturns, ReceiptReturns,
       TerminalReturns, FlushReturns, Answer, registerDisposerNow, AwaitRegistrations,
       OperationsSettle, OperationsTimeOut, FenceOperations, DisposeNext, BeginClosing, CloseNext,
       flushAppends, ReadTip, SendReceipt, OnlyFinalizer, Expire, StartWindowExpires, Crash,
       ledgerVars

\* Who writes the scopes map.
LEMMA ScopesFrame ==
  Next => \/ UNCHANGED scopes
          \/ \E s \in Scopes : OpenScope(s)
          \/ \E ok \in BOOLEAN : OpenScopeReturns(ok) \/ CloseScopeReturns(ok)
                                 \/ CancelReturns(ok) \/ FinalCloseReturns(ok)
          \/ Crash \/ recover
BY DEF Next, Requested, Handled, Serve, Answered, Finalizing, CloseScope, Cancel,
       RegisterDisposer, runOperation, finalize, HandlerReturns, HandlerThrows, HandlerEnds,
       RegisterReturns, StartReturns, SettleReturns, AcknowledgeReturns,
       FinalizationStartReturns, DisposerStartReturns, DisposerSettleReturns, ReceiptReturns,
       TerminalReturns, FlushReturns, registerDisposerNow, AwaitRegistrations, OperationsSettle,
       OperationsTimeOut, FenceOperations, DisposeNext, BeginClosing, CloseNext, flushAppends,
       ReadTip, SendReceipt, OnlyFinalizer, Expire, StartWindowExpires, ledgerVars, Link

\* Who moves an operation.
LEMMA OperationsFrame ==
  Next => \/ UNCHANGED operations
          \/ \E o \in Operations : runOperation(o) \/ HandlerReturns(o) \/ HandlerThrows(o)
          \/ \E ok \in BOOLEAN : StartReturns(ok) \/ SettleReturns(ok)
          \/ Crash \/ recover
BY DEF Next, Requested, Handled, Serve, Answered, Finalizing, OpenScope, CloseScope, Cancel,
       RegisterDisposer, finalize, HandlerEnds, OpenScopeReturns, CloseScopeReturns,
       RegisterReturns, CancelReturns, AcknowledgeReturns, FinalizationStartReturns,
       DisposerStartReturns, DisposerSettleReturns, FinalCloseReturns, ReceiptReturns,
       TerminalReturns, FlushReturns, registerDisposerNow, AwaitRegistrations, OperationsSettle,
       OperationsTimeOut, FenceOperations, DisposeNext, BeginClosing, CloseNext, flushAppends,
       ReadTip, SendReceipt, OnlyFinalizer, Expire, StartWindowExpires, ledgerVars, workVars, Link

\* Who gives up on operations.
LEMMA FencedFrame == Next => UNCHANGED fenced \/ FenceOperations \/ Crash
BY DEF Next, Requested, Handled, Serve, Answered, Finalizing, OpenScope, CloseScope, Cancel,
       RegisterDisposer, runOperation, finalize, HandlerReturns, HandlerThrows, HandlerEnds,
       OpenScopeReturns, CloseScopeReturns, RegisterReturns, StartReturns, SettleReturns,
       CancelReturns, AcknowledgeReturns, FinalizationStartReturns, DisposerStartReturns,
       DisposerSettleReturns, FinalCloseReturns, ReceiptReturns, TerminalReturns, FlushReturns,
       registerDisposerNow, AwaitRegistrations, OperationsSettle, OperationsTimeOut, DisposeNext,
       BeginClosing, CloseNext, flushAppends, ReadTip, SendReceipt, OnlyFinalizer, Expire,
       StartWindowExpires, recover, ledgerVars, workVars, Link

\* Who writes the disposers map.
LEMMA DisposersFrame ==
  Next => \/ UNCHANGED disposers
          \/ \E ok \in BOOLEAN : RegisterReturns(ok) \/ DisposerStartReturns(ok)
          \/ \E how \in {"completed", "failed", "timed_out"} : HandlerEnds(how)
          \/ Crash
BY DEF Next, Requested, Handled, Serve, Answered, Finalizing, OpenScope, CloseScope, Cancel,
       RegisterDisposer, runOperation, finalize, HandlerReturns, HandlerThrows,
       OpenScopeReturns, CloseScopeReturns, StartReturns, SettleReturns, CancelReturns,
       AcknowledgeReturns, FinalizationStartReturns, DisposerSettleReturns, FinalCloseReturns,
       ReceiptReturns, TerminalReturns, FlushReturns, registerDisposerNow, AwaitRegistrations,
       OperationsSettle, OperationsTimeOut, FenceOperations, DisposeNext, BeginClosing, CloseNext,
       flushAppends, ReadTip, SendReceipt, OnlyFinalizer, Expire, StartWindowExpires, recover,
       ledgerVars, Link

\* Who changes the chain of registrations.
LEMMA RegistrationsFrame ==
  Next => \/ UNCHANGED registrationTail
          \/ \E d \in Disposers : RegisterDisposer(d)
          \/ registerDisposerNow
          \/ \E ok \in BOOLEAN : RegisterReturns(ok)
          \/ Crash
BY DEF Next, Requested, Handled, Serve, Answered, Finalizing, OpenScope, CloseScope, Cancel,
       runOperation, finalize, HandlerReturns, HandlerThrows, HandlerEnds, OpenScopeReturns,
       CloseScopeReturns, StartReturns, SettleReturns, CancelReturns, AcknowledgeReturns,
       FinalizationStartReturns, DisposerStartReturns, DisposerSettleReturns, FinalCloseReturns,
       ReceiptReturns, TerminalReturns, FlushReturns, AwaitRegistrations, OperationsSettle,
       OperationsTimeOut, FenceOperations, DisposeNext, BeginClosing, CloseNext, flushAppends,
       ReadTip, SendReceipt, OnlyFinalizer, Expire, StartWindowExpires, recover, ledgerVars, Link

\* Who changes what is known of a cancellation.
LEMMA CancellationsFrame ==
  ASSUME IInv, Next
  PROVE  \/ UNCHANGED cancellations
         \/ \E s \in Scopes : cancelScope(s) /\ state # "DOWN"
         \/ \E ok \in BOOLEAN : CancelReturns(ok) \/ AcknowledgeReturns(ok)
         \/ Crash
<1>1. ASSUME NEW s \in Cancellable, Cancel(s)
      PROVE  \E c \in Scopes : cancelScope(c) /\ state # "DOWN"
  BY <1>1, TreeAssumption DEF Cancel
<1>2. OperationsTimeOut => \/ UNCHANGED cancellations
                           \/ \E c \in Scopes : cancelScope(c) /\ state # "DOWN"
  BY TreeAssumption DEF OperationsTimeOut, IInv, PhaseInv
<1> QED
  BY <1>1, <1>2 DEF Next, Requested, Handled, Serve, Answered, Finalizing, OpenScope, CloseScope,
       RegisterDisposer, runOperation, finalize, HandlerReturns, HandlerThrows, HandlerEnds,
       OpenScopeReturns, CloseScopeReturns, RegisterReturns, StartReturns, SettleReturns,
       FinalizationStartReturns, DisposerStartReturns, DisposerSettleReturns, FinalCloseReturns,
       ReceiptReturns, TerminalReturns, FlushReturns, registerDisposerNow, AwaitRegistrations,
       OperationsSettle, FenceOperations, DisposeNext, BeginClosing, CloseNext, flushAppends,
       ReadTip, SendReceipt, OnlyFinalizer, Expire, StartWindowExpires, recover, ledgerVars, Link

\* The positions, ids and tips of the log.
LEMMA LogFacts ==
  ASSUME IInv
  PROVE  /\ log \in Seq(Event) /\ DOMAIN log = 1..Len(log) /\ log # <<>>
         /\ Len(log) \in Nat /\ Len(log) >= 2 /\ Len(log) <= MaxEvents
         /\ \A i \in DOMAIN log : log[i] \in Event
         /\ log[Len(log)] \in Event /\ log[Len(log)].id \in EventIds
         /\ Len(log) \in Tips /\ Len(log) \in EventIds /\ Len(log) + 1 \in EventIds
<1>1. log \in Seq(Event) /\ Len(log) >= 2 /\ Len(log) <= MaxEvents
  BY DEF IInv, TypeInv, TypeOK, LogInv
<1>2. DOMAIN log = 1..Len(log) /\ Len(log) \in Nat
  BY <1>1, LenProperties
<1>3. log # <<>>
  BY <1>1, EmptySeq
<1>4. MaxEvents \in Nat /\ EventIds = 0..(MaxEvents + 1)
  BY LimitsAssumption, TreeAssumption
<1>5. \A i \in DOMAIN log : log[i] \in Event
  BY <1>1, ElementOfSeq
<1>6. log[Len(log)] \in Event /\ log[Len(log)].id \in EventIds
  BY <1>1, <1>2, <1>5 DEF Event
<1> QED
  BY <1>1, <1>2, <1>3, <1>4, <1>5, <1>6 DEF Tips

\* Who moves the finalizer.
LEMMA FinFrame ==
  Next => \/ UNCHANGED fin
          \/ \E want \in Wants : finalize(want)
          \/ StartWindowExpires \/ AwaitRegistrations \/ OperationsSettle \/ OperationsTimeOut
          \/ FenceOperations \/ DisposeNext
          \/ \E how \in {"completed", "failed", "timed_out"} : HandlerEnds(how)
          \/ BeginClosing \/ CloseNext \/ flushAppends \/ FlushReturns \/ ReadTip \/ SendReceipt
          \/ \E ok \in BOOLEAN :
               \/ FinalizationStartReturns(ok) \/ DisposerStartReturns(ok)
               \/ DisposerSettleReturns(ok) \/ FinalCloseReturns(ok) \/ ReceiptReturns(ok)
               \/ TerminalReturns(ok)
          \/ Crash
BY DEF Next, Requested, Handled, Serve, Answered, Finalizing, OpenScope, CloseScope, Cancel,
       RegisterDisposer, runOperation, HandlerReturns, HandlerThrows, OpenScopeReturns,
       CloseScopeReturns, RegisterReturns, StartReturns, SettleReturns, CancelReturns,
       AcknowledgeReturns, registerDisposerNow, Expire, recover, ledgerVars, Link

\* The order in which the finalizer passes its awaits.
FinMoves ==
  \/ fin.pc = "none" /\ fin'.pc = "starting" /\ state' = "FINALIZING"
  \/ fin.pc \notin {"none", "flushing", "last_flush", "done"} /\ fin'.pc = "rejected"
  \/ fin.pc = "starting" /\ fin'.pc = "registrations" /\ FinalizationStartReturns(TRUE)
  \/ fin.pc = "registrations" /\ fin'.pc = "operations" /\ AwaitRegistrations
  \/ fin.pc = "operations" /\ fin'.pc = "cancelling" /\ OperationsTimeOut
  \/ fin.pc = "operations" /\ fin'.pc = "disposing" /\ OperationsSettle
  \/ fin.pc = "cancelling" /\ fin'.pc = "disposing" /\ FenceOperations
  \/ fin.pc = "disposing" /\ fin'.pc = "starting_disposer" /\ DisposeNext
  \/ fin.pc = "starting_disposer" /\ fin'.pc = "handling" /\ DisposerStartReturns(TRUE)
  \/ fin.pc = "handling" /\ fin'.pc = "settling_disposer"
     /\ \E how \in {"completed", "failed", "timed_out"} : HandlerEnds(how)
  \/ fin.pc = "settling_disposer" /\ fin'.pc = "disposing" /\ DisposerSettleReturns(TRUE)
  \/ fin.pc = "disposing" /\ fin'.pc = "closing" /\ BeginClosing
  \/ fin.pc = "closing" /\ fin'.pc = "closing_scope" /\ CloseNext
  \/ fin.pc = "closing_scope" /\ fin'.pc = "closing" /\ FinalCloseReturns(TRUE)
  \/ fin.pc = "closing" /\ fin'.pc = "flushing" /\ flushAppends
  \/ fin.pc = "flushing" /\ fin'.pc = "tip" /\ FlushReturns
  \/ fin.pc = "tip" /\ fin'.pc = "receipt" /\ ReadTip
  \/ fin.pc = "receipt" /\ fin'.pc = "sealing" /\ SendReceipt
  \/ fin.pc = "sealing" /\ fin'.pc = "terminal" /\ ReceiptReturns(TRUE)
  \/ fin.pc = "terminal" /\ fin'.pc = "last_flush" /\ TerminalReturns(TRUE)
  \/ fin.pc = "last_flush" /\ fin'.pc = "done" /\ FlushReturns /\ state' = "TERMINAL"

\* The finalizer moves along performFinalization, and in no other way.
LEMMA FinSteps ==
  ASSUME IInv, Next
  PROVE  /\ \/ UNCHANGED <<fin>>
            \/ Crash
            \/ FinMoves
         /\ fin' \in FinType
<1>1. fin \in FinType
  BY DEF IInv, TypeInv
<1>2. CASE UNCHANGED fin
  BY <1>1, <1>2
<1>3. CASE Crash
  <2>1. NoFinalization \in FinType
    BY DEF NoFinalization, FinType, Pcs, Claims
  <2> QED
    BY <1>3, <2>1 DEF Crash
<1>4. ASSUME NEW pc \in Pcs
      PROVE  [fin EXCEPT !.pc = pc] \in FinType /\ [fin EXCEPT !.pc = pc].pc = pc
  BY <1>1 DEF FinType
<1> USE DEF Pcs, PastRegistrations, PastOperations, PastDisposal
<1>5. ASSUME NEW want \in Wants, finalize(want) PROVE FinMoves /\ fin' \in FinType
  <2>1. want \in Claims
    BY TreeAssumption DEF Claims
  <2> QED
    BY <1>1, <1>5, <2>1 DEF finalize, FinMoves, FinType
<1>6. StartWindowExpires \/ AwaitRegistrations \/ OperationsSettle => FinMoves /\ fin' \in FinType
  BY <1>4 DEF StartWindowExpires, AwaitRegistrations, OperationsSettle, Advance, FinMoves
<1>7. OperationsTimeOut => FinMoves /\ fin' \in FinType
  BY <1>1 DEF OperationsTimeOut, FinMoves, FinType
<1>8. FenceOperations => FinMoves /\ fin' \in FinType
  BY <1>4 DEF FenceOperations, AdvanceIf, Advance, FinMoves
<1>9. DisposeNext => FinMoves /\ fin' \in FinType
  BY <1>4 DEF DisposeNext, Advance, FinMoves
<1>10. ASSUME NEW how \in {"completed", "failed", "timed_out"}, HandlerEnds(how)
       PROVE  FinMoves /\ fin' \in FinType
  <2>1. fin.pc = "handling" /\ fin'.pc = "settling_disposer" /\ fin' \in FinType
    BY <1>1, <1>10 DEF HandlerEnds, FinType
  <2> QED
    BY <1>10, <2>1 DEF FinMoves
<1>11. BeginClosing => FinMoves /\ fin' \in FinType
  <2>1. effectiveOutcome \in Claims
    BY DEF effectiveOutcome, Claims
  <2>2. BeginClosing => \/ fin.pc = "disposing" /\ fin' = [fin EXCEPT !.pc = "rejected"]
                        \/ /\ fin.pc = "disposing"
                           /\ fin' = [fin EXCEPT !.pc = "closing", !.outcome = effectiveOutcome,
                                                 !.toClose = {s \in Scopes : Open(s)}]
    BY DEF BeginClosing, Advance
  <2>3. {s \in Scopes : Open(s)} \in SUBSET Scopes
    OBVIOUS
  <2>4. [fin EXCEPT !.pc = "closing", !.outcome = effectiveOutcome,
                    !.toClose = {s \in Scopes : Open(s)}] \in FinType
    BY <1>1, <2>1, <2>3 DEF FinType
  <2> DEFINE closing == [fin EXCEPT !.pc = "closing", !.outcome = effectiveOutcome,
                                    !.toClose = {s \in Scopes : Open(s)}]
  <2>5. closing \in FinType /\ closing.pc = "closing"
    BY <1>1, <2>4 DEF FinType
  <2>6. BeginClosing => /\ fin.pc = "disposing"
                        /\ fin' = [fin EXCEPT !.pc = "rejected"] \/ fin' = closing
    BY <2>2
  <2> HIDE DEF closing
  <2>7. BeginClosing => /\ fin' \in FinType
                        /\ fin.pc = "disposing" /\ fin'.pc \in {"rejected", "closing"}
    BY <1>4, <2>5, <2>6
  <2> QED
    BY <2>7 DEF FinMoves
<1>12. CloseNext \/ flushAppends \/ SendReceipt => FinMoves /\ fin' \in FinType
  BY <1>4 DEF CloseNext, flushAppends, SendReceipt, Advance, FinMoves
<1>13. FlushReturns => FinMoves /\ fin' \in FinType
  <2>1. FlushReturns => fin.pc \in {"flushing", "last_flush"}
    BY Awaited
  <2>2. FlushReturns /\ fin.pc = "flushing" => fin' \in FinType /\ fin'.pc = "tip"
    BY <1>1 DEF FlushReturns, FinType, Claims
  <2>3. FlushReturns /\ fin.pc = "last_flush"
          => fin' \in FinType /\ fin'.pc = "done" /\ state' = "TERMINAL"
    BY <1>4 DEF FlushReturns, Advance
  <2> QED
    BY <2>1, <2>2, <2>3 DEF FinMoves
<1>14. ReadTip => FinMoves /\ fin' \in FinType
  <2>1. [fin EXCEPT !.pc = "receipt", !.tip = Len(log)] \in FinType
    BY <1>1, LogFacts DEF FinType
  <2> DEFINE read == [fin EXCEPT !.pc = "receipt", !.tip = Len(log)]
  <2>2. read \in FinType /\ read.pc = "receipt"
    BY <1>1, <2>1 DEF FinType
  <2>3. ReadTip => fin.pc = "tip" /\ (fin' = read \/ fin' = [fin EXCEPT !.pc = "rejected"])
    BY DEF ReadTip, Advance
  <2> HIDE DEF read
  <2>4. ReadTip => fin' \in FinType /\ fin.pc = "tip" /\ fin'.pc \in {"receipt", "rejected"}
    BY <1>4, <2>2, <2>3
  <2> QED
    BY <2>4 DEF FinMoves
<1>15. ASSUME NEW ok \in BOOLEAN,
              \/ FinalizationStartReturns(ok) \/ DisposerStartReturns(ok)
              \/ DisposerSettleReturns(ok) \/ ReceiptReturns(ok) \/ TerminalReturns(ok)
       PROVE  FinMoves /\ fin' \in FinType
  <2>1. CASE ok
    BY <1>4, <1>15, <2>1, Awaited DEF FinMoves, FinalizationStartReturns, DisposerStartReturns,
       DisposerSettleReturns, ReceiptReturns, TerminalReturns, AdvanceIf, Advance
  <2>2. CASE ~ok
    BY <1>4, <1>15, <2>2, Awaited DEF FinMoves, FinalizationStartReturns, DisposerStartReturns,
       DisposerSettleReturns, ReceiptReturns, TerminalReturns, AdvanceIf, Advance
  <2> QED
    BY <2>1, <2>2
<1>16. ASSUME NEW ok \in BOOLEAN, FinalCloseReturns(ok)
       PROVE  FinMoves /\ fin' \in FinType
  <2>1. fin' \in FinType /\ fin'.pc = IF ok THEN "closing" ELSE "rejected"
    BY <1>1, <1>16 DEF FinalCloseReturns, FinType
  <2> QED
    BY <1>16, <2>1, Awaited DEF FinMoves
<1> QED
  BY <1>2, <1>3, <1>5, <1>6, <1>7, <1>8, <1>9, <1>10, <1>11, <1>12, <1>13, <1>14, <1>15, <1>16,
     FinFrame

\* The event Link appends, and the one recover appends.
Linking == Stamp(log, InputOf(queue[1]))
\* The event a recovery appends.
Recovery == Stamp(log, [Opened("trajectory.recovered", Run, NextEpoch(log))
                          EXCEPT !.id = Len(log) + 1, !.causes = {log[Len(log)].id}])

\* What Link has checked of the oldest entry, and what it does with it.
LEMMA LinkFacts ==
  ASSUME IInv, Link
  PROVE  /\ 1 \in DOMAIN queue /\ queue[1] \in EntryType /\ queue[1].kind # "flush"
         /\ ~queue[1].linked /\ Placed(queue[1])
         /\ InputOf(queue[1]) \in Input /\ Linking \in Event
         /\ Linking.kind = queue[1].kind /\ Linking.subject = queue[1].subject
         /\ Linking.claim = queue[1].claim /\ Linking.id = Len(log) + 1
         /\ log' = Append(log, Linking) /\ log' = Extend(log, InputOf(queue[1]))
         /\ ~Terminated(log) /\ queue[1].causes \subseteq Ids(log)
         /\ LeavesReserve(log, InputOf(queue[1]))
         /\ DOMAIN queue' = DOMAIN queue
         /\ queue'[1] = [queue[1] EXCEPT !.linked = TRUE]
         /\ \A i \in DOMAIN queue : i # 1 => queue'[i] = queue[i]
<1>1. /\ queue # <<>> /\ Head(queue).kind # "flush" /\ ~Head(queue).linked
      /\ Admitted(Head(queue)) /\ log' = Extend(log, InputOf(Head(queue)))
      /\ queue' = [queue EXCEPT ![1].linked = TRUE]
  BY DEF Link
<1>2. /\ 1 \in DOMAIN queue /\ Head(queue) = queue[1] /\ queue[1] \in EntryType
      /\ Placed(queue[1])
  BY <1>1, HeadOfQueue
<1>3. Verdict(log, InputOf(queue[1]), queue[1].expect) = "append"
  BY <1>1, <1>2 DEF Admitted
<1>4. InputOf(queue[1]) \in Input
  <2>1. /\ queue[1].kind \in Kinds /\ queue[1].subject \in Subjects
        /\ queue[1].causes \in SUBSET EventIds /\ queue[1].claim \in Claims
        /\ queue[1].expect \in Nat \cup {NoTip}
    <3>1. Tips \subseteq Nat
      BY LimitsAssumption DEF Tips
    <3> QED
      BY <1>1, <1>2, <3>1 DEF EntryType, EntryFields
  <2>2. (IF queue[1].expect = NoTip THEN 0 ELSE queue[1].expect) \in Nat
    BY <2>1
  <2> QED
    BY <2>1, <2>2, LogFacts DEF InputOf, Input
<1>5. /\ ~Terminated(log) /\ WellPlaced(log, InputOf(queue[1]))
      /\ LeavesReserve(log, InputOf(queue[1]))
  BY <1>3, AppendVerdict
<1>6. InputOf(queue[1]).causes = queue[1].causes
  BY DEF InputOf
<1>7. Linking \in Event /\ log' = Append(log, Linking)
  BY <1>1, <1>2, <1>4, LogFacts, ExtendType DEF Linking, Extend
<1>8. /\ Linking.kind = queue[1].kind /\ Linking.subject = queue[1].subject
      /\ Linking.claim = queue[1].claim /\ Linking.id = Len(log) + 1
  BY DEF Linking, Stamp, InputOf
<1>9. /\ DOMAIN queue' = DOMAIN queue
      /\ queue'[1] = [queue[1] EXCEPT !.linked = TRUE]
      /\ \A i \in DOMAIN queue : i # 1 => queue'[i] = queue[i]
  <2>1. queue \in Seq(EntryType)
    BY DEF IInv, TypeInv
  <2> QED
    BY <1>1, <2>1, LinkHead
<1> QED
  BY <1>1, <1>2, <1>4, <1>5, <1>6, <1>7, <1>8, <1>9 DEF WellPlaced

\* What a recovery has checked, and the event it appends.
LEMMA RecoverFacts ==
  ASSUME IInv, recover
  PROVE  /\ Recovery \in Event /\ Recovery.kind = "trajectory.recovered"
         /\ Recovery.subject = Run /\ Recovery.id = Len(log) + 1
         /\ log' = Append(log, Recovery)
         /\ Len(log') <= MaxEvents /\ Reserve(log')
         /\ queue' = <<>> /\ ~Terminated(log)
<1> DEFINE in == [Opened("trajectory.recovered", Run, NextEpoch(log))
                    EXCEPT !.id = Len(log) + 1, !.causes = {log[Len(log)].id}]
<1>1. /\ Verdict(log, in, Len(log)) = "append" /\ log' = Extend(log, in)
      /\ state = "DOWN" /\ ~Terminated(log) /\ UNCHANGED queue
  BY DEF recover
<1>2. queue = <<>>
  BY <1>1 DEF IInv, DownInv
<1>3. in \in Input
  <2>1. NextEpoch(log) \in Nat /\ Run \in Subjects
    BY LogFacts, NextEpochType, TreeAssumption
  <2>2. log[Len(log)].id \in EventIds
    BY LogFacts
  <2>3. Len(log) + 1 \in EventIds /\ {log[Len(log)].id} \in SUBSET EventIds
    BY <2>2, LogFacts
  <2>4. Opened("trajectory.recovered", Run, NextEpoch(log)) \in Input
    <3>1. 0 \in EventIds
      BY LimitsAssumption, TreeAssumption
    <3> QED
      BY <2>1, <3>1 DEF Opened, Input, Kinds, RunKinds, Claims
  <2> QED
    BY <2>3, <2>4 DEF Input
<1>4. in.kind = "trajectory.recovered" /\ in.subject = Run /\ in.id = Len(log) + 1
  BY DEF Opened
<1>5. Stamp(log, in) = Recovery
  BY DEF Recovery
<1> HIDE DEF in
<1>6. Recovery \in Event /\ log' = Append(log, Recovery)
  BY <1>1, <1>3, <1>5, LogFacts, ExtendType DEF Extend
<1>7. Len(log') <= MaxEvents /\ Reserve(log')
  BY <1>1, <1>3, LogFacts, AppendVerdict, AppendKeepsReserve
<1>8. Recovery.kind = in.kind /\ Recovery.subject = in.subject /\ Recovery.id = in.id
  BY <1>5 DEF Stamp
<1> QED
  BY <1>1, <1>2, <1>4, <1>6, <1>7, <1>8

\* The log grows by at most one event.
LEMMA LogGrows ==
  ASSUME IInv, Next
  PROVE  /\ log' \in Seq(Event)
         /\ \/ UNCHANGED log
            \/ Link /\ log' = Append(log, Linking) /\ Linking \in Event
            \/ recover /\ log' = Append(log, Recovery) /\ Recovery \in Event
         /\ Len(log') \in Nat /\ DOMAIN log' = 1..Len(log')
         /\ Len(log) <= Len(log') /\ Len(log') <= Len(log) + 1
         /\ \A i \in DOMAIN log : i \in DOMAIN log' /\ log'[i] = log[i]
<1>1. CASE UNCHANGED log
  BY <1>1, LogFacts
<1>2. ASSUME NEW e \in Event, log' = Append(log, e)
      PROVE  /\ log' \in Seq(Event)
             /\ Len(log') = Len(log) + 1 /\ DOMAIN log' = 1..Len(log')
             /\ \A i \in DOMAIN log : i \in DOMAIN log' /\ log'[i] = log[i]
  <2>1. /\ Append(log, e) \in Seq(Event)
        /\ DOMAIN log = 1..Len(log) /\ Len(log) \in Nat
        /\ Len(Append(log, e)) = Len(log) + 1
        /\ DOMAIN Append(log, e) = 1..(Len(log) + 1)
        /\ \A i \in 1..Len(log) : Append(log, e)[i] = log[i]
    BY LogFacts, AppendEntry
  <2> QED
    BY <1>2, <2>1
<1>3. CASE Link
  BY <1>2, <1>3, LinkFacts, LogFacts
<1>4. CASE recover
  BY <1>2, <1>4, RecoverFacts, LogFacts
<1> QED
  BY <1>1, <1>3, <1>4, LogFrame

\* What is on record after a step.
LEMMA RecordedNext ==
  ASSUME IInv, Next, NEW kind, NEW subject
  PROVE  /\ Recorded(kind, subject)' <=>
              \/ Recorded(kind, subject)
              \/ Link /\ queue[1].kind = kind /\ queue[1].subject = subject
              \/ recover /\ kind = "trajectory.recovered" /\ subject = Run
         /\ Has(log', kind) <=> \/ Has(log, kind)
                                \/ Link /\ queue[1].kind = kind
                                \/ recover /\ kind = "trajectory.recovered"
<1>1. ASSUME NEW e \in Event
      PROVE  \A k, s : (\E i \in DOMAIN Append(log, e) :
                           Append(log, e)[i].kind = k /\ Append(log, e)[i].subject = s)
                       <=> (Recorded(k, s) \/ (e.kind = k /\ e.subject = s))
  <2>1. /\ DOMAIN log = 1..Len(log) /\ Len(log) \in Nat
        /\ DOMAIN Append(log, e) = 1..(Len(log) + 1)
        /\ \A i \in 1..Len(log) : Append(log, e)[i] = log[i]
        /\ Append(log, e)[Len(log) + 1] = e
    BY LogFacts, AppendEntry
  <2> HIDE DEF Append
  <2> QED
    BY <2>1 DEF Recorded
<1>2. CASE Link
  <2>1. Linking \in Event /\ log' = Append(log, Linking)
        /\ Linking.kind = queue[1].kind /\ Linking.subject = queue[1].subject
    BY <1>2, LinkFacts
  <2>2. ~recover
    BY <1>2 DEF Link, recover, IInv, DownInv
  <2>3. Has(log', kind) <=> (Has(log, kind) \/ queue[1].kind = kind)
    BY <2>1, FoldsOfAppend, LogFacts
  <2>4. Recorded(kind, subject)' <=>
          (Recorded(kind, subject) \/ (queue[1].kind = kind /\ queue[1].subject = subject))
    BY <1>1, <2>1 DEF Recorded
  <2> QED
    BY <1>2, <2>2, <2>3, <2>4
<1>3. CASE recover
  <2>1. Recovery \in Event /\ log' = Append(log, Recovery)
        /\ Recovery.kind = "trajectory.recovered" /\ Recovery.subject = Run
    BY <1>3, RecoverFacts
  <2>2. ~Link
    BY <1>3 DEF Link, recover, IInv, DownInv
  <2>3. Has(log', kind) <=> (Has(log, kind) \/ kind = "trajectory.recovered")
    BY <2>1, FoldsOfAppend, LogFacts
  <2>4. Recorded(kind, subject)' <=>
          (Recorded(kind, subject) \/ (kind = "trajectory.recovered" /\ subject = Run))
    BY <1>1, <2>1 DEF Recorded
  <2> QED
    BY <1>3, <2>2, <2>3, <2>4
<1>4. CASE UNCHANGED log /\ ~Link /\ ~recover
  BY <1>4 DEF Recorded
<1> QED
  BY <1>2, <1>3, <1>4, LogFrame

\* The moves of lifecycleState.
LEMMA StateFrame ==
  ASSUME IInv, Next
  PROVE  \/ UNCHANGED state
         \/ state = "ACTIVE" /\ state' = "CANCELLING" /\ UNCHANGED fin
         \/ /\ state \notin {"TERMINAL", "DOWN"} /\ fin.pc = "none"
            /\ state' = "FINALIZING" /\ fin'.pc = "starting"
         \/ fin.pc = "last_flush" /\ fin'.pc = "done" /\ state' = "TERMINAL"
         \/ Crash \/ recover
<1>1. ASSUME NEW s \in Cancellable, Cancel(s)
      PROVE  \/ UNCHANGED state
             \/ state = "ACTIVE" /\ state' = "CANCELLING" /\ UNCHANGED fin
  BY <1>1 DEF Cancel, cancelScope
<1>2. OperationsTimeOut => UNCHANGED state
  BY DEF OperationsTimeOut, cancelScope, IInv, PhaseInv
<1>3. ASSUME NEW want \in Wants, finalize(want)
      PROVE  /\ state \notin {"TERMINAL", "DOWN"} /\ fin.pc = "none"
             /\ state' = "FINALIZING" /\ fin'.pc = "starting"
  <2>1. fin \in FinType
    BY DEF IInv, TypeInv
  <2> QED
    BY <1>3, <2>1 DEF finalize, FinType
<1>4. FlushReturns => \/ UNCHANGED state
                      \/ fin.pc = "last_flush" /\ fin'.pc = "done" /\ state' = "TERMINAL"
  <2>1. fin \in FinType
    BY DEF IInv, TypeInv
  <2> QED
    BY <2>1, Awaited DEF FlushReturns, Advance, FinType
<1> QED
  BY <1>1, <1>2, <1>3, <1>4
     DEF Next, Requested, Handled, Serve, Answered, Finalizing, OpenScope, CloseScope,
         RegisterDisposer, runOperation, HandlerReturns, HandlerThrows, HandlerEnds,
         OpenScopeReturns, CloseScopeReturns, RegisterReturns, StartReturns, SettleReturns,
         CancelReturns, AcknowledgeReturns, FinalizationStartReturns, DisposerStartReturns,
         DisposerSettleReturns, FinalCloseReturns, ReceiptReturns, TerminalReturns,
         registerDisposerNow, AwaitRegistrations, OperationsSettle, FenceOperations, DisposeNext,
         BeginClosing, CloseNext, flushAppends, ReadTip, SendReceipt, OnlyFinalizer, Expire,
         StartWindowExpires, ledgerVars, Link

\* I/O errors are counted, never forgotten.
LEMMA FaultsGrow ==
  ASSUME IInv, Next
  PROVE  faults' \in 0..MaxFaults /\ faults' >= faults /\ faults \in Nat
<1>1. faults \in 0..MaxFaults /\ MaxFaults \in Nat
  BY BoundsAssumption DEF IInv, TypeInv, TypeOK
<1>2. UNCHANGED faults \/ (faults < MaxFaults /\ faults' = faults + 1)
  BY DEF Next, Requested, Handled, Serve, Answered, Finalizing, OpenScope, CloseScope, Cancel,
       RegisterDisposer, runOperation, finalize, HandlerReturns, HandlerThrows, HandlerEnds,
       OpenScopeReturns, CloseScopeReturns, RegisterReturns, StartReturns, SettleReturns,
       CancelReturns, AcknowledgeReturns, FinalizationStartReturns, DisposerStartReturns,
       DisposerSettleReturns, FinalCloseReturns, ReceiptReturns, TerminalReturns, FlushReturns,
       Answer, registerDisposerNow, AwaitRegistrations, OperationsSettle, OperationsTimeOut,
       FenceOperations, DisposeNext, BeginClosing, CloseNext, flushAppends, ReadTip, SendReceipt,
       OnlyFinalizer, Expire, StartWindowExpires, Crash, recover, ledgerVars, Link
<1> QED
  BY <1>1, <1>2

\* The restarts stay within their bound.
LEMMA ClocksType ==
  ASSUME IInv, Next
  PROVE  restarts' \in 0..MaxRestarts /\ expired' \in BOOLEAN
<1>1. restarts \in 0..MaxRestarts /\ MaxRestarts \in Nat /\ expired \in BOOLEAN
  BY BoundsAssumption DEF IInv, TypeInv, TypeOK
<1>2. /\ UNCHANGED restarts \/ (restarts < MaxRestarts /\ restarts' = restarts + 1)
      /\ UNCHANGED expired \/ expired' = TRUE \/ expired' = FALSE
  BY DEF Next, Requested, Handled, Serve, Answered, Finalizing, OpenScope, CloseScope, Cancel,
       RegisterDisposer, runOperation, finalize, HandlerReturns, HandlerThrows, HandlerEnds,
       OpenScopeReturns, CloseScopeReturns, RegisterReturns, StartReturns, SettleReturns,
       CancelReturns, AcknowledgeReturns, FinalizationStartReturns, DisposerStartReturns,
       DisposerSettleReturns, FinalCloseReturns, ReceiptReturns, TerminalReturns, FlushReturns,
       registerDisposerNow, AwaitRegistrations, OperationsSettle, OperationsTimeOut,
       FenceOperations, DisposeNext, BeginClosing, CloseNext, flushAppends, ReadTip, SendReceipt,
       OnlyFinalizer, Expire, StartWindowExpires, Crash, recover, Link
<1>3. restarts' \in 0..MaxRestarts
  BY <1>1, <1>2
<1>4. expired' \in BOOLEAN
  BY <1>1, <1>2, Zenon
<1> QED
  BY <1>3, <1>4

\* A task continues on an answer about what its entry is about.
LEMMA Answers ==
  ASSUME IInv, NEW ok \in BOOLEAN
  PROVE  /\ OpenScopeReturns(ok) \/ CloseScopeReturns(ok) \/ FinalCloseReturns(ok)
              \/ CancelReturns(ok) \/ AcknowledgeReturns(ok) => Subject \in Scopes
         /\ StartReturns(ok) \/ SettleReturns(ok) => Subject \in Operations
         /\ RegisterReturns(ok) \/ DisposerStartReturns(ok) \/ DisposerSettleReturns(ok)
              => Subject \in Disposers
BY HeadOfQueue DEF OpenScopeReturns, CloseScopeReturns, FinalCloseReturns, CancelReturns,
   AcknowledgeReturns, StartReturns, SettleReturns, RegisterReturns, DisposerStartReturns,
   DisposerSettleReturns, Answer, ScopeKinds, CancelKinds, OperationKinds, DisposerKinds

\* The opening of a scope that was opened is one of its events.
LEMMA OpeningOfType ==
  ASSUME NEW s, log \in Seq(Event), Recorded("scope.opened", s)
  PROVE  /\ OpeningOf(s) \in DOMAIN log
         /\ log[OpeningOf(s)].kind = "scope.opened" /\ log[OpeningOf(s)].subject = s
<1> DEFINE S == {i \in DOMAIN log : log[i].kind = "scope.opened" /\ log[i].subject = s}
<1>1. Len(log) \in Nat /\ DOMAIN log = 1..Len(log)
  BY LenProperties
<1>2. S \in SUBSET (1..Len(log)) /\ S # {}
  BY <1>1 DEF Recorded
<1> HIDE DEF S
<1>3. PICK i \in S : \A j \in S : j <= i
  BY <1>1, <1>2, LastOf
<1> USE DEF S
<1>4. \A j \in (i + 1)..Len(log) : ~(log[j].kind = "scope.opened" /\ log[j].subject = s)
  BY <1>1, <1>3
<1>5. i \in DOMAIN log /\ log[i].kind = "scope.opened" /\ log[i].subject = s
  BY <1>3
<1> QED
  BY <1>4, <1>5 DEF OpeningOf

\* A step keeps the type of the scopes map.
LEMMA ScopesType ==
  ASSUME IInv, Next
  PROVE  scopes' \in [Scopes -> [status : {"absent", "open", "closed"}, openedEventId : EventIds,
                                 aborted : BOOLEAN]]
<1> DEFINE S == [status : {"absent", "open", "closed"}, openedEventId : EventIds,
                 aborted : BOOLEAN]
<1>1. scopes \in [Scopes -> S]
  BY DEF IInv, TypeInv, TypeOK
<1>2. 0 \in EventIds
  BY LimitsAssumption, TreeAssumption
<1>3. Absent \in S
  BY <1>2 DEF Absent, NoId
<1>4. CASE UNCHANGED scopes
  BY <1>1, <1>4
<1>5. ASSUME NEW s \in Scopes, OpenScope(s) PROVE scopes' \in [Scopes -> S]
  BY <1>1, <1>3, <1>5 DEF OpenScope
<1>6. ASSUME NEW ok \in BOOLEAN, OpenScopeReturns(ok) PROVE scopes' \in [Scopes -> S]
  <2>1. [scopes[Subject] EXCEPT !.openedEventId = Len(log)] \in S
    BY <1>1, <1>6, Answers, LogFacts
  <2> HIDE DEF S
  <2> QED
    BY <1>1, <1>3, <1>6, <2>1, Answers DEF OpenScopeReturns
<1>7. ASSUME NEW ok \in BOOLEAN, CloseScopeReturns(ok) \/ FinalCloseReturns(ok)
      PROVE  scopes' \in [Scopes -> S]
  <2>1. \A status \in {"absent", "open", "closed"} :
          [scopes[Subject] EXCEPT !.status = status] \in S
    BY <1>1, <1>7, Answers
  <2>2. scopes[Subject].status \in {"absent", "open", "closed"}
    BY <1>1, <1>7, Answers
  <2>3. \E status \in {"absent", "open", "closed"} :
          scopes' = [scopes EXCEPT ![Subject] = [@ EXCEPT !.status = status]]
    BY <1>7, <2>2 DEF CloseScopeReturns, FinalCloseReturns
  <2> HIDE DEF S
  <2> QED
    BY <1>1, <2>1, <2>3
<1>8. ASSUME NEW ok \in BOOLEAN, CancelReturns(ok) PROVE scopes' \in [Scopes -> S]
  <2>1. \A x \in Scopes :
           [scopes[x] EXCEPT !.aborted = @ \/ (Present(x) /\ Beneath(x, Subject))] \in S
    <3>1. \A x \in Scopes : (scopes[x].aborted \/ (Present(x) /\ Beneath(x, Subject))) \in BOOLEAN
      OBVIOUS
    <3> QED
      BY <1>1, <3>1
  <2>2. abortSubtree(Subject) \in [Scopes -> S]
    BY <2>1 DEF abortSubtree
  <2> QED
    BY <1>1, <1>8, <2>2 DEF CancelReturns
<1>9. CASE Crash
  BY <1>3, <1>9 DEF Crash
<1>10. CASE recover
  <2>1. ASSUME NEW s \in Scopes, Recorded("scope.opened", s)
        PROVE  log[OpeningOf(s)].id \in EventIds
    BY <2>1, LogFacts, OpeningOfType DEF Event
  <2>2. ASSUME NEW s \in Scopes
        PROVE  (IF Recorded("scope.opened", s)
                  THEN [Absent EXCEPT
                          !.status = IF Recorded("scope.closed", s) THEN "closed" ELSE "open",
                          !.openedEventId = log[OpeningOf(s)].id]
                  ELSE Absent) \in S
    BY <1>3, <2>1
  <2> HIDE DEF S
  <2>3. scopes' \in [Scopes -> S]
    BY <1>10, <2>2 DEF recover
  <2> QED
    BY <2>3 DEF S
<1> QED
  BY <1>4, <1>5, <1>6, <1>7, <1>8, <1>9, <1>10, ScopesFrame

\* A step keeps the types of the operations and of the fence.
LEMMA WorkType ==
  ASSUME IInv, Next
  PROVE  /\ operations' \in [Operations -> {"idle", "starting", "running", "settling",
                                            "recording_failure", "done"}]
         /\ fenced' \subseteq Operations
<1>1. /\ operations \in [Operations -> {"idle", "starting", "running", "settling",
                                        "recording_failure", "done"}]
      /\ fenced \subseteq Operations
  BY DEF IInv, TypeInv, TypeOK
<1>2. ASSUME NEW ok \in BOOLEAN, StartReturns(ok) \/ SettleReturns(ok)
      PROVE  operations' \in [Operations -> {"idle", "starting", "running", "settling",
                                             "recording_failure", "done"}]
  BY <1>1, <1>2, Answers DEF StartReturns, SettleReturns
<1>3. ASSUME NEW o \in Operations, runOperation(o) \/ HandlerReturns(o) \/ HandlerThrows(o)
      PROVE  operations' \in [Operations -> {"idle", "starting", "running", "settling",
                                             "recording_failure", "done"}]
  BY <1>1, <1>3 DEF runOperation, HandlerReturns, HandlerThrows
<1>4. Crash \/ recover
        => operations' \in [Operations -> {"idle", "starting", "running", "settling",
                                           "recording_failure", "done"}]
  BY DEF Crash, recover
<1>5. fenced' \subseteq Operations
  BY <1>1, FencedFrame DEF FenceOperations, Crash, Active
<1> QED
  BY <1>1, <1>2, <1>3, <1>4, <1>5, OperationsFrame

\* A step keeps the type of the disposers map, which stays finite.
LEMMA DisposersType ==
  ASSUME IInv, Next
  PROVE  /\ disposers' \in [Disposers -> [status : {"absent", "registered", "started", "settled",
                                                    "timed_out"}, ordinal : Nat]]
         /\ IsFiniteSet(Registered)'
<1> DEFINE D == [status : {"absent", "registered", "started", "settled", "timed_out"},
                 ordinal : Nat]
<1>1. disposers \in [Disposers -> D] /\ IsFiniteSet(Registered)
  BY DEF IInv, TypeInv, TypeOK
<1>2. Cardinality(Registered) + 1 \in Nat
  BY <1>1, FS_CardinalityType
<1>3. CASE UNCHANGED disposers
  BY <1>1, <1>3 DEF Registered
<1>4. ASSUME NEW ok \in BOOLEAN, RegisterReturns(ok)
      PROVE  disposers' \in [Disposers -> D] /\ IsFiniteSet(Registered)'
  <2>1. disposers' \in [Disposers -> D]
    BY <1>1, <1>2, <1>4, Answers DEF RegisterReturns
  <2>2. Registered' \in SUBSET (Registered \cup {Subject})
    BY <1>1, <1>4, Answers DEF RegisterReturns, Registered
  <2>3. IsFiniteSet(Registered \cup {Subject})
    BY <1>1, FS_AddElement
  <2> QED
    BY <2>1, <2>2, <2>3, FS_Subset
<1>5. ASSUME NEW ok \in BOOLEAN, DisposerStartReturns(ok)
      PROVE  disposers' \in [Disposers -> D] /\ Registered' \in SUBSET (Registered \cup {Subject})
  BY <1>1, <1>5, Answers DEF DisposerStartReturns, Registered
<1>6. ASSUME NEW how \in {"completed", "failed", "timed_out"}, HandlerEnds(how)
      PROVE  disposers' \in [Disposers -> D] /\ Registered' \in SUBSET Registered
  BY <1>1, <1>6 DEF HandlerEnds, Registered
<1>7. CASE Crash
  <2>1. disposers' \in [Disposers -> D] /\ Registered' = {}
    BY <1>7 DEF Crash, Registered
  <2> QED
    BY <2>1, FS_EmptySet
<1> QED
  BY <1>1, <1>3, <1>4, <1>5, <1>6, <1>7, DisposersFrame, FS_Subset, FS_AddElement

\* A step keeps the types of the registrations and the cancellations.
LEMMA RequestsType ==
  ASSUME IInv, Next
  PROVE  /\ registrationTail' \in Seq(Disposers)
         /\ cancellations' \in [Scopes -> {"none", "requesting", "acknowledging", "resolved",
                                           "rejected"}]
<1>1. /\ registrationTail \in Seq(Disposers)
      /\ cancellations \in [Scopes -> {"none", "requesting", "acknowledging", "resolved",
                                       "rejected"}]
  BY DEF IInv, TypeInv, TypeOK
<1>2. registrationTail # <<>> => Tail(registrationTail) \in Seq(Disposers)
  BY <1>1, DropHead
<1>3. ASSUME NEW ok \in BOOLEAN, RegisterReturns(ok)
      PROVE  registrationTail # <<>> /\ registrationTail' = Tail(registrationTail)
  BY <1>3, HeadOfQueue DEF RegisterReturns, Answer, Placed, AtDisposer
<1>4. registrationTail' \in Seq(Disposers)
  <2>1. ASSUME NEW d \in Disposers, RegisterDisposer(d) PROVE registrationTail' \in Seq(Disposers)
    BY <1>1, <2>1, AppendProperties DEF RegisterDisposer
  <2>2. registerDisposerNow => registrationTail' \in Seq(Disposers)
    BY <1>1, <1>2 DEF registerDisposerNow
  <2>3. Crash => registrationTail' \in Seq(Disposers)
    BY EmptySeq DEF Crash
  <2> QED
    BY <1>1, <1>2, <1>3, <2>1, <2>2, <2>3, RegistrationsFrame
<1>5. cancellations' \in [Scopes -> {"none", "requesting", "acknowledging", "resolved",
                                     "rejected"}]
  <2>1. ASSUME NEW s \in Scopes, cancelScope(s)
        PROVE  cancellations' \in [Scopes -> {"none", "requesting", "acknowledging", "resolved",
                                              "rejected"}]
    BY <1>1, <2>1 DEF cancelScope
  <2>2. ASSUME NEW ok \in BOOLEAN, CancelReturns(ok) \/ AcknowledgeReturns(ok)
        PROVE  cancellations' \in [Scopes -> {"none", "requesting", "acknowledging", "resolved",
                                              "rejected"}]
    BY <1>1, <2>2, Answers DEF CancelReturns, AcknowledgeReturns
  <2>3. Crash => cancellations' \in [Scopes -> {"none", "requesting", "acknowledging", "resolved",
                                                "rejected"}]
    BY DEF Crash
  <2> QED
    BY <1>1, <2>1, <2>2, <2>3, CancellationsFrame
<1> QED
  BY <1>4, <1>5

\* Every event of the log stays about a subject of its sort.
LEMMA AptLog ==
  ASSUME IInv, Next
  PROVE  (\A i \in DOMAIN log : Apt(log[i]))'
<1>1. \A i \in DOMAIN log : Apt(log[i])
  BY DEF IInv, TypeInv
<1>2. ASSUME NEW e \in Event, log' = Append(log, e), Apt(e)
      PROVE  \A i \in DOMAIN log' : Apt(log'[i])
  <2>1. /\ DOMAIN log = 1..Len(log) /\ Len(log) \in Nat
        /\ DOMAIN log' = 1..(Len(log) + 1)
        /\ \A i \in 1..Len(log) : log'[i] = log[i]
        /\ log'[Len(log) + 1] = e
    BY <1>2, LogFacts, AppendEntry
  <2> QED
    BY <1>1, <1>2, <2>1
<1>3. CASE Link
  <2>1. Apt(Linking)
    BY <1>3, LinkFacts DEF EntryType, Apt
  <2> QED
    BY <1>2, <1>3, <2>1, LinkFacts DEF Apt
<1>4. CASE recover
  <2>1. Apt(Recovery)
    BY <1>4, RecoverFacts DEF Apt, ScopeKinds, CancelKinds, OperationKinds, DisposerKinds
  <2> QED
    BY <1>2, <1>4, <2>1, RecoverFacts DEF Apt
<1>5. CASE UNCHANGED log
  BY <1>1, <1>5 DEF Apt
<1> QED
  BY <1>3, <1>4, <1>5, LogFrame

\* So every step keeps the type invariant.
LEMMA TypeStep ==
  ASSUME IInv, Next
  PROVE  TypeInv'
<1>1. state' \in {"ACTIVE", "CANCELLING", "FINALIZING", "TERMINAL", "DOWN"}
  <2>1. state \in {"ACTIVE", "CANCELLING", "FINALIZING", "TERMINAL", "DOWN"}
    BY DEF IInv, TypeInv, TypeOK
  <2> QED
    BY <2>1, StateFrame DEF Crash, recover
<1>2. fin'.pc = "rejected" => state' = "FINALIZING"
  <2>1. /\ fin.pc = "rejected" => state = "FINALIZING"
        /\ fin.pc \notin {"none", "done"} => state = "FINALIZING"
        /\ fin.pc = "none" => state \in {"ACTIVE", "CANCELLING", "DOWN"}
    BY DEF IInv, TypeInv, TypeOK, PhaseInv
  <2>2. Crash => fin'.pc = "none"
    BY DEF Crash, NoFinalization
  <2>3. recover => fin' = fin /\ fin.pc = "none"
    BY DEF recover, IInv, PhaseInv
  <2>4. FinMoves /\ fin'.pc = "rejected" => fin.pc \notin {"none", "last_flush", "done"}
    BY DEF FinMoves
  <2> QED
    BY <2>1, <2>2, <2>3, <2>4, StateFrame, FinSteps
<1>3. TypeOK'
  BY <1>1, <1>2, LogGrows, FaultsGrow, ClocksType, ScopesType, WorkType, DisposersType,
     RequestsType DEF TypeOK
<1> QED
  BY <1>3, FlowOfStep, FinSteps, AptLog, DisposersType DEF TypeInv

\* The causes of an event on the log are events: none is the empty id.
LEMMA LinkedCauses ==
  ASSUME IInv, Link
  PROVE  NoId \notin queue[1].causes
<1>1. queue[1].causes \subseteq Ids(log)
  BY LinkFacts
<1>2. \A i \in DOMAIN log : log[i].id = i /\ i >= 1
  BY LogFacts DEF IInv, LogInv
<1> QED
  BY <1>1, <1>2 DEF Ids, NoId

\* The log keeps its shape: ids are positions, the root opens once, a scope opens
\* only after its parent, and the reserve for what is owed is there.
LEMMA LogStep ==
  ASSUME IInv, Next
  PROVE  LogInv'
<1>1. LogInv
  BY DEF IInv
<1>2. /\ \A i \in DOMAIN log : i \in DOMAIN log' /\ log'[i] = log[i]
      /\ DOMAIN log' = 1..Len(log') /\ Len(log') \in Nat /\ Len(log') >= 2
      /\ DOMAIN log = 1..Len(log) /\ Len(log) \in Nat /\ 2 \in DOMAIN log
  <2>1. /\ \A i \in DOMAIN log : i \in DOMAIN log' /\ log'[i] = log[i]
        /\ DOMAIN log' = 1..Len(log') /\ Len(log') \in Nat /\ Len(log') >= Len(log)
    BY LogGrows
  <2>2. DOMAIN log = 1..Len(log) /\ Len(log) \in Nat /\ Len(log) >= 2
    BY LogFacts
  <2> QED
    BY <2>1, <2>2
<1>3. CASE Link
  <2>1. /\ DOMAIN log' = 1..(Len(log) + 1) /\ log'[Len(log) + 1] = Linking
        /\ Linking.id = Len(log) + 1
        /\ Linking.kind = queue[1].kind /\ Linking.subject = queue[1].subject
        /\ Placed(queue[1]) /\ queue[1] \in EntryType
    BY <1>3, LinkFacts, LogFacts, AppendEntry
  <2>2. \A i \in DOMAIN log' : i \in DOMAIN log \/ i = Len(log) + 1
    BY <1>2, <2>1
  <2>3. \A i \in DOMAIN log' : log'[i].id = i
    BY <1>1, <1>2, <2>1, <2>2 DEF LogInv
  <2>4. \A i \in DOMAIN log' : log'[i].kind = "scope.opened" /\ log'[i].subject = Root => i = 2
    <3>1. Linking.kind = "scope.opened" => Linking.subject # Root
      BY <2>1 DEF Placed, AtScope
    <3> QED
      BY <1>1, <1>2, <2>1, <2>2, <3>1 DEF LogInv
  <2>5. ASSUME NEW s \in Scopes \ {Root}, Recorded("scope.opened", s)'
        PROVE  Recorded("scope.opened", Parent[s])'
    <3>1. CASE Recorded("scope.opened", s)
      BY <1>1, <3>1, RecordedNext DEF LogInv
    <3>2. CASE queue[1].kind = "scope.opened" /\ queue[1].subject = s
      <4>1. Durable(Parent[s])
        BY <1>3, <2>1, <3>2, LinkedCauses DEF Placed, AtScope
      <4>2. Recorded("scope.opened", Parent[s])
        BY <4>1, TreeAssumption DEF IInv, ScopeInv
      <4> QED
        BY <4>2, RecordedNext
    <3>3. ~recover
      BY <1>3 DEF Link, recover, IInv, DownInv
    <3> QED
      BY <2>5, <3>1, <3>2, <3>3, RecordedNext
  <2>6. Has(log', "disposer.started") => Has(log', "finalization.started")
    <3>1. queue[1].kind = "disposer.started" => Has(log, "finalization.started")
      BY <2>1 DEF Placed, AtFinalizer, FinalPc, IInv, PhaseInv, PastRegistrations, PastOperations
    <3>2. ~recover
      BY <1>3 DEF Link, recover, IInv, DownInv
    <3>3. /\ Has(log', "disposer.started")
               => Has(log, "disposer.started") \/ queue[1].kind = "disposer.started"
          /\ Has(log, "finalization.started") => Has(log', "finalization.started")
      BY <3>2, RecordedNext
    <3> QED
      BY <1>1, <3>1, <3>3 DEF LogInv
  <2>7. Reserve(log') /\ Len(log') <= MaxEvents
    BY <1>3, LinkFacts, LogFacts, AppendKeepsReserve
  <2> QED
    BY <1>1, <1>2, <2>3, <2>4, <2>5, <2>6, <2>7 DEF LogInv
<1>4. CASE recover
  <2>1. /\ DOMAIN log' = 1..(Len(log) + 1) /\ log'[Len(log) + 1] = Recovery
        /\ Recovery.id = Len(log) + 1 /\ Recovery.kind = "trajectory.recovered"
    BY <1>4, RecoverFacts, LogFacts, AppendEntry
  <2>2. ~Link
    BY <1>4 DEF Link, recover, IInv, DownInv
  <2>3. \A i \in DOMAIN log' : i \in DOMAIN log \/ i = Len(log) + 1
    BY <1>2, <2>1
  <2>4. \A i \in DOMAIN log' : log'[i].id = i
    BY <1>1, <1>2, <2>1, <2>3 DEF LogInv
  <2>5. \A i \in DOMAIN log' : log'[i].kind = "scope.opened" /\ log'[i].subject = Root => i = 2
    BY <1>1, <1>2, <2>1, <2>3 DEF LogInv
  <2>6. \A s : Recorded("scope.opened", s)' <=> Recorded("scope.opened", s)
    BY <2>2, RecordedNext
  <2>7. \A k \in {"disposer.started", "finalization.started"} : Has(log', k) <=> Has(log, k)
    BY <2>2, RecordedNext
  <2> QED
    BY <1>1, <1>2, <1>4, <2>4, <2>5, <2>6, <2>7, RecoverFacts DEF LogInv
<1>5. CASE UNCHANGED log
  BY <1>1, <1>5 DEF LogInv, Recorded
<1> QED
  BY <1>3, <1>4, <1>5, LogFrame

\* Only a live coordinator changes the scopes, and only an active one opens one
\* or starts an operation.
LEMMA ReadyStays ==
  ASSUME IInv, Next, fin.pc \in PastRegistrations
  PROVE  /\ ~Crash => Ready' \subseteq Ready
         /\ ~(\E ok \in BOOLEAN : RegisterReturns(ok))
<1>1. registrationTail = <<>>
  BY DEF IInv, PhaseInv
<1>2. ASSUME NEW ok \in BOOLEAN, RegisterReturns(ok) PROVE FALSE
  BY <1>1, <1>2, HeadOfQueue DEF RegisterReturns, Answer, Placed, AtDisposer
<1>3. disposers \in [Disposers -> [status : {"absent", "registered", "started", "settled",
                                             "timed_out"}, ordinal : Nat]]
  BY DEF IInv, TypeInv, TypeOK
<1>4. ASSUME NEW ok \in BOOLEAN, DisposerStartReturns(ok) PROVE Ready' \subseteq Ready
  BY <1>3, <1>4, Answers DEF DisposerStartReturns, Ready
<1>5. ASSUME NEW how \in {"completed", "failed", "timed_out"}, HandlerEnds(how)
      PROVE  Ready' \subseteq Ready
  BY <1>3, <1>5 DEF HandlerEnds, Ready
<1> QED
  BY <1>2, <1>4, <1>5, DisposersFrame DEF Ready

\* Once the coordinator finalizes, no operation begins.
LEMMA ActiveStays ==
  ASSUME IInv, Next, fin.pc # "none" \/ state = "DOWN"
  PROVE  Active' \subseteq Active
<1>1. state # "ACTIVE"
  BY DEF IInv, PhaseInv
<1>2. operations \in [Operations -> {"idle", "starting", "running", "settling",
                                     "recording_failure", "done"}]
  BY DEF IInv, TypeInv, TypeOK
<1>3. ASSUME NEW o \in Operations, HandlerReturns(o) \/ HandlerThrows(o)
      PROVE  Active' \subseteq Active
  BY <1>2, <1>3 DEF HandlerReturns, HandlerThrows, Active
<1>4. ASSUME NEW ok \in BOOLEAN, StartReturns(ok) PROVE Active' \subseteq Active
  <2>1. operations[Subject] = "starting"
    BY <1>4, HeadOfQueue DEF StartReturns, Answer, Placed, AtOperation
  <2> QED
    BY <1>2, <1>4, <2>1, Answers DEF StartReturns, Active
<1>5. ASSUME NEW ok \in BOOLEAN, SettleReturns(ok) PROVE Active' \subseteq Active
  <2>1. operations[Subject] \in {"settling", "recording_failure"}
    BY <1>5, HeadOfQueue DEF SettleReturns, Answer, Placed, AtOperation
  <2> QED
    BY <1>2, <1>5, <2>1, Answers DEF SettleReturns, Active
<1>6. Crash \/ recover => Active' \subseteq Active
  BY DEF Crash, recover, Active
<1>7. ASSUME NEW o \in Operations, runOperation(o) PROVE FALSE
  BY <1>1, <1>7 DEF runOperation
<1> QED
  BY <1>3, <1>4, <1>5, <1>6, <1>7, OperationsFrame DEF Active

\* abortSubtree raises signals and leaves the rest of every scope alone.
LEMMA AbortSubtree ==
  ASSUME IInv, NEW c \in Scopes, NEW s \in Scopes
  PROVE  /\ abortSubtree(c)[s].status = scopes[s].status
         /\ abortSubtree(c)[s].openedEventId = scopes[s].openedEventId
         /\ abortSubtree(c)[s].aborted <=> (scopes[s].aborted \/ (Present(s) /\ Beneath(s, c)))
<1>1. scopes[s] \in [status : {"absent", "open", "closed"}, openedEventId : EventIds,
                     aborted : BOOLEAN]
  BY DEF IInv, TypeInv, TypeOK
<1>2. abortSubtree(c)[s] = [scopes[s] EXCEPT !.aborted = @ \/ (Present(s) /\ Beneath(s, c))]
  BY DEF abortSubtree
<1> QED
  BY <1>1, <1>2

\* Nor does a scope open.
LEMMA OpenStays ==
  ASSUME IInv, Next, fin.pc # "none"
  PROVE  \A s \in Scopes : Open(s)' => Open(s)
<1>1. state # "ACTIVE" /\ state # "DOWN"
  BY DEF IInv, PhaseInv
<1>2. scopes \in [Scopes -> [status : {"absent", "open", "closed"}, openedEventId : EventIds,
                             aborted : BOOLEAN]]
  BY DEF IInv, TypeInv, TypeOK
<1>3. ASSUME NEW ok \in BOOLEAN, OpenScopeReturns(ok) PROVE \A s \in Scopes : Open(s)' => Open(s)
  BY <1>2, <1>3, Answers DEF OpenScopeReturns, Open, Absent
<1>4. ASSUME NEW ok \in BOOLEAN, CloseScopeReturns(ok) \/ FinalCloseReturns(ok)
      PROVE  \A s \in Scopes : Open(s)' => Open(s)
  <2>1. Subject \in Scopes
    BY <1>4, Answers
  <2>2. \/ scopes' = scopes
        \/ scopes' = [scopes EXCEPT ![Subject].status = "closed"]
        \/ scopes' = [scopes EXCEPT ![Subject].status = scopes[Subject].status]
    BY <1>4 DEF CloseScopeReturns, FinalCloseReturns
  <2> QED
    BY <1>2, <2>1, <2>2 DEF Open
<1>5. ASSUME NEW ok \in BOOLEAN, CancelReturns(ok) PROVE \A s \in Scopes : Open(s)' => Open(s)
  <2>1. scopes' = abortSubtree(Subject) \/ scopes' = scopes
    BY <1>5 DEF CancelReturns
  <2>2. \A s \in Scopes : abortSubtree(Subject)[s].status = scopes[s].status
    BY <1>5, Answers, AbortSubtree
  <2>3. \A s \in Scopes : scopes'[s].status = scopes[s].status
    BY <2>1, <2>2
  <2> QED
    BY <2>3 DEF Open
<1>6. Crash => \A s \in Scopes : Open(s)' => Open(s)
  BY DEF Crash, Open, Absent
<1>7. ~recover /\ \A s \in Scopes : ~OpenScope(s)
  BY <1>1 DEF recover, OpenScope
<1> QED
  BY <1>3, <1>4, <1>5, <1>6, <1>7, ScopesFrame DEF Open

\* After a crash the coordinator's memory is gone.
LEMMA CrashFacts ==
  ASSUME Crash
  PROVE  /\ state' = "DOWN" /\ fin'.pc = "none" /\ queue' = <<>> /\ registrationTail' = <<>>
         /\ fenced' = {} /\ UNCHANGED <<log, faults>>
         /\ \A d \in Disposers : disposers'[d].status = "absent"
         /\ \A s \in Scopes : cancellations'[s] = "none" /\ scopes'[s] = Absent
         /\ \A o \in Operations : operations'[o] = "idle"
BY DEF Crash, NoFinalization

\* How often the position of the finalizer stays or moves in bounds.
LEMMA PcStays ==
  ASSUME IInv, Next, ~Crash
  PROVE  /\ fin.pc # "none" => fin'.pc # "none"
         /\ fin'.pc \in PastDisposal => fin.pc \in PastDisposal \/ BeginClosing
         /\ fin'.pc \in PastOperations =>
              fin.pc \in PastOperations \/ OperationsSettle \/ FenceOperations
         /\ fin'.pc \in PastRegistrations => fin.pc \in PastRegistrations \/ AwaitRegistrations
BY FinSteps DEF FinMoves, PastRegistrations, PastOperations, PastDisposal

\* lifecycleState and the finalizer agree on where finalization is.
LEMMA PhaseOfState ==
  ASSUME IInv, Next
  PROVE  /\ fin'.pc = "none" <=> state' \in {"ACTIVE", "CANCELLING", "DOWN"}
         /\ fin'.pc = "done" <=> state' = "TERMINAL"
<1>1. /\ fin.pc = "none" <=> state \in {"ACTIVE", "CANCELLING", "DOWN"}
      /\ fin.pc = "done" <=> state = "TERMINAL"
  BY DEF IInv, PhaseInv
<1>2. FinMoves =>
        \/ fin.pc = "none" /\ fin'.pc = "starting" /\ state' = "FINALIZING"
        \/ fin.pc = "last_flush" /\ fin'.pc = "done" /\ state' = "TERMINAL"
        \/ fin.pc \notin {"none", "done"} /\ fin'.pc \notin {"none", "done"}
  BY DEF FinMoves
<1>3. recover => fin' = fin /\ state' = "ACTIVE" /\ state = "DOWN"
  BY DEF recover
<1> QED
  BY <1>1, <1>2, <1>3, StateFrame, FinSteps, CrashFacts

\* Nothing of finalization happens before its marker is durable.
LEMMA MarkerRecorded ==
  ASSUME IInv, Next
  PROVE  fin'.pc \in {"registrations"} \cup PastRegistrations => Has(log', "finalization.started")
<1>1. Has(log, "finalization.started") => Has(log', "finalization.started")
  BY RecordedNext
<1>2. FinalizationStartReturns(TRUE) => Has(log, "finalization.started")
  <2>1. FinalizationStartReturns(TRUE) =>
          queue # <<>> /\ queue[1].linked /\ queue[1].kind = "finalization.started"
    BY HeadOfQueue DEF FinalizationStartReturns, Answer
  <2>2. FinalizationStartReturns(TRUE) => log[Len(log)].kind = "finalization.started"
    BY <2>1, HeadOfQueue DEF IInv, LinkedInv
  <2> QED
    BY <2>2, LogFacts DEF Has
<1>3. fin.pc \in {"registrations"} \cup PastRegistrations => Has(log, "finalization.started")
  BY DEF IInv, PhaseInv
<1>4. FinMoves /\ fin'.pc \in {"registrations"} \cup PastRegistrations =>
        \/ fin.pc \in {"registrations"} \cup PastRegistrations
        \/ FinalizationStartReturns(TRUE)
  BY DEF FinMoves, PastRegistrations, PastOperations, PastDisposal
<1>5. Crash => fin'.pc \notin {"registrations"} \cup PastRegistrations
  BY CrashFacts DEF PastRegistrations, PastOperations, PastDisposal
<1> QED
  BY <1>1, <1>2, <1>3, <1>4, <1>5, FinSteps

\* No registration is in flight once the finalizer has waited for them.
LEMMA NoRegistrations ==
  ASSUME IInv, Next
  PROVE  /\ fin'.pc \in PastRegistrations => registrationTail' = <<>>
         /\ Has(log', "disposer.started") /\ state' # "DOWN" =>
              fin'.pc # "none" /\ registrationTail' = <<>>
<1>1. /\ fin.pc \in PastRegistrations => registrationTail = <<>>
      /\ Has(log, "disposer.started") /\ state # "DOWN" =>
           fin.pc # "none" /\ registrationTail = <<>>
      /\ fin.pc # "none" => state # "ACTIVE" /\ state # "DOWN"
  BY DEF IInv, PhaseInv
<1>2. registrationTail = <<>> /\ fin.pc # "none" => registrationTail' = <<>>
  <2> SUFFICES ASSUME registrationTail = <<>>, fin.pc # "none" PROVE registrationTail' = <<>>
    OBVIOUS
  <2>1. ~registerDisposerNow
    BY DEF registerDisposerNow
  <2>2. ASSUME NEW ok \in BOOLEAN, RegisterReturns(ok) PROVE FALSE
    BY <2>2, HeadOfQueue DEF RegisterReturns, Answer, Placed, AtDisposer
  <2>3. \A d \in Disposers : ~RegisterDisposer(d)
    BY <1>1 DEF RegisterDisposer
  <2> QED
    BY <2>1, <2>2, <2>3, RegistrationsFrame, CrashFacts
<1>3. fin'.pc \in PastRegistrations => registrationTail' = <<>>
  <2>1. AwaitRegistrations /\ fin'.pc \in PastRegistrations
          => registrationTail' = <<>>
    <3>1. fin \in FinType
      BY DEF IInv, TypeInv
    <3> QED
      BY <3>1 DEF AwaitRegistrations, OnlyFinalizer, Advance, FinType, PastRegistrations,
                  PastOperations, PastDisposal
  <2>2. "none" \notin PastRegistrations
    BY DEF PastRegistrations, PastOperations, PastDisposal
  <2> QED
    BY <1>1, <1>2, <2>1, <2>2, PcStays, CrashFacts
<1>4. ASSUME Has(log', "disposer.started"), state' # "DOWN"
      PROVE  fin'.pc # "none" /\ registrationTail' = <<>>
  <2>1. ~Crash
    BY <1>4, CrashFacts
  <2>2. CASE Has(log, "disposer.started")
    <3>1. ~recover
      BY <2>2 DEF recover, IInv, LogInv
    <3>2. state # "DOWN"
      BY <1>4, <2>1, <3>1, StateFrame DEF IInv, PhaseInv
    <3> QED
      BY <1>1, <1>2, <2>1, <2>2, <3>2, PcStays
  <2>3. CASE Link /\ queue[1].kind = "disposer.started"
    <3>1. fin.pc = "starting_disposer"
      BY <2>3, LinkFacts DEF Placed, AtFinalizer, FinalPc
    <3> QED
      BY <1>1, <1>2, <2>1, <3>1, PcStays DEF PastRegistrations, PastOperations
  <2> QED
    BY <1>4, <2>2, <2>3, RecordedNext
<1> QED
  BY <1>3, <1>4

\* Operations are given up on only past the deadline, under a durable cancellation
\* of the root.
LEMMA FencedStep ==
  ASSUME IInv, Next
  PROVE  /\ fin'.pc = "cancelling" => fin'.slowOperations
         /\ fin'.pc \in PastOperations => Active' \subseteq fenced'
         /\ fenced' # {} => fin'.slowOperations /\ Recorded("cancellation.requested", Root)'
<1>1. /\ fin.pc = "cancelling" => fin.slowOperations
      /\ fin.pc \in PastOperations => Active \subseteq fenced
      /\ fenced # {} => fin.slowOperations /\ Recorded("cancellation.requested", Root)
  BY DEF IInv, PhaseInv
<1>2. CASE Crash
  BY <1>2, CrashFacts DEF PastOperations, PastDisposal
<1>3. CASE ~Crash
  <2>1. fin \in FinType
    BY DEF IInv, TypeInv
  <2>2. fin.slowOperations => fin'.slowOperations
    <3>1. UNCHANGED fin => (fin.slowOperations => fin'.slowOperations)
      OBVIOUS
    <3>2. ASSUME NEW want \in Wants, finalize(want) PROVE fin.slowOperations => fin'.slowOperations
      BY <2>1, <3>2 DEF finalize, FinType
    <3>3. ASSUME NEW how \in {"completed", "failed", "timed_out"}, HandlerEnds(how)
          PROVE  fin.slowOperations => fin'.slowOperations
      BY <2>1, <3>3 DEF HandlerEnds, FinType
    <3>4. ASSUME NEW ok \in BOOLEAN,
                 \/ FinalizationStartReturns(ok) \/ DisposerStartReturns(ok)
                 \/ DisposerSettleReturns(ok) \/ FinalCloseReturns(ok) \/ ReceiptReturns(ok)
                 \/ TerminalReturns(ok)
          PROVE  fin.slowOperations => fin'.slowOperations
      BY <2>1, <3>4 DEF FinalizationStartReturns, DisposerStartReturns, DisposerSettleReturns,
         FinalCloseReturns, ReceiptReturns, TerminalReturns, AdvanceIf, Advance, FinType
    <3>5. OperationsTimeOut => (fin.slowOperations => fin'.slowOperations)
      BY <2>1 DEF OperationsTimeOut, FinType
    <3>6. \/ StartWindowExpires \/ AwaitRegistrations \/ OperationsSettle \/ FenceOperations
          \/ DisposeNext \/ CloseNext \/ flushAppends \/ SendReceipt
          => (fin.slowOperations => fin'.slowOperations)
      BY <2>1 DEF StartWindowExpires, AwaitRegistrations, OperationsSettle, FenceOperations,
         DisposeNext, CloseNext, flushAppends, SendReceipt, AdvanceIf, Advance, FinType
    <3>7. BeginClosing \/ FlushReturns \/ ReadTip => (fin.slowOperations => fin'.slowOperations)
      BY <2>1 DEF BeginClosing, FlushReturns, ReadTip, Advance, FinType
    <3> QED
      BY <1>3, <3>1, <3>2, <3>3, <3>4, <3>5, <3>6, <3>7, FinFrame
  <2>3. fin'.pc = "cancelling" => fin'.slowOperations
    <3>1. OperationsTimeOut => fin'.slowOperations
      BY <2>1 DEF OperationsTimeOut, FinType
    <3>2. fin'.pc = "cancelling" => UNCHANGED fin \/ OperationsTimeOut
      BY <1>3, FinSteps DEF FinMoves
    <3> QED
      BY <1>1, <3>1, <3>2
  <2>4. Recorded("cancellation.requested", Root) => Recorded("cancellation.requested", Root)'
    BY RecordedNext
  <2>5. FenceOperations /\ cancellations[Root] = "resolved" =>
          Recorded("cancellation.requested", Root) /\ fin.slowOperations
    BY <1>1, TreeAssumption DEF FenceOperations, IInv, CancelInv
  <2>6. fenced' # {} => fin'.slowOperations /\ Recorded("cancellation.requested", Root)'
    <3>1. FenceOperations => fenced' = fenced \/ cancellations[Root] = "resolved"
      BY DEF FenceOperations
    <3> QED
      BY <1>1, <1>3, <2>2, <2>4, <2>5, <3>1, FencedFrame
  <2>7. fin'.pc \in PastOperations => Active' \subseteq fenced'
    <3>1. fenced \subseteq fenced'
      BY <1>3, FencedFrame DEF FenceOperations
    <3>2. "none" \notin PastOperations
      BY DEF PastOperations, PastDisposal
    <3>3. OperationsSettle => Active' \subseteq fenced'
      <4>1. OperationsSettle => fin.pc # "none" /\ Active = {}
        BY DEF OperationsSettle
      <4> QED
        BY <4>1, ActiveStays
    <3>4. FenceOperations /\ fin'.pc \in PastOperations => Active' \subseteq fenced'
      <4>1. FenceOperations /\ fin'.pc \in PastOperations => cancellations[Root] = "resolved"
        BY <2>1 DEF FenceOperations, AdvanceIf, Advance, FinType, PastOperations, PastDisposal
      <4>2. FenceOperations => fin.pc # "none"
        BY DEF FenceOperations
      <4>3. FenceOperations /\ cancellations[Root] = "resolved" => Active \subseteq fenced'
        BY DEF FenceOperations
      <4> QED
        BY <4>1, <4>2, <4>3, ActiveStays
    <3> QED
      BY <1>1, <1>3, <3>1, <3>2, <3>3, <3>4, PcStays, ActiveStays
  <2> QED
    BY <2>3, <2>6, <2>7
<1> QED
  BY <1>2, <1>3

\* At most one disposer is handled at a time, and none is left when closing.
LEMMA HandlingStep ==
  ASSUME IInv, Next
  PROVE  /\ \A d \in Disposers : disposers'[d].status = "started" => fin'.pc = "handling"
         /\ \A d, x \in Disposers :
              disposers'[d].status = "started" /\ disposers'[x].status = "started" => d = x
         /\ fin'.pc \in PastDisposal => Ready' = {}
<1>1. /\ \A d \in Disposers : disposers[d].status = "started" => fin.pc = "handling"
      /\ \A d, x \in Disposers :
           disposers[d].status = "started" /\ disposers[x].status = "started" => d = x
      /\ fin.pc \in PastDisposal => Ready = {}
  BY DEF IInv, PhaseInv
<1>2. /\ disposers \in [Disposers -> [status : {"absent", "registered", "started", "settled",
                                                "timed_out"}, ordinal : Nat]]
      /\ fin \in FinType
  BY DEF IInv, TypeInv, TypeOK
<1>3. CASE Crash
  BY <1>3, CrashFacts DEF PastDisposal
<1>4. ASSUME NEW ok \in BOOLEAN, RegisterReturns(ok)
      PROVE  /\ \A d \in Disposers :
                   disposers'[d].status = "started" => disposers[d].status = "started"
             /\ UNCHANGED fin
  BY <1>2, <1>4, Answers DEF RegisterReturns
<1>5. ASSUME NEW ok \in BOOLEAN, DisposerStartReturns(ok)
      PROVE  /\ \A d \in Disposers : disposers'[d].status = "started" => d = Subject
             /\ \A d \in Disposers : disposers'[d].status = "started" => fin'.pc = "handling"
  <2>1. fin.pc = "starting_disposer"
    BY <1>5, Awaited
  <2>2. \A d \in Disposers : disposers[d].status # "started"
    BY <1>1, <2>1
  <2>3. CASE ok
    <3>1. disposers' = [disposers EXCEPT ![Subject].status = "started"] /\ fin'.pc = "handling"
      BY <1>2, <1>5, <2>3 DEF DisposerStartReturns, AdvanceIf, Advance, FinType
    <3> QED
      BY <1>2, <1>5, <2>2, <3>1, Answers
  <2>4. CASE ~ok
    <3>1. disposers' = [disposers EXCEPT ![Subject].status = disposers[Subject].status]
      BY <1>5, <2>4 DEF DisposerStartReturns
    <3> QED
      BY <1>2, <1>5, <2>2, <3>1, Answers
  <2> QED
    BY <2>3, <2>4
<1>6. ASSUME NEW how \in {"completed", "failed", "timed_out"}, HandlerEnds(how)
      PROVE  \A d \in Disposers : disposers'[d].status # "started"
  BY <1>1, <1>2, <1>6 DEF HandlerEnds
<1>7. UNCHANGED disposers /\ (\E d \in Disposers : disposers[d].status = "started")
        => fin'.pc = "handling"
  <2> SUFFICES ASSUME UNCHANGED disposers, NEW d \in Disposers, disposers[d].status = "started"
               PROVE  fin'.pc = "handling"
    OBVIOUS
  <2>1. fin.pc = "handling"
    BY <1>1
  <2>2. ASSUME NEW how \in {"completed", "failed", "timed_out"}, HandlerEnds(how) PROVE FALSE
    BY <1>6, <2>2
  <2>3. CASE Crash
    BY <2>3, CrashFacts
  <2>4. CASE UNCHANGED fin
    BY <2>1, <2>4
  <2>5. \A ok \in BOOLEAN :
          /\ ~FinalizationStartReturns(ok) /\ ~DisposerStartReturns(ok)
          /\ ~DisposerSettleReturns(ok) /\ ~FinalCloseReturns(ok) /\ ~ReceiptReturns(ok)
          /\ ~TerminalReturns(ok)
    BY <2>1, Awaited
  <2>6. ~FlushReturns
    <3>1. FlushReturns => fin.pc \in {"flushing", "last_flush"}
      BY Awaited
    <3> QED
      BY <2>1, <3>1
  <2> QED
    BY <2>1, <2>2, <2>3, <2>4, <2>5, <2>6, FinFrame DEF finalize, StartWindowExpires,
       AwaitRegistrations, OperationsSettle, OperationsTimeOut, FenceOperations, DisposeNext,
       BeginClosing, CloseNext, flushAppends, ReadTip, SendReceipt
<1>8. /\ \A d \in Disposers : disposers'[d].status = "started" => fin'.pc = "handling"
      /\ \A d, x \in Disposers :
           disposers'[d].status = "started" /\ disposers'[x].status = "started" => d = x
  BY <1>1, <1>3, <1>4, <1>5, <1>6, <1>7, CrashFacts, DisposersFrame
<1>9. fin'.pc \in PastDisposal => Ready' = {}
  <2>1. fin.pc \in PastDisposal => Ready' = {} \/ Crash
    BY <1>1, ReadyStays DEF PastRegistrations, PastOperations
  <2>2. BeginClosing => Ready' = {}
    BY DEF BeginClosing, OnlyFinalizer, Ready
  <2> QED
    BY <1>3, <2>1, <2>2, PcStays, CrashFacts DEF PastDisposal
<1> QED
  BY <1>8, <1>9

\* What the finalizer found quiet stays quiet until the receipt is durable.
LEMMA QuiescenceStep ==
  ASSUME IInv, Next
  PROVE  fin'.pc \in {"tip", "receipt", "sealing"} /\ fin'.quiescence = "confirmed" =>
           ~TimedOut' /\ \A s \in Scopes : ~Open(s)'
<1> SUFFICES ASSUME fin'.pc \in {"tip", "receipt", "sealing"}, fin'.quiescence = "confirmed"
             PROVE  ~TimedOut' /\ \A s \in Scopes : ~Open(s)'
  OBVIOUS
<1>1. fin \in FinType
  BY DEF IInv, TypeInv
<1>2. ~Crash
  BY CrashFacts
<1>3. CASE UNCHANGED fin
  BY <1>3, OpenStays DEF IInv, PhaseInv, TimedOut
<1>4. CASE FinMoves
  <2>1. CASE FlushReturns /\ fin.pc = "flushing"
    <3>1. /\ fin' = [fin EXCEPT !.pc = "tip", !.quiescence =
                       IF ~TimedOut /\ \A s \in Scopes : ~Open(s)
                         THEN "confirmed" ELSE "not_confirmed"]
          /\ UNCHANGED scopes
      BY <2>1 DEF FlushReturns
    <3>2. /\ fin'.slowOperations = fin.slowOperations /\ fin'.slowDisposers = fin.slowDisposers
          /\ fin'.quiescence = IF ~TimedOut /\ \A s \in Scopes : ~Open(s)
                                 THEN "confirmed" ELSE "not_confirmed"
      BY <1>1, <3>1 DEF FinType
    <3> QED
      BY <3>1, <3>2 DEF TimedOut, Open
  <2>2. CASE (fin.pc = "tip" /\ ReadTip) \/ (fin.pc = "receipt" /\ SendReceipt)
    <3>1. /\ fin'.slowOperations = fin.slowOperations /\ fin'.slowDisposers = fin.slowDisposers
          /\ fin'.quiescence = fin.quiescence
      BY <1>1, <2>2 DEF ReadTip, SendReceipt, Advance, FinType
    <3>2. ~TimedOut /\ \A s \in Scopes : ~Open(s)
      BY <2>2, <3>1 DEF IInv, PhaseInv
    <3> QED
      BY <2>2, <3>1, <3>2, OpenStays DEF TimedOut
  <2> QED
    BY <1>4, <2>1, <2>2 DEF FinMoves
<1> QED
  BY <1>2, <1>3, <1>4, FinSteps

\* A live coordinator notices that its trajectory is over, unless an I/O error was
\* reported for the terminal event.
LEMMA TerminatedStep ==
  ASSUME IInv, Next
  PROVE  Terminated(log') /\ state' # "DOWN" =>
           \/ /\ fin'.pc = "terminal" /\ queue' # <<>>
              /\ Head(queue').linked /\ Head(queue').kind = "trajectory.terminal"
           \/ fin'.pc \in {"last_flush", "done"}
           \/ fin'.pc = "rejected" /\ faults' > 0
<1> SUFFICES ASSUME Terminated(log'), state' # "DOWN"
             PROVE  \/ /\ fin'.pc = "terminal" /\ queue' # <<>>
                       /\ Head(queue').linked /\ Head(queue').kind = "trajectory.terminal"
                    \/ fin'.pc \in {"last_flush", "done"}
                    \/ fin'.pc = "rejected" /\ faults' > 0
  OBVIOUS
<1>1. ~Crash
  BY CrashFacts
<1>2. queue' \in Seq(EntryType) /\ (queue' # <<>> => Head(queue') = queue'[1])
  BY FlowOfStep, DropHead
<1>3. CASE Link /\ ~Terminated(log)
  <2>1. queue[1].kind = "trajectory.terminal"
    <3>1. ~recover
      BY <1>3 DEF Link, recover, IInv, DownInv
    <3> QED
      BY <1>3, <3>1, RecordedNext DEF Terminated
  <2>2. fin.pc = "terminal"
    BY <1>3, <2>1, LinkFacts DEF Placed, AtFinalizer, FinalPc, RunKinds
  <2>3. /\ 1 \in DOMAIN queue' /\ queue'[1].linked /\ queue'[1].kind = "trajectory.terminal"
    BY <1>3, <2>1, LinkFacts DEF EntryType, EntryFields
  <2>4. queue' # <<>>
    BY <2>3
  <2>5. UNCHANGED fin
    BY <1>3 DEF Link
  <2> QED
    BY <1>2, <2>2, <2>3, <2>4, <2>5
<1>4. CASE Terminated(log)
  <2>1. ~recover /\ ~Link
    BY <1>4, LinkFacts DEF recover
  <2>2. state # "DOWN"
    BY <1>1, <2>1, StateFrame DEF IInv, PhaseInv
  <2>3. CASE fin.pc = "rejected" /\ faults > 0
    <3>1. faults' > 0
      BY <2>3, FaultsGrow
    <3>2. fin'.pc = "rejected"
      BY <1>1, <2>3, FinSteps DEF FinMoves
    <3> QED
      BY <3>1, <3>2
  <2>4. CASE fin.pc \in {"last_flush", "done"}
    BY <1>1, <2>4, FinSteps DEF FinMoves
  <2>5. CASE /\ fin.pc = "terminal" /\ queue # <<>>
             /\ Head(queue).linked /\ Head(queue).kind = "trajectory.terminal"
    <3>1. 1 \in DOMAIN queue /\ queue[1].linked /\ queue[1].kind = "trajectory.terminal"
      BY <2>5, HeadOfQueue
    <3>2. CASE Served
      <4>1. \E ok \in BOOLEAN : TerminalReturns(ok)
        BY <2>5, <3>2 DEF Served, Answered, Answer, FlushReturns, OpenScopeReturns,
           CloseScopeReturns, RegisterReturns, StartReturns, SettleReturns, CancelReturns,
           AcknowledgeReturns, FinalizationStartReturns, DisposerStartReturns,
           DisposerSettleReturns, FinalCloseReturns, ReceiptReturns
      <4>2. PICK ok \in BOOLEAN : TerminalReturns(ok)
        BY <4>1
      <4>3. fin \in FinType /\ faults \in Nat
        BY FaultsGrow DEF IInv, TypeInv
      <4>4. ok => fin'.pc = "last_flush"
        BY <4>2, <4>3 DEF TerminalReturns, AdvanceIf, Advance, FinType
      <4>5. ~ok => fin'.pc = "rejected" /\ faults' = faults + 1
        BY <2>5, <4>2, <4>3 DEF TerminalReturns, AdvanceIf, Advance, Answer, FinType
      <4>6. faults' = faults + 1 => faults' > 0
        BY <4>3
      <4> QED
        BY <4>4, <4>5, <4>6
    <3>3. CASE ~Served
      <4>1. Flow(0)
        BY <1>1, <2>1, <3>3, FlowOfStep
      <4>2. 1 \in DOMAIN queue' /\ queue'[1] = queue[1]
        BY <3>1, <4>1 DEF Flow
      <4>3. queue' # <<>>
        BY <4>2
      <4>4. fin'.pc = "terminal" \/ (fin'.pc = "rejected" /\ faults' > 0)
        <5>1. UNCHANGED fin
          <6>1. \A ok \in BOOLEAN : ~TerminalReturns(ok) /\ ~ReceiptReturns(ok)
                   /\ ~FinalizationStartReturns(ok) /\ ~DisposerStartReturns(ok)
                   /\ ~DisposerSettleReturns(ok) /\ ~FinalCloseReturns(ok)
            BY <3>3 DEF Served, Answered
          <6>2. ~FlushReturns
            BY <3>3 DEF Served
          <6> QED
            BY <1>1, <2>5, <6>1, <6>2, FinFrame DEF finalize, StartWindowExpires,
               AwaitRegistrations, OperationsSettle, OperationsTimeOut, FenceOperations,
               DisposeNext, HandlerEnds, BeginClosing, CloseNext, flushAppends, ReadTip,
               SendReceipt
        <5> QED
          BY <2>5, <5>1
      <4> QED
        BY <1>2, <2>5, <3>1, <4>2, <4>4, <4>3
    <3> QED
      BY <3>2, <3>3
  <2> QED
    BY <1>4, <2>2, <2>3, <2>4, <2>5 DEF IInv, PhaseInv
<1>5. Terminated(log) \/ Link
  BY RecordedNext DEF Terminated
<1> QED
  BY <1>3, <1>4, <1>5

\* A step keeps what is known of the finalizer.
LEMMA PhaseStep ==
  ASSUME IInv, Next
  PROVE  PhaseInv'
BY PhaseOfState, MarkerRecorded, NoRegistrations, FencedStep, HandlingStep, QuiescenceStep,
   TerminatedStep DEF PhaseInv

\* A step keeps a dead process without memory.
LEMMA DownStep ==
  ASSUME IInv, Next
  PROVE  DownInv'
<1>1. CASE Crash
  BY <1>1 DEF Crash, DownInv
<1>2. CASE state # "DOWN" /\ ~Crash
  BY <1>2, StateFrame DEF recover, DownInv
<1>3. CASE state = "DOWN" /\ ~Crash
  <2> SUFFICES ASSUME state' = "DOWN" PROVE DownInv'
    BY DEF DownInv
  <2>1. ~recover
    BY DEF recover
  <2>2. /\ fin.pc = "none" /\ queue = <<>> /\ registrationTail = <<>>
        /\ \A s \in Scopes : scopes[s].status = "absent"
        /\ \A o \in Operations : operations[o] = "idle"
        /\ DownInv
    BY <1>3 DEF IInv, PhaseInv, DownInv, Absent
  <2>3. UNCHANGED <<ledgerVars, state, scopes, workVars, disposers, registrationTail,
                    cancellations>>
    BY <1>3, <2>1, <2>2
       DEF Next, Requested, Handled, Serve, Answered, Finalizing, OpenScope, CloseScope, Cancel,
           RegisterDisposer, runOperation, finalize, HandlerReturns, HandlerThrows, HandlerEnds,
           OpenScopeReturns, CloseScopeReturns, RegisterReturns, StartReturns, SettleReturns,
           CancelReturns, AcknowledgeReturns, FinalizationStartReturns, DisposerStartReturns,
           DisposerSettleReturns, FinalCloseReturns, ReceiptReturns, TerminalReturns,
           FlushReturns, Answer, registerDisposerNow, AwaitRegistrations, OperationsSettle,
           OperationsTimeOut, FenceOperations, DisposeNext, BeginClosing, CloseNext,
           flushAppends, ReadTip, SendReceipt, OnlyFinalizer, Expire, StartWindowExpires,
           ledgerVars, Link
  <2> QED
    BY <2>2, <2>3 DEF DownInv, ledgerVars, workVars
<1> QED
  BY <1>1, <1>2, <1>3

\* What is said by an entry that joins, and on which step.
Joins(e) ==
  \/ \E s \in Scopes :
       /\ e.subject = s
       /\ \/ /\ OpenScope(s) /\ e.kind = "scope.opened" /\ ~e.final
             /\ e.causes = {scopes[Parent[s]].openedEventId}
          \/ /\ CloseScope(s) /\ e.kind = "scope.closed" /\ ~e.final
             /\ e.causes = {scopes[s].openedEventId}
          \/ /\ CloseNext /\ e.kind = "scope.closed" /\ e.final
             /\ e.causes = {scopes[s].openedEventId}
          \/ /\ cancelScope(s) /\ state # "DOWN" /\ e.kind = "cancellation.requested" /\ ~e.final
          \/ /\ CancelReturns(TRUE) /\ s = Subject /\ e.kind = "cancellation.acknowledged"
             /\ ~e.final
  \/ \E o \in Operations :
       /\ e.subject = o /\ ~e.final
       /\ \/ runOperation(o) /\ e.kind = "operation.started"
          \/ /\ e.kind = "operation.settled" /\ MaySettle(o)
             /\ \/ HandlerReturns(o) \/ HandlerThrows(o)
                \/ SettleReturns(FALSE) /\ o = Subject /\ operations[o] = "settling"
             /\ e.claim = "completed" => HandlerReturns(o) /\ ~Late(o)
  \/ \E d \in Disposers :
       /\ e.subject = d
       /\ \/ /\ registerDisposerNow /\ d = Head(registrationTail)
             /\ disposers[d].status = "absent"
             /\ e.kind = "disposer.registered" /\ ~e.final
          \/ /\ DisposeNext /\ Advance("starting_disposer")
             /\ d \in Ready /\ \A x \in Ready \ {d} : Before(d, x)
             /\ e.kind = "disposer.started" /\ e.final
          \/ /\ \E how \in {"completed", "failed", "timed_out"} :
                  /\ HandlerEnds(how)
                  /\ disposers[d].status = "started"
                  /\ disposers' = [disposers EXCEPT ![d].status =
                                     IF how = "timed_out" THEN "timed_out" ELSE "settled"]
             /\ e.kind = "disposer.settled" /\ e.final
  \/ /\ e.final
     /\ \/ (\E want \in Wants : finalize(want)) /\ e.kind = "finalization.started"
        \/ (flushAppends \/ TerminalReturns(TRUE)) /\ e.kind = "flush"
        \/ SendReceipt /\ e.kind = "finalization.receipt" /\ e.claim = fin.quiescence
        \/ ReceiptReturns(TRUE) /\ e.kind = "trajectory.terminal"

\* What is queued in a step is of the kind, the subject and the claim its task means.
LEMMA SentJoins ==
  ASSUME IInv, NEW e, SentNow(e)
  PROVE  ~e.linked /\ Joins(e)
<1> USE DEF Entry, Joins
<1>1. ASSUME NEW s \in Scopes, OpenScope(s),
             e = [Entry("scope.opened", s, "none", FALSE)
                    EXCEPT !.causes = {scopes[Parent[s]].openedEventId}]
      PROVE  ~e.linked /\ Joins(e)
  BY <1>1
<1>2. ASSUME NEW s \in Scopes, CloseScope(s),
             e = [Entry("scope.closed", s, "completed", FALSE)
                    EXCEPT !.causes = {scopes[s].openedEventId}]
      PROVE  ~e.linked /\ Joins(e)
  BY <1>2
<1>3. ASSUME NEW s \in Scopes, CloseNext,
             e = [Entry("scope.closed", s, fin.outcome, TRUE)
                    EXCEPT !.causes = {scopes[s].openedEventId}]
      PROVE  ~e.linked /\ Joins(e)
  BY <1>3
<1>4. ASSUME NEW s \in Scopes, cancelScope(s), state # "DOWN",
             e = Entry("cancellation.requested", s, "none", FALSE)
      PROVE  ~e.linked /\ Joins(e)
  BY <1>4
<1>5. ASSUME CancelReturns(TRUE), e = Entry("cancellation.acknowledged", Subject, "none", FALSE)
      PROVE  ~e.linked /\ Joins(e)
  BY <1>5, Answers
<1>6. ASSUME NEW o \in Operations, runOperation(o), e = Entry("operation.started", o, "none", FALSE)
      PROVE  ~e.linked /\ Joins(e)
  BY <1>6
<1>7. ASSUME NEW o \in Operations, NEW verdict \in {"completed", "failed"},
             e = Settlement(o, verdict)
      PROVE  /\ ~e.linked /\ e.kind = "operation.settled" /\ e.subject = o /\ ~e.final
             /\ e.claim = "completed" => verdict = "completed" /\ ~Late(o)
  BY <1>7 DEF Settlement
<1>8. ASSUME NEW o \in Operations, HandlerReturns(o), MaySettle(o), e = Settlement(o, "completed")
      PROVE  ~e.linked /\ Joins(e)
  BY <1>7, <1>8
<1>9. ASSUME NEW o \in Operations, HandlerThrows(o), MaySettle(o), e = Settlement(o, "failed")
      PROVE  ~e.linked /\ Joins(e)
  BY <1>7, <1>9
<1>10. ASSUME SettleReturns(FALSE), operations[Subject] = "settling", MaySettle(Subject),
              e = Settlement(Subject, "failed")
       PROVE  ~e.linked /\ Joins(e)
  BY <1>7, <1>10, Answers
<1>11. ASSUME NEW d \in Disposers, registerDisposerNow, d = Head(registrationTail),
              disposers[d].status = "absent", e = Entry("disposer.registered", d, "none", FALSE)
       PROVE  ~e.linked /\ Joins(e)
  BY <1>11
<1>12. ASSUME NEW d \in Disposers, DisposeNext, Advance("starting_disposer"),
              d \in Ready, \A x \in Ready \ {d} : Before(d, x),
              e = Entry("disposer.started", d, "none", TRUE)
       PROVE  ~e.linked /\ Joins(e)
  BY <1>12
<1>13. ASSUME NEW d \in Disposers, NEW how \in {"completed", "failed", "timed_out"},
              HandlerEnds(how), disposers[d].status = "started",
              disposers' = [disposers EXCEPT ![d].status =
                              IF how = "timed_out" THEN "timed_out" ELSE "settled"],
              e = Entry("disposer.settled", d, how, TRUE)
       PROVE  ~e.linked /\ Joins(e)
  BY <1>13
<1>14. ASSUME \/ /\ \E want \in Wants : finalize(want)
                 /\ e = Entry("finalization.started", Run, "none", TRUE)
              \/ (flushAppends \/ TerminalReturns(TRUE)) /\ e = Entry("flush", Run, "none", TRUE)
              \/ ReceiptReturns(TRUE) /\ e = Entry("trajectory.terminal", Run, fin.outcome, TRUE)
       PROVE  ~e.linked /\ Joins(e)
  <2>1. CASE e = Entry("finalization.started", Run, "none", TRUE)
    <3>1. /\ ~e.linked /\ e.kind = "finalization.started" /\ e.final
          /\ \E want \in Wants : finalize(want)
      BY <1>14, <2>1
    <3> HIDE DEF Entry
    <3> QED
      BY <3>1
  <2>2. CASE e = Entry("flush", Run, "none", TRUE)
    BY <1>14, <2>2
  <2>3. CASE e = Entry("trajectory.terminal", Run, fin.outcome, TRUE)
    BY <1>14, <2>3
  <2> QED
    BY <1>14, <2>1, <2>2, <2>3
<1>15. ASSUME SendReceipt, e = [Entry("finalization.receipt", Run, fin.quiescence, TRUE)
                                  EXCEPT !.expect = fin.tip]
       PROVE  ~e.linked /\ Joins(e)
  BY <1>15
<1> HIDE DEF Entry, Joins
<1>16. ASSUME NEW s \in Scopes,
              \/ /\ OpenScope(s)
                 /\ e = [Entry("scope.opened", s, "none", FALSE)
                           EXCEPT !.causes = {scopes[Parent[s]].openedEventId}]
              \/ /\ CloseScope(s)
                 /\ e = [Entry("scope.closed", s, "completed", FALSE)
                           EXCEPT !.causes = {scopes[s].openedEventId}]
              \/ /\ CloseNext
                 /\ e = [Entry("scope.closed", s, fin.outcome, TRUE)
                           EXCEPT !.causes = {scopes[s].openedEventId}]
              \/ /\ cancelScope(s) /\ state # "DOWN"
                 /\ e = Entry("cancellation.requested", s, "none", FALSE)
       PROVE  ~e.linked /\ Joins(e)
  BY <1>1, <1>2, <1>3, <1>4, <1>16
<1>17. ASSUME NEW o \in Operations,
              \/ runOperation(o) /\ e = Entry("operation.started", o, "none", FALSE)
              \/ HandlerReturns(o) /\ MaySettle(o) /\ e = Settlement(o, "completed")
              \/ HandlerThrows(o) /\ MaySettle(o) /\ e = Settlement(o, "failed")
       PROVE  ~e.linked /\ Joins(e)
  BY <1>6, <1>8, <1>9, <1>17
<1>18. ASSUME NEW d \in Disposers,
              \/ /\ registerDisposerNow /\ d = Head(registrationTail)
                 /\ disposers[d].status = "absent"
                 /\ e = Entry("disposer.registered", d, "none", FALSE)
              \/ /\ DisposeNext /\ Advance("starting_disposer")
                 /\ d \in Ready /\ \A x \in Ready \ {d} : Before(d, x)
                 /\ e = Entry("disposer.started", d, "none", TRUE)
              \/ \E how \in {"completed", "failed", "timed_out"} :
                   /\ HandlerEnds(how)
                   /\ disposers[d].status = "started"
                   /\ disposers' = [disposers EXCEPT ![d].status =
                                      IF how = "timed_out" THEN "timed_out" ELSE "settled"]
                   /\ e = Entry("disposer.settled", d, how, TRUE)
       PROVE  ~e.linked /\ Joins(e)
  BY <1>11, <1>12, <1>13, <1>18
<1> QED
  BY <1>5, <1>10, <1>14, <1>15, <1>16, <1>17, <1>18 DEF SentNow

\* Entry i of the next queue is entry j of this one.
Stays(i, j) ==
  /\ j \in DOMAIN queue /\ j >= 1
  /\ j = IF Served THEN i + 1 ELSE i
  /\ queue'[i].kind = queue[j].kind /\ queue'[i].subject = queue[j].subject
  /\ queue'[i].causes = queue[j].causes /\ queue'[i].claim = queue[j].claim
  /\ queue'[i].final = queue[j].final
  /\ queue'[i].linked <=> (queue[j].linked \/ (Link /\ j = 1))

\* Every entry after the step was there before, or joins it at the end.
LEMMA Origin ==
  ASSUME IInv, Next, NEW i \in DOMAIN queue'
  PROVE  /\ i >= 1 /\ i \in Nat /\ ~Crash /\ ~recover
         /\ \/ \E j \in DOMAIN queue : Stays(i, j)
            \/ /\ ~Link /\ Joins(queue'[i]) /\ ~queue'[i].linked
               /\ i = IF Served THEN Len(queue) ELSE Len(queue) + 1
<1>1. i \in 1..Len(queue') /\ Len(queue') \in Nat
  BY FlowOfStep, LenProperties
<1>2. Crash => queue' = <<>>
  BY CrashFacts
<1>3. recover => queue' = <<>>
  BY RecoverFacts
<1>4. queue' # <<>>
  OBVIOUS
<1>5. ASSUME NEW j \in DOMAIN queue, queue'[i] = queue[j], j = IF Served THEN i + 1 ELSE i, ~Link
      PROVE  Stays(i, j)
  BY <1>1, <1>5 DEF Stays
<1>6. CASE Link
  <2>1. i \in DOMAIN queue
    BY <1>6, LinkFacts
  <2>2. ~Served
    <3>1. Link => queue' = [queue EXCEPT ![1].linked = TRUE] /\ queue # <<>>
      BY DEF Link
    <3>2. Served => FALSE
      <4>1. UNCHANGED <<faults, fin>> /\ log' # log
        <5>1. log' = Append(log, Linking)
          BY <1>6, LinkFacts
        <5>2. Len(Append(log, Linking)) = Len(log) + 1
          BY <1>6, LinkFacts, LogFacts, AppendEntry
        <5> QED
          BY <1>6, <5>1, <5>2, LogFacts DEF Link
      <4> QED
        BY <4>1 DEF Served, Answered, Answer, FlushReturns, OpenScopeReturns, CloseScopeReturns,
           RegisterReturns, StartReturns, SettleReturns, CancelReturns, AcknowledgeReturns,
           FinalizationStartReturns, DisposerStartReturns, DisposerSettleReturns,
           FinalCloseReturns, ReceiptReturns, TerminalReturns
    <3> QED
      BY <3>2
  <2>3. CASE i = 1
    <3>1. queue'[1] = [queue[1] EXCEPT !.linked = TRUE] /\ queue[1] \in EntryType
      BY <1>6, LinkFacts
    <3>2. /\ queue'[1].kind = queue[1].kind /\ queue'[1].subject = queue[1].subject
          /\ queue'[1].causes = queue[1].causes /\ queue'[1].claim = queue[1].claim
          /\ queue'[1].final = queue[1].final /\ queue'[1].linked
      BY <3>1 DEF EntryType, EntryFields
    <3>3. Stays(i, i)
      BY <1>6, <2>1, <2>2, <2>3, <3>2 DEF Stays
    <3> QED
      BY <1>1, <1>2, <1>3, <1>4, <2>1, <3>3
  <2>4. CASE i # 1
    <3>1. queue'[i] = queue[i]
      BY <1>6, <2>1, <2>4, LinkFacts
    <3>2. Stays(i, i)
      BY <1>1, <2>1, <2>2, <2>4, <3>1 DEF Stays
    <3> QED
      BY <1>1, <1>2, <1>3, <1>4, <2>1, <3>2
  <2> QED
    BY <2>3, <2>4
<1>7. CASE Served /\ ~Link
  <2>1. Flow(1)
    BY <1>7, FlowOnServe
  <2>2. CASE i + 1 \in DOMAIN queue /\ queue'[i] = queue[i + 1]
    BY <1>1, <1>2, <1>3, <1>4, <1>5, <1>7, <2>2
  <2>3. CASE i + 1 = Len(queue) + 1 /\ SentNow(queue'[i])
    <3>1. i = Len(queue)
      BY <1>1, <2>1, <2>3 DEF Flow
    <3> QED
      BY <1>1, <1>2, <1>3, <1>4, <1>7, <2>3, <3>1, SentJoins
  <2> QED
    BY <2>1, <2>2, <2>3 DEF Flow
<1>8. CASE ~Served /\ ~Link
  <2>1. Flow(0)
    BY <1>2, <1>4, <1>8, FlowOfStep
  <2>2. CASE i + 0 \in DOMAIN queue /\ queue'[i] = queue[i + 0]
    <3>1. i + 0 = i
      BY <1>1
    <3> QED
      BY <1>1, <1>2, <1>3, <1>4, <1>5, <1>8, <2>2, <3>1
  <2>3. CASE i + 0 = Len(queue) + 1 /\ SentNow(queue'[i])
    <3>1. i + 0 = i
      BY <1>1
    <3> QED
      BY <1>1, <1>2, <1>3, <1>4, <1>8, <2>3, <3>1, SentJoins
  <2> QED
    BY <2>1, <2>2, <2>3 DEF Flow
<1> QED
  BY <1>6, <1>7, <1>8

\* The oldest entry serves the task that continues.
LEMMA Serving ==
  ASSUME IInv, NEW ok \in BOOLEAN
  PROVE  /\ \/ OpenScopeReturns(ok) \/ CloseScopeReturns(ok) \/ RegisterReturns(ok)
            \/ StartReturns(ok) \/ SettleReturns(ok) \/ CancelReturns(ok)
            \/ AcknowledgeReturns(ok) \/ FinalizationStartReturns(ok)
            \/ DisposerStartReturns(ok) \/ DisposerSettleReturns(ok) \/ FinalCloseReturns(ok)
            \/ ReceiptReturns(ok) \/ TerminalReturns(ok)
            => /\ Served /\ 1 \in DOMAIN queue /\ Subject = queue[1].subject
               /\ ok => queue[1].linked
               /\ UNCHANGED log
         /\ OpenScopeReturns(ok) => queue[1].kind = "scope.opened"
         /\ CloseScopeReturns(ok) \/ FinalCloseReturns(ok) => queue[1].kind = "scope.closed"
         /\ RegisterReturns(ok) => queue[1].kind = "disposer.registered"
         /\ StartReturns(ok) => queue[1].kind = "operation.started"
         /\ SettleReturns(ok) => queue[1].kind = "operation.settled"
         /\ CancelReturns(ok) => queue[1].kind = "cancellation.requested"
         /\ AcknowledgeReturns(ok) => queue[1].kind = "cancellation.acknowledged"
         /\ DisposerStartReturns(ok) => queue[1].kind = "disposer.started"
         /\ \/ FinalizationStartReturns(ok) \/ DisposerStartReturns(ok)
            \/ DisposerSettleReturns(ok) \/ FinalCloseReturns(ok) \/ ReceiptReturns(ok)
            \/ TerminalReturns(ok)
            => queue[1].final
<1>1. queue # <<>> => 1 \in DOMAIN queue /\ Head(queue) = queue[1] /\ Subject = queue[1].subject
  BY HeadOfQueue
<1>2. ASSUME NEW kind, NEW final, NEW more, Answer(kind, final, ok, more)
      PROVE  /\ 1 \in DOMAIN queue /\ Subject = queue[1].subject
             /\ queue[1].kind = kind /\ queue[1].final = final
             /\ ok => queue[1].linked
             /\ UNCHANGED log
  BY <1>1, <1>2 DEF Answer
<1> QED
  BY <1>2 DEF Served, Answered, OpenScopeReturns, CloseScopeReturns, RegisterReturns,
     StartReturns, SettleReturns, CancelReturns, AcknowledgeReturns, FinalizationStartReturns,
     DisposerStartReturns, DisposerSettleReturns, FinalCloseReturns, ReceiptReturns,
     TerminalReturns

\* What a linked entry says is what the log says last.
LEMMA LinkedStep ==
  ASSUME IInv, Next
  PROVE  LinkedInv'
<1> SUFFICES ASSUME NEW i \in DOMAIN queue', queue'[i].linked
             PROVE  /\ i = 1
                    /\ log'[Len(log')].kind = queue'[i].kind
                    /\ log'[Len(log')].subject = queue'[i].subject
                    /\ log'[Len(log')].claim = queue'[i].claim
  BY DEF LinkedInv
<1>1. PICK j \in DOMAIN queue : Stays(i, j)
  BY Origin
<1>2. i >= 1 /\ i \in Nat /\ ~recover /\ ~Crash
  BY Origin
<1>3. CASE Link
  <2>1. /\ 1 \in DOMAIN queue /\ ~queue[1].linked
        /\ log' = Append(log, Linking) /\ Linking \in Event
        /\ Linking.kind = queue[1].kind /\ Linking.subject = queue[1].subject
        /\ Linking.claim = queue[1].claim
    BY <1>3, LinkFacts
  <2>2. j = 1
    BY <1>1, <2>1 DEF Stays, IInv, LinkedInv
  <2>3. i = 1
    BY <1>1, <1>2, <2>2 DEF Stays
  <2>4. log'[Len(log')] = Linking
    BY <2>1, LogFacts, AppendEntry
  <2> QED
    BY <1>1, <2>1, <2>2, <2>3, <2>4 DEF Stays
<1>4. CASE ~Link
  <2>1. UNCHANGED log
    BY <1>2, <1>4, LogGrows
  <2>2. queue[j].linked
    BY <1>1, <1>4 DEF Stays
  <2>3. j = 1
    BY <2>2 DEF IInv, LinkedInv
  <2>4. i = 1
    BY <1>1, <1>2, <2>3 DEF Stays
  <2> QED
    BY <1>1, <2>1, <2>2, <2>3, <2>4 DEF Stays, IInv, LinkedInv
<1> QED
  BY <1>3, <1>4

\* The oldest entry clashes with no other.
LEMMA AloneWaits ==
  ASSUME IInv, NEW i, NEW j, Stays(i, j), Served, i \in Nat, i >= 1
  PROVE  1 \in DOMAIN queue /\ j # 1 /\ ~Clash(queue[1], queue[j])
<1>1. 1 \in DOMAIN queue
  BY FlowOnServe, HeadOfQueue
<1>2. j \in DOMAIN queue /\ j # 1
  BY DEF Stays
<1> QED
  BY <1>1, <1>2 DEF IInv, DistinctInv

\* While a final entry waits, only its answer or the window of the marker moves
\* the finalizer.
LEMMA FinalWaits ==
  ASSUME IInv, Next, NEW j \in DOMAIN queue, queue[j].final
  PROVE  UNCHANGED fin \/ Crash \/ StartWindowExpires \/ (Served /\ queue[1].final)
<1>1. AtFinalizer(queue[j])
  BY DEF IInv, PlacedInv, Placed
<1>2. fin.pc \in {"starting", "rejected", "flushing", "last_flush", "starting_disposer",
                  "settling_disposer", "closing_scope", "sealing", "terminal"}
  BY <1>1 DEF AtFinalizer, FinalPc
<1>3. FlushReturns => Served /\ queue[1].final
  <2>1. FlushReturns => queue # <<>> /\ Head(queue).kind = "flush"
    BY DEF FlushReturns
  <2>2. FlushReturns => queue[1].kind = "flush" /\ AtFinalizer(queue[1])
    BY <2>1, HeadOfQueue DEF Placed
  <2> QED
    BY <2>2 DEF Served, AtFinalizer
<1>4. ASSUME NEW ok \in BOOLEAN,
             \/ FinalizationStartReturns(ok) \/ DisposerStartReturns(ok)
             \/ DisposerSettleReturns(ok) \/ FinalCloseReturns(ok) \/ ReceiptReturns(ok)
             \/ TerminalReturns(ok)
      PROVE  Served /\ queue[1].final
  BY <1>4, Serving
<1>5. \A want \in Wants : ~finalize(want)
  BY <1>2 DEF finalize
<1>6. \A how \in {"completed", "failed", "timed_out"} : ~HandlerEnds(how)
  BY <1>2 DEF HandlerEnds
<1>7. /\ ~AwaitRegistrations /\ ~OperationsSettle /\ ~OperationsTimeOut /\ ~FenceOperations
      /\ ~DisposeNext /\ ~BeginClosing /\ ~CloseNext /\ ~flushAppends /\ ~ReadTip /\ ~SendReceipt
  BY <1>2 DEF AwaitRegistrations, OperationsSettle, OperationsTimeOut, FenceOperations,
     DisposeNext, BeginClosing, CloseNext, flushAppends, ReadTip, SendReceipt
<1> QED
  BY <1>3, <1>4, <1>5, <1>6, <1>7, FinFrame

\* The finalizer waits where its entry says.
LEMMA AtFinalizerStep ==
  ASSUME IInv, Next, NEW i \in DOMAIN queue'
  PROVE  AtFinalizer(queue[i])'
<1>1. i >= 1 /\ i \in Nat /\ ~recover /\ ~Crash
  BY Origin
<1>2. fin \in FinType
  BY DEF IInv, TypeInv
<1>3. ASSUME NEW j \in DOMAIN queue, Stays(i, j)
      PROVE  AtFinalizer(queue[i])'
  <2>1. AtFinalizer(queue[j])
    BY DEF IInv, PlacedInv, Placed
  <2>2. CASE ~queue[j].final
    BY <1>3, <2>1, <2>2 DEF Stays, AtFinalizer, RunKinds
  <2>3. CASE queue[j].final
    <3>1. ~(Served /\ queue[1].final)
      BY <1>1, <1>3, <2>3, AloneWaits DEF Clash
    <3>2. CASE UNCHANGED fin
      BY <1>3, <2>1, <3>2 DEF Stays, AtFinalizer
    <3>3. CASE StartWindowExpires
      <4>1. fin.pc = "starting" /\ fin' = [fin EXCEPT !.pc = "rejected"]
        BY <3>3 DEF StartWindowExpires, Advance
      <4>2. fin'.pc = "rejected"
        BY <1>2, <4>1 DEF FinType
      <4>3. queue[j].kind = "finalization.started"
        BY <2>1, <2>3, <4>1 DEF AtFinalizer, FinalPc
      <4> QED
        BY <1>3, <2>3, <4>2, <4>3 DEF Stays, AtFinalizer
    <3> QED
      BY <1>1, <2>3, <3>1, <3>2, <3>3, FinalWaits
  <2> QED
    BY <2>2, <2>3
<1>4. ASSUME Joins(queue'[i])
      PROVE  AtFinalizer(queue[i])'
  <2> DEFINE e == queue'[i]
  <2>1. ASSUME ~e.final
        PROVE  e.kind \notin {"disposer.started", "disposer.settled", "flush"} \cup RunKinds
    BY <1>4, <2>1 DEF Joins, RunKinds
  <2>2. CASE ~e.final
    BY <2>1, <2>2 DEF AtFinalizer, RunKinds
  <2>3. CASE e.final
    <3> USE DEF Advance, AdvanceIf, FinType, FinalPc
    <3>1. CASE CloseNext /\ e.kind = "scope.closed"
      <4>1. fin'.pc = "closing_scope"
        BY <1>2, <3>1 DEF CloseNext
      <4> QED
        BY <3>1, <2>3, <4>1 DEF AtFinalizer
    <3>2. CASE Advance("starting_disposer") /\ e.kind = "disposer.started"
      <4>1. fin'.pc = "starting_disposer"
        BY <1>2, <3>2
      <4> QED
        BY <3>2, <2>3, <4>1 DEF AtFinalizer
    <3>3. ASSUME NEW how, HandlerEnds(how), e.kind = "disposer.settled"
          PROVE  AtFinalizer(queue[i])'
      <4>1. fin'.pc = "settling_disposer"
        BY <1>2, <3>3 DEF HandlerEnds
      <4> QED
        BY <3>3, <2>3, <4>1 DEF AtFinalizer
    <3>4. ASSUME NEW want \in Wants, finalize(want), e.kind = "finalization.started"
          PROVE  AtFinalizer(queue[i])'
      <4>1. fin'.pc = "starting"
        BY <1>2, <3>4 DEF finalize
      <4> QED
        BY <3>4, <2>3, <4>1 DEF AtFinalizer
    <3>5. CASE (flushAppends \/ TerminalReturns(TRUE)) /\ e.kind = "flush"
      <4>1. fin'.pc \in {"flushing", "last_flush"}
        BY <1>2, <3>5 DEF flushAppends, TerminalReturns
      <4> QED
        BY <3>5, <2>3, <4>1 DEF AtFinalizer
    <3>6. CASE SendReceipt /\ e.kind = "finalization.receipt" /\ e.claim = fin.quiescence
      <4>1. fin'.pc = "sealing" /\ fin'.quiescence = fin.quiescence
        BY <1>2, <3>6 DEF SendReceipt
      <4> QED
        BY <3>6, <2>3, <4>1 DEF AtFinalizer
    <3>7. CASE ReceiptReturns(TRUE) /\ e.kind = "trajectory.terminal"
      <4>1. fin'.pc = "terminal"
        BY <1>2, <3>7 DEF ReceiptReturns
      <4> QED
        BY <3>7, <2>3, <4>1 DEF AtFinalizer
    <3> QED
      BY <1>4, <2>3, <3>1, <3>2, <3>3, <3>4, <3>5, <3>6, <3>7 DEF Joins
  <2> QED
    BY <2>2, <2>3
<1> QED
  BY <1>3, <1>4, Origin

\* A durable scope stays one, and an opening on its way stays one until it is
\* answered.
LEMMA DurableStays ==
  ASSUME IInv, Next, ~Crash, ~recover, NEW s \in Scopes
  PROVE  /\ Durable(s) => Durable(s)'
         /\ ~Durable(s) /\ Durable(s)' =>
              \E ok \in BOOLEAN : OpenScopeReturns(ok) /\ ok /\ s = Subject
         /\ Open(s) /\ ~Durable(s) =>
              \/ Open(s)' /\ ~Durable(s)'
              \/ \E ok \in BOOLEAN : OpenScopeReturns(ok) /\ s = Subject
<1>1. scopes \in [Scopes -> [status : {"absent", "open", "closed"}, openedEventId : EventIds,
                             aborted : BOOLEAN]]
  BY DEF IInv, TypeInv, TypeOK
<1>2. Durable(s) => Present(s)
  BY DEF IInv, ScopeInv
<1>3. CASE UNCHANGED scopes
  BY <1>3 DEF Durable, Open
<1>4. ASSUME NEW x \in Scopes, OpenScope(x)
      PROVE  /\ Durable(s) => Durable(s)'
             /\ ~Durable(s) => ~Durable(s)'
             /\ Open(s) /\ ~Durable(s) => Open(s)' /\ ~Durable(s)'
  <2>1. CASE x = s
    <3>1. ~Present(s)
      BY <1>4, <2>1 DEF OpenScope
    <3>2. scopes'[s] = [Absent EXCEPT !.status = "open"]
      BY <1>1, <1>4, <2>1 DEF OpenScope
    <3>3. scopes'[s].openedEventId = NoId
      BY <3>2 DEF Absent
    <3> QED
      BY <1>2, <3>1, <3>3 DEF Durable, Open, Present
  <2>2. CASE x # s
    <3>1. scopes'[s] = scopes[s]
      BY <1>1, <1>4, <2>2 DEF OpenScope
    <3> QED
      BY <3>1 DEF Durable, Open
  <2> QED
    BY <2>1, <2>2
<1>5. ASSUME NEW ok \in BOOLEAN, OpenScopeReturns(ok)
      PROVE  /\ Durable(s) => Durable(s)'
             /\ ~Durable(s) /\ Durable(s)' => ok /\ s = Subject
             /\ Open(s) /\ ~Durable(s) => (Open(s)' /\ ~Durable(s)') \/ s = Subject
  <2>1. Subject \in Scopes /\ ~Durable(Subject)
    <3>1. 1 \in DOMAIN queue /\ queue[1].kind = "scope.opened" /\ Subject = queue[1].subject
      BY <1>5, Serving
    <3>2. AtScope(queue[1])
      BY <3>1 DEF IInv, PlacedInv, Placed
    <3> QED
      BY <1>5, <3>1, <3>2, Answers DEF AtScope
  <2>2. CASE s # Subject
    <3>1. scopes'[s] = scopes[s]
      BY <1>1, <1>5, <2>1, <2>2 DEF OpenScopeReturns
    <3> QED
      BY <2>2, <3>1 DEF Durable, Open
  <2>3. CASE s = Subject
    <3>1. ~ok => scopes'[s] = Absent
      BY <1>1, <1>5, <2>1, <2>3 DEF OpenScopeReturns
    <3>2. ~ok => ~Durable(s)'
      BY <3>1 DEF Durable, Absent
    <3> QED
      BY <2>1, <2>3, <3>2
  <2> QED
    BY <2>2, <2>3
<1>6. ASSUME NEW ok \in BOOLEAN, CloseScopeReturns(ok) \/ FinalCloseReturns(ok)
      PROVE  /\ Durable(s) <=> Durable(s)'
             /\ Open(s) /\ ~Durable(s) => Open(s)'
  <2>1. Subject \in Scopes
    BY <1>6, Answers
  <2>2. ok => Durable(Subject)
    <3>1. 1 \in DOMAIN queue /\ queue[1].kind = "scope.closed" /\ Subject = queue[1].subject
      BY <1>6, Serving
    <3>2. AtScope(queue[1])
      BY <3>1 DEF IInv, PlacedInv, Placed
    <3>3. ok => queue[1].linked
      BY <1>6, Serving
    <3> QED
      BY <3>1, <3>2, <3>3 DEF AtScope
  <2>3. PICK st : scopes' = [scopes EXCEPT ![Subject].status = st]
                  /\ (~ok => st = scopes[Subject].status)
    BY <1>6 DEF CloseScopeReturns, FinalCloseReturns
  <2>4. /\ scopes'[s].openedEventId = scopes[s].openedEventId
        /\ s # Subject \/ ~ok => scopes'[s].status = scopes[s].status
    BY <1>1, <2>1, <2>3
  <2> QED
    BY <2>2, <2>4 DEF Durable, Open
<1>7. ASSUME NEW ok \in BOOLEAN, CancelReturns(ok)
      PROVE  /\ Durable(s) <=> Durable(s)'
             /\ Open(s) <=> Open(s)'
  <2>1. scopes' = scopes \/ scopes' = abortSubtree(Subject)
    BY <1>7 DEF CancelReturns
  <2>2. Subject \in Scopes
    BY <1>7, Answers
  <2>3. /\ scopes'[s].openedEventId = scopes[s].openedEventId
        /\ scopes'[s].status = scopes[s].status
    BY <2>1, <2>2, AbortSubtree
  <2> QED
    BY <2>3 DEF Durable, Open
<1> QED
  BY <1>3, <1>4, <1>5, <1>6, <1>7, ScopesFrame

\* A scope that waits for its opening is open and not yet durable.
LEMMA AtScopeStep ==
  ASSUME IInv, Next, NEW i \in DOMAIN queue'
  PROVE  AtScope(queue[i])'
<1>1. i >= 1 /\ i \in Nat /\ ~recover /\ ~Crash
  BY Origin
<1>2. queue'[i] \in EntryType
  BY FlowOfStep, ElementOfSeq
<1>3. queue'[i].kind \in ScopeKinds => queue'[i].subject \in Scopes
  BY <1>2 DEF EntryType, Apt
<1>4. ASSUME NEW j \in DOMAIN queue, Stays(i, j)
      PROVE  AtScope(queue[i])'
  <2>1. AtScope(queue[j])
    BY DEF IInv, PlacedInv, Placed
  <2>2. queue'[i].linked => NoId \notin queue'[i].causes
    BY <1>4, <2>1, LinkedCauses DEF Stays, AtScope
  <2>3. ASSUME queue'[i].kind = "scope.opened"
        PROVE  /\ queue'[i].subject # Root
               /\ Open(queue[i].subject)' /\ ~Durable(queue[i].subject)'
               /\ queue'[i].causes = {NoId} \/ Durable(Parent[queue[i].subject])'
    <3>1. PICK s \in Scopes :
            /\ queue[j].kind = "scope.opened" /\ queue[j].subject = s
            /\ queue'[i].subject = s /\ queue[j].causes = queue'[i].causes
      BY <1>3, <1>4, <2>3 DEF Stays, ScopeKinds
    <3>2. /\ s \in Scopes \ {Root} /\ Open(s) /\ ~Durable(s)
          /\ queue[j].causes = {NoId} \/ Durable(Parent[s])
      BY <2>1, <3>1 DEF AtScope
    <3>3. ~(\E ok \in BOOLEAN : OpenScopeReturns(ok) /\ s = Subject)
      BY <1>1, <1>4, <3>1, Serving, AloneWaits DEF Clash
    <3>4. Open(s)' /\ ~Durable(s)'
      BY <1>1, <3>2, <3>3, DurableStays
    <3>5. Parent[s] \in Scopes
      BY <3>2, TreeAssumption
    <3>6. Durable(Parent[s]) => Durable(Parent[s])'
      BY <1>1, <3>5, DurableStays
    <3> QED
      BY <3>1, <3>2, <3>4, <3>6 DEF Open, Durable
  <2>4. ASSUME queue'[i].kind = "scope.closed"
        PROVE  NoId \in queue'[i].causes \/ Durable(queue[i].subject)'
    <3>1. PICK s \in Scopes :
            /\ queue[j].kind = "scope.closed" /\ queue[j].subject = s
            /\ queue'[i].subject = s /\ queue[j].causes = queue'[i].causes
      BY <1>3, <1>4, <2>4 DEF Stays, ScopeKinds
    <3>2. Durable(s) => Durable(s)'
      BY <1>1, DurableStays
    <3> QED
      BY <2>1, <3>1, <3>2 DEF AtScope, Durable
  <2> QED
    BY <2>2, <2>3, <2>4 DEF AtScope
<1>5. ASSUME Joins(queue'[i]), ~queue'[i].linked
      PROVE  AtScope(queue[i])'
  <2>1. ASSUME NEW s \in Scopes, queue'[i].subject = s, OpenScope(s),
               queue'[i].kind = "scope.opened",
               queue'[i].causes = {scopes[Parent[s]].openedEventId}
        PROVE  AtScope(queue[i])'
    <3>1. s # Root /\ Parent[s] \in Scopes
      BY <2>1, TreeAssumption DEF OpenScope
    <3>2. scopes'[s] = [Absent EXCEPT !.status = "open"]
      BY <2>1 DEF OpenScope, IInv, TypeInv, TypeOK
    <3>3. Open(s)' /\ ~Durable(s)'
      BY <3>2 DEF Open, Durable, Absent
    <3>4. Durable(Parent[s]) => Durable(Parent[s])'
      BY <1>1, <3>1, DurableStays
    <3> QED
      BY <1>5, <2>1, <3>1, <3>3, <3>4 DEF AtScope, Durable, Open
  <2>2. ASSUME NEW s \in Scopes, queue'[i].subject = s, queue'[i].kind = "scope.closed",
               queue'[i].causes = {scopes[s].openedEventId}
        PROVE  AtScope(queue[i])'
    <3>1. Durable(s) => Durable(s)'
      BY <1>1, DurableStays
    <3> QED
      BY <1>5, <2>2, <3>1 DEF AtScope, Durable
  <2>3. ASSUME queue'[i].kind \notin ScopeKinds
        PROVE  AtScope(queue[i])'
    BY <1>5, <2>3 DEF AtScope, ScopeKinds
  <2> QED
    BY <1>5, <2>1, <2>2, <2>3 DEF Joins, ScopeKinds
<1> QED
  BY <1>4, <1>5, Origin

\* An operation that waits for an answer is where its entry says.
LEMMA AtOperationStep ==
  ASSUME IInv, Next, NEW i \in DOMAIN queue'
  PROVE  AtOperation(queue[i])'
<1>1. i >= 1 /\ i \in Nat /\ ~recover /\ ~Crash
  BY Origin
<1>2. /\ operations \in [Operations -> {"idle", "starting", "running", "settling",
                                        "recording_failure", "done"}]
      /\ state = "DOWN" => \A o \in Operations : operations[o] = "idle"
  BY DEF IInv, TypeInv, TypeOK, DownInv
<1>3. ASSUME NEW j \in DOMAIN queue, Stays(i, j)
      PROVE  AtOperation(queue[i])'
  <2>1. AtOperation(queue[j])
    BY DEF IInv, PlacedInv, Placed
  <2>2. CASE queue[j].kind \notin OperationKinds
    BY <1>3, <2>2 DEF Stays, AtOperation, OperationKinds
  <2>3. CASE queue[j].kind \in OperationKinds
    <3>1. PICK o \in Operations : queue[j].subject = o /\ queue'[i].subject = o
      <4>1. queue[j] \in EntryType
        BY ElementOfSeq DEF IInv, TypeInv
      <4> QED
        BY <1>3, <2>3, <4>1 DEF EntryType, Apt, Stays
    <3>2. operations[o] \in {"starting", "settling", "recording_failure"}
      BY <2>1, <2>3, <3>1 DEF AtOperation, OperationKinds
    <3>3. \A ok \in BOOLEAN : ~((StartReturns(ok) \/ SettleReturns(ok)) /\ Subject = o)
      BY <1>1, <1>3, <2>3, <3>1, Serving, AloneWaits DEF Clash, OperationKinds
    <3>4. operations'[o] = operations[o]
      <4>1. ASSUME NEW x \in Operations,
                   runOperation(x) \/ HandlerReturns(x) \/ HandlerThrows(x)
            PROVE  operations'[o] = operations[o]
        <5>1. x # o
          BY <3>2, <4>1 DEF runOperation, HandlerReturns, HandlerThrows
        <5>2. \E v : operations' = [operations EXCEPT ![x] = v]
          BY <4>1 DEF runOperation, HandlerReturns, HandlerThrows
        <5> QED
          BY <1>2, <3>1, <5>1, <5>2
      <4>2. ASSUME NEW ok \in BOOLEAN, StartReturns(ok) \/ SettleReturns(ok)
            PROVE  operations'[o] = operations[o]
        <5>1. \E v : operations' = [operations EXCEPT ![Subject] = v]
          BY <4>2 DEF StartReturns, SettleReturns
        <5> QED
          BY <1>2, <3>1, <3>3, <4>2, <5>1
      <4> QED
        BY <1>1, <4>1, <4>2, OperationsFrame
    <3>5. ASSUME queue[j].kind = "operation.started", ~queue'[i].linked
          PROVE  ~Recorded("operation.started", o)'
      <4>1. ~queue[j].linked /\ ~Recorded("operation.started", o)
        BY <1>3, <2>1, <3>1, <3>5 DEF Stays, AtOperation
      <4>2. ASSUME Link, queue[1].kind = "operation.started", queue[1].subject = o
            PROVE  FALSE
        <5>1. j # 1 /\ 1 \in DOMAIN queue
          BY <1>3, <3>5, <4>2, LinkFacts DEF Stays
        <5> QED
          BY <3>1, <3>5, <4>2, <5>1 DEF IInv, DistinctInv, Clash, OperationKinds
      <4> QED
        BY <4>1, <4>2, RecordedNext
    <3>6. queue'[i].kind = queue[j].kind
      BY <1>3 DEF Stays
    <3>7. /\ queue[j].kind = "operation.started" => operations[o] = "starting"
          /\ queue[j].kind = "operation.settled" =>
               operations[o] \in {"settling", "recording_failure"}
      BY <2>1, <3>1 DEF AtOperation
    <3> QED
      BY <3>1, <3>4, <3>5, <3>6, <3>7 DEF AtOperation, Recorded
  <2> QED
    BY <2>2, <2>3
<1>4. ASSUME Joins(queue'[i]), ~Link
      PROVE  AtOperation(queue[i])'
  <2>1. ASSUME NEW o \in Operations, queue'[i].subject = o, runOperation(o),
               queue'[i].kind = "operation.started"
        PROVE  AtOperation(queue[i])'
    <3>1. operations'[o] = "starting" /\ ~Recorded("operation.started", o)
      BY <1>2, <2>1 DEF runOperation, IInv, OperationInv
    <3>2. ~Recorded("operation.started", o)'
      BY <1>4, <3>1, RecordedNext
    <3> QED
      BY <2>1, <3>1, <3>2 DEF AtOperation, Recorded
  <2>2. ASSUME NEW o \in Operations, queue'[i].subject = o, MaySettle(o),
               queue'[i].kind = "operation.settled",
               \/ HandlerReturns(o) \/ HandlerThrows(o)
               \/ SettleReturns(FALSE) /\ o = Subject /\ operations[o] = "settling"
        PROVE  AtOperation(queue[i])'
    <3>1. operations'[o] \in {"settling", "recording_failure"}
      BY <1>2, <2>2 DEF HandlerReturns, HandlerThrows, SettleReturns
    <3> QED
      BY <2>2, <3>1 DEF AtOperation
  <2>3. ASSUME queue'[i].kind \notin OperationKinds
        PROVE  AtOperation(queue[i])'
    BY <2>3 DEF AtOperation, OperationKinds
  <2> QED
    BY <1>4, <2>1, <2>2, <2>3 DEF Joins, OperationKinds
<1> QED
  BY <1>3, <1>4, Origin

\* Once a cancellation is asked for, it is on its way or settled until a crash.
LEMMA CancellationStays ==
  ASSUME IInv, Next, ~Crash, NEW s \in Scopes
  PROVE  /\ cancellations[s] # "none" => cancellations'[s] # "none"
         /\ cancellations[s] = "none" /\ cancellations'[s] # "none" =>
              cancellations'[s] = "requesting"
<1>1. cancellations \in [Scopes -> {"none", "requesting", "acknowledging", "resolved", "rejected"}]
  BY DEF IInv, TypeInv, TypeOK
<1>2. ASSUME NEW c \in Scopes, cancelScope(c)
      PROVE  /\ cancellations[s] # "none" => cancellations'[s] # "none"
             /\ cancellations[s] = "none" /\ cancellations'[s] # "none" =>
                  cancellations'[s] = "requesting"
  BY <1>1, <1>2 DEF cancelScope
<1>3. ASSUME NEW ok \in BOOLEAN, CancelReturns(ok) \/ AcknowledgeReturns(ok)
      PROVE  /\ cancellations[s] # "none" => cancellations'[s] # "none"
             /\ cancellations[s] = "none" => cancellations'[s] = "none"
  <2>1. \E v \in {"acknowledging", "rejected", "resolved"} :
          cancellations' = [cancellations EXCEPT ![Subject] = v]
    BY <1>3 DEF CancelReturns, AcknowledgeReturns
  <2>2. 1 \in DOMAIN queue /\ Subject = queue[1].subject
        /\ queue[1].kind \in CancelKinds
    BY <1>3, Serving DEF CancelKinds
  <2>3. cancellations[Subject] # "none"
    BY <2>2 DEF IInv, PlacedInv, Placed, AtCancellation, CancelKinds
  <2> QED
    BY <1>1, <2>1, <2>3
<1> QED
  BY <1>2, <1>3, CancellationsFrame

\* A request that waits for an answer is known in cancellationPromises.
LEMMA AtCancellationStep ==
  ASSUME IInv, Next, NEW i \in DOMAIN queue'
  PROVE  AtCancellation(queue[i])'
<1>1. ~recover /\ ~Crash
  BY Origin
<1>2. PICK s : s = queue'[i].subject
  OBVIOUS
<1>3. queue'[i].kind \in CancelKinds => s \in Scopes
  <2>1. queue'[i] \in EntryType
    BY FlowOfStep, ElementOfSeq
  <2> QED
    BY <1>2, <2>1 DEF EntryType, Apt
<1>4. Recorded("cancellation.requested", s) => Recorded("cancellation.requested", s)'
  BY RecordedNext
<1>5. ASSUME NEW j \in DOMAIN queue, Stays(i, j)
      PROVE  AtCancellation(queue[i])'
  <2>1. AtCancellation(queue[j])
    BY DEF IInv, PlacedInv, Placed
  <2>2. /\ queue[j].subject = s /\ queue'[i].subject = s
        /\ queue'[i].kind = queue[j].kind
    BY <1>2, <1>5 DEF Stays
  <2>3. queue[j].kind \in CancelKinds => cancellations'[s] # "none"
    BY <1>1, <1>3, <2>1, <2>2, CancellationStays DEF AtCancellation, CancelKinds
  <2> QED
    BY <1>4, <2>1, <2>2, <2>3 DEF AtCancellation, CancelKinds, Recorded
<1>6. ASSUME Joins(queue'[i])
      PROVE  AtCancellation(queue[i])'
  <2>1. CASE cancelScope(s) /\ s \in Scopes /\ queue'[i].kind = "cancellation.requested"
    <3>1. cancellations'[s] # "none"
      BY <2>1 DEF cancelScope, IInv, TypeInv, TypeOK
    <3> QED
      BY <1>2, <2>1, <3>1 DEF AtCancellation
  <2>2. CASE CancelReturns(TRUE) /\ s = Subject /\ queue'[i].kind = "cancellation.acknowledged"
    <3>1. s \in Scopes
      BY <2>2, Answers
    <3>2. cancellations'[s] # "none"
      BY <2>2, <3>1 DEF CancelReturns, IInv, TypeInv, TypeOK
    <3>3. Recorded("cancellation.requested", s)
      <4>1. /\ 1 \in DOMAIN queue /\ queue[1].linked /\ queue[1].subject = s
            /\ queue[1].kind = "cancellation.requested"
        BY <2>2, Serving
      <4>2. Len(log) \in DOMAIN log
        BY LogFacts
      <4> QED
        BY <4>1, <4>2 DEF IInv, LinkedInv, Recorded
    <3> QED
      BY <1>2, <1>4, <2>2, <3>2, <3>3 DEF AtCancellation, Recorded
  <2>3. CASE queue'[i].kind \notin CancelKinds
    BY <2>3 DEF AtCancellation, CancelKinds
  <2> QED
    BY <1>2, <1>6, <2>1, <2>2, <2>3 DEF Joins, CancelKinds
<1> QED
  BY <1>5, <1>6, Origin

\* A disposer that waits for an answer is where its entry says.
LEMMA AtDisposerStep ==
  ASSUME IInv, Next, NEW i \in DOMAIN queue'
  PROVE  AtDisposer(queue[i])'
<1>1. i >= 1 /\ i \in Nat /\ ~recover /\ ~Crash
  BY Origin
<1>2. /\ disposers \in [Disposers -> [status : {"absent", "registered", "started", "settled",
                                                "timed_out"}, ordinal : Nat]]
      /\ registrationTail \in Seq(Disposers)
  BY DEF IInv, TypeInv, TypeOK
<1>3. ASSUME NEW j \in DOMAIN queue, Stays(i, j), queue[j].kind \in DisposerKinds
      PROVE  AtDisposer(queue[i])'
  <2>1. AtDisposer(queue[j])
    BY DEF IInv, PlacedInv, Placed
  <2>2. PICK d \in Disposers : /\ queue[j].subject = d /\ queue'[i].subject = d
                               /\ queue'[i].kind = queue[j].kind
    <3>1. queue[j] \in EntryType
      BY ElementOfSeq DEF IInv, TypeInv
    <3> QED
      BY <1>3, <3>1 DEF EntryType, Apt, Stays
  <2>3. ~(Served /\ Clash(queue[1], queue[j]))
    BY <1>1, <1>3, AloneWaits
  <2>4. queue[j].kind = "disposer.registered" =>
          ~(\E ok \in BOOLEAN : RegisterReturns(ok))
    BY <2>3, Serving DEF Clash
  <2>5. queue[j].kind = "disposer.started" =>
          ~(\E ok \in BOOLEAN : DisposerStartReturns(ok))
    <3>1. AtFinalizer(queue[j])
      BY DEF IInv, PlacedInv, Placed
    <3> QED
      BY <2>3, <3>1, Serving DEF Clash, AtFinalizer
  <2>6. disposers[d].status # "started"
    BY <1>3, <2>1, <2>2 DEF AtDisposer, DisposerKinds
  <2>7. disposers'[d].status = disposers[d].status
    <3>1. ASSUME NEW ok \in BOOLEAN, RegisterReturns(ok)
          PROVE  disposers'[d].status = disposers[d].status
      <4>1. disposers[Subject].status = "absent"
        <5>1. 1 \in DOMAIN queue /\ queue[1].kind = "disposer.registered"
              /\ Subject = queue[1].subject
          BY <3>1, Serving
        <5> QED
          BY <5>1 DEF IInv, PlacedInv, Placed, AtDisposer
      <4>2. queue[j].kind # "disposer.registered"
        BY <2>4, <3>1
      <4>3. disposers[d].status # "absent"
        BY <1>3, <2>1, <2>2, <4>2 DEF AtDisposer, DisposerKinds
      <4> QED
        BY <1>2, <3>1, <4>1, <4>3 DEF RegisterReturns
    <3>2. ASSUME NEW ok \in BOOLEAN, DisposerStartReturns(ok)
          PROVE  disposers'[d].status = disposers[d].status
      <4>1. disposers[Subject].status = "registered"
        <5>1. 1 \in DOMAIN queue /\ queue[1].kind = "disposer.started"
              /\ Subject = queue[1].subject
          BY <3>2, Serving
        <5> QED
          BY <5>1 DEF IInv, PlacedInv, Placed, AtDisposer
      <4>2. queue[j].kind # "disposer.started"
        BY <2>5, <3>2
      <4>3. disposers[d].status # "registered"
        BY <1>3, <2>1, <2>2, <4>2 DEF AtDisposer, DisposerKinds
      <4> QED
        BY <1>2, <3>2, <4>1, <4>3 DEF DisposerStartReturns
    <3>3. ASSUME NEW how \in {"completed", "failed", "timed_out"}, HandlerEnds(how)
          PROVE  disposers'[d].status = disposers[d].status
      <4>1. PICK x \in Disposers :
              /\ disposers[x].status = "started"
              /\ \E v : disposers' = [disposers EXCEPT ![x].status = v]
        BY <3>3 DEF HandlerEnds
      <4> QED
        BY <1>2, <2>6, <4>1
    <3> QED
      BY <1>1, <3>1, <3>2, <3>3, DisposersFrame
  <2>8. ASSUME queue[j].kind = "disposer.registered"
        PROVE  registrationTail' # <<>> /\ d = Head(registrationTail')
    <3>1. registrationTail # <<>> /\ d = Head(registrationTail)
      BY <2>1, <2>2, <2>8 DEF AtDisposer
    <3>2. ASSUME NEW x \in Disposers, RegisterDisposer(x)
          PROVE  registrationTail' # <<>> /\ d = Head(registrationTail')
      <4>1. registrationTail' = Append(registrationTail, x)
        BY <3>2 DEF RegisterDisposer
      <4> QED
        BY <1>2, <3>1, <4>1
    <3>3. ~registerDisposerNow
      BY <2>8 DEF registerDisposerNow
    <3> QED
      BY <1>1, <2>4, <2>8, <3>1, <3>2, <3>3, RegistrationsFrame
  <2> QED
    BY <2>1, <2>2, <2>7, <2>8 DEF AtDisposer
<1>4. ASSUME Joins(queue'[i]), queue'[i].kind \in DisposerKinds
      PROVE  AtDisposer(queue[i])'
  <2>1. ASSUME registerDisposerNow, queue'[i].subject = Head(registrationTail),
               disposers[queue'[i].subject].status = "absent",
               queue'[i].kind = "disposer.registered"
        PROVE  AtDisposer(queue[i])'
    <3>1. /\ registrationTail # <<>> /\ UNCHANGED <<registrationTail, disposers>>
      BY <2>1 DEF registerDisposerNow
    <3> QED
      BY <2>1, <3>1 DEF AtDisposer
  <2>2. ASSUME DisposeNext, queue'[i].subject \in Ready, queue'[i].kind = "disposer.started"
        PROVE  AtDisposer(queue[i])'
    BY <2>2 DEF AtDisposer, DisposeNext, OnlyFinalizer, Ready
  <2>3. ASSUME NEW how, NEW d \in Disposers, queue'[i].subject = d,
               disposers' = [disposers EXCEPT ![d].status =
                               IF how = "timed_out" THEN "timed_out" ELSE "settled"],
               queue'[i].kind = "disposer.settled"
        PROVE  AtDisposer(queue[i])'
    <3>1. disposers'[d].status = IF how = "timed_out" THEN "timed_out" ELSE "settled"
      BY <1>2, <2>3
    <3> QED
      BY <2>3, <3>1 DEF AtDisposer
  <2> QED
    BY <1>4, <2>1, <2>2, <2>3 DEF Joins, DisposerKinds
<1>5. CASE queue'[i].kind \notin DisposerKinds
  BY <1>5 DEF AtDisposer, DisposerKinds
<1> QED
  BY <1>3, <1>4, <1>5, Origin DEF Stays

\* So every entry stays in place.
LEMMA PlacedStep ==
  ASSUME IInv, Next
  PROVE  PlacedInv'
BY AtFinalizerStep, AtScopeStep, AtOperationStep, AtDisposerStep, AtCancellationStep
   DEF PlacedInv, Placed

\* Nothing joins that waits for the same answer as what stays.
LEMMA JoinsAlone ==
  ASSUME IInv, Next, NEW i \in DOMAIN queue', NEW j \in DOMAIN queue, Stays(i, j),
         NEW k \in DOMAIN queue', Joins(queue'[k])
  PROVE  ~Clash(queue[j], queue'[k])
<1> DEFINE e == queue'[k]
<1>1. i >= 1 /\ i \in Nat
  BY Origin
<1>2. ~(Served /\ Clash(queue[1], queue[j]))
  BY <1>1, AloneWaits
<1>3. Placed(queue[j])
  BY DEF IInv, PlacedInv
<1>4. ASSUME queue[j].final, e.final
      PROVE  FALSE
  <2>1. fin.pc \in {"starting", "rejected", "flushing", "last_flush", "starting_disposer",
                    "settling_disposer", "closing_scope", "sealing", "terminal"}
    BY <1>3, <1>4 DEF Placed, AtFinalizer, FinalPc
  <2>2. ~(TerminalReturns(TRUE) \/ ReceiptReturns(TRUE))
    BY <1>2, <1>4, Serving DEF Clash
  <2> QED
    BY <1>4, <2>1, <2>2 DEF Joins, CloseNext, DisposeNext, HandlerEnds, finalize, flushAppends,
       SendReceipt
<1>5. ASSUME queue[j].kind = "scope.opened", e.kind = "scope.opened",
             queue[j].subject = e.subject
      PROVE  FALSE
  <2>1. OpenScope(e.subject)
    BY <1>5 DEF Joins
  <2> QED
    BY <1>3, <1>5, <2>1 DEF OpenScope, Placed, AtScope, Open, Present
<1>6. ASSUME queue[j].kind \in OperationKinds, e.kind \in OperationKinds,
             queue[j].subject = e.subject
      PROVE  FALSE
  <2>1. operations[e.subject] \in {"starting", "settling", "recording_failure"}
    BY <1>3, <1>6 DEF Placed, AtOperation, OperationKinds
  <2>2. SettleReturns(FALSE) => Subject # e.subject
    BY <1>2, <1>6, Serving DEF Clash, OperationKinds
  <2>3. \/ runOperation(e.subject) \/ HandlerReturns(e.subject) \/ HandlerThrows(e.subject)
        \/ SettleReturns(FALSE) /\ e.subject = Subject
    BY <1>6 DEF Joins, OperationKinds
  <2> QED
    BY <2>1, <2>2, <2>3 DEF runOperation, HandlerReturns, HandlerThrows
<1>7. ASSUME queue[j].kind = "disposer.registered", e.kind = "disposer.registered"
      PROVE  FALSE
  <2>1. registerDisposerNow
    BY <1>7 DEF Joins
  <2> QED
    BY <1>7, <2>1 DEF registerDisposerNow
<1> QED
  BY <1>4, <1>5, <1>6, <1>7 DEF Clash

\* No two entries come to wait for the same answer.
LEMMA DistinctStep ==
  ASSUME IInv, Next
  PROVE  DistinctInv'
<1> SUFFICES ASSUME NEW i \in DOMAIN queue', NEW k \in DOMAIN queue', i # k
             PROVE  ~Clash(queue'[i], queue'[k])
  BY DEF DistinctInv, Clash
<1>1. /\ i >= 1 /\ i \in Nat /\ k >= 1 /\ k \in Nat
  BY Origin
<1>2. ASSUME NEW j \in DOMAIN queue, Stays(i, j), NEW l \in DOMAIN queue, Stays(k, l)
      PROVE  ~Clash(queue'[i], queue'[k])
  <2>1. j # l
    BY <1>1, <1>2 DEF Stays
  <2>2. ~Clash(queue[j], queue[l])
    BY <2>1 DEF IInv, DistinctInv
  <2> QED
    BY <1>2, <2>2 DEF Clash, Stays
<1>3. ASSUME NEW j \in DOMAIN queue, Stays(i, j), Joins(queue'[k])
      PROVE  ~Clash(queue'[i], queue'[k])
  <2>1. ~Clash(queue[j], queue'[k])
    BY <1>3, JoinsAlone
  <2> QED
    BY <1>3, <2>1 DEF Clash, Stays
<1>4. ASSUME NEW l \in DOMAIN queue, Stays(k, l), Joins(queue'[i])
      PROVE  ~Clash(queue'[i], queue'[k])
  <2>1. ~Clash(queue[l], queue'[i])
    BY <1>4, JoinsAlone
  <2> QED
    BY <1>4, <2>1 DEF Clash, Stays
<1> QED
  BY <1>2, <1>3, <1>4, Origin

\* A linked head is on record.
LEMMA HeadRecorded ==
  ASSUME IInv, 1 \in DOMAIN queue, queue[1].linked
  PROVE  Recorded(queue[1].kind, queue[1].subject)
<1>1. Len(log) \in DOMAIN log
  BY LogFacts
<1> QED
  BY <1>1 DEF IInv, LinkedInv, Recorded

\* recover links nothing.
LEMMA RecoverLinks ==
  ASSUME IInv, recover
  PROVE  ~Link
<1>1. queue = <<>>
  BY DEF recover, IInv, DownInv
<1> QED
  BY <1>1 DEF Link

\* What recover reads into the scopes.
LEMMA RecoveredScopes ==
  ASSUME IInv, recover, NEW s \in Scopes
  PROVE  /\ Durable(s)' <=> Recorded("scope.opened", s)
         /\ Durable(s)' => Present(s)'
         /\ ~scopes'[s].aborted
<1>1. scopes'[s] = IF Recorded("scope.opened", s)
                     THEN [Absent EXCEPT
                             !.status = IF Recorded("scope.closed", s) THEN "closed" ELSE "open",
                             !.openedEventId = log[OpeningOf(s)].id]
                     ELSE Absent
  BY DEF recover
<1>2. CASE Recorded("scope.opened", s)
  <2>1. OpeningOf(s) \in DOMAIN log
    BY <1>2, OpeningOfType DEF IInv, TypeInv, TypeOK
  <2>2. log[OpeningOf(s)].id = OpeningOf(s) /\ OpeningOf(s) # NoId
    BY <2>1, LogFacts DEF IInv, LogInv, NoId
  <2>3. /\ scopes'[s].openedEventId = log[OpeningOf(s)].id /\ ~scopes'[s].aborted
        /\ scopes'[s].status \in {"open", "closed"}
    BY <1>1, <1>2 DEF Absent
  <2> QED
    BY <1>2, <2>2, <2>3 DEF Durable, Present
<1>3. CASE ~Recorded("scope.opened", s)
  BY <1>1, <1>3 DEF Durable, Present, Absent
<1> QED
  BY <1>2, <1>3

\* A durable scope stays in the map.
LEMMA PresentStays ==
  ASSUME IInv, Next, ~Crash, ~recover, NEW s \in Scopes, Durable(s)'
  PROVE  Present(s)'
<1>1. scopes \in [Scopes -> [status : {"absent", "open", "closed"}, openedEventId : EventIds,
                             aborted : BOOLEAN]]
  BY DEF IInv, TypeInv, TypeOK
<1>2. Durable(s) => Present(s)
  BY DEF IInv, ScopeInv
<1>3. CASE UNCHANGED scopes
  BY <1>2, <1>3 DEF Durable, Present
<1>4. ASSUME NEW x \in Scopes, OpenScope(x)
      PROVE  Present(s)'
  <2>1. scopes' = [scopes EXCEPT ![x] = [Absent EXCEPT !.status = "open"]]
    BY <1>4 DEF OpenScope
  <2>2. [Absent EXCEPT !.status = "open"].status = "open"
    BY DEF Absent
  <2> QED
    BY <1>1, <1>2, <2>1, <2>2 DEF Durable, Present
<1>5. ASSUME NEW ok \in BOOLEAN, OpenScopeReturns(ok)
      PROVE  Present(s)'
  <2>1. Subject \in Scopes /\ Open(Subject)
    <3>1. 1 \in DOMAIN queue /\ queue[1].kind = "scope.opened" /\ Subject = queue[1].subject
      BY <1>5, Serving
    <3>2. AtScope(queue[1])
      BY <3>1 DEF IInv, PlacedInv, Placed
    <3> QED
      BY <1>5, <3>1, <3>2, Answers DEF AtScope
  <2>2. CASE s # Subject
    BY <1>1, <1>2, <1>5, <2>1, <2>2 DEF OpenScopeReturns, Durable, Present
  <2>3. CASE s = Subject /\ ok
    <3>1. scopes'[s].status = scopes[s].status
      BY <1>1, <1>5, <2>1, <2>3 DEF OpenScopeReturns
    <3> QED
      BY <2>1, <2>3, <3>1 DEF Open, Present
  <2>4. CASE s = Subject /\ ~ok
    <3>1. scopes'[s] = Absent
      BY <1>1, <1>5, <2>1, <2>4 DEF OpenScopeReturns
    <3> QED
      BY <3>1 DEF Durable, Absent
  <2> QED
    BY <2>2, <2>3, <2>4
<1>6. ASSUME NEW ok \in BOOLEAN, CloseScopeReturns(ok) \/ FinalCloseReturns(ok)
      PROVE  Present(s)'
  <2>1. Subject \in Scopes
    BY <1>6, Answers
  <2>2. PICK st : scopes' = [scopes EXCEPT ![Subject].status = st]
                  /\ (st = "closed" \/ st = scopes[Subject].status)
    BY <1>6 DEF CloseScopeReturns, FinalCloseReturns
  <2>3. /\ scopes'[s].openedEventId = scopes[s].openedEventId
        /\ scopes'[s].status \in {"closed", scopes[s].status}
    BY <1>1, <2>1, <2>2
  <2> QED
    BY <1>2, <2>3 DEF Durable, Present
<1>7. ASSUME NEW ok \in BOOLEAN, CancelReturns(ok)
      PROVE  Present(s)'
  <2>1. scopes' = scopes \/ scopes' = abortSubtree(Subject)
    BY <1>7 DEF CancelReturns
  <2>2. Subject \in Scopes
    BY <1>7, Answers
  <2>3. /\ scopes'[s].openedEventId = scopes[s].openedEventId
        /\ scopes'[s].status = scopes[s].status
    BY <2>1, <2>2, AbortSubtree
  <2> QED
    BY <1>2, <2>3 DEF Durable, Present
<1> QED
  BY <1>3, <1>4, <1>5, <1>6, <1>7, ScopesFrame

\* Whoever is not down was not down, or recovers.
LEMMA WasUp ==
  ASSUME IInv, Next, state' # "DOWN", ~recover
  PROVE  state # "DOWN" /\ ~Crash
BY StateFrame DEF Crash, IInv, PhaseInv

\* What the scopes map knows as durable is on the ledger, and a child is durable
\* only after its parent.
LEMMA ScopeStep ==
  ASSUME IInv, Next
  PROVE  ScopeInv'
<1>1. ASSUME NEW s \in Scopes, Durable(s)'
      PROVE  Present(s)' /\ Recorded("scope.opened", s)'
  <2>1. ~Crash
    BY <1>1, CrashFacts DEF Durable, Absent
  <2>2. CASE recover
    BY <1>1, <2>2, RecoveredScopes, RecordedNext
  <2>3. CASE ~recover
    <3>1. Present(s)'
      BY <1>1, <2>1, <2>3, PresentStays
    <3>2. Recorded("scope.opened", s)
      <4>1. CASE Durable(s)
        BY <4>1 DEF IInv, ScopeInv
      <4>2. CASE ~Durable(s)
        <5>1. PICK ok \in BOOLEAN : OpenScopeReturns(ok) /\ ok /\ s = Subject
          BY <1>1, <2>1, <2>3, <4>2, DurableStays
        <5>2. 1 \in DOMAIN queue /\ s = queue[1].subject /\ queue[1].linked
              /\ queue[1].kind = "scope.opened"
          BY <5>1, Serving
        <5> QED
          BY <5>2, HeadRecorded
      <4> QED
        BY <4>1, <4>2
    <3> QED
      BY <3>1, <3>2, RecordedNext
  <2> QED
    BY <2>2, <2>3
<1>2. ASSUME NEW s \in Scopes \ {Root}, state' # "DOWN", Recorded("scope.opened", s)'
      PROVE  Durable(Parent[s])'
  <2>1. Parent[s] \in Scopes
    BY TreeAssumption
  <2>2. CASE recover
    <3>1. Recorded("scope.opened", s)
      BY <1>2, <2>2, RecordedNext, RecoverLinks
    <3>2. Recorded("scope.opened", Parent[s])
      BY <3>1 DEF IInv, LogInv
    <3> QED
      BY <2>1, <2>2, <3>2, RecoveredScopes
  <2>3. CASE ~recover
    <3>1. state # "DOWN" /\ ~Crash
      BY <1>2, <2>3, WasUp
    <3>2. Durable(Parent[s])
      <4>1. CASE Recorded("scope.opened", s)
        BY <3>1, <4>1 DEF IInv, ScopeInv
      <4>2. CASE Link /\ queue[1].kind = "scope.opened" /\ queue[1].subject = s
        <5>1. AtScope(queue[1]) /\ NoId \notin queue[1].causes
          BY <4>2, LinkFacts, LinkedCauses DEF Placed
        <5> QED
          BY <4>2, <5>1 DEF AtScope
      <4> QED
        BY <1>2, <2>3, <4>1, <4>2, RecordedNext
    <3> QED
      BY <2>1, <2>3, <3>1, <3>2, DurableStays
  <2> QED
    BY <2>2, <2>3
<1>3. ASSUME state' # "DOWN"
      PROVE  Durable(Root)'
  <2>1. Root \in Scopes
    BY TreeAssumption
  <2>2. CASE recover
    <3>1. Recorded("scope.opened", Root)
      <4>1. 2 \in DOMAIN log
        BY LogFacts
      <4> QED
        BY <4>1 DEF IInv, LogInv, Recorded
    <3> QED
      BY <2>1, <2>2, <3>1, RecoveredScopes
  <2>3. CASE ~recover
    <3>1. state # "DOWN" /\ ~Crash
      BY <1>3, <2>3, WasUp
    <3>2. Durable(Root)
      BY <3>1 DEF IInv, ScopeInv
    <3> QED
      BY <2>1, <2>3, <3>1, <3>2, DurableStays
  <2> QED
    BY <2>2, <2>3
<1> QED
  BY <1>1, <1>2, <1>3 DEF ScopeInv, Durable, Present, Recorded

\* How an operation comes to be where it is.
LEMMA OperationMoves ==
  ASSUME IInv, Next, ~Crash, ~recover, NEW o \in Operations
  PROVE  /\ operations'[o] = "idle" => operations[o] = "idle"
         /\ operations'[o] = "running" =>
              \/ operations[o] = "running"
              \/ /\ \E ok \in BOOLEAN : StartReturns(ok) /\ ok
                 /\ o = Subject /\ Present(ScopeOf[o])
         /\ operations'[o] \in {"settling", "recording_failure"} =>
              operations[o] \in {"running", "settling", "recording_failure"}
<1>1. operations \in [Operations -> {"idle", "starting", "running", "settling",
                                     "recording_failure", "done"}]
  BY DEF IInv, TypeInv, TypeOK
<1>2. CASE UNCHANGED operations
  BY <1>2
<1>3. ASSUME NEW x \in Operations, runOperation(x)
      PROVE  operations'[o] = operations[o] \/ operations'[o] = "starting"
  BY <1>1, <1>3 DEF runOperation
<1>4. ASSUME NEW x \in Operations, HandlerReturns(x) \/ HandlerThrows(x)
      PROVE  \/ operations'[o] = operations[o]
             \/ operations[o] = "running"
                /\ operations'[o] \in {"settling", "recording_failure", "done"}
  <2>1. PICK v \in {"settling", "recording_failure", "done"} :
          operations[x] = "running" /\ operations' = [operations EXCEPT ![x] = v]
    BY <1>4 DEF HandlerReturns, HandlerThrows
  <2> QED
    BY <1>1, <2>1
<1>5. ASSUME NEW ok \in BOOLEAN, StartReturns(ok)
      PROVE  \/ operations'[o] = operations[o]
             \/ operations'[o] = "done"
             \/ operations'[o] = "running" /\ ok /\ o = Subject /\ Present(ScopeOf[o])
  <2>1. Subject \in Operations
    BY <1>5, Answers
  <2> QED
    BY <1>1, <1>5, <2>1 DEF StartReturns
<1>6. ASSUME NEW ok \in BOOLEAN, SettleReturns(ok)
      PROVE  \/ operations'[o] = operations[o]
             \/ operations'[o] = "done"
             \/ operations'[o] = "recording_failure" /\ operations[o] = "settling"
  <2>1. Subject \in Operations
    BY <1>6, Answers
  <2>2. \/ operations' = [operations EXCEPT ![Subject] = "done"]
        \/ /\ operations' = [operations EXCEPT ![Subject] = "recording_failure"]
           /\ operations[Subject] = "settling"
    BY <1>6 DEF SettleReturns
  <2> QED
    BY <1>1, <2>1, <2>2
<1> QED
  BY <1>2, <1>3, <1>4, <1>5, <1>6, OperationsFrame

\* An idle operation was never started, and one that works was.
LEMMA OperationStep ==
  ASSUME IInv, Next
  PROVE  OperationInv'
<1>1. ASSUME NEW o \in Operations, state' # "DOWN", operations'[o] = "idle"
      PROVE  ~Recorded("operation.started", o)'
  <2>1. CASE recover
    <3>1. ~Recorded("operation.started", o)
      BY <1>1, <2>1 DEF recover
    <3> QED
      BY <2>1, <3>1, RecordedNext, RecoverLinks
  <2>2. CASE ~recover
    <3>1. state # "DOWN" /\ ~Crash
      BY <1>1, <2>2, WasUp
    <3>2. operations[o] = "idle"
      BY <1>1, <2>2, <3>1, OperationMoves
    <3>3. ~Recorded("operation.started", o)
      BY <3>1, <3>2 DEF IInv, OperationInv
    <3>4. ~(Link /\ queue[1].kind = "operation.started" /\ queue[1].subject = o)
      BY <3>2, LinkFacts DEF Placed, AtOperation
    <3> QED
      BY <2>2, <3>3, <3>4, RecordedNext
  <2> QED
    BY <2>1, <2>2
<1>2. ASSUME NEW o \in Operations, operations'[o] \in {"running", "settling", "recording_failure"}
      PROVE  Recorded("operation.started", o)'
  <2>1. ~Crash /\ ~recover
    BY <1>2, CrashFacts DEF recover
  <2>2. CASE operations[o] \in {"running", "settling", "recording_failure"}
    BY <2>2, RecordedNext DEF IInv, OperationInv
  <2>3. CASE operations[o] \notin {"running", "settling", "recording_failure"}
    <3>1. PICK ok \in BOOLEAN : StartReturns(ok) /\ ok /\ o = Subject
      BY <1>2, <2>1, <2>3, OperationMoves
    <3>2. Recorded("operation.started", o)
      BY <3>1, Serving, HeadRecorded
    <3> QED
      BY <3>2, RecordedNext
  <2> QED
    BY <2>2, <2>3
<1> QED
  BY <1>1, <1>2 DEF OperationInv, Recorded

\* A durable request is remembered, and only a durable one was acknowledged.
LEMMA CancelStep ==
  ASSUME IInv, Next
  PROVE  CancelInv'
<1>1. cancellations \in [Scopes -> {"none", "requesting", "acknowledging", "resolved", "rejected"}]
  BY DEF IInv, TypeInv, TypeOK
<1>2. ASSUME NEW s \in Scopes, state' # "DOWN", Recorded("cancellation.requested", s)'
      PROVE  cancellations'[s] # "none"
  <2>1. ~recover
    <3>1. recover => ~Recorded("cancellation.requested", s)
      BY DEF recover, Has, Recorded
    <3> QED
      BY <1>2, <3>1, RecordedNext, RecoverLinks
  <2>2. state # "DOWN" /\ ~Crash
    BY <1>2, <2>1, WasUp
  <2>3. cancellations[s] # "none"
    <3>1. CASE Recorded("cancellation.requested", s)
      BY <2>2, <3>1 DEF IInv, CancelInv
    <3>2. CASE Link /\ queue[1].kind = "cancellation.requested" /\ queue[1].subject = s
      BY <3>2, LinkFacts DEF Placed, AtCancellation
    <3> QED
      BY <1>2, <2>1, <3>1, <3>2, RecordedNext
  <2> QED
    BY <2>2, <2>3, CancellationStays
<1>3. ASSUME NEW s \in Scopes, cancellations'[s] \in {"acknowledging", "resolved"}
      PROVE  Recorded("cancellation.requested", s)'
  <2>1. ~Crash
    BY <1>3, CrashFacts
  <2>2. Recorded("cancellation.requested", s)
    <3>1. CASE cancellations[s] \in {"acknowledging", "resolved"}
      BY <3>1 DEF IInv, CancelInv
    <3>2. CASE cancellations[s] \notin {"acknowledging", "resolved"}
      <4>1. ~(\E c \in Scopes : cancelScope(c))
        BY <1>1, <1>3, <3>2 DEF cancelScope
      <4>2. ASSUME NEW ok \in BOOLEAN, CancelReturns(ok)
            PROVE  Recorded("cancellation.requested", s)
        <5>1. ok /\ s = Subject
          BY <1>1, <1>3, <3>2, <4>2, Answers DEF CancelReturns
        <5> QED
          BY <4>2, <5>1, Serving, HeadRecorded
      <4>3. ASSUME NEW ok \in BOOLEAN, AcknowledgeReturns(ok)
            PROVE  Recorded("cancellation.requested", s)
        <5>1. s = Subject
          BY <1>1, <1>3, <3>2, <4>3, Answers DEF AcknowledgeReturns
        <5>2. 1 \in DOMAIN queue /\ queue[1].subject = s
              /\ queue[1].kind = "cancellation.acknowledged"
          BY <4>3, <5>1, Serving
        <5> QED
          BY <5>2 DEF IInv, PlacedInv, Placed, AtCancellation
      <4> QED
        BY <1>3, <2>1, <3>2, <4>1, <4>2, <4>3, CancellationsFrame
    <3> QED
      BY <3>1, <3>2
  <2> QED
    BY <2>2, RecordedNext
<1> QED
  BY <1>2, <1>3 DEF CancelInv, Recorded

\* A step keeps every aborted signal under a durable request.
LEMMA AbortStep ==
  ASSUME IInv, Next
  PROVE  AbortIsDurable'
<1> SUFFICES ASSUME NEW s \in Scopes, scopes'[s].aborted
             PROVE  \E a \in Scopes : Beneath(s, a) /\ Recorded("cancellation.requested", a)'
  BY DEF AbortIsDurable, Recorded
<1>1. scopes \in [Scopes -> [status : {"absent", "open", "closed"}, openedEventId : EventIds,
                             aborted : BOOLEAN]]
  BY DEF IInv, TypeInv, TypeOK
<1>2. CASE scopes[s].aborted
  <2>1. PICK a \in Scopes : Beneath(s, a) /\ Recorded("cancellation.requested", a)
    BY <1>2 DEF IInv, AbortIsDurable
  <2> QED
    BY <2>1, RecordedNext
<1>3. CASE ~scopes[s].aborted
  <2>1. ASSUME NEW x \in Scopes, OpenScope(x)
        PROVE  FALSE
    <3>1. scopes' = [scopes EXCEPT ![x] = [Absent EXCEPT !.status = "open"]]
      BY <2>1 DEF OpenScope
    <3>2. ~[Absent EXCEPT !.status = "open"].aborted
      BY DEF Absent
    <3> QED
      BY <1>1, <1>3, <3>1, <3>2
  <2>2. ASSUME NEW ok \in BOOLEAN,
               OpenScopeReturns(ok) \/ CloseScopeReturns(ok) \/ FinalCloseReturns(ok)
        PROVE  FALSE
    <3>1. Subject \in Scopes
      BY <2>2, Answers
    <3>2. \/ scopes' = [scopes EXCEPT ![Subject] = Absent]
          \/ \E v : scopes' = [scopes EXCEPT ![Subject].openedEventId = v]
          \/ \E v : scopes' = [scopes EXCEPT ![Subject].status = v]
      BY <2>2 DEF OpenScopeReturns, CloseScopeReturns, FinalCloseReturns
    <3> QED
      BY <1>1, <1>3, <3>1, <3>2 DEF Absent
  <2>3. ASSUME NEW ok \in BOOLEAN, CancelReturns(ok)
        PROVE  \E a \in Scopes : Beneath(s, a) /\ Recorded("cancellation.requested", a)'
    <3>1. ok /\ scopes' = abortSubtree(Subject) /\ Subject \in Scopes
      BY <1>3, <2>3, Answers DEF CancelReturns
    <3>2. Beneath(s, Subject)
      BY <1>3, <3>1, AbortSubtree
    <3>3. Recorded("cancellation.requested", Subject)
      BY <2>3, <3>1, Serving, HeadRecorded
    <3>4. PICK a \in Scopes : a = Subject
      BY <3>1
    <3> QED
      BY <3>2, <3>3, <3>4, RecordedNext
  <2>4. ~Crash /\ ~recover
    BY CrashFacts, RecoveredScopes DEF Absent
  <2> QED
    BY <1>3, <2>1, <2>2, <2>3, <2>4, ScopesFrame
<1> QED
  BY <1>2, <1>3

\* The prefix of the log that ends before position j, after a step.
LEMMA PrefixNext ==
  ASSUME IInv, Next, NEW j \in DOMAIN log'
  PROVE  /\ \/ j \in DOMAIN log
            \/ j = Len(log) + 1 /\ Link /\ log'[j] = Linking
            \/ j = Len(log) + 1 /\ recover /\ log'[j] = Recovery
         /\ SubSeq(log', 1, j - 1) = SubSeq(log, 1, j - 1)
         /\ j = Len(log) + 1 => SubSeq(log', 1, j - 1) = log
<1>1. /\ log \in Seq(Event) /\ DOMAIN log = 1..Len(log) /\ Len(log) \in Nat
      /\ DOMAIN log' = 1..Len(log') /\ Len(log') \in Nat
      /\ Len(log) <= Len(log') /\ Len(log') <= Len(log) + 1
  BY LogFacts, LogGrows
<1>2. j \in DOMAIN log \/ j = Len(log) + 1
  BY <1>1
<1>3. j - 1 \in 0..Len(log) /\ j \in Nat
  BY <1>1, <1>2
<1>4. SubSeq(log, 1, Len(log)) = log
  BY <1>1
<1>5. CASE UNCHANGED log
  BY <1>1, <1>2, <1>5
<1>6. ASSUME NEW e \in Event, log' = Append(log, e)
      PROVE  /\ SubSeq(log', 1, j - 1) = SubSeq(log, 1, j - 1)
             /\ log'[Len(log) + 1] = e
             /\ j = Len(log) + 1 => SubSeq(log', 1, j - 1) = log
  <2>1. SubSeq(log', 1, j - 1) = SubSeq(log, 1, j - 1)
    BY <1>1, <1>3, <1>6, PrefixOfAppend
  <2>2. log'[Len(log) + 1] = e
    BY <1>1, <1>6, AppendEntry
  <2> QED
    BY <1>1, <1>4, <2>1, <2>2
<1> QED
  BY <1>2, <1>5, <1>6, LogGrows

\* An operation that joins the log was started in an open scope.
LEMMA StartsStep ==
  ASSUME IInv, Next, StartsInOpenScopes'
  PROVE  StartsInOpenScopes
<1> SUFFICES ASSUME NEW j \in DOMAIN log, log[j].kind = "operation.started"
             PROVE  ScopeOf[log[j].subject] \in OpenScopes(SubSeq(log, 1, j - 1))
  BY DEF StartsInOpenScopes
<1>1. j \in DOMAIN log' /\ log'[j] = log[j]
  BY LogGrows
<1>2. ScopeOf[log'[j].subject] \in OpenScopes(SubSeq(log', 1, j - 1))
  BY <1>1 DEF StartsInOpenScopes
<1> QED
  BY <1>1, <1>2, PrefixNext

\* A working operation is beneath no scope whose cancellation was asked for,
\* unless its result is late.
LEMMA OnTime ==
  ASSUME IInv, NEW o \in Operations, state # "DOWN", MaySettle(o), ~Late(o),
         Recorded("operation.started", o), StartsInOpenScopes,
         NEW s \in Scopes, Beneath(ScopeOf[o], s)
  PROVE  cancellations[s] = "none"
<1>1. ScopeOf[o] \in Scopes /\ Present(ScopeOf[o])
  BY TreeAssumption DEF MaySettle
<1>2. Recorded("scope.opened", ScopeOf[o])
  <2>1. PICK j \in DOMAIN log : log[j].kind = "operation.started" /\ log[j].subject = o
    BY DEF Recorded
  <2>2. ScopeOf[o] \in OpenScopes(SubSeq(log, 1, j - 1))
    BY <2>1 DEF StartsInOpenScopes
  <2>3. PICK i \in DOMAIN SubSeq(log, 1, j - 1) :
          /\ SubSeq(log, 1, j - 1)[i].kind = "scope.opened"
          /\ SubSeq(log, 1, j - 1)[i].subject = ScopeOf[o]
    BY <2>2, OpenIsOpened
  <2>4. i \in DOMAIN log /\ SubSeq(log, 1, j - 1)[i] = log[i]
    BY LogFacts
  <2> QED
    BY <2>3, <2>4 DEF Recorded
<1> DEFINE P == {x \in Scopes : Durable(x)} \cup {ScopeOf[o]}
<1>3. P \in SUBSET Scopes /\ ScopeOf[o] \in P
  BY <1>1
<1>4. ASSUME NEW x \in P
      PROVE  Present(x) /\ (x # Root => Parent[x] \in P)
  <2>1. Present(x) /\ Recorded("scope.opened", x)
    BY <1>1, <1>2, <1>4 DEF IInv, ScopeInv
  <2>2. x # Root => Durable(Parent[x]) /\ Parent[x] \in Scopes
    BY <1>3, <2>1, TreeAssumption DEF IInv, ScopeInv
  <2> QED
    BY <2>1, <2>2
<1> HIDE DEF P
<1>5. isDescendantOrSelf(ScopeOf[o], s)
  BY <1>3, <1>4, PresentReach
<1> QED
  BY <1>5 DEF Late, isScopeCancellationRequested

\* No step queues or records a completion under a request that came before it.
LEMMA CompletionStep ==
  ASSUME IInv, Next
  PROVE  CompletionInv'
<1> SUFFICES ASSUME StartsInOpenScopes'
             PROVE  /\ NoCompletionAfterCancel'
                    /\ \A i \in DOMAIN queue' :
                         queue'[i].kind = "operation.settled" /\ queue'[i].claim = "completed" =>
                           \A s \in Scopes : Beneath(ScopeOf[queue'[i].subject], s) =>
                             /\ ~Recorded("cancellation.requested", s)'
                             /\ \A k \in 1..(i - 1) :
                                  ~(queue'[k].kind = "cancellation.requested"
                                      /\ queue'[k].subject = s)
  BY DEF CompletionInv, Recorded
<1>1. /\ StartsInOpenScopes /\ NoCompletionAfterCancel
      /\ \A i \in DOMAIN queue :
           queue[i].kind = "operation.settled" /\ queue[i].claim = "completed" =>
             \A s \in Scopes : Beneath(ScopeOf[queue[i].subject], s) =>
               /\ ~Recorded("cancellation.requested", s)
               /\ \A j \in 1..(i - 1) :
                    ~(queue[j].kind = "cancellation.requested" /\ queue[j].subject = s)
  BY StartsStep DEF IInv, CompletionInv
<1>2. ASSUME NEW i \in DOMAIN log', NEW j \in DOMAIN log', i < j,
             log'[i].kind = "cancellation.requested", log'[j].kind = "operation.settled",
             Beneath(ScopeOf[log'[j].subject], log'[i].subject)
      PROVE  log'[j].claim # "completed"
  <2>1. /\ DOMAIN log = 1..Len(log) /\ Len(log) \in Nat
        /\ DOMAIN log' = 1..Len(log')
        /\ \A k \in DOMAIN log : k \in DOMAIN log' /\ log'[k] = log[k]
    BY LogFacts, LogGrows
  <2>2. CASE j \in DOMAIN log
    <3>1. i \in DOMAIN log
      BY <1>2, <2>1, <2>2
    <3>2. log'[i] = log[i] /\ log'[j] = log[j]
      BY <2>1, <2>2, <3>1
    <3> QED
      BY <1>1, <1>2, <2>2, <3>1, <3>2 DEF NoCompletionAfterCancel
  <2>3. CASE j = Len(log) + 1
    <3>1. i \in DOMAIN log
      BY <1>2, <2>1, <2>3
    <3>2. log'[i] = log[i] /\ log[i].subject \in Scopes
          /\ Recorded("cancellation.requested", log[i].subject)
      BY <1>2, <2>1, <3>1 DEF IInv, TypeInv, Apt, CancelKinds, Recorded
    <3>3. Link /\ log'[j] = Linking
      <4>1. recover => Recovery.kind # "operation.settled"
        BY RecoverFacts
      <4>2. j \notin DOMAIN log
        BY <2>1, <2>3
      <4>3. \/ Link /\ log'[j] = Linking
            \/ recover /\ log'[j] = Recovery
        BY <4>2, PrefixNext
      <4> QED
        BY <1>2, <4>1, <4>3
    <3>4. /\ 1 \in DOMAIN queue /\ queue[1].kind = log'[j].kind
          /\ queue[1].subject = log'[j].subject /\ queue[1].claim = log'[j].claim
      BY <3>3, LinkFacts
    <3> QED
      BY <1>1, <1>2, <3>2, <3>4
  <2> QED
    BY <2>2, <2>3, PrefixNext
<1>3. ASSUME NEW i \in DOMAIN queue', NEW s \in Scopes,
             queue'[i].kind = "operation.settled", queue'[i].claim = "completed",
             Beneath(ScopeOf[queue'[i].subject], s)
      PROVE  /\ ~Recorded("cancellation.requested", s)'
             /\ \A k \in 1..(i - 1) :
                  ~(queue'[k].kind = "cancellation.requested" /\ queue'[k].subject = s)
  <2>1. /\ i \in 1..Len(queue') /\ Len(queue') \in Nat /\ DOMAIN queue' = 1..Len(queue')
        /\ Len(queue) \in Nat /\ DOMAIN queue = 1..Len(queue)
    BY FlowOfStep, LenProperties DEF IInv, TypeInv
  <2>2. ~recover /\ ~Crash
    BY Origin
  <2>3. CASE \E j \in DOMAIN queue : Stays(i, j)
    <3>1. PICK j \in DOMAIN queue : Stays(i, j)
      BY <2>3
    <3>2. /\ ~Recorded("cancellation.requested", s)
          /\ \A k \in 1..(j - 1) :
               ~(queue[k].kind = "cancellation.requested" /\ queue[k].subject = s)
      BY <1>1, <1>3, <3>1 DEF Stays
    <3>3. ~(Link /\ queue[1].kind = "cancellation.requested" /\ queue[1].subject = s)
      <4>1. queue[1].kind = "cancellation.requested" => j # 1
        BY <1>3, <3>1 DEF Stays
      <4>2. j # 1 => 1 \in 1..(j - 1)
        BY <2>1
      <4> QED
        BY <3>2, <4>1, <4>2
    <3>4. ASSUME NEW k \in 1..(i - 1), queue'[k].kind = "cancellation.requested",
                 queue'[k].subject = s
          PROVE  FALSE
      <4>1. k \in DOMAIN queue'
        BY <2>1
      <4>2. PICK l \in DOMAIN queue : Stays(k, l)
        <5>1. k # IF Served THEN Len(queue) ELSE Len(queue) + 1
          <6>1. k \in Nat /\ k < i /\ i \in Nat
            BY <2>1, <3>4
          <6>2. j \in 1..Len(queue)
            BY <2>1
          <6>3. CASE Served
            <7>1. j = i + 1
              BY <3>1, <6>3 DEF Stays
            <7>2. i + 1 <= Len(queue) /\ Len(queue) \in Nat
              BY <2>1, <6>1, <6>2, <7>1
            <7>3. k # Len(queue)
              BY <6>1, <7>2
            <7> QED
              BY <6>3, <7>3
          <6>4. CASE ~Served
            <7>1. j = i
              BY <3>1, <6>4 DEF Stays
            <7> QED
              BY <2>1, <6>1, <6>2, <6>4, <7>1
          <6> QED
            BY <6>3, <6>4
        <5> QED
          BY <4>1, <5>1, Origin
      <4>3. l \in 1..(j - 1)
        BY <2>1, <3>1, <4>2 DEF Stays
      <4> QED
        BY <3>2, <3>4, <4>2, <4>3 DEF Stays
    <3> QED
      BY <2>2, <3>2, <3>3, <3>4, RecordedNext
  <2>4. CASE Joins(queue'[i]) /\ ~Link
    <3>1. PICK o \in Operations : /\ queue'[i].subject = o /\ MaySettle(o)
                                  /\ HandlerReturns(o) /\ ~Late(o)
      BY <1>3, <2>4 DEF Joins
    <3>2. state # "DOWN" /\ Recorded("operation.started", o)
      BY <3>1 DEF HandlerReturns, IInv, DownInv, OperationInv
    <3>3. cancellations[s] = "none"
      BY <1>1, <1>3, <3>1, <3>2, OnTime
    <3>4. ~Recorded("cancellation.requested", s)
      BY <3>2, <3>3 DEF IInv, CancelInv
    <3>5. ASSUME NEW k \in 1..(i - 1), queue'[k].kind = "cancellation.requested",
                 queue'[k].subject = s
          PROVE  FALSE
      <4>1. k \in DOMAIN queue'
        BY <2>1
      <4>2. Placed(queue[k])'
        BY <4>1, PlacedStep DEF PlacedInv
      <4>3. cancellations'[s] # "none"
        BY <3>5, <4>2 DEF Placed, AtCancellation
      <4>4. UNCHANGED cancellations
        BY <3>1 DEF HandlerReturns
      <4> QED
        BY <3>3, <4>3, <4>4
    <3> QED
      BY <2>2, <2>4, <3>4, <3>5, RecordedNext
  <2> QED
    BY <2>3, <2>4, Origin
<1>4. NoCompletionAfterCancel'
  BY <1>2 DEF NoCompletionAfterCancel
<1> QED
  BY <1>3, <1>4

\* The oldest entry tells which task continues.
LEMMA Servers ==
  ASSUME IInv, Served
  PROVE  /\ 1 \in DOMAIN queue
         /\ queue[1].kind = "scope.opened" => \E ok \in BOOLEAN : OpenScopeReturns(ok)
         /\ queue[1].kind = "disposer.registered" => \E ok \in BOOLEAN : RegisterReturns(ok)
         /\ queue[1].kind = "disposer.started" => \E ok \in BOOLEAN : DisposerStartReturns(ok)
         /\ queue[1].kind = "disposer.settled" => \E ok \in BOOLEAN : DisposerSettleReturns(ok)
<1>1. 1 \in DOMAIN queue /\ Head(queue) = queue[1]
  BY FlowOnServe, HeadOfQueue
<1>2. FlushReturns => queue[1].kind = "flush"
  BY <1>1 DEF FlushReturns
<1>3. ASSUME NEW ok \in BOOLEAN
      PROVE  /\ FinalizationStartReturns(ok) => queue[1].kind = "finalization.started"
             /\ ReceiptReturns(ok) => queue[1].kind = "finalization.receipt"
             /\ TerminalReturns(ok) => queue[1].kind = "trajectory.terminal"
             /\ DisposerSettleReturns(ok) => queue[1].kind = "disposer.settled"
  BY <1>1 DEF FinalizationStartReturns, ReceiptReturns, TerminalReturns, DisposerSettleReturns,
     Answer
<1> QED
  BY <1>1, <1>2, <1>3, Serving DEF Served, Answered

\* Without an I/O error, what fails was refused.
LEMMA Refusal ==
  ASSUME IInv, faults' = 0,
         \/ OpenScopeReturns(FALSE) \/ RegisterReturns(FALSE) \/ StartReturns(FALSE)
         \/ SettleReturns(FALSE) \/ DisposerSettleReturns(FALSE)
  PROVE  ~queue[1].linked /\ ~Admitted(queue[1])
<1>1. queue # <<>> => Head(queue) = queue[1]
  BY HeadOfQueue
<1>2. faults \in 0..MaxFaults /\ MaxFaults \in Nat
  BY BoundsAssumption DEF IInv, TypeInv, TypeOK
<1>3. faults + 1 # 0
  BY <1>2
<1>4. ASSUME NEW kind, NEW final, NEW more, Answer(kind, final, FALSE, more)
      PROVE  ~queue[1].linked /\ ~Admitted(queue[1])
  BY <1>1, <1>3, <1>4 DEF Answer
<1> QED
  BY <1>4 DEF OpenScopeReturns, RegisterReturns, StartReturns, SettleReturns,
     DisposerSettleReturns

\* A chain that has kept its reserve admits what it is owed.
LEMMA DischargeAdmitted ==
  ASSUME IInv, 1 \in DOMAIN queue, ~Terminated(log), Discharges(log, InputOf(queue[1])),
         queue[1].kind \in {"operation.settled", "disposer.settled"}
  PROVE  Admitted(queue[1])
<1> DEFINE in == InputOf(queue[1])
<1>1. queue[1] \in EntryType
  BY ElementOfSeq DEF IInv, TypeInv
<1>2. /\ queue[1].causes = {} /\ queue[1].expect = NoTip
      /\ queue[1].subject \in Subjects /\ queue[1].claim \in Claims
  BY <1>1 DEF EntryType, EntryFields, ScopeKinds
<1>3. /\ in.id = Len(log) + 1 /\ in.kind = queue[1].kind /\ in.causes = {} /\ in.bytes = 1
      /\ in \in Input
  BY <1>2, LogFacts DEF InputOf, Input, Kinds, OperationKinds, DisposerKinds
<1>4. in.id \notin Ids(log)
  BY <1>3, LogFacts DEF IInv, LogInv, Ids
<1>5. WellPlaced(log, in)
  BY <1>3, LogFacts DEF WellPlaced
<1>6. ~Oversized(in)
  BY <1>3, LimitsAssumption DEF Oversized
<1>7. LeavesReserve(log, in)
  BY <1>3, LogFacts, LimitsAssumption, DischargeFits DEF IInv, LogInv
<1> QED
  BY <1>2, <1>4, <1>5, <1>6, <1>7 DEF Admitted, Verdict

\* While another event is on its way, and no I/O error was reported, the
\* trajectory is not over.
LEMMA NotOver ==
  ASSUME IInv, faults = 0, state \notin {"DOWN", "TERMINAL"}, 1 \in DOMAIN queue,
         queue[1].kind # "trajectory.terminal", fin.pc # "last_flush"
  PROVE  ~Terminated(log)
<1>1. fin.pc # "done"
  BY DEF IInv, PhaseInv
<1>2. queue # <<>>
  <2>1. queue \in Seq(EntryType)
    BY DEF IInv, TypeInv
  <2> QED
    BY <2>1, LenProperties
<1>3. Head(queue) = queue[1]
  BY <1>2, HeadOfQueue
<1>4. Terminated(log) =>
        \/ Head(queue).kind = "trajectory.terminal"
        \/ fin.pc \in {"last_flush", "done"}
        \/ faults > 0
  BY DEF IInv, PhaseInv
<1> QED
  BY <1>1, <1>3, <1>4

\* What the last event of the log has settled is no longer owed.
LEMMA LastEvent ==
  ASSUME IInv
  PROVE  LET e      == log[Len(log)]
             before == SubSeq(log, 1, Len(log) - 1)
         IN  /\ e.kind = "scope.closed" => e.subject \notin OpenScopes(log)
             /\ e.kind = "operation.settled" => e.subject \notin ActiveOperations(log)
             /\ e.kind = "disposer.settled" => e.subject \notin PendingDisposers(log)
             /\ e.kind = "operation.started" => OpenScopes(log) = OpenScopes(before)
<1> DEFINE e == log[Len(log)]
           before == SubSeq(log, 1, Len(log) - 1)
<1>1. /\ log \in Seq(Event) /\ Len(log) \in Nat /\ Len(log) >= 2 /\ e \in Event
  BY LogFacts
<1>2. before \in Seq(Event) /\ log = Append(before, e)
  BY <1>1
<1> HIDE DEF e, before
<1>3. /\ OpenScopes(log) =
           IF e.kind = "scope.opened" THEN OpenScopes(before) \cup {e.subject}
           ELSE IF e.kind = "scope.closed" THEN OpenScopes(before) \ {e.subject}
           ELSE OpenScopes(before)
      /\ ActiveOperations(log) =
           IF e.kind = "operation.started" THEN ActiveOperations(before) \cup {e.subject}
           ELSE IF e.kind = "operation.settled" THEN ActiveOperations(before) \ {e.subject}
           ELSE ActiveOperations(before)
      /\ PendingDisposers(log) =
           IF e.kind \in {"disposer.registered", "disposer.started"}
             THEN PendingDisposers(before) \cup {e.subject}
           ELSE IF e.kind = "disposer.settled" THEN PendingDisposers(before) \ {e.subject}
           ELSE PendingDisposers(before)
  BY <1>1, <1>2, OwedOfAppend
<1>4. /\ e.kind = "scope.closed" => e.subject \notin OpenScopes(log)
      /\ e.kind = "operation.settled" => e.subject \notin ActiveOperations(log)
      /\ e.kind = "disposer.settled" => e.subject \notin PendingDisposers(log)
      /\ e.kind = "operation.started" => OpenScopes(log) = OpenScopes(before)
  BY <1>3
<1> QED
  BY <1>4 DEF e, before

\* A linked head is the last event.
LEMMA HeadIsLast ==
  ASSUME IInv, 1 \in DOMAIN queue, queue[1].linked
  PROVE  log[Len(log)].kind = queue[1].kind /\ log[Len(log)].subject = queue[1].subject
BY DEF IInv, LinkedInv

\* What the log owes after a step.
LEMMA OwedNext ==
  ASSUME IInv, Next, state' # "DOWN"
  PROVE  /\ \A s \in OpenScopes(log') :
              \/ s \in OpenScopes(log)
              \/ Link /\ queue[1].kind = "scope.opened" /\ queue[1].subject = s
         /\ \A o \in ActiveOperations(log') :
              \/ o \in ActiveOperations(log)
              \/ Link /\ queue[1].kind = "operation.started" /\ queue[1].subject = o
         /\ \A d \in PendingDisposers(log') :
              \/ d \in PendingDisposers(log)
              \/ /\ Link /\ queue[1].kind \in {"disposer.registered", "disposer.started"}
                 /\ queue[1].subject = d
<1>1. CASE UNCHANGED log
  BY <1>1
<1>2. CASE Link
  <2>1. /\ log' = Append(log, Linking) /\ Linking \in Event
        /\ Linking.kind = queue[1].kind /\ Linking.subject = queue[1].subject
    BY <1>2, LinkFacts
  <2>2. log \in Seq(Event)
    BY LogFacts
  <2> HIDE DEF Linking
  <2> QED
    BY <1>2, <2>1, <2>2, OwedOfAppend
<1>3. CASE recover
  <2>1. log' = Append(log, Recovery) /\ Recovery \in Event /\ Recovery.kind = "trajectory.recovered"
    BY <1>3, RecoverFacts
  <2>2. log \in Seq(Event)
    BY LogFacts
  <2> HIDE DEF Recovery
  <2> QED
    BY <2>1, <2>2, OwedOfAppend
<1> QED
  BY <1>1, <1>2, <1>3, LogGrows

\* A linked head is the last event until it is answered.
LEMMA HeadStays ==
  ASSUME IInv, Next, ~Crash, ~Served, NEW kind, NEW s, HeadIs(kind, s)
  PROVE  HeadIs(kind, s)' /\ ~Link
<1>1. /\ queue # <<>> /\ Head(queue) = queue[1] /\ 1 \in DOMAIN queue
      /\ queue[1].linked /\ queue[1].kind = kind /\ queue[1].subject = s
  BY HeadOfQueue DEF HeadIs
<1>2. ~Link
  BY <1>1, LinkFacts
<1>3. Flow(0) /\ queue' \in Seq(EntryType)
  BY <1>2, FlowOfStep
<1>4. 1 \in DOMAIN queue' /\ queue'[1] = queue[1]
  <2>1. 1 > 0 /\ 1 - 0 = 1
    OBVIOUS
  <2> QED
    BY <1>1, <1>3, <2>1 DEF Flow
<1>5. queue' # <<>> /\ Head(queue') = queue'[1]
  BY <1>3, <1>4
<1> QED
  BY <1>1, <1>2, <1>4, <1>5 DEF HeadIs

\* In a live coordinator without I/O errors, nothing was wrong before the step.
LEMMA StillClean ==
  ASSUME IInv, Next, ~recover, faults' = 0, state' \notin {"DOWN", "TERMINAL"}
  PROVE  faults = 0 /\ state \notin {"DOWN", "TERMINAL"} /\ ~Crash
<1>1. state # "DOWN" /\ ~Crash
  BY WasUp
<1>2. faults = 0
  BY FaultsGrow
<1>3. state = "TERMINAL" => state' = "TERMINAL"
  <2>1. state = "TERMINAL" => fin.pc = "done"
    BY DEF IInv, PhaseInv
  <2>2. recover => state = "DOWN"
    BY DEF recover
  <2> QED
    BY <1>1, <2>1, <2>2, StateFrame
<1> QED
  BY <1>1, <1>2, <1>3

\* An open scope of the log that the step leaves on the log is still open, and
\* known to be durable, once it was.
LEMMA ScopesKept ==
  ASSUME IInv, Next, ~recover, faults' = 0, state' \notin {"DOWN", "TERMINAL"},
         NEW s \in OpenScopes(log)
  PROVE  Open(s)' /\ (Durable(s)' \/ HeadIs("scope.opened", s)')
<1>1. faults = 0 /\ state \notin {"DOWN", "TERMINAL"} /\ ~Crash
  BY StillClean
<1>2. Open(s) /\ (Durable(s) \/ HeadIs("scope.opened", s))
  BY <1>1 DEF IInv, ScopesInv
<1>3. s \in Scopes
  <2>1. PICK i \in DOMAIN log : log[i].kind = "scope.opened" /\ log[i].subject = s
    BY OpenIsOpened
  <2> QED
    BY <2>1 DEF IInv, TypeInv, Apt, ScopeKinds
<1>4. scopes \in [Scopes -> [status : {"absent", "open", "closed"}, openedEventId : EventIds,
                             aborted : BOOLEAN]]
  BY DEF IInv, TypeInv, TypeOK
<1>5. Durable(s)' \/ HeadIs("scope.opened", s)'
  <2>1. CASE Durable(s)
    BY <1>1, <1>3, <2>1, DurableStays
  <2>2. CASE HeadIs("scope.opened", s) /\ ~Served
    BY <1>1, <2>2, HeadStays
  <2>3. CASE HeadIs("scope.opened", s) /\ Served
    <3>1. queue[1].kind = "scope.opened" /\ queue[1].subject = s /\ queue[1].linked
      BY <2>3, HeadOfQueue DEF HeadIs
    <3>2. PICK ok \in BOOLEAN : OpenScopeReturns(ok)
      BY <2>3, <3>1, Servers
    <3>3. ok
      BY <3>1, <3>2, Refusal
    <3>4. Subject = s
      BY <3>1, <3>2, Serving
    <3>5. scopes'[s].openedEventId = Len(log)
      BY <1>3, <1>4, <3>2, <3>3, <3>4 DEF OpenScopeReturns
    <3> QED
      BY <3>5, LogFacts DEF Durable, NoId
  <2> QED
    BY <1>2, <2>1, <2>2, <2>3
<1>6. Open(s)'
  <2>1. ASSUME NEW x \in Scopes, OpenScope(x)
        PROVE  Open(s)'
    <3>1. x # s
      BY <1>2, <2>1 DEF OpenScope, Open, Present
    <3> QED
      BY <1>2, <1>3, <1>4, <2>1, <3>1 DEF OpenScope, Open
  <2>2. ASSUME NEW ok \in BOOLEAN, OpenScopeReturns(ok)
        PROVE  Open(s)'
    <3>1. 1 \in DOMAIN queue /\ queue[1].kind = "scope.opened" /\ Subject = queue[1].subject
      BY <2>2, Serving
    <3>2. Subject \in Scopes
      BY <2>2, Answers
    <3>3. CASE Subject # s
      BY <1>2, <1>3, <1>4, <2>2, <3>2, <3>3 DEF OpenScopeReturns, Open
    <3>4. CASE Subject = s
      <4>1. ~Durable(s)
        BY <3>1, <3>4 DEF IInv, PlacedInv, Placed, AtScope
      <4>2. queue[1].linked
        BY <1>2, <4>1, HeadOfQueue DEF HeadIs
      <4>3. ok
        BY <2>2, <4>2, Refusal
      <4> QED
        BY <1>2, <1>3, <1>4, <2>2, <3>4, <4>3 DEF OpenScopeReturns, Open
    <3> QED
      BY <3>3, <3>4
  <2>3. ASSUME NEW ok \in BOOLEAN, CloseScopeReturns(ok) \/ FinalCloseReturns(ok)
        PROVE  Open(s)'
    <3>1. Subject \in Scopes
      BY <2>3, Answers
    <3>2. PICK st : scopes' = [scopes EXCEPT ![Subject].status = st]
                    /\ (~ok => st = scopes[Subject].status)
      BY <2>3 DEF CloseScopeReturns, FinalCloseReturns
    <3>3. ok => Subject # s
      <4>1. /\ 1 \in DOMAIN queue /\ queue[1].kind = "scope.closed"
            /\ Subject = queue[1].subject
            /\ ok => queue[1].linked
        BY <2>3, Serving
      <4> QED
        BY <4>1, HeadIsLast, LastEvent
    <3> QED
      BY <1>2, <1>3, <1>4, <3>1, <3>2, <3>3 DEF Open
  <2>4. ASSUME NEW ok \in BOOLEAN, CancelReturns(ok)
        PROVE  Open(s)'
    <3>1. scopes' = scopes \/ scopes' = abortSubtree(Subject)
      BY <2>4 DEF CancelReturns
    <3>2. Subject \in Scopes
      BY <2>4, Answers
    <3>3. scopes'[s].status = scopes[s].status
      BY <1>3, <3>1, <3>2, AbortSubtree
    <3> QED
      BY <1>2, <3>3 DEF Open
  <2>5. CASE UNCHANGED scopes
    BY <1>2, <2>5 DEF Open
  <2> QED
    BY <1>1, <2>1, <2>2, <2>3, <2>4, <2>5, ScopesFrame
<1> QED
  BY <1>5, <1>6

\* Recovery finds the root as the log has it.
LEMMA RecoveredRoot ==
  ASSUME IInv, recover
  PROVE  Open(Root)' /\ Durable(Root)'
<1>1. Root \in Scopes /\ Root \in OpenScopes(log)
  BY TreeAssumption DEF recover
<1>2. Recorded("scope.opened", Root)
  BY <1>1, OpenIsOpened DEF Recorded
<1>3. Durable(Root)'
  BY <1>1, <1>2, RecoveredScopes
<1>4. ~Recorded("scope.closed", Root)
  <2>1. PICK i \in DOMAIN log : /\ log[i].kind \in OwingKinds /\ Standing(log, i)
                                /\ Matter(log[i]) = <<"scope", Root>>
    BY <1>1 DEF OpenScopes, StandingAt
  <2>2. log[i].kind = "scope.opened" /\ log[i].subject = Root
    BY <2>1 DEF Matter, Family, OwingKinds, ScopeKinds, OperationKinds, DisposerKinds, CancelKinds
  <2>3. i = 2
    BY <2>2 DEF IInv, LogInv
  <2>4. ASSUME NEW j \in DOMAIN log, log[j].kind = "scope.closed", log[j].subject = Root
        PROVE  FALSE
    <3>1. Matter(log[j]) = <<"scope", Root>>
      BY <2>4 DEF Matter, Family, ScopeKinds, OperationKinds, DisposerKinds, CancelKinds
    <3>2. j # 1 /\ j # 2
      BY <2>2, <2>3, <2>4 DEF IInv, LogInv
    <3>3. j \in (i + 1)..Len(log)
      BY <2>3, <3>2, LogFacts
    <3> QED
      BY <2>1, <3>1, <3>3 DEF Standing
  <2> QED
    BY <2>4 DEF Recorded
<1>5. scopes'[Root] = [Absent EXCEPT !.status = "open", !.openedEventId = log[OpeningOf(Root)].id]
  BY <1>1, <1>2, <1>4 DEF recover
<1>6. scopes'[Root].status = "open"
  BY <1>5 DEF Absent
<1> QED
  BY <1>3, <1>6 DEF Open

\* What the ledger shows open, the coordinator has open.
LEMMA ScopesStep ==
  ASSUME IInv, Next
  PROVE  ScopesInv'
<1> SUFFICES ASSUME faults' = 0, state' \notin {"DOWN", "TERMINAL"}, NEW s \in OpenScopes(log')
             PROVE  Open(s)' /\ (Durable(s)' \/ HeadIs("scope.opened", s)')
  BY DEF ScopesInv, Open, Durable, HeadIs
<1>1. CASE recover
  <2>1. s \in OpenScopes(log)
    BY <1>1, OwedNext, RecoverLinks
  <2>2. s = Root
    BY <1>1, <2>1 DEF recover
  <2> QED
    BY <1>1, <2>2, RecoveredRoot DEF Open, Durable
<1>2. CASE s \in OpenScopes(log) /\ ~recover
  BY <1>2, ScopesKept
<1>3. CASE Link /\ queue[1].kind = "scope.opened" /\ queue[1].subject = s
  <2>1. /\ 1 \in DOMAIN queue' /\ queue'[1].linked /\ queue'[1].kind = "scope.opened"
        /\ queue'[1].subject = s /\ Open(s)
    BY <1>3, LinkFacts DEF EntryType, EntryFields, Placed, AtScope
  <2>2. queue' # <<>> /\ Head(queue') = queue'[1]
    BY <2>1, FlowOfStep
  <2>3. UNCHANGED scopes
    BY <1>3 DEF Link
  <2> QED
    BY <2>1, <2>2, <2>3 DEF Open, HeadIs
<1> QED
  BY <1>1, <1>2, <1>3, OwedNext

\* A disposer that is registered or started stays so, or its settlement is queued.
LEMMA ReadyOrSettling ==
  ASSUME IInv, Next, ~Crash, NEW d \in Disposers, disposers[d].status \in {"registered", "started"}
  PROVE  \/ disposers'[d].status \in {"registered", "started"}
         \/ \E i \in DOMAIN queue' : queue'[i].kind \in DisposerKinds /\ queue'[i].subject = d
<1>1. disposers \in [Disposers -> [status : {"absent", "registered", "started", "settled",
                                             "timed_out"}, ordinal : Nat]]
  BY DEF IInv, TypeInv, TypeOK
<1>2. ASSUME NEW ok \in BOOLEAN, RegisterReturns(ok)
      PROVE  disposers'[d].status \in {"registered", "started"}
  BY <1>1, <1>2, Answers DEF RegisterReturns
<1>3. ASSUME NEW ok \in BOOLEAN, DisposerStartReturns(ok)
      PROVE  disposers'[d].status \in {"registered", "started"}
  BY <1>1, <1>3, Answers DEF DisposerStartReturns
<1>4. ASSUME NEW how \in {"completed", "failed", "timed_out"}, HandlerEnds(how)
      PROVE  \/ disposers'[d].status \in {"registered", "started"}
             \/ \E i \in DOMAIN queue' : queue'[i].kind \in DisposerKinds /\ queue'[i].subject = d
  <2>1. PICK x \in Disposers :
          /\ disposers[x].status = "started"
          /\ disposers' = [disposers EXCEPT ![x].status =
                             IF how = "timed_out" THEN "timed_out" ELSE "settled"]
          /\ Send(Entry("disposer.settled", x, how, TRUE))
    BY <1>4 DEF HandlerEnds
  <2>2. CASE x # d
    BY <1>1, <2>1, <2>2
  <2>3. CASE x = d
    <3> DEFINE e == Entry("disposer.settled", d, how, TRUE)
    <3>1. SentNow(e)
      BY <1>4, <2>1, <2>3 DEF SentNow
    <3>2. e \in EntryType /\ e.kind = "disposer.settled" /\ e.subject = d
      BY <3>1, SentType DEF Entry
    <3>3. queue' = Append(queue, e) /\ queue \in Seq(EntryType)
      BY <2>1, <2>3 DEF Send, IInv, TypeInv
    <3> HIDE DEF e
    <3>4. /\ Len(queue) \in Nat /\ DOMAIN queue' = 1..(Len(queue) + 1)
          /\ queue'[Len(queue) + 1] = e
      BY <3>2, <3>3, AppendEntry
    <3> QED
      BY <3>2, <3>4 DEF DisposerKinds
  <2> QED
    BY <2>2, <2>3
<1> QED
  BY <1>2, <1>3, <1>4, DisposersFrame

\* An entry stays on the queue until it is served.
LEMMA EntryStays ==
  ASSUME IInv, Next, ~Crash, NEW i \in DOMAIN queue, i # 1 \/ ~Served
  PROVE  \E k \in DOMAIN queue' : /\ queue'[k].kind = queue[i].kind
                                 /\ queue'[k].subject = queue[i].subject
<1>1. i \in Nat /\ i >= 1
  BY LenProperties DEF IInv, TypeInv
<1>2. CASE Link
  <2>1. i = 1 => queue'[i].kind = queue[i].kind /\ queue'[i].subject = queue[i].subject
    BY <1>2, LinkFacts DEF EntryType, EntryFields
  <2> QED
    BY <1>2, <2>1, LinkFacts
<1>3. CASE Served
  <2>1. Flow(1) /\ i > 1
    BY <1>1, <1>3, FlowOnServe
  <2> QED
    BY <2>1 DEF Flow
<1>4. CASE Flow(0)
  <2>1. i > 0 /\ i - 0 = i
    BY <1>1
  <2> QED
    BY <1>4, <2>1 DEF Flow
<1> QED
  BY <1>2, <1>3, <1>4, FlowOfStep

\* A pending disposer is not forgotten when an event about it is answered.
LEMMA PendingServed ==
  ASSUME IInv, Next, Served, faults' = 0, faults = 0, state \notin {"DOWN", "TERMINAL"},
         NEW d \in Disposers, d \in PendingDisposers(log),
         queue[1].kind \in DisposerKinds, queue[1].subject = d
  PROVE  disposers[d].status \in {"registered", "started"} \/ disposers'[d].status = "registered"
<1>1. 1 \in DOMAIN queue /\ Placed(queue[1])
  BY Servers DEF IInv, PlacedInv
<1>2. disposers \in [Disposers -> [status : {"absent", "registered", "started", "settled",
                                             "timed_out"}, ordinal : Nat]]
  BY DEF IInv, TypeInv, TypeOK
<1>3. CASE queue[1].kind = "disposer.registered"
  <2>1. PICK ok \in BOOLEAN : RegisterReturns(ok)
    BY <1>3, Servers
  <2>2. Subject = d
    BY <2>1, Serving
  <2>3. ok
    <3>1. ASSUME ok = FALSE
          PROVE  ~queue[1].linked
      BY <2>1, <3>1, Refusal
    <3>2. queue[1].linked
      BY <1>1, <1>3 DEF IInv, OwedInv
    <3> QED
      BY <3>1, <3>2
  <2> QED
    BY <1>2, <2>1, <2>2, <2>3 DEF RegisterReturns
<1>4. CASE queue[1].kind = "disposer.started"
  BY <1>1, <1>4 DEF Placed, AtDisposer
<1>5. CASE queue[1].kind = "disposer.settled"
  <2>1. PICK ok \in BOOLEAN : DisposerSettleReturns(ok)
    BY <1>5, Servers
  <2>2. CASE ok
    BY <1>1, <1>5, <2>1, <2>2, Serving, HeadIsLast, LastEvent
  <2>3. CASE ok = FALSE
    <3>1. ~Admitted(queue[1])
      BY <2>1, <2>3, Refusal
    <3>2. ~Terminated(log)
      BY <1>1, <1>5, <2>1, Awaited, NotOver
    <3>3. Discharges(log, InputOf(queue[1]))
      BY <1>5 DEF Discharges, InputOf, Matter, Family, PendingDisposers, OwingKinds, ScopeKinds,
         OperationKinds, DisposerKinds, CancelKinds
    <3> QED
      BY <1>1, <1>5, <3>1, <3>2, <3>3, DischargeAdmitted
  <2> QED
    BY <2>2, <2>3
<1> QED
  BY <1>3, <1>4, <1>5 DEF DisposerKinds

\* A matter of disposers is about a disposer.
LEMMA PendingType ==
  ASSUME IInv
  PROVE  PendingDisposers(log) \subseteq Disposers
<1>1. ASSUME NEW d \in PendingDisposers(log)
      PROVE  \E i \in DOMAIN log : log[i].kind \in DisposerKinds /\ log[i].subject = d
  BY DEF PendingDisposers, StandingAt, Matter, Family, OwingKinds, ScopeKinds, OperationKinds,
     DisposerKinds, CancelKinds
<1> QED
  BY <1>1 DEF IInv, TypeInv, Apt

\* A disposer the ledger owes is registered, started, or on the queue.
LEMMA OwedStep ==
  ASSUME IInv, Next
  PROVE  OwedInv'
<1> SUFFICES ASSUME faults' = 0, state' \notin {"DOWN", "TERMINAL"}
             PROVE  /\ \A d \in PendingDisposers(log') :
                         \/ disposers'[d].status \in {"registered", "started"}
                         \/ \E i \in DOMAIN queue' : /\ queue'[i].kind \in DisposerKinds
                                                     /\ queue'[i].subject = d
                    /\ \A i \in DOMAIN queue' :
                         queue'[i].kind = "disposer.registered" /\ ~queue'[i].linked =>
                           queue'[i].subject \notin PendingDisposers(log')
  BY DEF OwedInv
<1>1. CASE recover
  <2>1. PendingDisposers(log') = {}
    <3>1. PendingDisposers(log) = {}
      BY <1>1 DEF recover
    <3> QED
      BY <1>1, <3>1, OwedNext, RecoverLinks
  <2> QED
    BY <1>1, <2>1
<1>2. CASE ~recover
  <2>1. faults = 0 /\ state \notin {"DOWN", "TERMINAL"} /\ ~Crash
    BY <1>2, StillClean
  <2>2. /\ \A d \in PendingDisposers(log) :
             \/ disposers[d].status \in {"registered", "started"}
             \/ \E i \in DOMAIN queue : queue[i].kind \in DisposerKinds /\ queue[i].subject = d
        /\ \A i \in DOMAIN queue : queue[i].kind = "disposer.registered" /\ ~queue[i].linked =>
             queue[i].subject \notin PendingDisposers(log)
    BY <2>1 DEF IInv, OwedInv
  <2>3. ASSUME NEW d \in PendingDisposers(log')
        PROVE  \/ disposers'[d].status \in {"registered", "started"}
               \/ \E i \in DOMAIN queue' : /\ queue'[i].kind \in DisposerKinds
                                           /\ queue'[i].subject = d
    <3>1. CASE /\ Link /\ queue[1].kind \in {"disposer.registered", "disposer.started"}
               /\ queue[1].subject = d
      <4>1. \E k \in DOMAIN queue' : /\ queue'[k].kind = queue[1].kind
                                    /\ queue'[k].subject = queue[1].subject
        <5>1. 1 \in DOMAIN queue' /\ queue'[1] = [queue[1] EXCEPT !.linked = TRUE]
              /\ queue[1] \in EntryFields
          BY <3>1, LinkFacts DEF EntryType
        <5> QED
          BY <5>1 DEF EntryFields
      <4> QED
        BY <3>1, <4>1 DEF DisposerKinds
    <3>2. CASE d \in PendingDisposers(log)
      <4>1. d \in Disposers
        BY <3>2, PendingType
      <4>2. CASE disposers[d].status \in {"registered", "started"}
        BY <2>1, <4>1, <4>2, ReadyOrSettling
      <4>3. CASE disposers[d].status \notin {"registered", "started"}
        <5>1. PICK i \in DOMAIN queue : queue[i].kind \in DisposerKinds /\ queue[i].subject = d
          BY <2>2, <3>2, <4>3
        <5>2. CASE i # 1 \/ ~Served
          BY <2>1, <5>1, <5>2, EntryStays
        <5>3. CASE i = 1 /\ Served
          BY <2>1, <3>2, <4>1, <4>3, <5>1, <5>3, PendingServed
        <5> QED
          BY <5>2, <5>3
      <4> QED
        BY <4>2, <4>3
    <3> QED
      BY <3>1, <3>2, OwedNext
  <2>4. ASSUME NEW i \in DOMAIN queue', queue'[i].kind = "disposer.registered", ~queue'[i].linked,
               queue'[i].subject \in PendingDisposers(log')
        PROVE  FALSE
    <3>1. CASE \E j \in DOMAIN queue : Stays(i, j)
      <4>1. PICK j \in DOMAIN queue : Stays(i, j)
        BY <3>1
      <4>2. /\ queue[j].kind = "disposer.registered" /\ ~queue[j].linked
            /\ queue[j].subject = queue'[i].subject /\ ~(Link /\ j = 1)
        BY <2>4, <4>1 DEF Stays
      <4>3. queue[j].subject \notin PendingDisposers(log)
        BY <2>2, <4>2
      <4>4. /\ Link /\ queue[1].kind \in {"disposer.registered", "disposer.started"}
            /\ queue[1].subject = queue[j].subject
        BY <2>4, <4>2, <4>3, OwedNext
      <4>5. 1 \in DOMAIN queue /\ j # 1 /\ Placed(queue[1]) /\ Placed(queue[j])
        BY <4>2, <4>4, LinkFacts DEF IInv, PlacedInv
      <4>6. ~Clash(queue[1], queue[j])
        BY <4>5 DEF IInv, DistinctInv
      <4> QED
        BY <4>2, <4>4, <4>5, <4>6 DEF Placed, AtDisposer, Clash
    <3>2. CASE ~Link /\ Joins(queue'[i])
      <4>1. PICK d \in Disposers : /\ queue'[i].subject = d /\ registerDisposerNow
                                   /\ disposers[d].status = "absent"
        BY <2>4, <3>2 DEF Joins
      <4>2. d \in PendingDisposers(log)
        BY <2>4, <3>2, <4>1, OwedNext
      <4>3. PICK j \in DOMAIN queue : queue[j].kind \in DisposerKinds /\ queue[j].subject = d
        BY <2>2, <4>1, <4>2
      <4>4. queue[j].kind # "disposer.registered"
        BY <4>1 DEF registerDisposerNow
      <4>5. Placed(queue[j])
        BY DEF IInv, PlacedInv
      <4> QED
        BY <4>1, <4>3, <4>4, <4>5 DEF Placed, AtDisposer, DisposerKinds
    <3> QED
      BY <3>1, <3>2, Origin
  <2> QED
    BY <2>3, <2>4
<1> QED
  BY <1>1, <1>2

\* An operation whose start the ledger has just confirmed has its scope, which
\* was open when the start became durable.
LEMMA StartedInScope ==
  ASSUME IInv, faults = 0, state \notin {"DOWN", "TERMINAL"}, StartsInOpenScopes,
         1 \in DOMAIN queue, queue[1].linked, queue[1].kind = "operation.started",
         NEW o \in Operations, queue[1].subject = o
  PROVE  Open(ScopeOf[o]) /\ Durable(ScopeOf[o])
<1>1. log[Len(log)].kind = "operation.started" /\ log[Len(log)].subject = o
  BY HeadIsLast
<1>2. Len(log) \in DOMAIN log
  BY LogFacts
<1>3. ScopeOf[o] \in OpenScopes(SubSeq(log, 1, Len(log) - 1))
  BY <1>1, <1>2 DEF StartsInOpenScopes
<1>4. ScopeOf[o] \in OpenScopes(log)
  BY <1>1, <1>3, LastEvent
<1>5. /\ Open(ScopeOf[o])
      /\ Durable(ScopeOf[o]) \/ HeadIs("scope.opened", ScopeOf[o])
  BY <1>4 DEF IInv, ScopesInv
<1>6. ~HeadIs("scope.opened", ScopeOf[o])
  BY HeadOfQueue DEF HeadIs
<1> QED
  BY <1>5, <1>6

\* What finalization has given up on, it does not take up again.
LEMMA FencedStays ==
  ASSUME IInv, Next, ~Crash
  PROVE  fenced \subseteq fenced'
BY FencedFrame DEF FenceOperations

\* An operation the ledger owes is settled, or was given up on, before the
\* coordinator lets go of it.
LEMMA ActiveKept ==
  ASSUME IInv, Next, ~Crash, ~recover, faults = 0, faults' = 0, state \notin {"DOWN", "TERMINAL"},
         StartsInOpenScopes, NEW o \in Operations, o \in ActiveOperations(log), o \in Active
  PROVE  operations'[o] \notin {"idle", "done"} \/ o \in fenced'
<1>1. /\ operations \in [Operations -> {"idle", "starting", "running", "settling",
                                        "recording_failure", "done"}]
      /\ operations[o] \notin {"idle", "done"}
  BY DEF IInv, TypeInv, TypeOK, Active
<1>2. ASSUME NEW x \in Operations, runOperation(x)
      PROVE  operations'[o] \notin {"idle", "done"}
  BY <1>1, <1>2 DEF runOperation
<1>3. ASSUME NEW x \in Operations, HandlerReturns(x) \/ HandlerThrows(x)
      PROVE  operations'[o] \notin {"idle", "done"} \/ o \in fenced'
  <2>1. CASE x # o \/ MaySettle(x)
    BY <1>1, <1>3, <2>1 DEF HandlerReturns, HandlerThrows
  <2>2. CASE x = o /\ ~MaySettle(o)
    <3>1. operations[o] = "running"
      BY <1>3, <2>2 DEF HandlerReturns, HandlerThrows
    <3>2. Durable(ScopeOf[o])
      BY <3>1 DEF IInv, WorkInv
    <3>3. Present(ScopeOf[o])
      BY <3>2, TreeAssumption DEF IInv, ScopeInv
    <3> QED
      BY <2>2, <3>3, FencedStays DEF MaySettle
  <2> QED
    BY <2>1, <2>2
<1>4. ASSUME NEW ok \in BOOLEAN, StartReturns(ok)
      PROVE  operations'[o] \notin {"idle", "done"}
  <2>1. /\ 1 \in DOMAIN queue /\ Subject = queue[1].subject
        /\ queue[1].kind = "operation.started" /\ Subject \in Operations
    BY <1>4, Serving, Answers
  <2>2. CASE Subject # o
    BY <1>1, <1>4, <2>1, <2>2 DEF StartReturns
  <2>3. CASE Subject = o
    <3>1. Recorded("operation.started", o)
      BY ActiveIsStarted DEF Recorded
    <3>2. queue[1].linked
      BY <2>1, <2>3, <3>1 DEF IInv, PlacedInv, Placed, AtOperation
    <3>3. ok
      BY <1>4, <3>2, Refusal
    <3>4. Present(ScopeOf[o])
      BY <2>1, <2>3, <3>2, StartedInScope DEF Present, Open
    <3> QED
      BY <1>1, <1>4, <2>3, <3>3, <3>4 DEF StartReturns
  <2> QED
    BY <2>2, <2>3
<1>5. ASSUME NEW ok \in BOOLEAN, SettleReturns(ok)
      PROVE  operations'[o] \notin {"idle", "done"} \/ o \in fenced'
  <2>1. /\ 1 \in DOMAIN queue /\ Subject = queue[1].subject
        /\ queue[1].kind = "operation.settled" /\ Subject \in Operations
    BY <1>5, Serving, Answers
  <2>2. CASE Subject # o
    BY <1>1, <1>5, <2>1, <2>2 DEF SettleReturns
  <2>3. CASE Subject = o /\ ok
    BY <1>5, <2>1, <2>3, Serving, HeadIsLast, LastEvent
  <2>4. CASE Subject = o /\ ok = FALSE
    <3>1. ~Admitted(queue[1])
      BY <1>5, <2>4, Refusal
    <3>2. Discharges(log, InputOf(queue[1]))
      BY <2>1, <2>4 DEF Discharges, InputOf, Matter, Family, ActiveOperations, OwingKinds,
         ScopeKinds, OperationKinds, DisposerKinds, CancelKinds
    <3>3. Terminated(log)
      BY <2>1, <3>1, <3>2, DischargeAdmitted
    <3>4. fin.pc = "last_flush"
      BY <2>1, <3>3, NotOver
    <3>5. Active \subseteq fenced
      BY <3>4 DEF IInv, PhaseInv, PastOperations, PastDisposal
    <3> QED
      BY <3>5, FencedStays
  <2> QED
    BY <2>2, <2>3, <2>4
<1> QED
  BY <1>1, <1>2, <1>3, <1>4, <1>5, OperationsFrame

\* An operation the ledger owes is active or was given up on.
LEMMA WorkStep ==
  ASSUME IInv, Next
  PROVE  WorkInv'
<1> SUFFICES ASSUME faults' = 0, state' \notin {"DOWN", "TERMINAL"}, StartsInOpenScopes'
             PROVE  /\ \A o \in Operations :
                         operations'[o] \in {"running", "settling", "recording_failure"} =>
                           Durable(ScopeOf[o])'
                    /\ ActiveOperations(log') \subseteq Active' \cup fenced'
  BY DEF WorkInv, Durable
<1>1. CASE recover
  <2>1. \A o \in Operations : operations'[o] \in {"idle", "done"}
    BY <1>1 DEF recover
  <2>2. ActiveOperations(log) = {}
    BY <1>1 DEF recover
  <2>3. ActiveOperations(log') = {}
    BY <1>1, <2>2, OwedNext, RecoverLinks
  <2> QED
    BY <2>1, <2>3
<1>2. CASE ~recover
  <2>1. faults = 0 /\ state \notin {"DOWN", "TERMINAL"} /\ ~Crash
    BY <1>2, StillClean
  <2>2. StartsInOpenScopes
    BY StartsStep
  <2>3. /\ \A o \in Operations : operations[o] \in {"running", "settling", "recording_failure"} =>
             Durable(ScopeOf[o])
        /\ ActiveOperations(log) \subseteq Active \cup fenced
    BY <2>1, <2>2 DEF IInv, WorkInv
  <2>4. ASSUME NEW o \in Operations,
               operations'[o] \in {"running", "settling", "recording_failure"}
        PROVE  Durable(ScopeOf[o])'
    <3>1. ScopeOf[o] \in Scopes
      BY TreeAssumption
    <3>2. Durable(ScopeOf[o])
      <4>1. CASE operations[o] \in {"running", "settling", "recording_failure"}
        BY <2>3, <4>1
      <4>2. CASE \E ok \in BOOLEAN : StartReturns(ok) /\ ok /\ o = Subject
        BY <2>1, <2>2, <4>2, Serving, StartedInScope
      <4> QED
        BY <1>2, <2>1, <2>4, <4>1, <4>2, OperationMoves
    <3> QED
      BY <1>2, <2>1, <3>1, <3>2, DurableStays DEF Durable
  <2>5. ASSUME NEW o \in ActiveOperations(log')
        PROVE  o \in Active' \cup fenced'
    <3>1. CASE Link /\ queue[1].kind = "operation.started" /\ queue[1].subject = o
      <4>1. operations[o] = "starting" /\ o \in Operations
        BY <3>1, LinkFacts DEF Placed, AtOperation, EntryType, Apt, OperationKinds
      <4>2. UNCHANGED operations
        BY <3>1 DEF Link, workVars
      <4> QED
        BY <4>1, <4>2 DEF Active
    <3>2. CASE o \in ActiveOperations(log)
      <4>1. o \in Active \cup fenced /\ o \in Operations
        BY <2>3, <3>2 DEF Active, IInv, TypeInv, TypeOK
      <4>2. CASE o \in fenced
        BY <2>1, <4>2, FencedStays
      <4>3. CASE o \in Active
        BY <1>2, <2>1, <2>2, <3>2, <4>1, <4>3, ActiveKept DEF Active
      <4> QED
        BY <4>1, <4>2, <4>3
    <3> QED
      BY <3>1, <3>2, OwedNext
  <2> QED
    BY <2>4, <2>5
<1> QED
  BY <1>1, <1>2

\* Without registrations in flight, the order of the disposers does not change,
\* and no disposer becomes ready.
LEMMA OrderStays ==
  ASSUME IInv, Next, ~Crash, registrationTail = <<>>
  PROVE  /\ \A d, x \in Disposers : Before(d, x)' <=> Before(d, x)
         /\ Ready' \subseteq Ready
<1>1. disposers \in [Disposers -> [status : {"absent", "registered", "started", "settled",
                                             "timed_out"}, ordinal : Nat]]
  BY DEF IInv, TypeInv, TypeOK
<1>2. ASSUME NEW ok \in BOOLEAN, RegisterReturns(ok)
      PROVE  FALSE
  <2>1. 1 \in DOMAIN queue /\ queue[1].kind = "disposer.registered"
    BY <1>2, Serving
  <2> QED
    BY <2>1 DEF IInv, PlacedInv, Placed, AtDisposer
<1>3. ASSUME NEW d \in Disposers
      PROVE  /\ disposers'[d].ordinal = disposers[d].ordinal
             /\ disposers'[d].status = "registered" => disposers[d].status = "registered"
  <2>1. ASSUME NEW ok \in BOOLEAN, DisposerStartReturns(ok)
        PROVE  /\ disposers'[d].ordinal = disposers[d].ordinal
               /\ disposers'[d].status = "registered" => disposers[d].status = "registered"
    BY <1>1, <2>1, Answers DEF DisposerStartReturns
  <2>2. ASSUME NEW how \in {"completed", "failed", "timed_out"}, HandlerEnds(how)
        PROVE  /\ disposers'[d].ordinal = disposers[d].ordinal
               /\ disposers'[d].status = "registered" => disposers[d].status = "registered"
    BY <1>1, <2>2 DEF HandlerEnds
  <2> QED
    BY <1>2, <2>1, <2>2, DisposersFrame
<1>4. ASSUME NEW d \in Disposers, NEW x \in Disposers
      PROVE  Before(d, x)' <=> Before(d, x)
  BY <1>3 DEF Before
<1> QED
  BY <1>3, <1>4 DEF Ready

\* A start on the queue finds the finalizer waiting, with every registration in.
LEMMA StartWaits ==
  ASSUME IInv, NEW i \in DOMAIN queue, queue[i].kind = "disposer.started"
  PROVE  /\ fin.pc = "starting_disposer" /\ registrationTail = <<>>
         /\ queue[i].subject \in Disposers /\ queue[i].subject \in Ready
<1>1. Placed(queue[i])
  BY DEF IInv, PlacedInv
<1>2. fin.pc = "starting_disposer"
  BY <1>1 DEF Placed, AtFinalizer, FinalPc
<1>3. registrationTail = <<>>
  BY <1>2 DEF IInv, PhaseInv, PastRegistrations, PastOperations
<1>4. queue[i] \in EntryType
  BY ElementOfSeq DEF IInv, TypeInv
<1>5. queue[i].subject \in Disposers
  BY <1>4 DEF EntryType, Apt, DisposerKinds
<1> QED
  BY <1>1, <1>2, <1>3, <1>5 DEF Placed, AtDisposer, Ready

\* The starts on the log of a live process are of disposers, and every
\* registration is in.
LEMMA StartedOnLog ==
  ASSUME IInv, state # "DOWN", NEW i \in DOMAIN log, log[i].kind = "disposer.started"
  PROVE  log[i].subject \in Disposers /\ registrationTail = <<>>
<1>1. log[i].subject \in Disposers
  BY DEF IInv, TypeInv, Apt, DisposerKinds
<1>2. Has(log, "disposer.started")
  BY DEF Has
<1> QED
  BY <1>1, <1>2 DEF IInv, PhaseInv

\* A disposer that starts stands behind every disposer that was started.
LEMMA DisposalOrderStep ==
  ASSUME IInv, Next
  PROVE  DisposalOrder'
<1> SUFFICES ASSUME state' # "DOWN",
                    NEW i \in DOMAIN log', NEW j \in DOMAIN log', i < j,
                    log'[i].kind = "disposer.started", log'[j].kind = "disposer.started"
             PROVE  \E d, x \in Disposers :
                      /\ log'[i].subject = d /\ log'[j].subject = x
                      /\ d # x /\ Before(d, x)'
  BY DEF DisposalOrder, Before
<1>1. /\ DOMAIN log = 1..Len(log) /\ Len(log) \in Nat
      /\ DOMAIN log' = 1..Len(log')
      /\ \A k \in DOMAIN log : k \in DOMAIN log' /\ log'[k] = log[k]
  BY LogFacts, LogGrows
<1>2. i \in DOMAIN log /\ log'[i] = log[i]
  <2>1. j \in DOMAIN log \/ j = Len(log) + 1
    BY PrefixNext
  <2>2. i \in DOMAIN log
    BY <1>1, <2>1
  <2> QED
    BY <1>1, <2>2
<1>3. ~recover
  <2>1. Has(log, "finalization.started")
    BY <1>2 DEF IInv, LogInv, Has
  <2> QED
    BY <2>1 DEF recover
<1>4. state # "DOWN" /\ ~Crash
  BY <1>3, WasUp
<1>5. log[i].subject \in Disposers /\ registrationTail = <<>>
  BY <1>2, <1>4, StartedOnLog
<1>6. CASE j \in DOMAIN log
  <2>1. log'[j] = log[j] /\ log[j].subject \in Disposers
    BY <1>1, <1>4, <1>6, StartedOnLog
  <2>2. log[i].subject # log[j].subject /\ Before(log[i].subject, log[j].subject)
    BY <1>2, <1>4, <1>6, <2>1 DEF IInv, DisposalInv, DisposalOrder
  <2>3. PICK d \in Disposers, x \in Disposers : d = log[i].subject /\ x = log[j].subject
    BY <1>5, <2>1
  <2>4. Before(d, x)'
    BY <1>4, <1>5, <2>2, <2>3, OrderStays
  <2> QED
    BY <1>2, <2>1, <2>2, <2>3, <2>4
<1>7. CASE Link /\ log'[j] = Linking
  <2>1. 1 \in DOMAIN queue /\ queue[1].kind = "disposer.started" /\ ~queue[1].linked
        /\ queue[1].subject = log'[j].subject
    BY <1>7, LinkFacts
  <2>2. fin.pc # "rejected" /\ queue[1].subject \in Disposers /\ queue[1].subject \in Ready
    BY <2>1, StartWaits
  <2>3. ~HeadIs("disposer.started", queue[1].subject)
    BY <2>1, HeadOfQueue DEF HeadIs
  <2>4. queue[1].subject # log[i].subject /\ Before(log[i].subject, queue[1].subject)
    BY <1>2, <1>4, <2>2, <2>3 DEF IInv, DisposalInv
  <2>5. PICK d \in Disposers, x \in Disposers : d = log[i].subject /\ x = queue[1].subject
    BY <1>5, <2>2
  <2>6. Before(d, x)'
    BY <1>4, <1>5, <2>4, <2>5, OrderStays
  <2> QED
    BY <1>2, <2>1, <2>4, <2>5, <2>6
<1> QED
  BY <1>3, <1>6, <1>7, PrefixNext

\* And before every disposer that is still ready.
LEMMA ReadyStep ==
  ASSUME IInv, Next, state' # "DOWN", fin'.pc # "rejected",
         NEW i \in DOMAIN log', log'[i].kind = "disposer.started", NEW x \in Ready'
  PROVE  \E d \in Disposers : /\ log'[i].subject = d
                             /\ \/ x = d /\ HeadIs("disposer.started", x)'
                                \/ x # d /\ Before(d, x)'
<1>1. ~recover
  <2>1. ASSUME recover
        PROVE  FALSE
    <3>1. i \in DOMAIN log /\ log[i].kind = "disposer.started"
      BY <2>1, PrefixNext, RecoverLinks, RecoverFacts, LogGrows
    <3>2. Has(log, "finalization.started")
      BY <3>1 DEF IInv, LogInv, Has
    <3> QED
      BY <2>1, <3>2 DEF recover
  <2> QED
    BY <2>1
<1>2. state # "DOWN" /\ ~Crash
  BY <1>1, WasUp
<1>3. fin.pc # "rejected"
  BY <1>2, FinSteps DEF FinMoves
<1>4. CASE i \in DOMAIN log
  <2>1. log'[i] = log[i]
    BY <1>4, LogGrows
  <2>2. log[i].subject \in Disposers /\ registrationTail = <<>>
    BY <1>2, <1>4, <2>1, StartedOnLog
  <2>3. x \in Ready /\ x \in Disposers
    BY <1>2, <2>2, OrderStays DEF Ready
  <2>4. \/ x = log[i].subject /\ HeadIs("disposer.started", x)
        \/ x # log[i].subject /\ Before(log[i].subject, x)
    BY <1>2, <1>3, <1>4, <2>1, <2>3 DEF IInv, DisposalInv
  <2>5. CASE x # log[i].subject /\ Before(log[i].subject, x)
    <3>1. PICK d \in Disposers : d = log[i].subject
      BY <2>2
    <3>2. Before(d, x)'
      BY <1>2, <2>2, <2>3, <2>5, <3>1, OrderStays
    <3> QED
      BY <2>1, <2>5, <3>1, <3>2
  <2>6. CASE x = log[i].subject /\ HeadIs("disposer.started", x)
    <3>1. CASE ~Served
      BY <1>2, <2>1, <2>3, <2>6, <3>1, HeadStays
    <3>2. CASE Served
      <4>1. queue[1].kind = "disposer.started" /\ queue[1].subject = x
        BY <2>6, HeadOfQueue DEF HeadIs
      <4>2. PICK ok \in BOOLEAN : DisposerStartReturns(ok)
        BY <3>2, <4>1, Servers
      <4>3. ok
        <5>1. fin \in FinType
          BY DEF IInv, TypeInv
        <5> QED
          BY <4>2, <5>1 DEF DisposerStartReturns, AdvanceIf, Advance, FinType
      <4>4. Subject = x
        BY <4>1, <4>2, Serving
      <4>5. disposers'[x].status = "started"
        <5>1. disposers \in [Disposers -> [status : {"absent", "registered", "started", "settled",
                                                     "timed_out"}, ordinal : Nat]]
          BY DEF IInv, TypeInv, TypeOK
        <5> QED
          BY <2>3, <4>2, <4>3, <4>4, <5>1 DEF DisposerStartReturns
      <4> QED
        BY <4>5 DEF Ready
    <3> QED
      BY <3>1, <3>2
  <2> QED
    BY <2>4, <2>5, <2>6
<1>5. CASE Link /\ log'[i] = Linking
  <2>1. /\ 1 \in DOMAIN queue /\ queue[1].kind = "disposer.started"
        /\ queue[1].subject = log'[i].subject
        /\ 1 \in DOMAIN queue' /\ queue'[1] = [queue[1] EXCEPT !.linked = TRUE]
        /\ queue[1] \in EntryFields
    BY <1>5, LinkFacts DEF EntryType
  <2>2. registrationTail = <<>> /\ queue[1].subject \in Disposers
    BY <2>1, StartWaits
  <2>3. x \in Ready /\ x \in Disposers
    BY <1>2, <2>2, OrderStays DEF Ready
  <2>4. CASE x = log'[i].subject
    <3>1. queue'[1].linked /\ queue'[1].kind = "disposer.started" /\ queue'[1].subject = x
      BY <2>1, <2>4 DEF EntryFields
    <3>2. queue' # <<>> /\ Head(queue') = queue'[1]
      BY <2>1, FlowOfStep
    <3> QED
      BY <2>1, <2>2, <2>4, <3>1, <3>2 DEF HeadIs
  <2>5. CASE x # log'[i].subject
    <3>1. Before(queue[1].subject, x)
      BY <1>2, <2>1, <2>3, <2>5 DEF IInv, DisposalInv
    <3>2. PICK d \in Disposers : d = queue[1].subject
      BY <2>2
    <3>3. Before(d, x)'
      BY <1>2, <2>2, <2>3, <3>1, <3>2, OrderStays
    <3> QED
      BY <2>1, <2>5, <3>2, <3>3
  <2> QED
    BY <2>4, <2>5
<1> QED
  BY <1>1, <1>4, <1>5, PrefixNext

\* So the disposers start in order, each once.
LEMMA DisposalStep ==
  ASSUME IInv, Next
  PROVE  DisposalInv'
<1> SUFFICES ASSUME state' # "DOWN"
             PROVE  DisposalInv'
  BY DEF DisposalInv
<1>1. ASSUME NEW i \in DOMAIN queue', queue'[i].kind = "disposer.started",
             NEW x \in Ready' \ {queue'[i].subject}
      PROVE  \E d \in Disposers : queue'[i].subject = d /\ Before(d, x)'
  <2>1. ~recover /\ ~Crash
    BY <1>1, Origin
  <2>2. state # "DOWN"
    BY <2>1, WasUp
  <2>3. CASE \E j \in DOMAIN queue : Stays(i, j)
    <3>1. PICK j \in DOMAIN queue : Stays(i, j)
      BY <2>3
    <3>2. queue[j].kind = "disposer.started" /\ queue[j].subject = queue'[i].subject
      BY <1>1, <3>1 DEF Stays
    <3>3. registrationTail = <<>> /\ queue[j].subject \in Disposers
      BY <3>2, StartWaits
    <3>4. x \in Ready /\ x \in Disposers
      BY <1>1, <2>1, <3>3, OrderStays DEF Ready
    <3>5. Before(queue[j].subject, x)
      BY <1>1, <2>2, <3>2, <3>4 DEF IInv, DisposalInv
    <3>6. PICK d \in Disposers : d = queue[j].subject
      BY <3>3
    <3>7. Before(d, x)'
      BY <2>1, <3>3, <3>4, <3>5, <3>6, OrderStays
    <3> QED
      BY <3>2, <3>6, <3>7
  <2>4. CASE Joins(queue'[i])
    <3>1. PICK d \in Disposers : /\ queue'[i].subject = d /\ DisposeNext
                                 /\ \A y \in Ready \ {d} : Before(d, y)
      BY <1>1, <2>4 DEF Joins
    <3>2. UNCHANGED disposers
      BY <3>1 DEF DisposeNext, OnlyFinalizer
    <3>3. x \in Ready \ {d}
      BY <1>1, <3>1, <3>2 DEF Ready
    <3> QED
      BY <3>1, <3>2, <3>3 DEF Before
  <2> QED
    BY <1>1, <2>3, <2>4, Origin
<1>2. (\A i \in DOMAIN queue : queue[i].kind = "disposer.started" =>
         \A x \in Ready \ {queue[i].subject} : Before(queue[i].subject, x))'
  BY <1>1 DEF Before
<1>3. (fin.pc # "rejected" => \A i \in DOMAIN log : log[i].kind = "disposer.started" =>
         \A x \in Ready :
           \/ x = log[i].subject /\ HeadIs("disposer.started", x)
           \/ x # log[i].subject /\ Before(log[i].subject, x))'
  BY ReadyStep DEF Before, HeadIs
<1>4. DisposalOrder'
  BY DisposalOrderStep
<1> QED
  BY <1>2, <1>3, <1>4 DEF DisposalInv

\* Past the operations, what the ledger owes of them was given up on.
LEMMA OnlyFenced ==
  ASSUME IInv, faults = 0, StartsInOpenScopes, fin.pc \in PastOperations \ {"done"}
  PROVE  ActiveOperations(log) \subseteq fenced /\ state \notin {"DOWN", "TERMINAL"}
<1>1. state \notin {"DOWN", "TERMINAL"}
  BY DEF IInv, PhaseInv, PastOperations, PastDisposal
<1>2. Active \subseteq fenced
  BY DEF IInv, PhaseInv
<1>3. ActiveOperations(log) \subseteq Active \cup fenced
  BY <1>1 DEF IInv, WorkInv
<1> QED
  BY <1>1, <1>2, <1>3

\* No disposer starts while the ledger owes an operation, unless the root was cancelled.
LEMMA RunLastStep ==
  ASSUME IInv, Next
  PROVE  DisposersRunLast'
<1> SUFFICES ASSUME StartsInOpenScopes', faults' = 0,
                    NEW j \in DOMAIN log', log'[j].kind = "disposer.started"
             PROVE  LET before == SubSeq(log', 1, j - 1)
                    IN  \/ ActiveOperations(before) = {}
                        \/ \E i \in DOMAIN before : /\ before[i].kind = "cancellation.requested"
                                                    /\ before[i].subject = Root
  BY DEF DisposersRunLast
<1>1. StartsInOpenScopes /\ faults = 0
  BY StartsStep, FaultsGrow
<1>2. CASE j \in DOMAIN log
  <2>1. log'[j] = log[j] /\ SubSeq(log', 1, j - 1) = SubSeq(log, 1, j - 1)
    BY <1>2, LogGrows, PrefixNext
  <2> QED
    BY <1>1, <1>2, <2>1 DEF IInv, DisposersRunLast
<1>3. CASE j = Len(log) + 1 /\ Link /\ log'[j] = Linking
  <2>1. SubSeq(log', 1, j - 1) = log
    BY <1>3, PrefixNext
  <2>2. 1 \in DOMAIN queue /\ queue[1].kind = "disposer.started"
    BY <1>3, LinkFacts
  <2>3. fin.pc \in PastOperations \ {"done"}
    BY <2>2, StartWaits DEF PastOperations
  <2>4. ActiveOperations(log) \subseteq fenced
    BY <1>1, <2>3, OnlyFenced
  <2>5. fenced # {} => Recorded("cancellation.requested", Root)
    BY DEF IInv, PhaseInv
  <2> QED
    BY <2>1, <2>4, <2>5 DEF Recorded
<1>4. ~(recover /\ log'[j] = Recovery)
  BY RecoverFacts
<1> QED
  BY <1>2, <1>3, <1>4, PrefixNext

\* While a confirmed receipt is on its way, nothing is owed but what ends the
\* trajectory.
LEMMA NothingOwed ==
  ASSUME IInv, faults = 0, StartsInOpenScopes, fin.pc = "sealing", fin.quiescence = "confirmed"
  PROVE  OpenScopes(log) = {} /\ ActiveOperations(log) = {} /\ PendingDisposers(log) = {}
<1>1. ~TimedOut /\ \A s \in Scopes : ~Open(s)
  BY DEF IInv, PhaseInv
<1>2. /\ fin.pc \in PastOperations \ {"done"} /\ fin.pc \in PastDisposal
      /\ fin.pc \in PastRegistrations
  BY DEF PastRegistrations, PastOperations, PastDisposal
<1>3. ActiveOperations(log) \subseteq fenced /\ state \notin {"DOWN", "TERMINAL"}
  BY <1>2, OnlyFenced
<1>4. OpenScopes(log) = {}
  <2>1. ASSUME NEW s \in OpenScopes(log)
        PROVE  FALSE
    <3>1. s \in Scopes
      BY OpenIsOpened DEF IInv, TypeInv, Apt, ScopeKinds
    <3>2. Open(s)
      BY <1>3 DEF IInv, ScopesInv
    <3> QED
      BY <1>1, <3>1, <3>2
  <2> QED
    BY <2>1
<1>5. fenced = {}
  BY <1>1 DEF IInv, PhaseInv, TimedOut
<1>6. PendingDisposers(log) = {}
  <2>1. ASSUME NEW d \in PendingDisposers(log)
        PROVE  FALSE
    <3>1. d \in Disposers
      BY PendingType
    <3>2. disposers[d].status # "registered"
      BY <1>2, <3>1 DEF IInv, PhaseInv, Ready
    <3>3. disposers[d].status # "started"
      BY <3>1 DEF IInv, PhaseInv
    <3>4. PICK i \in DOMAIN queue : queue[i].kind \in DisposerKinds
      BY <1>3, <3>2, <3>3 DEF IInv, OwedInv
    <3>5. Placed(queue[i])
      BY DEF IInv, PlacedInv
    <3>6. queue[i].kind # "disposer.registered"
      BY <1>2, <3>5 DEF Placed, AtDisposer, IInv, PhaseInv
    <3> QED
      BY <3>4, <3>5, <3>6 DEF Placed, AtFinalizer, FinalPc, DisposerKinds
  <2> QED
    BY <2>1
<1> QED
  BY <1>3, <1>4, <1>5, <1>6

\* A confirmed receipt ends a ledger that owes nothing else.
LEMMA EarnedStep ==
  ASSUME IInv, Next
  PROVE  ConfirmedIsEarned'
<1> SUFFICES ASSUME StartsInOpenScopes', faults' = 0, NEW j \in DOMAIN log',
                    log'[j].kind = "finalization.receipt", log'[j].claim = "confirmed"
             PROVE  LET before == SubSeq(log', 1, j - 1)
                    IN  /\ OpenScopes(before) = {} /\ ActiveOperations(before) = {}
                        /\ PendingDisposers(before) = {}
  BY DEF ConfirmedIsEarned, ConfirmedMeansQuiescent
<1>1. StartsInOpenScopes /\ faults = 0
  BY StartsStep, FaultsGrow
<1>2. CASE j \in DOMAIN log
  <2>1. log'[j] = log[j] /\ SubSeq(log', 1, j - 1) = SubSeq(log, 1, j - 1)
    BY <1>2, LogGrows, PrefixNext
  <2> QED
    BY <1>1, <1>2, <2>1 DEF IInv, ConfirmedIsEarned, ConfirmedMeansQuiescent
<1>3. CASE j = Len(log) + 1 /\ Link /\ log'[j] = Linking
  <2>1. SubSeq(log', 1, j - 1) = log
    BY <1>3, PrefixNext
  <2>2. /\ queue[1].kind = "finalization.receipt" /\ queue[1].claim = "confirmed"
        /\ Placed(queue[1])
    BY <1>3, LinkFacts
  <2>3. fin.pc = "sealing" /\ fin.quiescence = "confirmed"
    BY <2>2 DEF Placed, AtFinalizer, FinalPc, RunKinds
  <2> QED
    BY <1>1, <2>1, <2>3, NothingOwed
<1>4. ~(recover /\ log'[j] = Recovery)
  BY RecoverFacts
<1> QED
  BY <1>2, <1>3, <1>4, PrefixNext

\* What the ledger owes is in the coordinator's hands.
LEMMA InvAccountedFor == IInv => AccountedFor
<1> SUFFICES ASSUME IInv, StartsInOpenScopes, faults = 0, state \notin {"DOWN", "TERMINAL"}
             PROVE  /\ \A s \in OpenScopes(log) : Open(s)
                    /\ ActiveOperations(log) \subseteq Active \cup fenced
                    /\ \A d \in PendingDisposers(log) :
                         \/ disposers[d].status \in {"registered", "started"}
                         \/ \E i \in DOMAIN queue : queue[i].subject = d
  BY DEF AccountedFor
<1>1. \A s \in OpenScopes(log) : Open(s)
  BY DEF IInv, ScopesInv
<1>2. ActiveOperations(log) \subseteq Active \cup fenced
  BY DEF IInv, WorkInv
<1>3. \A d \in PendingDisposers(log) :
        \/ disposers[d].status \in {"registered", "started"}
        \/ \E i \in DOMAIN queue : queue[i].subject = d
  BY DEF IInv, OwedInv
<1> QED
  BY <1>1, <1>2, <1>3

-----------------------------------------------------------------------------
(* The invariant is inductive.                                             *)

\* Every step keeps the invariant.
LEMMA InvStep ==
  ASSUME IInv, [Next]_vars
  PROVE  IInv'
<1>1. CASE Next
  BY <1>1, TypeStep, LogStep, PhaseStep, DownStep, LinkedStep, PlacedStep, DistinctStep,
     ScopeStep, OperationStep, CancelStep, AbortStep, CompletionStep, DisposalStep, ScopesStep,
     OwedStep, WorkStep, RunLastStep, EarnedStep DEF IInv
<1>2. CASE UNCHANGED vars
  <2> USE <1>2 DEF vars, ledgerVars, workVars
  <2>1. TypeInv'
    BY DEF IInv, TypeInv, TypeOK, Registered
  <2>2. LogInv'
    BY DEF IInv, LogInv, Recorded
  <2>3. PhaseInv'
    BY DEF IInv, PhaseInv, Active, Recorded, Ready, TimedOut, Open
  <2>4. DownInv' /\ LinkedInv' /\ DistinctInv'
    BY DEF IInv, DownInv, LinkedInv, DistinctInv
  <2>5. PlacedInv'
    BY DEF IInv, PlacedInv, Placed, AtFinalizer, AtScope, AtOperation, AtDisposer, AtCancellation,
       Open, Durable, Recorded
  <2>6. ScopeInv' /\ OperationInv' /\ CancelInv' /\ AbortIsDurable'
    BY DEF IInv, ScopeInv, OperationInv, CancelInv, AbortIsDurable, Durable, Present, Recorded
  <2>7. StartsInOpenScopes' <=> StartsInOpenScopes
    BY DEF StartsInOpenScopes
  <2>8. CompletionInv'
    BY <2>7 DEF IInv, CompletionInv, NoCompletionAfterCancel, Recorded
  <2>9. DisposalInv'
    BY DEF IInv, DisposalInv, DisposalOrder, Ready, Before, HeadIs
  <2>10. ScopesInv' /\ OwedInv' /\ WorkInv'
    BY <2>7 DEF IInv, ScopesInv, OwedInv, WorkInv, Open, Durable, HeadIs, Active
  <2>11. DisposersRunLast' /\ ConfirmedIsEarned'
    BY <2>7 DEF IInv, DisposersRunLast, ConfirmedIsEarned, ConfirmedMeansQuiescent
  <2> QED
    BY <2>1, <2>2, <2>3, <2>4, <2>5, <2>6, <2>8, <2>9, <2>10, <2>11 DEF IInv
<1> QED
  BY <1>1, <1>2

\* The two events open() has appended.
Opening == Stamp(<<>>, [Opened("trajectory.opened", Run, 1) EXCEPT !.id = 1])
RootOpening ==
  Stamp(<<Opening>>, [Opened("scope.opened", Root, 0) EXCEPT !.id = 2, !.causes = {1}])

\* The log as open() leaves it.
LEMMA InitLog ==
  ASSUME Init
  PROVE  /\ Opening \in Event /\ RootOpening \in Event /\ Root \in Subjects
         /\ log = Append(Append(<<>>, Opening), RootOpening)
         /\ Opening.kind = "trajectory.opened" /\ Opening.id = 1 /\ Opening.used = 1
         /\ RootOpening.kind = "scope.opened" /\ RootOpening.subject = Root
         /\ RootOpening.id = 2 /\ RootOpening.used = 2
<1>1. Root \in Subjects /\ Run \in Subjects /\ 1 \in EventIds /\ 2 \in EventIds /\ 0 \in EventIds
  BY TreeAssumption, RoomAssumption, LimitsAssumption
<1>2. log = Extend(Extend(<<>>, [Opened("trajectory.opened", Run, 1) EXCEPT !.id = 1]),
                   [Opened("scope.opened", Root, 0) EXCEPT !.id = 2, !.causes = {1}])
  BY DEF Init
<1>3. Opening = [id |-> 1, kind |-> "trajectory.opened", subject |-> Run, causes |-> {},
                 epoch |-> 1, binds |-> 0, claim |-> "none", bytes |-> 1, used |-> 1]
  <2> DEFINE in == [Opened("trajectory.opened", Run, 1) EXCEPT !.id = 1]
  <2>1. /\ in.id = 1 /\ in.kind = "trajectory.opened" /\ in.subject = Run /\ in.causes = {}
        /\ in.epoch = 1 /\ in.binds = 0 /\ in.claim = "none" /\ in.bytes = 1
    BY DEF Opened
  <2>2. Opening = Stamp(<<>>, in)
    BY DEF Opening
  <2> HIDE DEF in
  <2>3. UsedBytes(<<>>) + in.bytes = 1
    BY <2>1 DEF UsedBytes
  <2> QED
    BY <2>1, <2>2, <2>3 DEF Stamp
<1>4. UsedBytes(<<Opening>>) = 1
  BY <1>3 DEF UsedBytes
<1>5. RootOpening = [id |-> 2, kind |-> "scope.opened", subject |-> Root, causes |-> {1},
                     epoch |-> 0, binds |-> 0, claim |-> "none", bytes |-> 1, used |-> 2]
  <2> DEFINE in == [Opened("scope.opened", Root, 0) EXCEPT !.id = 2, !.causes = {1}]
  <2>1. /\ in.id = 2 /\ in.kind = "scope.opened" /\ in.subject = Root /\ in.causes = {1}
        /\ in.epoch = 0 /\ in.binds = 0 /\ in.claim = "none" /\ in.bytes = 1
    BY DEF Opened
  <2>2. RootOpening = Stamp(<<Opening>>, in)
    BY DEF RootOpening
  <2> HIDE DEF in
  <2>3. UsedBytes(<<Opening>>) + in.bytes = 2
    BY <1>4, <2>1
  <2> QED
    BY <2>1, <2>2, <2>3 DEF Stamp
<1>6. Extend(<<>>, [Opened("trajectory.opened", Run, 1) EXCEPT !.id = 1]) = <<Opening>>
  BY DEF Extend, Opening
<1>7. log = Append(<<Opening>>, RootOpening)
  BY <1>2, <1>6 DEF Extend, RootOpening
<1>8. "trajectory.opened" \in Kinds /\ "scope.opened" \in Kinds /\ "none" \in Claims
  BY DEF Kinds, RunKinds, ScopeKinds, Claims
<1>9. Opening \in Event
  BY <1>1, <1>3, <1>8 DEF Event
<1>10. RootOpening \in Event
  BY <1>1, <1>5, <1>8 DEF Event
<1>11. <<Opening>> = Append(<<>>, Opening)
  OBVIOUS
<1> QED
  BY <1>1, <1>3, <1>5, <1>7, <1>9, <1>10, <1>11

\* What its positions hold, and what it owes: four control events.
LEMMA InitLogFacts ==
  ASSUME Init
  PROVE  /\ log \in Seq(Event) /\ Len(log) = 2 /\ DOMAIN log = {1, 2}
         /\ log[1] = Opening /\ log[2] = RootOpening
         /\ OpenScopes(log) = {Root} /\ ActiveOperations(log) = {} /\ PendingDisposers(log) = {}
         /\ ~Terminated(log) /\ Obligations(log) = 4
<1> DEFINE one == Append(<<>>, Opening)
<1>1. /\ Opening \in Event /\ RootOpening \in Event /\ Root \in Subjects
      /\ log = Append(one, RootOpening)
      /\ Opening.kind = "trajectory.opened" /\ RootOpening.kind = "scope.opened"
      /\ RootOpening.subject = Root
  BY InitLog
<1>2. <<>> \in Seq(Event) /\ one \in Seq(Event)
  BY <1>1
<1>3. /\ log \in Seq(Event) /\ Len(log) = 2 /\ DOMAIN log = {1, 2}
      /\ log[1] = Opening /\ log[2] = RootOpening
  BY <1>1
<1>4. /\ OpenScopes(<<>>) = {} /\ ActiveOperations(<<>>) = {} /\ PendingDisposers(<<>>) = {}
      /\ \A kinds : StandingAt(<<>>, kinds) = {}
      /\ \A kind : ~Has(<<>>, kind)
  BY DEF OpenScopes, ActiveOperations, PendingDisposers, StandingAt, Has
<1>5. /\ OpenScopes(one) = {} /\ ActiveOperations(one) = {} /\ PendingDisposers(one) = {}
  BY <1>1, <1>2, <1>4, OwedOfAppend
<1>6. OpenScopes(log) = {Root} /\ ActiveOperations(log) = {} /\ PendingDisposers(log) = {}
  BY <1>1, <1>2, <1>5, OwedOfAppend
<1>7. /\ StandingAt(one, OwingKinds) = {} /\ StandingAt(one, OwingTwiceKinds) = {}
  <2>1. "trajectory.opened" \notin OwingKinds /\ "trajectory.opened" \notin OwingTwiceKinds
    BY DEF OwingKinds, OwingTwiceKinds
  <2>2. ASSUME NEW kinds, "trajectory.opened" \notin kinds
        PROVE  StandingAt(one, kinds) = {}
    <3>1. StandingAt(one, kinds) =
            (StandingAt(<<>>, kinds) \ {Matter(Opening)})
            \cup (IF Opening.kind \in kinds THEN {Matter(Opening)} ELSE {})
      BY <1>1, <1>2, StandingOfAppend
    <3> QED
      BY <1>1, <1>4, <2>2, <3>1
  <2> QED
    BY <2>1, <2>2
<1>8. /\ StandingAt(log, OwingKinds) = {Matter(RootOpening)}
      /\ StandingAt(log, OwingTwiceKinds) = {}
  BY <1>1, <1>2, <1>7, StandingOfAppend DEF OwingKinds, OwingTwiceKinds
<1>9. /\ ~Has(log, "trajectory.terminal") /\ ~Has(log, "finalization.started")
      /\ ~Has(log, "finalization.receipt")
  BY <1>1, <1>2, <1>4, FoldsOfAppend
<1>10. Cardinality(StandingAt(log, OwingKinds)) = 1
       /\ Cardinality(StandingAt(log, OwingTwiceKinds)) = 0
  BY <1>8, FS_Singleton, FS_EmptySet
<1>11. Obligations(log) = 4
  BY <1>9, <1>10 DEF Obligations, Terminated
<1> QED
  BY <1>3, <1>6, <1>9, <1>11 DEF Terminated

\* And it holds of the coordinator open() returns.
LEMMA InitInv == Init => IInv
<1> SUFFICES ASSUME Init PROVE IInv
  OBVIOUS
<1>1. /\ log \in Seq(Event) /\ Len(log) = 2 /\ DOMAIN log = {1, 2}
      /\ log[1] = Opening /\ log[2] = RootOpening
      /\ OpenScopes(log) = {Root} /\ ActiveOperations(log) = {} /\ PendingDisposers(log) = {}
      /\ ~Terminated(log) /\ Obligations(log) = 4
  BY InitLogFacts
<1>2. /\ Root \in Scopes
      /\ Opening.kind = "trajectory.opened" /\ Opening.id = 1
      /\ RootOpening.kind = "scope.opened" /\ RootOpening.subject = Root
      /\ RootOpening.id = 2 /\ RootOpening.used = 2
  BY InitLog, TreeAssumption
<1>3. /\ queue = <<>> /\ faults = 0 /\ state = "ACTIVE" /\ fenced = {}
      /\ operations = [o \in Operations |-> "idle"]
      /\ disposers = [d \in Disposers |-> [status |-> "absent", ordinal |-> 0]]
      /\ registrationTail = <<>> /\ cancellations = [s \in Scopes |-> "none"]
      /\ fin = NoFinalization /\ expired = FALSE /\ restarts = 0
      /\ scopes = [s \in Scopes |-> IF s = Root THEN [Absent EXCEPT !.status = "open",
                                                                  !.openedEventId = 2]
                                    ELSE Absent]
  BY DEF Init
<1>4. /\ scopes[Root] \in [status : {"open"}, openedEventId : {2}, aborted : {FALSE}]
      /\ \A s \in Scopes \ {Root} :
           scopes[s] \in [status : {"absent"}, openedEventId : {NoId}, aborted : {FALSE}]
  <2>1. [Absent EXCEPT !.status = "open", !.openedEventId = 2]
          \in [status : {"open"}, openedEventId : {2}, aborted : {FALSE}]
    BY DEF Absent
  <2>2. Absent \in [status : {"absent"}, openedEventId : {NoId}, aborted : {FALSE}]
    BY DEF Absent
  <2> QED
    BY <1>2, <1>3, <2>1, <2>2
<1>5. fin.pc = "none" /\ fin.slowOperations = FALSE
  BY <1>3 DEF NoFinalization
<1>6. DOMAIN queue = {}
  BY <1>3
<1>7. \A kind, s : Recorded(kind, s) => \/ kind = "trajectory.opened"
                                        \/ kind = "scope.opened" /\ s = Root
  BY <1>1, <1>2 DEF Recorded
<1>8. \A kind : Has(log, kind) => kind \in {"trajectory.opened", "scope.opened"}
  BY <1>1, <1>2 DEF Has
<1>9. \A j \in DOMAIN log : log[j].kind \in {"trajectory.opened", "scope.opened"}
  BY <1>1, <1>2
<1>10. TypeInv
  <2>1. faults \in 0..MaxFaults /\ restarts \in 0..MaxRestarts
    BY <1>3, BoundsAssumption
  <2>2. scopes \in [Scopes -> [status : {"absent", "open", "closed"}, openedEventId : EventIds,
                               aborted : BOOLEAN]]
    <3>1. 0 \in EventIds /\ 2 \in EventIds
      BY TreeAssumption, RoomAssumption, LimitsAssumption
    <3>2. scopes = [s \in Scopes |-> scopes[s]]
      BY <1>3
    <3>3. ASSUME NEW s \in Scopes
          PROVE  scopes[s] \in [status : {"absent", "open", "closed"}, openedEventId : EventIds,
                               aborted : BOOLEAN]
      <4>1. CASE s = Root
        BY <1>4, <3>1, <4>1
      <4>2. CASE s # Root
        BY <1>4, <3>1, <4>2 DEF NoId
      <4> QED
        BY <4>1, <4>2
    <3> QED
      BY <3>2, <3>3
  <2>3. TypeOK
    <3>1. operations \in [Operations -> {"idle", "starting", "running", "settling",
                                         "recording_failure", "done"}]
      BY <1>3
    <3>2. disposers \in [Disposers -> [status : {"absent", "registered", "started", "settled",
                                                 "timed_out"}, ordinal : Nat]]
      BY <1>3
    <3>3. cancellations \in [Scopes -> {"none", "requesting", "acknowledging", "resolved",
                                        "rejected"}]
      BY <1>3
    <3>4. registrationTail \in Seq(Disposers) /\ fenced \subseteq Operations
      BY <1>3
    <3>5. /\ state \in {"ACTIVE", "CANCELLING", "FINALIZING", "TERMINAL", "DOWN"}
          /\ fin.pc = "rejected" => state = "FINALIZING"
          /\ expired \in BOOLEAN
      BY <1>3, <1>5
    <3> QED
      BY <1>1, <2>1, <2>2, <3>1, <3>2, <3>3, <3>4, <3>5 DEF TypeOK
  <2>4. fin \in FinType
    BY <1>3 DEF NoFinalization, FinType, Pcs, Claims
  <2>5. \A i \in DOMAIN log : Apt(log[i])
    BY <1>1, <1>2 DEF Apt, ScopeKinds, CancelKinds, OperationKinds, DisposerKinds
  <2>6. Registered = {}
    BY <1>3 DEF Registered
  <2>7. queue \in Seq(EntryType) /\ IsFiniteSet(Registered)
    BY <1>3, <2>6, FS_EmptySet
  <2> QED
    BY <2>3, <2>4, <2>5, <2>7 DEF TypeInv
<1>11. LogInv
  <2>1. UsedBytes(log) = 2
    BY <1>1, <1>2 DEF UsedBytes
  <2>2. Reserve(log)
    BY <1>1, <2>1, RoomAssumption, LimitsAssumption DEF Reserve
  <2>3. Len(log) <= MaxEvents
    BY <1>1, RoomAssumption, LimitsAssumption
  <2> QED
    BY <1>1, <1>2, <1>7, <1>8, <2>2, <2>3 DEF LogInv
<1>12. PhaseInv
  <2>1. /\ fin.pc \notin PastRegistrations /\ fin.pc \notin PastOperations
        /\ fin.pc \notin PastDisposal
    BY <1>5 DEF PastRegistrations, PastOperations, PastDisposal
  <2>2. \A d \in Disposers : disposers[d].status = "absent"
    BY <1>3
  <2> QED
    BY <1>1, <1>3, <1>5, <1>8, <2>1, <2>2 DEF PhaseInv
<1>13. DownInv /\ LinkedInv /\ PlacedInv /\ DistinctInv
  BY <1>3, <1>6 DEF DownInv, LinkedInv, PlacedInv, DistinctInv
<1>14. ScopeInv
  <2>1. \A s \in Scopes : (Durable(s) <=> s = Root) /\ (Durable(s) => Present(s))
    <3>1. Durable(Root) /\ Present(Root)
      <4>1. scopes[Root].status = "open" /\ scopes[Root].openedEventId = 2
        BY <1>4
      <4>2. 2 # NoId
        BY DEF NoId
      <4> QED
        BY <4>1, <4>2 DEF Durable, Present
    <3>2. \A s \in Scopes \ {Root} : ~Durable(s)
      BY <1>4 DEF Durable, NoId
    <3> QED
      BY <3>1, <3>2
  <2>2. \A s \in Scopes : Recorded("scope.opened", s) <=> s = Root
    BY <1>1, <1>2, <1>7 DEF Recorded
  <2> QED
    BY <1>2, <2>1, <2>2 DEF ScopeInv
<1>15. OperationInv /\ CancelInv
  BY <1>3, <1>7 DEF OperationInv, CancelInv
<1>16. AbortIsDurable
  BY <1>4 DEF AbortIsDurable
<1>17. CompletionInv /\ DisposersRunLast /\ ConfirmedIsEarned
  BY <1>6, <1>9 DEF CompletionInv, NoCompletionAfterCancel, DisposersRunLast, ConfirmedIsEarned,
     ConfirmedMeansQuiescent
<1>18. DisposalInv
  BY <1>6, <1>9 DEF DisposalInv, DisposalOrder
<1>19. ScopesInv /\ OwedInv /\ WorkInv
  BY <1>1, <1>2, <1>3, <1>4, <1>6 DEF ScopesInv, OwedInv, WorkInv, Open, Durable, NoId
<1> QED
  BY <1>10, <1>11, <1>12, <1>13, <1>14, <1>15, <1>16, <1>17, <1>18, <1>19 DEF IInv

\* Every state of the coordinator satisfies the inductive invariant.
THEOREM SpecInvariant == Spec => []IInv
<1> QED
  BY InitInv, InvStep, PTL DEF Spec, Safe

\* Every variable keeps its type, and a rejected finalization leaves the
\* coordinator FINALIZING.
THEOREM SpecTypeOK == Spec => []TypeOK
<1>1. IInv => TypeOK
  BY DEF IInv, TypeInv
<1> QED
  BY <1>1, SpecInvariant, PTL

\* A scope's signal is aborted only under a durable request (cancelScope persists
\* the request before it propagates the abort).
THEOREM SpecAbortIsDurable == Spec => []AbortIsDurable
<1>1. IInv => AbortIsDurable
  BY DEF IInv
<1> QED
  BY <1>1, SpecInvariant, PTL

\* No operation is settled as completed after a durable request to cancel a scope
\* above it, whatever its handler returned and however late (executeOperation).
THEOREM SpecNoCompletionAfterCancel == Spec => []NoCompletionAfterCancel
<1>1. IInv => NoCompletionAfterCancel
  BY DEF IInv, CompletionInv, NoCompletionAfterCancel
<1> QED
  BY <1>1, SpecInvariant, PTL

\* Disposers start child before parent and last registered first, each at most once
\* (runDisposers), whatever appends failed before.
THEOREM SpecDisposalOrder == Spec => []DisposalOrder
<1>1. IInv => DisposalOrder
  BY DEF IInv, DisposalInv, DisposalOrder
<1> QED
  BY <1>1, SpecInvariant, PTL

\* No disposer starts while the ledger owes the settlement of an operation, unless
\* the root's cancellation is durable (performFinalization).
THEOREM SpecDisposersRunLast == Spec => []DisposersRunLast
<1>1. IInv => DisposersRunLast
  BY DEF IInv
<1> QED
  BY <1>1, SpecInvariant, PTL

\* A live coordinator has everything the ledger still owes in its maps, on its
\* queue or behind its fence.
THEOREM SpecAccountedFor == Spec => []AccountedFor
BY InvAccountedFor, SpecInvariant, PTL

\* A receipt that claims confirmed quiescence ends a ledger without open scopes,
\* active operations and pending disposers (performFinalization).
THEOREM SpecConfirmedIsEarned == Spec => []ConfirmedIsEarned
<1>1. IInv => ConfirmedIsEarned
  BY DEF IInv
<1> QED
  BY <1>1, SpecInvariant, PTL
=============================================================================
