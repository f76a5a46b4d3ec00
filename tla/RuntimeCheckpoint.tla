------------------------- MODULE RuntimeCheckpoint -------------------------
(***************************************************************************)
(* RuntimeCheckpointStore and the runtimes that share one: checkpoints that *)
(* bind a ledger tip, the budget that is consumed against the latest one,   *)
(* and the recovery of a trajectory from it by another process.             *)
(*                                                                          *)
(* Every record is a file of its own and a head file says which is the      *)
(* last, so a crash may come between the two.  The writer lock names its    *)
(* owner's pid and a token; a lock whose owner is dead is taken away, in    *)
(* three steps between which others run.  What the ledger promises is taken *)
(* from TrajectoryLog: an append is one step, and one that expects a tip    *)
(* fails when the tip has moved.  A process has a pid and a token of its    *)
(* own; workspace, session, capabilities, tree and expiry are a refusal     *)
(* that may always come.                                                    *)
(***************************************************************************)
EXTENDS Integers, FiniteSets, SequencesExt

CONSTANTS Processes,    \* the processes, in the order of their starts
          Requests,     \* request ids of continuations
          Budget,       \* the steps a checkpoint allows
          MaxEvents,    \* bound: events of the ledger
          MaxRecords,   \* MAX_RECORDS: the checkpoints of a store
          MaxCalls,     \* bound: calls of the store that one process makes
          MaxCrashes    \* bound: processes that die

ASSUME ProcessesAssumption == Processes \subseteq Nat /\ 1 \in Processes /\ 0 \notin Processes
ASSUME BoundsAssumption == {Budget, MaxEvents, MaxRecords, MaxCalls, MaxCrashes} \subseteq Nat

VARIABLES ledger,        \* the events: their kind, writer epoch, tip before, checkpoint used
          files,         \* checkpoint-<n>.json: id, id before, writer epoch, tip that it binds
          head,          \* checkpoint-head.json: number and id
          receipts,      \* receipt-<n>-<m>.json, for every n: checkpoint id, request, cost
          receiptHeads,  \* receipt-head-<n>.json, for every n: number and checkpoint id
          lock,          \* .writer.lock: who made it, and whether that was written into it
          procs,         \* the processes: their coordinator's epoch, and the call they make
          minted,        \* the checkpoint ids made so far
          kept,          \* history: the checkpoints that append returned
          spent,         \* history: the receipts that consume returned
          stolen         \* history: a lock was removed that is not the one read as a dead owner's

storeVars == <<files, head, receipts, receiptHeads>>
vars == <<ledger, storeVars, lock, procs, minted, kept, spent, stolen>>

Free   == [owner |-> 0, written |-> FALSE]
NoHead == [n |-> 0, id |-> 0]

New == [life |-> "new", epoch |-> 0, busy |-> FALSE, op |-> "none", at |-> "idle",
        tip |-> 0, n |-> 0, id |-> 0, req |-> "", cost |-> 0, prey |-> 0,
        retried |-> FALSE, done |-> FALSE, known |-> 0, calls |-> 0]

\* The steps of a call under the lock.
Inside == {"mark", "read", "write", "head", "resume", "reconstruct", "recover", "release"}

Init ==
  /\ ledger = <<[kind |-> "opened", epoch |-> 1, tip |-> 0, from |-> 0]>>
  /\ files = <<>> /\ head = NoHead
  /\ receipts = [m \in 1..MaxRecords |-> <<>>]
  /\ receiptHeads = [m \in 1..MaxRecords |-> NoHead]
  /\ lock = Free
  /\ procs = [p \in Processes |-> IF p = 1 THEN [New EXCEPT !.life = "up", !.epoch = 1]
                                           ELSE New]
  /\ minted = 0 /\ kept = {} /\ spent = {} /\ stolen = FALSE

(***************************************************************************)
(* The ledger and the coordinators of the processes                         *)
(***************************************************************************)

Tip == Len(ledger)
Terminal == ledger[Tip].kind = "terminal"

EventOf(kind) == [kind |-> kind, epoch |-> 0, tip |-> 0, from |-> 0]

Appends(event) == /\ Tip < MaxEvents /\ ~Terminal
                  /\ ledger' = Append(ledger, event)

\* foldTrajectory: the operations that have not settled, the epoch of the writer.
Count(events, kind) == Cardinality({i \in DOMAIN events : events[i].kind = kind})
Active(events)      == Count(events, "started") - Count(events, "settled")
LatestEpoch(events) == Max({events[i].epoch : i \in DOMAIN events})

Up(p) == procs[p].life = "up"
Set(p, r) == procs' = [procs EXCEPT ![p] = r]
GoTo(p, step) == Set(p, [procs[p] EXCEPT !.at = step])

\* A call ends; one that throws leaves the process where it was.
Back(p, known) == Set(p, [New EXCEPT !.life = "up", !.epoch = procs[p].epoch, !.known = known,
                                     !.busy = procs[p].busy, !.calls = procs[p].calls])
Quit(p) == Back(p, procs[p].known)

\* A process that may begin another call.
Begins(p) == Up(p) /\ procs[p].at = "idle" /\ procs[p].calls < MaxCalls

\* An operation runs under a coordinator: not while a store call of the process
\* does, which nothing in the process interrupts.
Operate(p) ==
  /\ Up(p) /\ procs[p].epoch > 0 /\ procs[p].at \in {"idle", "tipped"}
  /\ Appends(EventOf(IF procs[p].busy THEN "settled" ELSE "started"))
  /\ Set(p, [procs[p] EXCEPT !.busy = ~@])
  /\ UNCHANGED <<storeVars, lock, minted, kept, spent, stolen>>

Finalize(p) ==
  /\ Up(p) /\ procs[p].epoch > 0 /\ procs[p].at = "idle" /\ ~procs[p].busy
  /\ Appends(EventOf("terminal"))
  /\ UNCHANGED <<storeVars, lock, procs, minted, kept, spent, stolen>>

Boot(p) ==
  /\ procs[p].life = "new"
  /\ \A q \in Processes : q < p => procs[q].life # "new"
  /\ Set(p, [procs[p] EXCEPT !.life = "up"])
  /\ UNCHANGED <<ledger, storeVars, lock, minted, kept, spent, stolen>>

\* A process that dies leaves its lock file as it is, empty or not.
Crash(p) ==
  /\ Up(p)
  /\ Cardinality({q \in Processes : procs[q].life = "dead"}) < MaxCrashes
  /\ Set(p, [New EXCEPT !.life = "dead"])
  /\ UNCHANGED <<ledger, storeVars, lock, minted, kept, spent, stolen>>

(***************************************************************************)
(* Calls of the store                                                       *)
(***************************************************************************)

\* McpRuntimeLifecycle.checkpoint reads the tip, and later takes the snapshot
\* that says whether the coordinator is quiescent.
BeginCheckpoint(p) ==
  /\ Begins(p) /\ procs[p].epoch > 0
  /\ Set(p, [procs[p] EXCEPT !.calls = @ + 1, !.at = "tipped", !.op = "append",
                             !.tip = Tip])
  /\ UNCHANGED <<ledger, storeVars, lock, minted, kept, spent, stolen>>

TakeSnapshot(p) ==
  /\ procs[p].at = "tipped"
  /\ IF procs[p].busy THEN Quit(p) ELSE GoTo(p, "acquire")
  /\ UNCHANGED <<ledger, storeVars, lock, minted, kept, spent, stolen>>

BeginConsume(p, r, cost) ==
  /\ Begins(p) /\ procs[p].known > 0
  /\ Set(p, [procs[p] EXCEPT !.calls = @ + 1, !.at = "acquire", !.op = "consume",
                             !.req = r, !.cost = cost])
  /\ UNCHANGED <<ledger, storeVars, lock, minted, kept, spent, stolen>>

BeginRecover(p) ==
  /\ Begins(p) /\ procs[p].epoch = 0
  /\ Set(p, [procs[p] EXCEPT !.calls = @ + 1, !.at = "acquire", !.op = "recover"])
  /\ UNCHANGED <<ledger, storeVars, lock, minted, kept, spent, stolen>>

(***************************************************************************)
(* The writer lock                                                          *)
(***************************************************************************)

Create(p) ==
  /\ procs[p].at = "acquire" /\ lock = Free
  /\ lock' = [owner |-> p, written |-> FALSE]
  /\ GoTo(p, "mark")
  /\ UNCHANGED <<ledger, storeVars, minted, kept, spent, stolen>>

\* The owner is written after the file is made, and into a file that somebody
\* may have unlinked since.
Mark(p) ==
  /\ procs[p].at = "mark"
  /\ lock' = IF lock.owner = p THEN [lock EXCEPT !.written = TRUE] ELSE lock
  /\ GoTo(p, "read")
  /\ UNCHANGED <<ledger, storeVars, minted, kept, spent, stolen>>

\* Mutation of MeetLock: an owner that can be read is taken for dead.
MeetLock_Any(p) ==
  /\ procs[p].at = "acquire" /\ lock # Free
  /\ IF procs[p].retried \/ ~lock.written
     THEN Quit(p)
     ELSE Set(p, [procs[p] EXCEPT !.at = "recheck", !.prey = lock.owner])
  /\ UNCHANGED <<ledger, storeVars, lock, minted, kept, spent, stolen>>

\* A lock that exists: without a readable owner, with a living one, or found by
\* the second attempt, it is BUSY.
MeetLock(p) ==
  /\ procs[p].at = "acquire" /\ lock # Free
  /\ IF procs[p].retried \/ ~lock.written \/ Up(lock.owner)
     THEN Quit(p)
     ELSE Set(p, [procs[p] EXCEPT !.at = "recheck", !.prey = lock.owner])
  /\ UNCHANGED <<ledger, storeVars, lock, minted, kept, spent, stolen>>

RecheckOwner(p) ==
  /\ procs[p].at = "recheck"
  /\ IF lock.written /\ lock.owner = procs[p].prey THEN GoTo(p, "unlink") ELSE Quit(p)
  /\ UNCHANGED <<ledger, storeVars, lock, minted, kept, spent, stolen>>

\* unlink removes the file that has the name now, whoever made it.
UnlinkDead(p) ==
  /\ procs[p].at = "unlink"
  /\ IF lock = Free THEN Quit(p)
                    ELSE Set(p, [procs[p] EXCEPT !.at = "acquire", !.retried = TRUE])
  /\ stolen' = (stolen \/ lock.owner \notin {0, procs[p].prey})
  /\ lock' = Free
  /\ UNCHANGED <<ledger, storeVars, minted, kept, spent>>

\* The lock is given back if it is still the caller's; then the call returns
\* what it did, or throws.
Release(p) ==
  LET me == procs[p] IN
  /\ me.at = "release"
  /\ lock' = IF lock = [owner |-> p, written |-> TRUE] THEN Free ELSE lock
  /\ kept'  = IF me.done /\ me.op = "append" THEN kept \cup {[n |-> me.n + 1, id |-> me.id]}
                                             ELSE kept
  /\ spent' = IF me.done /\ me.op = "consume"
              THEN spent \cup {[id |-> me.id, req |-> me.req, cost |-> me.cost, by |-> p]}
              ELSE spent
  /\ Back(p, IF me.done THEN me.id ELSE me.known)
  /\ UNCHANGED <<ledger, storeVars, minted, stolen>>

(***************************************************************************)
(* What a call reads under the lock                                         *)
(***************************************************************************)

Latest == files[Len(files)]

\* records() and the head: every file chained to the one before, the head the
\* last of them.
ChainOK == \A n \in DOMAIN files : files[n].prev = IF n = 1 THEN 0 ELSE files[n - 1].id

\* Mutation of StoreOK: the chain is trusted without its head.
StoreOK_NoHead == ChainOK

StoreOK == ChainOK /\ head = IF files = <<>> THEN NoHead
                             ELSE [n |-> Len(files), id |-> Latest.id]

\* receipts(): all of them for the checkpoint, and the head the last of them.
ReceiptsOf == receipts[Len(files)]
ReceiptsOK == /\ \A m \in DOMAIN ReceiptsOf : ReceiptsOf[m].id = Latest.id
              /\ receiptHeads[Len(files)] = IF ReceiptsOf = <<>> THEN NoHead
                                            ELSE [n |-> Len(ReceiptsOf), id |-> Latest.id]
Used == FoldLeft(LAMBDA sum, r : sum + r.cost, 0, ReceiptsOf)

\* A binding that does not match, a deadline that has passed, or a trajectory with
\* disposers, scopes or a cancellation that recover does not take over.
Refuse(p) ==
  /\ procs[p].at \in {"read", "resume", "reconstruct"}
  /\ GoTo(p, "release")
  /\ UNCHANGED <<ledger, storeVars, lock, minted, kept, spent, stolen>>

(***************************************************************************)
(* append and consume                                                       *)
(***************************************************************************)

ReadToAppend(p) ==
  /\ procs[p].op = "append" /\ procs[p].at = "read"
  /\ IF StoreOK /\ Len(files) < MaxRecords
     THEN /\ minted' = minted + 1
          /\ Set(p, [procs[p] EXCEPT !.at = "write", !.n = Len(files), !.id = minted'])
     ELSE GoTo(p, "release") /\ UNCHANGED minted
  /\ UNCHANGED <<ledger, storeVars, lock, kept, spent, stolen>>

WriteCheckpoint(p) ==
  LET n == procs[p].n
      record == [id |-> procs[p].id, prev |-> IF n = 0 THEN 0 ELSE files[n].id,
                 epoch |-> procs[p].epoch, tip |-> procs[p].tip]
  IN /\ procs[p].op = "append" /\ procs[p].at = "write"
     /\ files' = [m \in 1..(IF n = Len(files) THEN n + 1 ELSE Len(files)) |->
                    IF m = n + 1 THEN record ELSE files[m]]
     /\ GoTo(p, "head")
     /\ UNCHANGED <<ledger, head, receipts, receiptHeads, lock, minted, kept, spent, stolen>>

WriteCheckpointHead(p) ==
  /\ procs[p].op = "append" /\ procs[p].at = "head"
  /\ head' = [n |-> procs[p].n + 1, id |-> procs[p].id]
  /\ Set(p, [procs[p] EXCEPT !.at = "release", !.done = TRUE])
  /\ UNCHANGED <<ledger, files, receipts, receiptHeads, lock, minted, kept, spent, stolen>>

\* Mutation of Affordable: what was spent before is not added.
Affordable_OneByOne(req, cost) ==
  /\ \A m \in DOMAIN ReceiptsOf : ReceiptsOf[m].req # req
  /\ cost <= Budget

Affordable(req, cost) ==
  /\ \A m \in DOMAIN ReceiptsOf : ReceiptsOf[m].req # req
  /\ Used + cost <= Budget

ReadToConsume(p) ==
  LET me == procs[p] IN
  /\ me.op = "consume" /\ me.at = "read"
  /\ IF /\ StoreOK /\ files # <<>> /\ Latest.id = me.known
        /\ ReceiptsOK /\ Affordable(me.req, me.cost)
     THEN Set(p, [me EXCEPT !.at = "write", !.n = Len(files), !.id = me.known,
                            !.tip = Len(ReceiptsOf)])
     ELSE GoTo(p, "release")
  /\ UNCHANGED <<ledger, storeVars, lock, minted, kept, spent, stolen>>

WriteReceipt(p) ==
  LET me == procs[p]
      receipt == [id |-> me.id, req |-> me.req, cost |-> me.cost]
  IN /\ me.op = "consume" /\ me.at = "write"
     /\ receipts' = [receipts EXCEPT ![me.n] =
                       IF me.tip = Len(@) THEN Append(@, receipt)
                                          ELSE [@ EXCEPT ![me.tip + 1] = receipt]]
     /\ GoTo(p, "head")
     /\ UNCHANGED <<ledger, files, head, receiptHeads, lock, minted, kept, spent, stolen>>

WriteReceiptHead(p) ==
  LET me == procs[p] IN
  /\ me.op = "consume" /\ me.at = "head"
  /\ receiptHeads' = [receiptHeads EXCEPT ![me.n] = [n |-> me.tip + 1, id |-> me.id]]
  /\ Set(p, [me EXCEPT !.at = "release", !.done = TRUE])
  /\ UNCHANGED <<ledger, files, head, receipts, lock, minted, kept, spent, stolen>>

(***************************************************************************)
(* resumeFromCheckpoint: withPinnedLatest, resume, recover                  *)
(***************************************************************************)

\* Mutation of Pin: the candidate is used after the lock is given back.
Pin_Unlocked(p) ==
  /\ procs[p].op = "recover" /\ procs[p].at = "read"
  /\ IF StoreOK /\ files # <<>> /\ ReceiptsOK
     THEN Set(p, [procs[p] EXCEPT !.at = "resume", !.id = Latest.id]) /\ lock' = Free
     ELSE GoTo(p, "release") /\ UNCHANGED lock
  /\ UNCHANGED <<ledger, storeVars, minted, kept, spent, stolen>>

Pin(p) ==
  /\ procs[p].op = "recover" /\ procs[p].at = "read"
  /\ IF StoreOK /\ files # <<>> /\ ReceiptsOK
     THEN Set(p, [procs[p] EXCEPT !.at = "resume", !.id = Latest.id])
     ELSE GoTo(p, "release")
  /\ UNCHANGED <<ledger, storeVars, lock, minted, kept, spent, stolen>>

\* The tip of the ledger is the one the checkpoint binds, which is read again.
Resume(p) ==
  LET me == procs[p] IN
  /\ me.at = "resume"
  /\ IF /\ StoreOK /\ ReceiptsOK /\ Latest.id = me.id
        /\ Latest.tip = Tip /\ Used <= Budget
     THEN Set(p, [me EXCEPT !.at = "reconstruct", !.tip = Tip, !.n = Latest.epoch + 1])
     ELSE GoTo(p, "release")
  /\ UNCHANGED <<ledger, storeVars, lock, minted, kept, spent, stolen>>

Reconstruct(p) ==
  LET me == procs[p] IN
  /\ me.at = "reconstruct"
  /\ IF /\ ~Terminal /\ Tip = me.tip
        /\ me.n = LatestEpoch(ledger) + 1
        /\ Active(ledger) = 0
     THEN GoTo(p, "recover")
     ELSE GoTo(p, "release")
  /\ UNCHANGED <<ledger, storeVars, lock, minted, kept, spent, stolen>>

\* Mutation of Fenced: the append does not say which tip it expects.
Fenced_AnyTip(tip) == ~Terminal /\ tip > 0

Fenced(tip) == Tip = tip

\* The recovered event is appended at the tip that was checked, or not at all.
AppendRecovered(p) ==
  LET me == procs[p] IN
  /\ me.at = "recover"
  /\ IF Fenced(me.tip)
     THEN /\ Appends([kind |-> "recovered", epoch |-> me.n, tip |-> me.tip, from |-> me.id])
          /\ Set(p, [me EXCEPT !.at = "release", !.done = TRUE, !.epoch = me.n])
     ELSE GoTo(p, "release") /\ UNCHANGED ledger
  /\ UNCHANGED <<storeVars, lock, minted, kept, spent, stolen>>

(***************************************************************************)
(* Specification                                                            *)
(***************************************************************************)

StoreCall(p) == \/ Create(p) \/ Mark(p) \/ MeetLock(p) \/ RecheckOwner(p) \/ UnlinkDead(p)
                \/ Release(p) \/ Refuse(p)
                \/ ReadToAppend(p) \/ WriteCheckpoint(p) \/ WriteCheckpointHead(p)
                \/ ReadToConsume(p) \/ WriteReceipt(p) \/ WriteReceiptHead(p)
                \/ Pin(p) \/ Resume(p) \/ Reconstruct(p) \/ AppendRecovered(p)

Runtime(p) == \/ Operate(p) \/ Finalize(p) \/ Boot(p) \/ Crash(p)
              \/ BeginCheckpoint(p) \/ TakeSnapshot(p) \/ BeginRecover(p)
              \/ \E r \in Requests, cost \in 1..Budget : BeginConsume(p, r, cost)

Next == \E p \in Processes : StoreCall(p) \/ Runtime(p)

Spec == Init /\ [][Next]_vars

(***************************************************************************)
(* Properties                                                               *)
(***************************************************************************)

\* A checkpoint that append has returned stays the one its number names, and
\* one writer at a time is inside the store: unless two processes that reclaim
\* the lock of a dead one remove each other's (the test at
\* runtime-checkpoint.test.ts:196 says a live lock is never stolen).
KeepsAcknowledged ==
  ~stolen => /\ \A c \in kept : files[c.n].id = c.id
             /\ Cardinality({p \in Processes : procs[p].at \in Inside}) <= 1

\* Nobody recovers from, or spends the budget of, a checkpoint whose head was
\* never written: such a one was returned to no caller.
OnlySealedIsUsed ==
  ~stolen => \A id \in {e.from : e \in {ledger[i] : i \in DOMAIN ledger}}
                         \cup {r.id : r \in spent} :
               id > 0 => \A n \in DOMAIN files : files[n].id = id => head.n >= n

\* All that consume has granted for a checkpoint is within its budget, whoever
\* asked, and no request was granted twice.
BudgetKept ==
  ~stolen => \A c \in spent :
    LET granted == {r \in spent : r.id = c.id} IN
    /\ MapThenSumSet(LAMBDA r : r.cost, granted) <= Budget
    /\ \A r \in granted : r.req = c.req => r = c

\* A recovery continues the very trajectory its checkpoint was taken of: its
\* event follows the tip bound there, no operation is active before it and none
\* came in between, and it advances the writer epoch by exactly one
\* (pipeline-reference.md:224).  So two coordinators never write in one epoch,
\* and a checkpoint is recovered from once.
RecoveryFenced ==
  /\ \A i \in DOMAIN ledger : ledger[i].kind = "recovered" =>
       /\ ledger[i].tip = i - 1
       /\ Active(SubSeq(ledger, 1, i - 1)) = 0
       /\ ledger[i].epoch = LatestEpoch(SubSeq(ledger, 1, i - 1)) + 1
       /\ \A j \in DOMAIN ledger : ledger[j].from = ledger[i].from => j = i
  /\ \A p, q \in Processes : p # q /\ procs[p].epoch > 0 => procs[p].epoch # procs[q].epoch

\* While a recovery has the latest checkpoint pinned, no other process writes a
\* checkpoint or a receipt.
Pinned(p) == procs[p].op = "recover" /\ procs[p].at \in {"resume", "reconstruct", "recover"}

PinHolds == [][(~stolen' /\ \E p \in Processes : Pinned(p)) => UNCHANGED storeVars]_vars
=============================================================================
