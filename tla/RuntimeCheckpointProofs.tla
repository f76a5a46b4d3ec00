------------------------ MODULE RuntimeCheckpointProofs ------------------------
(***************************************************************************)
(* What holds of the checkpoint store and of the runtimes that share it,    *)
(* for every set of processes, every budget, and every bound on records,    *)
(* events, calls and crashes.                                               *)
(***************************************************************************)
EXTENDS RuntimeCheckpoint, SequenceTheorems, FiniteSetTheorems, WellFoundedInduction, TLAPS

-------------------------------------------------------------------------------
(***************************************************************************)
(* Types, and where a call may be.                                          *)
(***************************************************************************)

\* What the variables range over.
Kinds == {"opened", "started", "settled", "terminal", "recovered"}
EventType   == [kind : Kinds, epoch : Nat, tip : Nat, from : Nat]
RecordType  == [id : Nat, prev : Nat, epoch : Nat, tip : Nat]
HeadType    == [n : Nat, id : Nat]
ReceiptType == [id : Nat, req : Requests, cost : Nat]
Steps == Inside \cup {"idle", "tipped", "acquire", "recheck", "unlink"}
ProcType == [life : {"new", "up", "dead"}, epoch : Nat, busy : BOOLEAN,
             op : {"none", "append", "consume", "recover"}, at : Steps,
             tip : Nat, n : Nat, id : Nat, req : Requests \cup {""}, cost : Nat,
             prey : Processes \cup {0}, retried : BOOLEAN, done : BOOLEAN,
             known : Nat, calls : Nat]

\* Every variable has its type: records, heads and receipts of a bounded store, one
\* record for each process, at one step of one call.
TypeInv ==
  /\ ledger \in Seq(EventType) /\ Tip >= 1
  /\ files \in Seq(RecordType) /\ Len(files) <= MaxRecords
  /\ head \in HeadType
  /\ receipts \in [1..MaxRecords -> Seq(ReceiptType)]
  /\ receiptHeads \in [1..MaxRecords -> HeadType]
  /\ lock \in [owner : Processes \cup {0}, written : BOOLEAN]
  /\ procs \in [Processes -> ProcType]
  /\ minted \in Nat
  /\ kept \in SUBSET HeadType
  /\ spent \in SUBSET [id : Nat, req : Requests, cost : Nat, by : Processes]
  /\ stolen \in BOOLEAN

\* What the step of a call says of the rest of its process.
Fits(r) ==
  /\ r.life # "up" => r.at = "idle" /\ r.epoch = 0
  /\ r.at \in {"idle", "tipped"} => r.id = 0 /\ r.done = FALSE
  /\ r.at = "idle" => r.op = "none"
  /\ r.at = "tipped" => r.op = "append"
  /\ r.at \in {"resume", "reconstruct", "recover"} => r.op = "recover" /\ files # <<>>
  /\ r.at \in {"write", "head"} => r.op \in {"append", "consume"}
  /\ r.at \in Inside \cup {"acquire", "recheck", "unlink"} => r.op # "none"
  /\ r.op = "append" /\ r.at = "write" => r.n <= Len(files) /\ r.n < MaxRecords
  /\ r.op = "consume" /\ r.at \in {"write", "head"} =>
       r.n \in 1..Len(files) /\ r.tip <= Len(receipts[r.n])
  /\ r.op = "consume" => r.req \in Requests
  /\ r.op = "recover" /\ r.at \in {"reconstruct", "recover"} => r.tip \in 1..Tip

\* Every call is at a step that its operation has, with what that step needs.
CallInv == \A p \in Processes : Fits(procs[p])

\* Nobody but one call moves in a step.
LEMMA Moves ==
  ASSUME TypeInv, CallInv, NEW p \in Processes, StoreCall(p) \/ Runtime(p)
  PROVE  /\ procs'[p] \in ProcType
         /\ procs' \in [Processes -> ProcType]
         /\ \A q \in Processes : q # p => procs'[q] = procs[q]
<1> DEFINE G == procs'[p] \in ProcType /\ procs' = [procs EXCEPT ![p] = procs'[p]]
<1>1. procs \in [Processes -> ProcType] /\ procs[p] \in ProcType /\ minted \in Nat
  BY DEF TypeInv
<1>2. Tip \in Nat /\ Len(files) \in Nat /\ (files # <<>> => Latest \in RecordType)
  <2>1. Tip \in Nat /\ Len(files) \in Nat
    BY LenProperties DEF TypeInv, Tip
  <2>2. files # <<>> => Latest \in RecordType
    BY <2>1 DEF TypeInv, Latest
  <2> QED
    BY <2>1, <2>2
<1>3. ASSUME NEW s \in Steps PROVE [procs[p] EXCEPT !.at = s] \in ProcType
  BY <1>1 DEF ProcType
<1>4. ASSUME NEW k \in Nat
      PROVE  [New EXCEPT !.life = "up", !.epoch = procs[p].epoch, !.known = k,
                         !.busy = procs[p].busy, !.calls = procs[p].calls] \in ProcType
  BY <1>1 DEF ProcType, New, Steps
<1>5. lock.owner \in Processes \cup {0} /\ lock.written \in BOOLEAN
  BY DEF TypeInv
<1>6. files # <<>> => Len(ReceiptsOf) \in Nat
  <2>1. files # <<>> => Len(files) \in 1..MaxRecords
    BY <1>2, BoundsAssumption DEF TypeInv
  <2>2. files # <<>> => ReceiptsOf \in Seq(ReceiptType)
    BY <2>1 DEF TypeInv, ReceiptsOf
  <2> QED
    BY <2>2, LenProperties
<1>7. /\ procs[p].calls + 1 \in Nat /\ minted + 1 \in Nat
      /\ files # <<>> => Latest.epoch + 1 \in Nat /\ Latest.id \in Nat
  <2>1. procs[p].calls \in Nat
    BY <1>1 DEF ProcType
  <2>2. files # <<>> => Latest.epoch \in Nat /\ Latest.id \in Nat
    BY <1>2 DEF RecordType
  <2> QED
    BY <1>1, <2>1, <2>2
<1>8. \A cost \in 1..Budget : cost \in Nat
  BY BoundsAssumption
<1>9. ASSUME NEW r \in ProcType, Set(p, r) PROVE G
  BY <1>1, <1>9 DEF Set
<1>10. ASSUME NEW s \in Steps, GoTo(p, s) PROVE G
  BY <1>3, <1>9, <1>10 DEF GoTo
<1>11. ASSUME NEW k \in Nat, Back(p, k) PROVE G
  BY <1>4, <1>9, <1>11 DEF Back
<1>12. Quit(p) => G
  BY <1>1, <1>11 DEF Quit, ProcType
<1>13. UNCHANGED procs => G
  BY <1>1
<1> HIDE DEF G
<1>14. G
  <2>1. CASE Create(p)
    BY <2>1, <1>10, <1>12 DEF Create, Steps, Inside
  <2>2. CASE Mark(p)
    BY <2>2, <1>10, <1>12 DEF Mark, Steps, Inside
  <2>3. CASE MeetLock(p)
    <3>1. [procs[p] EXCEPT !.at = "recheck", !.prey = lock.owner] \in ProcType
      BY <1>1, <1>2, <1>5, <1>6, <1>7 DEF ProcType, Steps, Inside
    <3> QED
      BY <2>3, <3>1, <1>9, <1>10, <1>12 DEF MeetLock, Steps, Inside
  <2>4. CASE RecheckOwner(p)
    BY <2>4, <1>10, <1>12 DEF RecheckOwner, Steps, Inside
  <2>5. CASE UnlinkDead(p)
    <3>1. [procs[p] EXCEPT !.at = "acquire", !.retried = TRUE] \in ProcType
      BY <1>1, <1>2, <1>5, <1>6, <1>7 DEF ProcType, Steps, Inside
    <3> QED
      BY <2>5, <3>1, <1>9, <1>10, <1>12 DEF UnlinkDead, Steps, Inside
  <2>6. CASE Release(p)
    <3>1. procs[p].id \in Nat /\ procs[p].known \in Nat
      BY <1>1 DEF ProcType
    <3> QED
      BY <2>6, <3>1, <1>11 DEF Release
  <2>7. CASE Refuse(p)
    BY <2>7, <1>10, <1>12 DEF Refuse, Steps, Inside
  <2>8. CASE ReadToAppend(p)
    <3>1. [procs[p] EXCEPT !.at = "write", !.n = Len(files), !.id = minted + 1] \in ProcType
      BY <1>1, <1>2, <1>5, <1>6, <1>7 DEF ProcType, Steps, Inside
    <3> QED
      BY <2>8, <3>1, <1>9, <1>10, <1>12 DEF ReadToAppend, Steps, Inside
  <2>9. CASE WriteCheckpoint(p)
    BY <2>9, <1>10, <1>12 DEF WriteCheckpoint, Steps, Inside
  <2>10. CASE WriteCheckpointHead(p)
    <3>1. [procs[p] EXCEPT !.at = "release", !.done = TRUE] \in ProcType
      BY <1>1, <1>2, <1>5, <1>6, <1>7 DEF ProcType, Steps, Inside
    <3> QED
      BY <2>10, <3>1, <1>9, <1>10, <1>12 DEF WriteCheckpointHead, Steps, Inside
  <2>11. CASE ReadToConsume(p)
    <3>1. files # <<>> => [procs[p] EXCEPT !.at = "write", !.n = Len(files),
                                         !.id = procs[p].known,
                                         !.tip = Len(ReceiptsOf)] \in ProcType
      BY <1>1, <1>2, <1>5, <1>6, <1>7 DEF ProcType, Steps, Inside
    <3> QED
      BY <2>11, <3>1, <1>9, <1>10, <1>12 DEF ReadToConsume, Steps, Inside
  <2>12. CASE WriteReceipt(p)
    BY <2>12, <1>10, <1>12 DEF WriteReceipt, Steps, Inside
  <2>13. CASE WriteReceiptHead(p)
    <3>1. [procs[p] EXCEPT !.at = "release", !.done = TRUE] \in ProcType
      BY <1>1, <1>2, <1>5, <1>6, <1>7 DEF ProcType, Steps, Inside
    <3> QED
      BY <2>13, <3>1, <1>9, <1>10, <1>12 DEF WriteReceiptHead, Steps, Inside
  <2>14. CASE Pin(p)
    <3>1. files # <<>> => [procs[p] EXCEPT !.at = "resume", !.id = Latest.id] \in ProcType
      BY <1>1, <1>2, <1>5, <1>6, <1>7 DEF ProcType, Steps, Inside
    <3> QED
      BY <2>14, <3>1, <1>9, <1>10, <1>12 DEF Pin, Steps, Inside
  <2>15. CASE Resume(p)
    <3>1. files # <<>> => [procs[p] EXCEPT !.at = "reconstruct", !.tip = Tip,
                                         !.n = Latest.epoch + 1] \in ProcType
      BY <1>1, <1>2, <1>5, <1>6, <1>7 DEF ProcType, Steps, Inside
    <3> QED
      BY <2>15, <3>1, <1>9, <1>10, <1>12 DEF CallInv, Fits, Resume, Steps, Inside
  <2>16. CASE Reconstruct(p)
    BY <2>16, <1>10, <1>12 DEF Reconstruct, Steps, Inside
  <2>17. CASE AppendRecovered(p)
    <3>1. [procs[p] EXCEPT !.at = "release", !.done = TRUE, !.epoch = procs[p].n] \in ProcType
      BY <1>1, <1>2, <1>5, <1>6, <1>7 DEF ProcType, Steps, Inside
    <3> QED
      BY <2>17, <3>1, <1>9, <1>10, <1>12 DEF AppendRecovered, Steps, Inside
  <2>18. CASE Operate(p)
    <3>1. [procs[p] EXCEPT !.busy = ~procs[p].busy] \in ProcType
      BY <1>1, <1>2, <1>5, <1>6, <1>7 DEF ProcType, Steps, Inside
    <3> QED
      BY <2>18, <3>1, <1>9, <1>10, <1>12 DEF Operate, Steps, Inside
  <2>19. CASE Finalize(p)
    BY <2>19, <1>13 DEF Finalize
  <2>20. CASE Boot(p)
    <3>1. [procs[p] EXCEPT !.life = "up"] \in ProcType
      BY <1>1, <1>2, <1>5, <1>6, <1>7 DEF ProcType, Steps, Inside
    <3> QED
      BY <2>20, <3>1, <1>9, <1>10, <1>12 DEF Boot, Steps, Inside
  <2>21. CASE Crash(p)
    <3>1. [New EXCEPT !.life = "dead"] \in ProcType
      BY DEF New, ProcType, Steps
    <3> QED
      BY <2>21, <3>1, <1>9 DEF Crash
  <2>22. CASE BeginCheckpoint(p)
    <3>1. [procs[p] EXCEPT !.calls = procs[p].calls + 1, !.at = "tipped", !.op = "append",
                          !.tip = Tip] \in ProcType
      BY <1>1, <1>2, <1>5, <1>6, <1>7 DEF ProcType, Steps, Inside
    <3> QED
      BY <2>22, <3>1, <1>9, <1>10, <1>12 DEF BeginCheckpoint, Steps, Inside
  <2>23. CASE TakeSnapshot(p)
    BY <2>23, <1>10, <1>12 DEF TakeSnapshot, Steps, Inside
  <2>24. CASE BeginRecover(p)
    <3>1. [procs[p] EXCEPT !.calls = procs[p].calls + 1, !.at = "acquire", !.op = "recover"]
                \in ProcType
      BY <1>1, <1>2, <1>5, <1>6, <1>7 DEF ProcType, Steps, Inside
    <3> QED
      BY <2>24, <3>1, <1>9, <1>10, <1>12 DEF BeginRecover, Steps, Inside
  <2>25. ASSUME NEW r \in Requests, NEW cost \in 1..Budget, BeginConsume(p, r, cost)
        PROVE  G
    <3>1. [procs[p] EXCEPT !.calls = procs[p].calls + 1, !.at = "acquire", !.op = "consume",
                           !.req = r, !.cost = cost] \in ProcType
      BY <1>1, <1>7, <1>8 DEF ProcType, Steps
    <3> QED
      BY <2>25, <3>1, <1>9 DEF BeginConsume
  <2> QED
    BY <2>1, <2>2, <2>3, <2>4, <2>5, <2>6, <2>7, <2>8, <2>9, <2>10, <2>11, <2>12, <2>13, <2>14,
       <2>15, <2>16, <2>17, <2>18, <2>19, <2>20, <2>21, <2>22, <2>23, <2>24, <2>25
       DEF StoreCall, Runtime
<1> QED
  BY <1>1, <1>14 DEF G

-------------------------------------------------------------------------------
(***************************************************************************)
(* What a step writes, and how much.                                        *)
(***************************************************************************)

\* The ledger grows by one event at most, of its writer's making.
LEMMA LedgerGrows ==
  ASSUME TypeInv, CallInv, NEW p \in Processes, StoreCall(p) \/ Runtime(p)
  PROVE  \/ UNCHANGED ledger
         \/ \E e \in EventType :
              /\ ledger' = Append(ledger, e)
              /\ \/ AppendRecovered(p) /\ Tip = procs[p].tip
                    /\ e = [kind |-> "recovered", epoch |-> procs[p].n, tip |-> procs[p].tip,
                            from |-> procs[p].id]
                 \/ ~AppendRecovered(p) /\ e.kind # "recovered" /\ e.epoch = 0 /\ e.from = 0
<1>1. CASE AppendRecovered(p)
  <2>1. procs[p] \in ProcType
    BY DEF TypeInv
  <2>2. [kind |-> "recovered", epoch |-> procs[p].n, tip |-> procs[p].tip,
         from |-> procs[p].id] \in EventType
    BY <2>1 DEF ProcType, EventType, Kinds
  <2> QED
    BY <1>1, <2>2 DEF AppendRecovered, Appends, Fenced
<1>2. ASSUME NEW kind \in {"started", "settled", "terminal"}, Appends(EventOf(kind)),
             ~AppendRecovered(p)
      PROVE  \E e \in EventType :
              /\ ledger' = Append(ledger, e)
              /\ e.kind # "recovered" /\ e.epoch = 0 /\ e.from = 0
  <2>1. EventOf(kind) \in EventType
    BY DEF EventOf, EventType, Kinds
  <2>2. EventOf(kind).kind # "recovered" /\ EventOf(kind).epoch = 0 /\ EventOf(kind).from = 0
    BY DEF EventOf
  <2> QED
    BY <1>2, <2>1, <2>2 DEF Appends
<1>3. CASE Operate(p) /\ ~AppendRecovered(p)
  BY <1>2, <1>3 DEF Operate
<1>4. CASE Finalize(p) /\ ~AppendRecovered(p)
  BY <1>2, <1>4 DEF Finalize
<1>5. CASE ~Operate(p) /\ ~Finalize(p) /\ ~AppendRecovered(p)
  BY <1>5 DEF StoreCall, Runtime, Create, Mark, MeetLock, RecheckOwner, UnlinkDead, Release,
     Refuse,
       ReadToAppend, WriteCheckpoint, WriteCheckpointHead, ReadToConsume, WriteReceipt,
       WriteReceiptHead, Pin, Resume, Reconstruct, Boot, Crash, BeginCheckpoint, TakeSnapshot,
       BeginRecover, BeginConsume
<1> QED
  BY <1>1, <1>3, <1>4, <1>5

\* Only a writer changes the files.
LEMMA FilesGrow ==
  ASSUME TypeInv, CallInv, NEW p \in Processes, StoreCall(p) \/ Runtime(p)
  PROVE  /\ files' \in Seq(RecordType) /\ Len(files') <= MaxRecords
         /\ \/ ~WriteCheckpoint(p) /\ UNCHANGED files
            \/ /\ WriteCheckpoint(p)
               /\ Len(files') = IF procs[p].n = Len(files) THEN Len(files) + 1 ELSE Len(files)
               /\ files'[procs[p].n + 1].id = procs[p].id
               /\ files'[procs[p].n + 1].tip = procs[p].tip
               /\ procs[p].n + 1 \in 1..Len(files')
               /\ \A m \in 1..Len(files') : m # procs[p].n + 1 =>
                    m \in 1..Len(files) /\ files'[m] = files[m]
<1>1. /\ files \in Seq(RecordType) /\ Len(files) <= MaxRecords /\ Len(files) \in Nat
      /\ DOMAIN files = 1..Len(files)
  BY LenProperties DEF TypeInv
<1>2. CASE ~WriteCheckpoint(p)
  <2>1. UNCHANGED files
    BY <1>2 DEF StoreCall, Runtime, Create, Mark, MeetLock, RecheckOwner, UnlinkDead, Release,
         Refuse, ReadToAppend, WriteCheckpointHead, ReadToConsume, WriteReceipt, WriteReceiptHead,
         Pin, Resume, Reconstruct, AppendRecovered, Boot, Crash, Operate, Finalize,
         BeginCheckpoint, TakeSnapshot, BeginRecover, BeginConsume, storeVars
  <2> QED
    BY <1>1, <1>2, <2>1
<1>3. CASE WriteCheckpoint(p)
  <2> DEFINE n == procs[p].n
             len == IF n = Len(files) THEN n + 1 ELSE Len(files)
             record == [id |-> procs[p].id, prev |-> IF n = 0 THEN 0 ELSE files[n].id,
                        epoch |-> procs[p].epoch, tip |-> procs[p].tip]
  <2>1. procs[p] \in ProcType /\ n \in Nat /\ n <= Len(files) /\ n < MaxRecords
    BY <1>3 DEF TypeInv, CallInv, Fits, WriteCheckpoint, ProcType
  <2>2. n > 0 => files[n] \in RecordType
    BY <1>1, <2>1
  <2>3. record \in RecordType
    <3>1. (IF n = 0 THEN 0 ELSE files[n].id) \in Nat
      BY <2>1, <2>2 DEF RecordType
    <3>2. procs[p].id \in Nat /\ procs[p].epoch \in Nat /\ procs[p].tip \in Nat
      BY <2>1 DEF ProcType
    <3> QED
      BY <3>1, <3>2 DEF RecordType
  <2>4. len \in Nat /\ n + 1 \in 1..len /\ len <= MaxRecords
    BY <1>1, <2>1, BoundsAssumption
  <2>5. files' = [m \in 1..len |-> IF m = n + 1 THEN record ELSE files[m]]
    BY <1>3 DEF WriteCheckpoint
  <2>6. \A m \in 1..len : m # n + 1 => m \in 1..Len(files) /\ files[m] \in RecordType
    BY <1>1, <2>1
  <2> HIDE DEF len, record
  <2>7. files' \in [1..len -> RecordType]
    BY <2>3, <2>5, <2>6
  <2>8. files' \in Seq(RecordType) /\ Len(files') = len
    <3>1. files' \in Seq(RecordType)
      BY <2>4, <2>7, IsASeq
    <3>2. Len(files') \in Nat
      BY <3>1, LenProperties
    <3>3. 1..Len(files') = 1..len
      <4>1. DOMAIN files' = 1..Len(files')
        BY <3>1, LenProperties
      <4>2. DOMAIN files' = 1..len
        BY <2>7
      <4> QED
        BY <4>1, <4>2
    <3>4. len >= 1 /\ len \in 1..len
      BY <2>4
    <3>5. Len(files') = len
      BY <2>4, <3>2, <3>3, <3>4
    <3> QED
      BY <3>1, <3>5
  <2>9. files'[n + 1] = record
    BY <2>4, <2>5
  <2>10. record.id = procs[p].id /\ record.tip = procs[p].tip
    BY DEF record
  <2>11. \A m \in 1..len : m # n + 1 => files'[m] = files[m]
    BY <2>5
  <2> QED
    BY <1>3, <2>1, <2>4, <2>6, <2>8, <2>9, <2>10, <2>11 DEF len
<1> QED
  BY <1>2, <1>3

\* Who writes what.
LEMMA Frames ==
  ASSUME NEW p \in Processes, StoreCall(p) \/ Runtime(p)
  PROVE  /\ ~WriteCheckpoint(p) => UNCHANGED files
         /\ ~WriteCheckpointHead(p) => UNCHANGED head
         /\ ~WriteReceipt(p) => UNCHANGED receipts
         /\ ~WriteReceiptHead(p) => UNCHANGED receiptHeads
         /\ ~Create(p) /\ ~Mark(p) /\ ~UnlinkDead(p) /\ ~Release(p) => UNCHANGED lock
         /\ ~ReadToAppend(p) => UNCHANGED minted
         /\ ~Release(p) => UNCHANGED <<kept, spent>>
         /\ ~UnlinkDead(p) => UNCHANGED stolen
BY DEF StoreCall, Runtime, Create, Mark, MeetLock, RecheckOwner, UnlinkDead, Release, Refuse,
         ReadToAppend, WriteCheckpoint, WriteCheckpointHead, ReadToConsume, WriteReceipt,
         WriteReceiptHead, Pin, Resume, Reconstruct, AppendRecovered, Operate, Finalize, Boot,
         Crash, BeginCheckpoint, TakeSnapshot, BeginRecover, BeginConsume, storeVars

\* The type invariant.
LEMMA TypeStep ==
  ASSUME TypeInv, CallInv, NEW p \in Processes, StoreCall(p) \/ Runtime(p)
  PROVE  TypeInv'
<1>1. procs' \in [Processes -> ProcType]
  BY Moves
<1>2. files' \in Seq(RecordType) /\ Len(files') <= MaxRecords
  BY FilesGrow
<1>3. ledger' \in Seq(EventType) /\ Tip' >= 1
  <2>1. ledger \in Seq(EventType) /\ Len(ledger) \in Nat /\ Len(ledger) >= 1
    BY LenProperties DEF TypeInv, Tip
  <2>2. ASSUME NEW e \in EventType, ledger' = Append(ledger, e)
        PROVE  ledger' \in Seq(EventType) /\ Tip' >= 1
    BY <2>1, <2>2, AppendProperties DEF Tip
  <2> QED
    BY <2>1, <2>2, LedgerGrows DEF Tip
<1>4. procs[p] \in ProcType /\ procs[p].n + 1 \in Nat /\ procs[p].tip + 1 \in Nat
      /\ procs[p].id \in Nat
  <2>1. procs[p] \in ProcType
    BY DEF TypeInv
  <2>2. procs[p].n \in Nat /\ procs[p].tip \in Nat /\ procs[p].id \in Nat
    BY <2>1 DEF ProcType
  <2> QED
    BY <2>1, <2>2
<1>5. head' \in HeadType
  <2>1. CASE WriteCheckpointHead(p)
    BY <1>4, <2>1 DEF WriteCheckpointHead, HeadType
  <2>2. CASE ~WriteCheckpointHead(p)
    BY <2>2, Frames DEF TypeInv
  <2> QED
    BY <2>1, <2>2
<1>6. receiptHeads' \in [1..MaxRecords -> HeadType]
  <2>1. CASE WriteReceiptHead(p)
    <3>1. [n |-> procs[p].tip + 1, id |-> procs[p].id] \in HeadType
      BY <1>4 DEF HeadType
    <3> QED
      BY <2>1, <3>1 DEF WriteReceiptHead, TypeInv
  <2>2. CASE ~WriteReceiptHead(p)
    BY <2>2, Frames DEF TypeInv
  <2> QED
    BY <2>1, <2>2
<1>7. receipts' \in [1..MaxRecords -> Seq(ReceiptType)]
  <2>1. CASE WriteReceipt(p)
    <3> DEFINE old == receipts[procs[p].n]
               receipt == [id |-> procs[p].id, req |-> procs[p].req, cost |-> procs[p].cost]
               new == IF procs[p].tip = Len(old) THEN Append(old, receipt)
                                                  ELSE [old EXCEPT ![procs[p].tip + 1] = receipt]
    <3>1. receipt \in ReceiptType
      BY <1>4, <2>1 DEF ReceiptType, ProcType, CallInv, Fits, WriteReceipt
    <3>2. procs[p].n \in 1..Len(files) /\ Len(files) \in Nat /\ Len(files) <= MaxRecords
      BY <2>1, LenProperties DEF CallInv, Fits, TypeInv, WriteReceipt
    <3>3. procs[p].n \in 1..MaxRecords
      BY <3>2, BoundsAssumption
    <3>4. old \in Seq(ReceiptType)
      BY <3>3 DEF TypeInv
    <3>5. new \in Seq(ReceiptType)
      <4>1. procs[p].tip \in Nat /\ procs[p].tip <= Len(old) /\ Len(old) \in Nat
        BY <1>4, <2>1, <3>4, LenProperties DEF ProcType, CallInv, Fits, WriteReceipt
      <4>2. CASE procs[p].tip = Len(old)
        BY <3>1, <3>4, <4>2, AppendProperties
      <4>3. CASE procs[p].tip # Len(old)
        <5>1. procs[p].tip + 1 \in 1..Len(old)
          BY <4>1, <4>3
        <5> QED
          BY <3>1, <3>4, <4>3, <5>1, ExceptSeq
      <4> QED
        BY <4>2, <4>3
    <3>6. receipts' = [receipts EXCEPT ![procs[p].n] = new]
      BY <2>1 DEF WriteReceipt
    <3> HIDE DEF new
    <3> QED
      BY <3>3, <3>5, <3>6 DEF TypeInv
  <2>2. CASE ~WriteReceipt(p)
    BY <2>2, Frames DEF TypeInv
  <2> QED
    BY <2>1, <2>2
<1>8. lock' \in [owner : Processes \cup {0}, written : BOOLEAN]
  <2>1. CASE Create(p)
    BY <2>1 DEF Create
  <2>2. CASE Mark(p)
    BY <2>2 DEF Mark, TypeInv
  <2>3. CASE UnlinkDead(p) \/ Release(p)
    <3>1. Free \in [owner : Processes \cup {0}, written : BOOLEAN]
      BY DEF Free
    <3> QED
      BY <2>3, <3>1 DEF UnlinkDead, Release, TypeInv
  <2>4. CASE ~Create(p) /\ ~Mark(p) /\ ~UnlinkDead(p) /\ ~Release(p)
    BY <2>4, Frames DEF TypeInv
  <2> QED
    BY <2>1, <2>2, <2>3, <2>4
<1>9. minted' \in Nat
  <2>1. CASE ReadToAppend(p)
    BY <2>1 DEF ReadToAppend, TypeInv
  <2>2. CASE ~ReadToAppend(p)
    BY <2>2, Frames DEF TypeInv
  <2> QED
    BY <2>1, <2>2
<1>10. kept' \in SUBSET HeadType
  <2>1. CASE Release(p)
    <3>1. [n |-> procs[p].n + 1, id |-> procs[p].id] \in HeadType
      BY <1>4 DEF HeadType
    <3> QED
      BY <2>1, <3>1 DEF Release, TypeInv
  <2>2. CASE ~Release(p)
    BY <2>2, Frames DEF TypeInv
  <2> QED
    BY <2>1, <2>2
<1>11. spent' \in SUBSET [id : Nat, req : Requests, cost : Nat, by : Processes]
  <2>1. CASE Release(p)
    <3>1. procs[p].op = "consume" =>
            [id |-> procs[p].id, req |-> procs[p].req, cost |-> procs[p].cost, by |-> p]
              \in [id : Nat, req : Requests, cost : Nat, by : Processes]
      BY <1>4 DEF ProcType, CallInv, Fits
    <3> QED
      BY <2>1, <3>1 DEF Release, TypeInv
  <2>2. CASE ~Release(p)
    BY <2>2, Frames DEF TypeInv
  <2> QED
    BY <2>1, <2>2
<1>12. stolen' \in BOOLEAN
  <2>1. CASE UnlinkDead(p)
    BY <2>1 DEF UnlinkDead
  <2>2. CASE ~UnlinkDead(p)
    BY <2>2, Frames DEF TypeInv
  <2> QED
    BY <2>1, <2>2
<1> QED
  BY <1>1, <1>2, <1>3, <1>5, <1>6, <1>7, <1>8, <1>9, <1>10, <1>11, <1>12 DEF TypeInv

\* Nothing gets shorter.
LEMMA Grows ==
  ASSUME TypeInv, CallInv, NEW p \in Processes, StoreCall(p) \/ Runtime(p)
  PROVE  /\ Len(files) <= Len(files') /\ Len(files) \in Nat /\ Len(files') \in Nat
         /\ Tip <= Tip' /\ Tip \in Nat /\ Tip' \in Nat
         /\ \A m \in 1..MaxRecords : /\ Len(receipts[m]) <= Len(receipts'[m])
                                     /\ Len(receipts[m]) \in Nat /\ Len(receipts'[m]) \in Nat
<1>1. TypeInv'
  BY TypeStep
<1>2. Len(files) <= Len(files') /\ Len(files) \in Nat /\ Len(files') \in Nat
  <2>1. Len(files) \in Nat /\ Len(files') \in Nat
    BY <1>1, LenProperties DEF TypeInv
  <2> QED
    BY <2>1, FilesGrow
<1>3. Tip <= Tip' /\ Tip \in Nat /\ Tip' \in Nat
  <2>1. Tip \in Nat /\ Tip' \in Nat
    BY <1>1, LenProperties DEF TypeInv, Tip
  <2>2. ASSUME NEW e \in EventType, ledger' = Append(ledger, e) PROVE Tip <= Tip'
    BY <2>1, <2>2, AppendProperties DEF Tip, TypeInv
  <2> QED
    BY <2>1, <2>2, LedgerGrows DEF Tip
<1>4. ASSUME NEW m \in 1..MaxRecords
      PROVE  /\ Len(receipts[m]) <= Len(receipts'[m])
             /\ Len(receipts[m]) \in Nat /\ Len(receipts'[m]) \in Nat
  <2>1. receipts[m] \in Seq(ReceiptType) /\ Len(receipts[m]) \in Nat /\ Len(receipts'[m]) \in Nat
    BY <1>1, LenProperties DEF TypeInv
  <2>2. CASE ~WriteReceipt(p)
    BY <2>1, <2>2, Frames
  <2>3. CASE WriteReceipt(p)
    <3> DEFINE receipt == [id |-> procs[p].id, req |-> procs[p].req, cost |-> procs[p].cost]
    <3>1. receipt \in ReceiptType
      BY <2>3 DEF ReceiptType, ProcType, CallInv, Fits, WriteReceipt, TypeInv
    <3>2. \/ receipts'[m] = receipts[m]
          \/ receipts'[m] = Append(receipts[m], receipt)
          \/ receipts'[m] = [receipts[m] EXCEPT ![procs[p].tip + 1] = receipt]
      BY <2>3 DEF WriteReceipt, TypeInv
    <3> HIDE DEF receipt
    <3>3. DOMAIN [receipts[m] EXCEPT ![procs[p].tip + 1] = receipt] = DOMAIN receipts[m]
      OBVIOUS
    <3>4. DOMAIN receipts[m] = 1..Len(receipts[m]) /\ DOMAIN receipts'[m] = 1..Len(receipts'[m])
      BY <1>1, LenProperties DEF TypeInv
    <3>5. CASE receipts'[m] = Append(receipts[m], receipt)
      BY <2>1, <3>1, <3>5, AppendProperties
    <3>6. CASE DOMAIN receipts'[m] = DOMAIN receipts[m]
      BY <2>1, <3>4, <3>6
    <3> QED
      BY <3>2, <3>3, <3>5, <3>6
  <2> QED
    BY <2>2, <2>3
<1> QED
  BY <1>2, <1>3, <1>4

\* Every call stays where it may be.
LEMMA CallStep ==
  ASSUME TypeInv, CallInv, NEW p \in Processes, StoreCall(p) \/ Runtime(p)
  PROVE  CallInv'
<1>1. TypeInv' /\ procs'[p] \in ProcType /\ procs[p] \in ProcType
      /\ procs \in [Processes -> ProcType]
  BY TypeStep, Moves DEF TypeInv
<1>2. ASSUME NEW q \in Processes, procs'[q] = procs[q]
      PROVE  Fits(procs[q])'
  <2>1. Fits(procs[q])
    BY DEF CallInv
  <2>2. procs[q].op = "append" /\ procs[q].at = "write" =>
          procs[q].n <= Len(files') /\ procs[q].n < MaxRecords
    <3>1. procs[q].n \in Nat
      BY DEF TypeInv, ProcType
    <3> QED
      BY <2>1, <3>1, Grows DEF Fits
  <2>3. procs[q].op = "consume" /\ procs[q].at \in {"write", "head"} =>
          /\ procs[q].n \in 1..Len(files')
          /\ procs[q].tip <= Len(receipts'[procs[q].n])
    <3> SUFFICES ASSUME procs[q].op = "consume", procs[q].at \in {"write", "head"}
                 PROVE  /\ procs[q].n \in 1..Len(files')
                        /\ procs[q].tip <= Len(receipts'[procs[q].n])
      OBVIOUS
    <3>1. procs[q].n \in 1..Len(files) /\ procs[q].tip <= Len(receipts[procs[q].n])
      BY <2>1 DEF Fits
    <3>2. procs[q].n \in 1..MaxRecords /\ procs[q].n \in 1..Len(files')
      BY <3>1, Grows, BoundsAssumption DEF TypeInv
    <3>3. procs[q].tip \in Nat
      BY DEF TypeInv, ProcType
    <3> QED
      BY <3>1, <3>2, <3>3, Grows
  <2>4. procs[q].op = "recover" /\ procs[q].at \in {"reconstruct", "recover"} =>
          procs[q].tip \in 1..Tip'
    BY <2>1, Grows DEF Fits
  <2>5. files # <<>> => files' # <<>>
    BY Grows, EmptySeq DEF TypeInv
  <2> QED
    BY <1>2, <2>1, <2>2, <2>3, <2>4, <2>5 DEF Fits
<1>3. Fits(procs[p]) /\ Len(files) \in Nat /\ Tip \in Nat /\ Tip >= 1
  BY Grows DEF TypeInv, CallInv
<1>4. ASSUME NEW r, Set(p, r), Fits(r)' PROVE Fits(procs[p])'
  BY <1>1, <1>4 DEF Set
<1>5. ASSUME NEW k, Back(p, k) PROVE Fits(procs[p])'
  <2>1. PICK r : r = [New EXCEPT !.life = "up", !.epoch = procs[p].epoch, !.known = k,
                                 !.busy = procs[p].busy, !.calls = procs[p].calls]
    OBVIOUS
  <2>2. Fits(r)'
    BY <2>1 DEF Fits, New, Inside
  <2> QED
    BY <1>4, <1>5, <2>1, <2>2 DEF Back
<1>6. ASSUME NEW s \in {"mark", "read", "release", "unlink", "acquire"}, GoTo(p, s),
             procs[p].at # "idle"
      PROVE  Fits(procs[p])'
  <2>1. PICK r : r = [procs[p] EXCEPT !.at = s]
    OBVIOUS
  <2>2. Fits(r)'
    BY <1>1, <1>3, <1>6, <2>1 DEF Fits, Inside, ProcType, Steps
  <2> QED
    BY <1>4, <1>6, <2>1, <2>2 DEF GoTo
<1>7. Quit(p) => Fits(procs[p])'
  BY <1>5 DEF Quit
<1>8. Fits(procs[p])'
  <2>1. CASE Create(p)
    BY <2>1, <1>6, <1>7 DEF Create
  <2>2. CASE Mark(p)
    BY <2>2, <1>6, <1>7 DEF Mark
  <2>3. CASE MeetLock(p)
    <3>1. PICK r : r = [procs[p] EXCEPT !.at = "recheck", !.prey = lock.owner]
      OBVIOUS
    <3>2. Fits(r)'
      BY <3>1, <1>1, <1>3, <2>3, Grows DEF MeetLock, Fits, Inside, ProcType, Steps, Begins, Up,
         Tip, storeVars
    <3> QED
      BY <2>3, <3>1, <3>2, <1>4, <1>6, <1>7 DEF MeetLock, GoTo
  <2>4. CASE RecheckOwner(p)
    BY <2>4, <1>6, <1>7 DEF RecheckOwner
  <2>5. CASE UnlinkDead(p)
    <3>1. PICK r : r = [procs[p] EXCEPT !.at = "acquire", !.retried = TRUE]
      OBVIOUS
    <3>2. Fits(r)'
      BY <3>1, <1>1, <1>3, <2>5, Grows DEF UnlinkDead, Fits, Inside, ProcType, Steps, Begins,
         Up, Tip, storeVars
    <3> QED
      BY <2>5, <3>1, <3>2, <1>4, <1>6, <1>7 DEF UnlinkDead, GoTo
  <2>6. CASE Release(p)
    BY <2>6, <1>5 DEF Release
  <2>7. CASE Refuse(p)
    BY <2>7, <1>6, <1>7 DEF Refuse
  <2>8. CASE ReadToAppend(p)
    <3>1. PICK r : r = [procs[p] EXCEPT !.at = "write", !.n = Len(files), !.id = minted + 1]
      OBVIOUS
    <3>2. Len(files) < MaxRecords => Fits(r)'
      BY <3>1, <1>1, <1>3, <2>8, Grows DEF ReadToAppend, Fits, Inside, ProcType, Steps, Begins,
         Up, Tip, storeVars
    <3> QED
      BY <2>8, <3>1, <3>2, <1>4, <1>6, <1>7 DEF ReadToAppend, GoTo
  <2>9. CASE WriteCheckpoint(p)
    <3>1. PICK r : r = [procs[p] EXCEPT !.at = "head"]
      OBVIOUS
    <3>2. Fits(r)'
      BY <3>1, <1>1, <1>3, <2>9, Grows DEF WriteCheckpoint, Fits, Inside, ProcType, Steps,
         Begins, Up, Tip, storeVars
    <3> QED
      BY <2>9, <3>1, <3>2, <1>4, <1>6, <1>7 DEF WriteCheckpoint, GoTo
  <2>10. CASE WriteCheckpointHead(p)
    <3>1. PICK r : r = [procs[p] EXCEPT !.at = "release", !.done = TRUE]
      OBVIOUS
    <3>2. Fits(r)'
      BY <3>1, <1>1, <1>3, <2>10, Grows DEF WriteCheckpointHead, Fits, Inside, ProcType, Steps,
         Begins, Up, Tip, storeVars
    <3> QED
      BY <2>10, <3>1, <3>2, <1>4, <1>6, <1>7 DEF WriteCheckpointHead, GoTo
  <2>11. CASE ReadToConsume(p)
    <3>1. PICK r : r = [procs[p] EXCEPT !.at = "write", !.n = Len(files), !.id = procs[p].known,
                          !.tip = Len(ReceiptsOf)]
      OBVIOUS
    <3>2. UNCHANGED <<files, receipts>> /\ procs[p].op = "consume" /\ procs[p].life = "up"
          /\ procs[p].req \in Requests
      BY <1>1, <1>3, <2>11 DEF ReadToConsume, storeVars, Fits, ProcType
    <3>3. files # <<>> => /\ Len(files) \in 1..Len(files)
                          /\ Len(ReceiptsOf) <= Len(receipts[Len(files)])
      <4>1. files # <<>> => Len(files) \in 1..Len(files) /\ Len(files) \in 1..MaxRecords
        BY <1>1, <1>3, BoundsAssumption DEF TypeInv
      <4> QED
        BY <4>1, Grows DEF ReceiptsOf
    <3>4. r.at = "write" /\ r.op = "consume" /\ r.life = "up" /\ r.req \in Requests
          /\ r.n = Len(files) /\ r.tip = Len(ReceiptsOf)
      BY <1>1, <3>1, <3>2 DEF ProcType
    <3>5. files # <<>> => Fits(r)'
      BY <3>2, <3>3, <3>4 DEF Fits, Inside
    <3> QED
      BY <2>11, <3>1, <3>5, <1>4, <1>6, <1>7 DEF ReadToConsume, GoTo
  <2>12. CASE WriteReceipt(p)
    <3>1. PICK r : r = [procs[p] EXCEPT !.at = "head"]
      OBVIOUS
    <3>2. /\ procs[p].op = "consume" /\ procs[p].life = "up" /\ procs[p].req \in Requests
          /\ procs[p].n \in 1..Len(files) /\ procs[p].tip <= Len(receipts[procs[p].n])
      BY <1>1, <1>3, <2>12 DEF WriteReceipt, Fits, ProcType
    <3>3. procs[p].n \in 1..Len(files') /\ procs[p].tip <= Len(receipts'[procs[p].n])
      <4>0. /\ Len(files) <= MaxRecords /\ MaxRecords \in Nat
            /\ Len(files) \in Nat /\ Len(files') \in Nat /\ Len(files) <= Len(files')
            /\ procs[p].n \in 1..Len(files)
        BY <3>2, Grows, BoundsAssumption DEF TypeInv
      <4>1. procs[p].n \in 1..Len(files') /\ procs[p].n \in 1..MaxRecords
        BY ONLY <4>0
      <4>2. procs[p].tip \in Nat /\ procs[p].tip <= Len(receipts[procs[p].n])
        BY <1>1, <3>2 DEF ProcType
      <4>3. /\ Len(receipts[procs[p].n]) <= Len(receipts'[procs[p].n])
            /\ Len(receipts[procs[p].n]) \in Nat /\ Len(receipts'[procs[p].n]) \in Nat
        BY <4>1, Grows
      <4>4. procs[p].tip <= Len(receipts'[procs[p].n])
        BY ONLY <4>2, <4>3
      <4> QED
        BY <4>1, <4>4
    <3>4. r.at = "head" /\ r.op = "consume" /\ r.life = "up" /\ r.req \in Requests
          /\ r.n = procs[p].n /\ r.tip = procs[p].tip
      BY <1>1, <3>1, <3>2 DEF ProcType
    <3>5. Fits(r)'
      BY <3>3, <3>4 DEF Fits, Inside
    <3> QED
      BY <2>12, <3>1, <3>5, <1>4, <1>6, <1>7 DEF WriteReceipt, GoTo
  <2>13. CASE WriteReceiptHead(p)
    <3>1. PICK r : r = [procs[p] EXCEPT !.at = "release", !.done = TRUE]
      OBVIOUS
    <3>2. Fits(r)'
      BY <3>1, <1>1, <1>3, <2>13, Grows DEF WriteReceiptHead, Fits, Inside, ProcType, Steps,
         Begins, Up, Tip, storeVars
    <3> QED
      BY <2>13, <3>1, <3>2, <1>4, <1>6, <1>7 DEF WriteReceiptHead, GoTo
  <2>14. CASE Pin(p)
    <3>1. PICK r : r = [procs[p] EXCEPT !.at = "resume", !.id = Latest.id]
      OBVIOUS
    <3>2. files # <<>> => Fits(r)'
      BY <3>1, <1>1, <1>3, <2>14, Grows DEF Pin, Fits, Inside, ProcType, Steps, Begins, Up, Tip,
         storeVars
    <3> QED
      BY <2>14, <3>1, <3>2, <1>4, <1>6, <1>7 DEF Pin, GoTo
  <2>15. CASE Resume(p)
    <3>1. PICK r : r = [procs[p] EXCEPT !.at = "reconstruct", !.tip = Tip, !.n = Latest.epoch + 1]
      OBVIOUS
    <3>2. UNCHANGED <<files, ledger>> /\ procs[p].op = "recover" /\ procs[p].life = "up"
          /\ files # <<>>
      BY <1>1, <1>3, <2>15 DEF Resume, storeVars, Fits, ProcType
    <3>3. Tip' = Tip /\ Tip \in 1..Tip
      BY <1>3, <3>2 DEF Tip
    <3>4. r.at = "reconstruct" /\ r.op = "recover" /\ r.life = "up" /\ r.tip = Tip
      BY <1>1, <3>1, <3>2 DEF ProcType
    <3>5. Fits(r)'
      BY <3>2, <3>3, <3>4 DEF Fits, Inside
    <3> QED
      BY <2>15, <3>1, <3>5, <1>4, <1>6, <1>7 DEF Resume, GoTo
  <2>16. CASE Reconstruct(p)
    <3>1. PICK r : r = [procs[p] EXCEPT !.at = "recover"]
      OBVIOUS
    <3>2. Fits(r)'
      BY <3>1, <1>1, <1>3, <2>16, Grows DEF Reconstruct, Fits, Inside, ProcType, Steps, Begins,
         Up, Tip, storeVars
    <3> QED
      BY <2>16, <3>1, <3>2, <1>4, <1>6, <1>7 DEF Reconstruct, GoTo
  <2>17. CASE AppendRecovered(p)
    <3>1. PICK r : r = [procs[p] EXCEPT !.at = "release", !.done = TRUE, !.epoch = procs[p].n]
      OBVIOUS
    <3>2. Fits(r)'
      BY <3>1, <1>1, <1>3, <2>17, Grows DEF AppendRecovered, Fits, Inside, ProcType, Steps,
         Begins, Up, Tip, storeVars
    <3> QED
      BY <2>17, <3>1, <3>2, <1>4, <1>6, <1>7 DEF AppendRecovered, GoTo
  <2>18. CASE Operate(p)
    <3>1. PICK r : r = [procs[p] EXCEPT !.busy = ~procs[p].busy]
      OBVIOUS
    <3>2. Fits(r)'
      BY <3>1, <1>1, <1>3, <2>18, Grows DEF Operate, Fits, Inside, ProcType, Steps, Begins, Up,
         Tip, storeVars
    <3> QED
      BY <2>18, <3>1, <3>2, <1>4, <1>6, <1>7 DEF Operate, GoTo
  <2>19. CASE Finalize(p)
    BY <2>19, <1>2 DEF Finalize
  <2>20. CASE Boot(p)
    <3>1. PICK r : r = [procs[p] EXCEPT !.life = "up"]
      OBVIOUS
    <3>2. Fits(r)'
      BY <3>1, <1>1, <1>3, <2>20, Grows DEF Boot, Fits, Inside, ProcType, Steps, Begins, Up,
         Tip, storeVars
    <3> QED
      BY <2>20, <3>1, <3>2, <1>4, <1>6, <1>7 DEF Boot, GoTo
  <2>21. CASE Crash(p)
    <3>1. PICK r : r = [New EXCEPT !.life = "dead"]
      OBVIOUS
    <3>2. Fits(r)'
      BY <3>1 DEF New, Fits, Inside
    <3> QED
      BY <2>21, <3>1, <3>2, <1>4 DEF Crash
  <2>22. CASE BeginCheckpoint(p)
    <3>1. PICK r : r = [procs[p] EXCEPT !.calls = procs[p].calls + 1, !.at = "tipped",
                                 !.op = "append",
                          !.tip = Tip]
      OBVIOUS
    <3>2. Fits(r)'
      BY <3>1, <1>1, <1>3, <2>22, Grows DEF BeginCheckpoint, Fits, Inside, ProcType, Steps,
         Begins, Up, Tip, storeVars
    <3> QED
      BY <2>22, <3>1, <3>2, <1>4, <1>6, <1>7 DEF BeginCheckpoint, GoTo
  <2>23. CASE TakeSnapshot(p)
    BY <2>23, <1>6, <1>7 DEF TakeSnapshot
  <2>24. CASE BeginRecover(p)
    <3>1. PICK r : r = [procs[p] EXCEPT !.calls = procs[p].calls + 1, !.at = "acquire",
                                 !.op = "recover"]
      OBVIOUS
    <3>2. Fits(r)'
      BY <3>1, <1>1, <1>3, <2>24, Grows DEF BeginRecover, Fits, Inside, ProcType, Steps, Begins,
         Up, Tip, storeVars
    <3> QED
      BY <2>24, <3>1, <3>2, <1>4, <1>6, <1>7 DEF BeginRecover, GoTo
  <2>25. ASSUME NEW r \in Requests, NEW cost \in 1..Budget, BeginConsume(p, r, cost)
        PROVE  Fits(procs[p])'
    <3>1. PICK x : x = [procs[p] EXCEPT !.calls = procs[p].calls + 1, !.at = "acquire",
                                 !.op = "consume",
                                !.req = r, !.cost = cost]
      OBVIOUS
    <3>2. Fits(x)'
      BY <3>1, <1>1, <1>3, <2>25 DEF BeginConsume, Fits, Inside, ProcType, Steps, Begins, Up
    <3> QED
      BY <2>25, <3>1, <3>2, <1>4 DEF BeginConsume
  <2> QED
    BY <2>1, <2>2, <2>3, <2>4, <2>5, <2>6, <2>7, <2>8, <2>9, <2>10, <2>11, <2>12, <2>13, <2>14,
       <2>15, <2>16, <2>17, <2>18, <2>19, <2>20, <2>21, <2>22, <2>23, <2>24, <2>25
       DEF StoreCall, Runtime
<1> QED
  BY <1>2, <1>8, Moves DEF CallInv

-------------------------------------------------------------------------------
(***************************************************************************)
(* One step of a call.                                                      *)
(***************************************************************************)

\* A process of which all but the given fields stays.
Fields == {"at", "op", "tip", "n", "id", "req", "cost", "prey", "done", "known", "epoch", "life"}
But(me, now, changed) == \A f \in Fields \ changed : now[f] = me[f]

\* A call that moves to its next step.
Steady(me, now) == But(me, now, {"at"})

\* A call that has ended: it leaves the epoch of its process.
Ended(me, now) ==
  /\ now.at = "idle" /\ now.op = "none" /\ now.id = 0 /\ now.prey = 0 /\ now.done = FALSE
  /\ now.epoch = me.epoch /\ now.life = "up"

\* What every action makes of the call of its process.
LEMMA After ==
  ASSUME TypeInv, NEW p \in Processes
  PROVE  LET me == procs[p] now == procs'[p] IN
         /\ Create(p) =>
            /\ me.at = "acquire"
            /\ Steady(me, now) /\ now.at = "mark"
         /\ Mark(p) =>
            /\ me.at = "mark"
            /\ Steady(me, now) /\ now.at = "read"
         /\ MeetLock(p) =>
            /\ me.at = "acquire"
            /\ \/ Ended(me, now) /\ now.known = me.known
               \/ /\ lock.written /\ ~Up(lock.owner)
                  /\ now.at = "recheck" /\ now.prey = lock.owner
                  /\ But(me, now, {"at", "prey"})
         /\ RecheckOwner(p) =>
            /\ me.at = "recheck"
            /\ \/ /\ lock.written /\ lock.owner = me.prey
                  /\ Steady(me, now) /\ now.at = "unlink"
               \/ Ended(me, now) /\ now.known = me.known
         /\ UnlinkDead(p) =>
            /\ me.at = "unlink"
            /\ \/ Ended(me, now) /\ now.known = me.known
               \/ /\ now.at = "acquire"
                  /\ But(me, now, {"at"})
         /\ Release(p) =>
            /\ me.at = "release"
            /\ Ended(me, now) /\ now.known = (IF me.done THEN me.id ELSE me.known)
         /\ Refuse(p) =>
            /\ me.at \in {"read", "resume", "reconstruct"}
            /\ Steady(me, now) /\ now.at = "release"
         /\ ReadToAppend(p) =>
            /\ me.op = "append" /\ me.at = "read"
            /\ \/ /\ StoreOK /\ Len(files) < MaxRecords /\ minted' = minted + 1
                  /\ now.at = "write" /\ now.n = Len(files) /\ now.id = minted + 1
                  /\ But(me, now, {"at", "n", "id"})
               \/ Steady(me, now) /\ now.at = "release"
         /\ WriteCheckpoint(p) =>
            /\ me.op = "append" /\ me.at = "write"
            /\ Steady(me, now) /\ now.at = "head"
         /\ WriteCheckpointHead(p) =>
            /\ me.op = "append" /\ me.at = "head"
            /\ now.at = "release" /\ now.done = TRUE
            /\ But(me, now, {"at", "done"})
         /\ ReadToConsume(p) =>
            /\ me.op = "consume" /\ me.at = "read"
            /\ \/ /\ StoreOK /\ files # <<>> /\ Latest.id = me.known
                  /\ now.at = "write" /\ now.n = Len(files) /\ now.id = me.known
                  /\ now.tip = Len(ReceiptsOf)
                  /\ But(me, now, {"at", "n", "id", "tip"})
               \/ Steady(me, now) /\ now.at = "release"
         /\ WriteReceipt(p) =>
            /\ me.op = "consume" /\ me.at = "write"
            /\ Steady(me, now) /\ now.at = "head"
         /\ WriteReceiptHead(p) =>
            /\ me.op = "consume" /\ me.at = "head"
            /\ now.at = "release" /\ now.done = TRUE
            /\ But(me, now, {"at", "done"})
         /\ Pin(p) =>
            /\ me.op = "recover" /\ me.at = "read"
            /\ \/ /\ StoreOK /\ files # <<>>
                  /\ now.at = "resume" /\ now.id = Latest.id
                  /\ But(me, now, {"at", "id"})
               \/ Steady(me, now) /\ now.at = "release"
         /\ Resume(p) =>
            /\ me.at = "resume"
            /\ \/ /\ Latest.id = me.id /\ Latest.tip = Tip
                  /\ now.at = "reconstruct" /\ now.tip = Tip /\ now.n = Latest.epoch + 1
                  /\ But(me, now, {"at", "tip", "n"})
               \/ Steady(me, now) /\ now.at = "release"
         /\ Reconstruct(p) =>
            /\ me.at = "reconstruct"
            /\ \/ /\ Tip = me.tip /\ me.n = LatestEpoch(ledger) + 1 /\ Active(ledger) = 0
                  /\ Steady(me, now) /\ now.at = "recover"
               \/ Steady(me, now) /\ now.at = "release"
         /\ AppendRecovered(p) =>
            /\ me.at = "recover"
            /\ \/ /\ Tip = me.tip
                  /\ ledger' = Append(ledger, [kind |-> "recovered", epoch |-> me.n,
                                               tip |-> me.tip, from |-> me.id])
                  /\ now.at = "release" /\ now.done = TRUE /\ now.epoch = me.n
                  /\ But(me, now, {"at", "done", "epoch"})
               \/ /\ UNCHANGED ledger
                  /\ Steady(me, now) /\ now.at = "release"
         /\ Operate(p) =>
            /\ me.life = "up" /\ me.at \in {"idle", "tipped"}
            /\ But(me, now, {})
         /\ Boot(p) =>
            /\ me.life = "new"
            /\ now.life = "up"
            /\ But(me, now, {"life"})
         /\ BeginCheckpoint(p) =>
            /\ me.life = "up" /\ me.at = "idle"
            /\ now.at = "tipped" /\ now.op = "append" /\ now.tip = Tip
            /\ But(me, now, {"at", "op", "tip"})
         /\ TakeSnapshot(p) =>
            /\ me.at = "tipped"
            /\ \/ Ended(me, now) /\ now.known = me.known
               \/ Steady(me, now) /\ now.at = "acquire"
         /\ BeginRecover(p) =>
            /\ me.life = "up" /\ me.at = "idle" /\ me.epoch = 0
            /\ now.at = "acquire" /\ now.op = "recover"
            /\ But(me, now, {"at", "op"})
         /\ Finalize(p) => now = me
         /\ Crash(p) => now = [New EXCEPT !.life = "dead"]
         /\ \A r \in Requests, cost \in 1..Budget : BeginConsume(p, r, cost) =>
            /\ me.life = "up" /\ me.at = "idle"
            /\ now.at = "acquire" /\ now.op = "consume" /\ now.req = r /\ now.cost = cost
            /\ But(me, now, {"at", "op", "req", "cost"})
<1>1. procs \in [Processes -> ProcType] /\ procs[p] \in ProcType
  BY DEF TypeInv
<1>2. ASSUME NEW r, Set(p, r) PROVE procs'[p] = r
  BY <1>1, <1>2 DEF Set
<1>3. ASSUME NEW s \in Steps, GoTo(p, s)
      PROVE  Steady(procs[p], procs'[p]) /\ procs'[p].at = s
  <2>1. PICK r : r = [procs[p] EXCEPT !.at = s]
    OBVIOUS
  <2>2. procs'[p] = r
    BY <1>2, <1>3, <2>1 DEF GoTo
  <2>3. Steady(procs[p], r) /\ r.at = s
    BY <1>1, <2>1 DEF ProcType, Steady, But, Fields
  <2> QED
    BY <2>2, <2>3
<1>4. ASSUME NEW k, Back(p, k)
      PROVE  Ended(procs[p], procs'[p]) /\ procs'[p].known = k
  <2>1. PICK r : r = [New EXCEPT !.life = "up", !.epoch = procs[p].epoch, !.known = k,
                                 !.busy = procs[p].busy, !.calls = procs[p].calls]
    OBVIOUS
  <2>2. procs'[p] = r
    BY <1>2, <1>4, <2>1 DEF Back
  <2>3. Ended(procs[p], r) /\ r.known = k
    BY <2>1 DEF New, Ended
  <2> QED
    BY <2>2, <2>3
<1>5. Quit(p) => Ended(procs[p], procs'[p]) /\ procs'[p].known = procs[p].known
  BY <1>4 DEF Quit
<1>6. ASSUME Create(p)
      PROVE  LET me == procs[p] now == procs'[p] IN
             /\ me.at = "acquire"
             /\ Steady(me, now) /\ now.at = "mark"
  BY <1>3, <1>4, <1>5, <1>6 DEF Create, Steps, Inside
<1>7. ASSUME Mark(p)
      PROVE  LET me == procs[p] now == procs'[p] IN
             /\ me.at = "mark"
             /\ Steady(me, now) /\ now.at = "read"
  BY <1>3, <1>4, <1>5, <1>7 DEF Mark, Steps, Inside
<1>8. ASSUME MeetLock(p)
      PROVE  LET me == procs[p] now == procs'[p] IN
             /\ me.at = "acquire"
             /\ \/ Ended(me, now) /\ now.known = me.known
                \/ /\ lock.written /\ ~Up(lock.owner)
                   /\ now.at = "recheck" /\ now.prey = lock.owner
                   /\ But(me, now, {"at", "prey"})
  <2>1. PICK r : r = [procs[p] EXCEPT !.at = "recheck", !.prey = lock.owner]
    OBVIOUS
  <2>2. /\ r.at = "recheck" /\ r.prey = lock.owner
        /\ But(procs[p], r, {"at", "prey"})
    BY <1>1, <2>1 DEF ProcType, But, Fields
  <2>3. /\ procs[p].at = "acquire"
        /\ \/ Quit(p)
           \/ procs'[p] = r /\ lock.written /\ ~Up(lock.owner)
    BY <1>2, <1>8, <2>1 DEF MeetLock
  <2> QED
    BY <1>3, <1>5, <2>2, <2>3 DEF Steps, Inside
<1>9. ASSUME RecheckOwner(p)
      PROVE  LET me == procs[p] now == procs'[p] IN
             /\ me.at = "recheck"
             /\ \/ /\ lock.written /\ lock.owner = me.prey
                   /\ Steady(me, now) /\ now.at = "unlink"
                \/ Ended(me, now) /\ now.known = me.known
  BY <1>3, <1>4, <1>5, <1>9 DEF RecheckOwner, Steps, Inside
<1>10. ASSUME UnlinkDead(p)
      PROVE  LET me == procs[p] now == procs'[p] IN
             /\ me.at = "unlink"
             /\ \/ Ended(me, now) /\ now.known = me.known
                \/ /\ now.at = "acquire"
                   /\ But(me, now, {"at"})
  <2>1. PICK r : r = [procs[p] EXCEPT !.at = "acquire", !.retried = TRUE]
    OBVIOUS
  <2>2. /\ r.at = "acquire"
        /\ But(procs[p], r, {"at"})
    BY <1>1, <2>1 DEF ProcType, But, Fields
  <2>3. /\ procs[p].at = "unlink"
        /\ \/ Quit(p)
           \/ procs'[p] = r
    BY <1>2, <1>10, <2>1 DEF UnlinkDead
  <2> QED
    BY <1>3, <1>5, <2>2, <2>3 DEF Steps, Inside
<1>11. ASSUME Release(p)
      PROVE  LET me == procs[p] now == procs'[p] IN
             /\ me.at = "release"
             /\ Ended(me, now) /\ now.known = (IF me.done THEN me.id ELSE me.known)
  BY <1>3, <1>4, <1>5, <1>11 DEF Release, Steps, Inside
<1>12. ASSUME Refuse(p)
      PROVE  LET me == procs[p] now == procs'[p] IN
             /\ me.at \in {"read", "resume", "reconstruct"}
             /\ Steady(me, now) /\ now.at = "release"
  BY <1>3, <1>4, <1>5, <1>12 DEF Refuse, Steps, Inside
<1>13. ASSUME ReadToAppend(p)
      PROVE  LET me == procs[p] now == procs'[p] IN
             /\ me.op = "append" /\ me.at = "read"
             /\ \/ /\ StoreOK /\ Len(files) < MaxRecords /\ minted' = minted + 1
                   /\ now.at = "write" /\ now.n = Len(files) /\ now.id = minted + 1
                   /\ But(me, now, {"at", "n", "id"})
                \/ Steady(me, now) /\ now.at = "release"
  <2>1. PICK r : r = [procs[p] EXCEPT !.at = "write", !.n = Len(files), !.id = minted + 1]
    OBVIOUS
  <2>2. /\ r.at = "write" /\ r.n = Len(files) /\ r.id = minted + 1
        /\ But(procs[p], r, {"at", "n", "id"})
    BY <1>1, <2>1 DEF ProcType, But, Fields
  <2>3. /\ procs[p].op = "append" /\ procs[p].at = "read"
        /\ \/ procs'[p] = r /\ StoreOK /\ Len(files) < MaxRecords /\ minted' = minted + 1
           \/ GoTo(p, "release")
    BY <1>2, <1>13, <2>1 DEF ReadToAppend
  <2> QED
    BY <1>3, <1>5, <2>2, <2>3 DEF Steps, Inside
<1>14. ASSUME WriteCheckpoint(p)
      PROVE  LET me == procs[p] now == procs'[p] IN
             /\ me.op = "append" /\ me.at = "write"
             /\ Steady(me, now) /\ now.at = "head"
  BY <1>3, <1>4, <1>5, <1>14 DEF WriteCheckpoint, Steps, Inside
<1>15. ASSUME WriteCheckpointHead(p)
      PROVE  LET me == procs[p] now == procs'[p] IN
             /\ me.op = "append" /\ me.at = "head"
             /\ now.at = "release" /\ now.done = TRUE
             /\ But(me, now, {"at", "done"})
  <2>1. PICK r : r = [procs[p] EXCEPT !.at = "release", !.done = TRUE]
    OBVIOUS
  <2>2. /\ r.at = "release" /\ r.done = TRUE
        /\ But(procs[p], r, {"at", "done"})
    BY <1>1, <2>1 DEF ProcType, But, Fields
  <2>3. /\ procs[p].op = "append" /\ procs[p].at = "head"
        /\ procs'[p] = r
    BY <1>2, <1>15, <2>1 DEF WriteCheckpointHead
  <2> QED
    BY <1>3, <1>5, <2>2, <2>3 DEF Steps, Inside
<1>16. ASSUME ReadToConsume(p)
      PROVE  LET me == procs[p] now == procs'[p] IN
             /\ me.op = "consume" /\ me.at = "read"
             /\ \/ /\ StoreOK /\ files # <<>> /\ Latest.id = me.known
                   /\ now.at = "write" /\ now.n = Len(files) /\ now.id = me.known
                   /\ now.tip = Len(ReceiptsOf)
                   /\ But(me, now, {"at", "n", "id", "tip"})
                \/ Steady(me, now) /\ now.at = "release"
  <2>1. PICK r : r = [procs[p] EXCEPT !.at = "write", !.n = Len(files), !.id = procs[p].known,
                            !.tip = Len(ReceiptsOf)]
    OBVIOUS
  <2>2. /\ r.at = "write" /\ r.n = Len(files) /\ r.id = procs[p].known /\ r.tip = Len(ReceiptsOf)
        /\ But(procs[p], r, {"at", "n", "id", "tip"})
    BY <1>1, <2>1 DEF ProcType, But, Fields
  <2>3. /\ procs[p].op = "consume" /\ procs[p].at = "read"
        /\ \/ procs'[p] = r /\ StoreOK /\ files # <<>> /\ Latest.id = procs[p].known
           \/ GoTo(p, "release")
    BY <1>2, <1>16, <2>1 DEF ReadToConsume
  <2> QED
    BY <1>3, <1>5, <2>2, <2>3 DEF Steps, Inside
<1>17. ASSUME WriteReceipt(p)
      PROVE  LET me == procs[p] now == procs'[p] IN
             /\ me.op = "consume" /\ me.at = "write"
             /\ Steady(me, now) /\ now.at = "head"
  BY <1>3, <1>4, <1>5, <1>17 DEF WriteReceipt, Steps, Inside
<1>18. ASSUME WriteReceiptHead(p)
      PROVE  LET me == procs[p] now == procs'[p] IN
             /\ me.op = "consume" /\ me.at = "head"
             /\ now.at = "release" /\ now.done = TRUE
             /\ But(me, now, {"at", "done"})
  <2>1. PICK r : r = [procs[p] EXCEPT !.at = "release", !.done = TRUE]
    OBVIOUS
  <2>2. /\ r.at = "release" /\ r.done = TRUE
        /\ But(procs[p], r, {"at", "done"})
    BY <1>1, <2>1 DEF ProcType, But, Fields
  <2>3. /\ procs[p].op = "consume" /\ procs[p].at = "head"
        /\ procs'[p] = r
    BY <1>2, <1>18, <2>1 DEF WriteReceiptHead
  <2> QED
    BY <1>3, <1>5, <2>2, <2>3 DEF Steps, Inside
<1>19. ASSUME Pin(p)
      PROVE  LET me == procs[p] now == procs'[p] IN
             /\ me.op = "recover" /\ me.at = "read"
             /\ \/ /\ StoreOK /\ files # <<>>
                   /\ now.at = "resume" /\ now.id = Latest.id
                   /\ But(me, now, {"at", "id"})
                \/ Steady(me, now) /\ now.at = "release"
  <2>1. PICK r : r = [procs[p] EXCEPT !.at = "resume", !.id = Latest.id]
    OBVIOUS
  <2>2. /\ r.at = "resume" /\ r.id = Latest.id
        /\ But(procs[p], r, {"at", "id"})
    BY <1>1, <2>1 DEF ProcType, But, Fields
  <2>3. /\ procs[p].op = "recover" /\ procs[p].at = "read"
        /\ \/ procs'[p] = r /\ StoreOK /\ files # <<>>
           \/ GoTo(p, "release")
    BY <1>2, <1>19, <2>1 DEF Pin
  <2> QED
    BY <1>3, <1>5, <2>2, <2>3 DEF Steps, Inside
<1>20. ASSUME Resume(p)
      PROVE  LET me == procs[p] now == procs'[p] IN
             /\ me.at = "resume"
             /\ \/ /\ Latest.id = me.id /\ Latest.tip = Tip
                   /\ now.at = "reconstruct" /\ now.tip = Tip /\ now.n = Latest.epoch + 1
                   /\ But(me, now, {"at", "tip", "n"})
                \/ Steady(me, now) /\ now.at = "release"
  <2>1. PICK r : r = [procs[p] EXCEPT !.at = "reconstruct", !.tip = Tip, !.n = Latest.epoch + 1]
    OBVIOUS
  <2>2. /\ r.at = "reconstruct" /\ r.tip = Tip /\ r.n = Latest.epoch + 1
        /\ But(procs[p], r, {"at", "tip", "n"})
    BY <1>1, <2>1 DEF ProcType, But, Fields
  <2>3. /\ procs[p].at = "resume"
        /\ \/ procs'[p] = r /\ Latest.id = procs[p].id /\ Latest.tip = Tip
           \/ GoTo(p, "release")
    BY <1>2, <1>20, <2>1 DEF Resume
  <2> QED
    BY <1>3, <1>5, <2>2, <2>3 DEF Steps, Inside
<1>21. ASSUME Reconstruct(p)
      PROVE  LET me == procs[p] now == procs'[p] IN
             /\ me.at = "reconstruct"
             /\ \/ /\ Tip = me.tip /\ me.n = LatestEpoch(ledger) + 1 /\ Active(ledger) = 0
                   /\ Steady(me, now) /\ now.at = "recover"
                \/ Steady(me, now) /\ now.at = "release"
  BY <1>3, <1>4, <1>5, <1>21 DEF Reconstruct, Steps, Inside
<1>22. ASSUME AppendRecovered(p)
      PROVE  LET me == procs[p] now == procs'[p] IN
             /\ me.at = "recover"
             /\ \/ /\ Tip = me.tip
                   /\ ledger' = Append(ledger, [kind |-> "recovered", epoch |-> me.n,
                                                tip |-> me.tip, from |-> me.id])
                   /\ now.at = "release" /\ now.done = TRUE /\ now.epoch = me.n
                   /\ But(me, now, {"at", "done", "epoch"})
                \/ /\ UNCHANGED ledger
                   /\ Steady(me, now) /\ now.at = "release"
  <2>1. PICK r : r = [procs[p] EXCEPT !.at = "release", !.done = TRUE, !.epoch = procs[p].n]
    OBVIOUS
  <2>2. /\ r.at = "release" /\ r.done = TRUE /\ r.epoch = procs[p].n
        /\ But(procs[p], r, {"at", "done", "epoch"})
    BY <1>1, <2>1 DEF ProcType, But, Fields
  <2>3. /\ procs[p].at = "recover"
        /\ \/ /\ procs'[p] = r /\ Tip = procs[p].tip
              /\ ledger' = Append(ledger, [kind |-> "recovered", epoch |-> procs[p].n,
                                           tip |-> procs[p].tip, from |-> procs[p].id])
           \/ GoTo(p, "release") /\ UNCHANGED ledger
    BY <1>2, <1>22, <2>1 DEF AppendRecovered, Appends, Fenced
  <2> QED
    BY <1>3, <1>5, <2>2, <2>3 DEF Steps, Inside
<1>23. ASSUME Operate(p)
      PROVE  LET me == procs[p] now == procs'[p] IN
             /\ me.life = "up" /\ me.at \in {"idle", "tipped"}
             /\ But(me, now, {})
  <2>1. PICK r : r = [procs[p] EXCEPT !.busy = ~procs[p].busy]
    OBVIOUS
  <2>2. But(procs[p], r, {})
    BY <1>1, <2>1 DEF ProcType, But, Fields
  <2>3. /\ procs[p].life = "up" /\ procs[p].at \in {"idle", "tipped"}
        /\ procs'[p] = r
    BY <1>2, <1>23, <2>1 DEF Operate, Up
  <2> QED
    BY <1>3, <1>5, <2>2, <2>3 DEF Steps, Inside
<1>24. ASSUME Boot(p)
      PROVE  LET me == procs[p] now == procs'[p] IN
             /\ me.life = "new"
             /\ now.life = "up"
             /\ But(me, now, {"life"})
  <2>1. PICK r : r = [procs[p] EXCEPT !.life = "up"]
    OBVIOUS
  <2>2. /\ r.life = "up"
        /\ But(procs[p], r, {"life"})
    BY <1>1, <2>1 DEF ProcType, But, Fields
  <2>3. /\ procs[p].life = "new"
        /\ procs'[p] = r
    BY <1>2, <1>24, <2>1 DEF Boot
  <2> QED
    BY <1>3, <1>5, <2>2, <2>3 DEF Steps, Inside
<1>25. ASSUME BeginCheckpoint(p)
      PROVE  LET me == procs[p] now == procs'[p] IN
             /\ me.life = "up" /\ me.at = "idle"
             /\ now.at = "tipped" /\ now.op = "append" /\ now.tip = Tip
             /\ But(me, now, {"at", "op", "tip"})
  <2>1. PICK r : r = [procs[p] EXCEPT !.calls = procs[p].calls + 1, !.at = "tipped",
                                 !.op = "append",
                          !.tip = Tip]
    OBVIOUS
  <2>2. /\ r.at = "tipped" /\ r.op = "append" /\ r.tip = Tip
        /\ But(procs[p], r, {"at", "op", "tip"})
    BY <1>1, <2>1 DEF ProcType, But, Fields
  <2>3. /\ procs[p].life = "up" /\ procs[p].at = "idle"
        /\ procs'[p] = r
    BY <1>2, <1>25, <2>1 DEF BeginCheckpoint, Begins, Up
  <2> QED
    BY <1>3, <1>5, <2>2, <2>3 DEF Steps, Inside
<1>26. ASSUME TakeSnapshot(p)
      PROVE  LET me == procs[p] now == procs'[p] IN
             /\ me.at = "tipped"
             /\ \/ Ended(me, now) /\ now.known = me.known
                \/ Steady(me, now) /\ now.at = "acquire"
  BY <1>3, <1>4, <1>5, <1>26 DEF TakeSnapshot, Steps, Inside
<1>27. ASSUME BeginRecover(p)
      PROVE  LET me == procs[p] now == procs'[p] IN
             /\ me.life = "up" /\ me.at = "idle" /\ me.epoch = 0
             /\ now.at = "acquire" /\ now.op = "recover"
             /\ But(me, now, {"at", "op"})
  <2>1. PICK r : r = [procs[p] EXCEPT !.calls = procs[p].calls + 1, !.at = "acquire",
                                 !.op = "recover"]
    OBVIOUS
  <2>2. /\ r.at = "acquire" /\ r.op = "recover"
        /\ But(procs[p], r, {"at", "op"})
    BY <1>1, <2>1 DEF ProcType, But, Fields
  <2>3. /\ procs[p].life = "up" /\ procs[p].at = "idle" /\ procs[p].epoch = 0
        /\ procs'[p] = r
    BY <1>2, <1>27, <2>1 DEF BeginRecover, Begins, Up
  <2> QED
    BY <1>3, <1>5, <2>2, <2>3 DEF Steps, Inside
<1>28. Finalize(p) => procs'[p] = procs[p]
  BY DEF Finalize
<1>29. Crash(p) => procs'[p] = [New EXCEPT !.life = "dead"]
  BY <1>2 DEF Crash
<1>30. ASSUME NEW r \in Requests, NEW cost \in 1..Budget, BeginConsume(p, r, cost)
      PROVE  LET me == procs[p] now == procs'[p] IN
             /\ me.life = "up" /\ me.at = "idle"
             /\ now.at = "acquire" /\ now.op = "consume" /\ now.req = r /\ now.cost = cost
             /\ But(me, now, {"at", "op", "req", "cost"})
  <2>1. PICK x : x = [procs[p] EXCEPT !.calls = procs[p].calls + 1, !.at = "acquire",
                                      !.op = "consume", !.req = r, !.cost = cost]
    OBVIOUS
  <2>2. /\ x.at = "acquire" /\ x.op = "consume" /\ x.req = r /\ x.cost = cost
        /\ But(procs[p], x, {"at", "op", "req", "cost"})
    BY <1>1, <2>1 DEF ProcType, But, Fields
  <2>3. procs'[p] = x /\ procs[p].life = "up" /\ procs[p].at = "idle"
    BY <1>2, <1>30, <2>1 DEF BeginConsume, Begins, Up
  <2> QED
    BY <2>2, <2>3
<1> QED
  BY <1>6, <1>7, <1>8, <1>9, <1>10, <1>11, <1>12, <1>13, <1>14, <1>15, <1>16, <1>17, <1>18,
     <1>19, <1>20, <1>21, <1>22, <1>23, <1>24, <1>25, <1>26, <1>27, <1>28, <1>29, <1>30

-------------------------------------------------------------------------------
(***************************************************************************)
(* Ids: made in order, each for one checkpoint, each bound to one tip.      *)
(***************************************************************************)

\* The id that the append of p has made and not written yet.
Writes(p, id) == procs[p].op = "append" /\ procs[p].at = "write" /\ procs[p].id = id

\* The ids that have left the call which made them.
Seen(id) == \/ \E n \in DOMAIN files : files[n].id = id
            \/ \E i \in DOMAIN ledger : ledger[i].from = id
            \/ \E c \in spent : c.id = id
            \/ \E p \in Processes : procs[p].known = id
            \/ \E p \in Processes : procs[p].id = id /\ ~Writes(p, id)

\* Ids are made in order, and each belongs to one checkpoint.
IdInv == /\ \A id \in Nat : Seen(id) => id <= minted
         /\ \A p \in Processes, id \in Nat : Writes(p, id) =>
              /\ id <= minted /\ ~Seen(id)
              /\ \A q \in Processes : Writes(q, id) => q = p
         /\ \A n \in DOMAIN files : files[n].id >= 1
         /\ \A p \in Processes :
              /\ procs[p].at \in {"resume", "reconstruct", "recover"} => procs[p].id >= 1
              /\ procs[p].op = "append" /\ procs[p].at = "write" => procs[p].id >= 1

\* The tip that an id is bound to, wherever the two are together.
Bound(id, t) == \/ \E n \in DOMAIN files : files[n].id = id /\ files[n].tip = t
                \/ \E p \in Processes : Writes(p, id) /\ procs[p].tip = t
                \/ \E p \in Processes : /\ procs[p].at \in {"reconstruct", "recover"}
                                        /\ procs[p].id = id /\ procs[p].tip = t
                \/ \E i \in DOMAIN ledger : /\ ledger[i].kind = "recovered"
                                            /\ ledger[i].from = id /\ ledger[i].tip = t

\* An id is bound to one tip.
BindInv == \A id, t, u \in Nat : Bound(id, t) /\ Bound(id, u) => t = u

\* Which ids a call holds, and where it has them from.
LEMMA Holds ==
  ASSUME TypeInv, CallInv, NEW p \in Processes, StoreCall(p) \/ Runtime(p)
  PROVE  LET me == procs[p] now == procs'[p] IN
         /\ \/ now.known = me.known
            \/ now.known = me.id /\ me.at = "release"
            \/ now.known = 0
         /\ \/ now.id = me.id
            \/ now.id = 0
            \/ now.id = minted + 1 /\ ReadToAppend(p) /\ now.op = "append" /\ now.at = "write"
            \/ now.id = me.known /\ ReadToConsume(p) /\ now.at = "write"
            \/ now.id = Latest.id /\ Pin(p) /\ files # <<>> /\ now.at = "resume"
         /\ now.op = "append" /\ now.at = "write" =>
              \/ ReadToAppend(p) /\ now.id = minted + 1 /\ now.tip = me.tip
                 /\ minted' = minted + 1
              \/ me.op = "append" /\ me.at = "write" /\ now.id = me.id /\ now.tip = me.tip
         /\ me.op = "append" /\ me.at = "write" /\ now.id = me.id =>
              \/ WriteCheckpoint(p)
              \/ me.id = 0
              \/ now.op = "append" /\ now.at = "write"
         /\ now.at \in {"reconstruct", "recover"} =>
              \/ me.at \in {"reconstruct", "recover"} /\ now.id = me.id /\ now.tip = me.tip
              \/ Resume(p) /\ files # <<>> /\ now.id = Latest.id /\ now.tip = Latest.tip
         /\ now.at \in {"resume", "reconstruct", "recover"} =>
              \/ me.at \in {"resume", "reconstruct", "recover"} /\ now.id = me.id
              \/ Pin(p) /\ now.id = Latest.id /\ files # <<>>
<1>1. Fits(procs[p])
  BY DEF CallInv
<1>2. procs[p].at = "resume" => files # <<>>
  BY <1>1 DEF Fits
<1>3. CASE Create(p)
  BY <1>1, <1>2, <1>3, After DEF But, Fields, Steady, Ended, Fits
<1>4. CASE Mark(p)
  BY <1>1, <1>2, <1>4, After DEF But, Fields, Steady, Ended, Fits
<1>5. CASE MeetLock(p)
  BY <1>1, <1>2, <1>5, After DEF But, Fields, Steady, Ended, Fits
<1>6. CASE RecheckOwner(p)
  BY <1>1, <1>2, <1>6, After DEF But, Fields, Steady, Ended, Fits
<1>7. CASE UnlinkDead(p)
  BY <1>1, <1>2, <1>7, After DEF But, Fields, Steady, Ended, Fits
<1>8. CASE Release(p)
  BY <1>1, <1>2, <1>8, After DEF But, Fields, Steady, Ended, Fits
<1>9. CASE Refuse(p)
  BY <1>1, <1>2, <1>9, After DEF But, Fields, Steady, Ended, Fits
<1>10. CASE ReadToAppend(p)
  BY <1>1, <1>2, <1>10, After DEF But, Fields, Steady, Ended, Fits
<1>11. CASE WriteCheckpoint(p)
  BY <1>1, <1>2, <1>11, After DEF But, Fields, Steady, Ended, Fits
<1>12. CASE WriteCheckpointHead(p)
  BY <1>1, <1>2, <1>12, After DEF But, Fields, Steady, Ended, Fits
<1>13. CASE ReadToConsume(p)
  BY <1>1, <1>2, <1>13, After DEF But, Fields, Steady, Ended, Fits
<1>14. CASE WriteReceipt(p)
  BY <1>1, <1>2, <1>14, After DEF But, Fields, Steady, Ended, Fits
<1>15. CASE WriteReceiptHead(p)
  BY <1>1, <1>2, <1>15, After DEF But, Fields, Steady, Ended, Fits
<1>16. CASE Pin(p)
  BY <1>1, <1>2, <1>16, After DEF But, Fields, Steady, Ended, Fits
<1>17. CASE Reconstruct(p)
  BY <1>1, <1>2, <1>17, After DEF But, Fields, Steady, Ended, Fits
<1>18. CASE AppendRecovered(p)
  BY <1>1, <1>2, <1>18, After DEF But, Fields, Steady, Ended, Fits
<1>19. CASE Operate(p)
  BY <1>1, <1>2, <1>19, After DEF But, Fields, Steady, Ended, Fits
<1>20. CASE Finalize(p)
  BY <1>1, <1>2, <1>20, After DEF But, Fields, Steady, Ended, Fits
<1>21. CASE Boot(p)
  BY <1>1, <1>2, <1>21, After DEF But, Fields, Steady, Ended, Fits
<1>22. CASE Crash(p)
  BY <1>1, <1>2, <1>22, After DEF But, Fields, Steady, Ended, Fits, New
<1>23. CASE BeginCheckpoint(p)
  BY <1>1, <1>2, <1>23, After DEF But, Fields, Steady, Ended, Fits
<1>24. CASE TakeSnapshot(p)
  BY <1>1, <1>2, <1>24, After DEF But, Fields, Steady, Ended, Fits
<1>25. CASE BeginRecover(p)
  BY <1>1, <1>2, <1>25, After DEF But, Fields, Steady, Ended, Fits
<1>26. CASE \E r \in Requests, cost \in 1..Budget : BeginConsume(p, r, cost)
  BY <1>1, <1>2, <1>26, After DEF But, Fields, Steady, Ended, Fits
<1>27. CASE Resume(p)
  <2>1. procs[p].at = "resume"
    BY <1>27, After
  <2>2. CASE procs'[p].at = "release" /\ Steady(procs[p], procs'[p])
    <3>1. /\ procs'[p].op = procs[p].op /\ procs'[p].id = procs[p].id
          /\ procs'[p].known = procs[p].known
      BY <2>2 DEF But, Fields, Steady
    <3> QED
      BY <2>1, <2>2, <3>1
  <2>3. CASE procs'[p].at = "reconstruct"
    <3>1. /\ procs'[p].op = procs[p].op /\ procs'[p].id = procs[p].id
          /\ procs'[p].known = procs[p].known
          /\ procs'[p].tip = Latest.tip /\ procs'[p].id = Latest.id
      BY <1>27, <2>3, After DEF But, Fields
    <3> QED
      BY <1>2, <1>27, <2>1, <2>3, <3>1
  <2> QED
    BY <1>27, <2>2, <2>3, After
<1> QED
  BY <1>3, <1>4, <1>5, <1>6, <1>7, <1>8, <1>9, <1>10, <1>11, <1>12, <1>13, <1>14, <1>15, <1>16,
     <1>17, <1>18, <1>19, <1>20, <1>21, <1>22, <1>23, <1>24, <1>25, <1>26, <1>27 DEF StoreCall,
     Runtime

\* latest() of a store that has a checkpoint is its last file.
LEMMA LatestIs ==
  ASSUME TypeInv, files # <<>>
  PROVE  Len(files) \in DOMAIN files /\ Latest = files[Len(files)] /\ Latest \in RecordType
<1>1. files \in Seq(RecordType) /\ Len(files) \in Nat /\ DOMAIN files = 1..Len(files)
  BY LenProperties DEF TypeInv
<1>2. Len(files) # 0
  BY <1>1, EmptySeq
<1> QED
  BY <1>1, <1>2 DEF Latest

\* An id comes into an append by being made, and out of it by being written.
LEMMA IdMoves ==
  ASSUME TypeInv, CallInv, NEW p \in Processes, StoreCall(p) \/ Runtime(p)
  PROVE  /\ minted <= minted' /\ minted \in Nat /\ minted' \in Nat
         /\ \A q \in Processes, id \in Nat : Writes(q, id)' =>
              \/ Writes(q, id) /\ procs'[q].tip = procs[q].tip
              \/ q = p /\ id = minted + 1 /\ minted' = minted + 1
         /\ \A id \in Nat \ {0} : Seen(id)' => Seen(id) \/ (WriteCheckpoint(p) /\ Writes(p, id))
<1>1. TypeInv' /\ procs[p] \in ProcType
  BY TypeStep DEF TypeInv
<1>2. minted <= minted' /\ minted \in Nat /\ minted' \in Nat
  <2>1. minted' = minted \/ minted' = minted + 1
    BY Frames DEF ReadToAppend
  <2> QED
    BY <1>1, <2>1 DEF TypeInv
<1>3. ASSUME NEW q \in Processes, NEW id \in Nat, Writes(q, id)'
      PROVE  \/ Writes(q, id) /\ procs'[q].tip = procs[q].tip
             \/ q = p /\ id = minted + 1 /\ minted' = minted + 1
  <2>1. CASE q # p
    BY <1>3, <2>1, Moves DEF Writes
  <2>2. CASE q = p
    BY <1>3, <2>2, Holds DEF Writes
  <2> QED
    BY <2>1, <2>2
<1>4. ASSUME NEW id \in Nat \ {0}, Seen(id)'
      PROVE  Seen(id) \/ (WriteCheckpoint(p) /\ Writes(p, id))
  <2>1. ASSUME NEW n \in DOMAIN files', files'[n].id = id
        PROVE  Seen(id) \/ (WriteCheckpoint(p) /\ Writes(p, id))
    <3>1. DOMAIN files = 1..Len(files) /\ DOMAIN files' = 1..Len(files')
      BY <1>1, LenProperties DEF TypeInv
    <3>2. CASE WriteCheckpoint(p) /\ n = procs[p].n + 1
      <4>1. files'[n].id = procs[p].id
        BY <3>2, FilesGrow
      <4> QED
        BY <2>1, <3>2, <4>1 DEF WriteCheckpoint, Writes
    <3>3. CASE ~(WriteCheckpoint(p) /\ n = procs[p].n + 1)
      <4>1. n \in DOMAIN files /\ files'[n] = files[n]
        BY <2>1, <3>1, <3>3, FilesGrow
      <4> QED
        BY <2>1, <4>1 DEF Seen
    <3> QED
      BY <3>2, <3>3
  <2>2. ASSUME NEW i \in DOMAIN ledger', ledger'[i].from = id
        PROVE  Seen(id)
    <3>1. /\ ledger \in Seq(EventType) /\ DOMAIN ledger = 1..Len(ledger) /\ Len(ledger) \in Nat
          /\ DOMAIN ledger' = 1..Len(ledger')
      BY <1>1, LenProperties DEF TypeInv
    <3>2. CASE UNCHANGED ledger
      BY <2>2, <3>2 DEF Seen
    <3>3. ASSUME NEW e \in EventType, ledger' = Append(ledger, e),
                 \/ AppendRecovered(p) /\ e.from = procs[p].id
                 \/ e.from = 0
          PROVE  Seen(id)
      <4>1. Len(ledger') = Len(ledger) + 1 /\ ledger'[Len(ledger) + 1] = e
            /\ \A j \in 1..Len(ledger) : ledger'[j] = ledger[j]
        BY <3>1, <3>3, AppendProperties
      <4>2. CASE i \in 1..Len(ledger)
        BY <2>2, <3>1, <4>1, <4>2 DEF Seen
      <4>3. CASE i = Len(ledger) + 1
        <5>1. AppendRecovered(p) /\ procs[p].id = id
          BY <2>2, <3>3, <4>1, <4>3
        <5>2. procs[p].at = "recover"
          BY <5>1 DEF AppendRecovered
        <5> QED
          BY <5>1, <5>2 DEF Seen, Writes
      <4> QED
        BY <2>2, <3>1, <4>1, <4>2, <4>3
    <3> QED
      BY <3>2, <3>3, LedgerGrows
  <2>3. ASSUME NEW c \in spent', c.id = id PROVE Seen(id)
    <3>1. c \in spent \/ (Release(p) /\ c.id = procs[p].id)
      BY <2>3, Frames DEF Release
    <3>2. Release(p) => procs[p].at = "release"
      BY DEF Release
    <3> QED
      BY <2>3, <3>1, <3>2 DEF Seen, Writes
  <2>4. ASSUME NEW q \in Processes, procs'[q].known = id PROVE Seen(id)
    <3>1. CASE q # p
      BY <2>4, <3>1, Moves DEF Seen
    <3>2. CASE q = p
      <4>1. procs[p].known = id \/ (procs[p].id = id /\ procs[p].at = "release")
        BY <2>4, <3>2, Holds
      <4> QED
        BY <4>1 DEF Seen, Writes
    <3> QED
      BY <3>1, <3>2
  <2>5. ASSUME NEW q \in Processes, procs'[q].id = id, ~Writes(q, id)'
        PROVE  Seen(id) \/ (WriteCheckpoint(p) /\ Writes(p, id))
    <3>1. CASE q # p
      BY <2>5, <3>1, Moves DEF Seen, Writes
    <3>2. CASE q = p
      <4>1. ~(procs'[p].op = "append" /\ procs'[p].at = "write")
        BY <2>5, <3>2 DEF Writes
      <4>2. \/ procs[p].id = id
            \/ procs[p].known = id
            \/ files # <<>> /\ Latest.id = id
        BY <2>5, <3>2, <4>1, Holds
      <4>3. CASE procs[p].id = id
        BY <2>5, <3>2, <4>1, <4>3, Holds DEF Seen, Writes
      <4>4. CASE files # <<>> /\ Latest.id = id
        BY <4>4, LatestIs DEF Seen
      <4> QED
        BY <4>2, <4>3, <4>4 DEF Seen
    <3> QED
      BY <3>1, <3>2
  <2> QED
    BY <1>4, <2>1, <2>2, <2>3, <2>4, <2>5 DEF Seen
<1> QED
  BY <1>2, <1>3, <1>4

\* Every step keeps the ids: append makes a fresh one under the lock and writes it
\* once.
LEMMA IdStep ==
  ASSUME TypeInv, CallInv, IdInv, NEW p \in Processes, StoreCall(p) \/ Runtime(p)
  PROVE  IdInv'
<1>1. TypeInv' /\ minted \in Nat /\ minted' \in Nat /\ minted <= minted'
  BY TypeStep, IdMoves DEF TypeInv
<1>2. ASSUME NEW id \in Nat, Seen(id)' PROVE id <= minted'
  <2>1. CASE id = 0
    BY <1>1, <2>1
  <2>2. CASE id # 0
    <3>1. Seen(id) \/ Writes(p, id)
      BY <1>2, <2>2, IdMoves
    <3> QED
      BY <1>1, <3>1 DEF IdInv
  <2> QED
    BY <2>1, <2>2
<1>3. ASSUME NEW q \in Processes, NEW id \in Nat, Writes(q, id)'
      PROVE  id <= minted' /\ ~Seen(id)' /\ id >= 1
  <2>1. CASE Writes(q, id)
    <3>1. id <= minted /\ ~Seen(id) /\ id # 0
      BY <2>1 DEF IdInv, Writes
    <3>2. ASSUME Seen(id)' PROVE FALSE
      <4>1. WriteCheckpoint(p) /\ Writes(p, id)
        BY <3>1, <3>2, IdMoves
      <4>2. q = p
        BY <2>1, <4>1 DEF IdInv
      <4>3. procs'[p].at = "head"
        BY <4>1, After
      <4> QED
        BY <1>3, <4>2, <4>3 DEF Writes
    <3> QED
      BY <1>1, <3>1, <3>2
  <2>2. CASE ~Writes(q, id)
    <3>1. q = p /\ id = minted + 1 /\ minted' = minted + 1
      BY <1>3, <2>2, IdMoves
    <3>2. ASSUME Seen(id)' PROVE FALSE
      <4>1. Seen(id) \/ Writes(p, id)
        BY <1>1, <3>1, <3>2, IdMoves
      <4>2. id <= minted
        BY <4>1 DEF IdInv
      <4> QED
        BY <1>1, <3>1, <4>2
    <3> QED
      BY <1>1, <3>1, <3>2
  <2> QED
    BY <2>1, <2>2
<1>4. ASSUME NEW q \in Processes, NEW r \in Processes, NEW id \in Nat,
             Writes(q, id)', Writes(r, id)'
      PROVE  q = r
  <2>1. \/ Writes(q, id)
        \/ q = p /\ id = minted + 1
    BY <1>4, IdMoves
  <2>2. \/ Writes(r, id)
        \/ r = p /\ id = minted + 1
    BY <1>4, IdMoves
  <2>3. \A s \in Processes : Writes(s, id) => id <= minted
    BY DEF IdInv
  <2>4. id = minted + 1 => ~(id <= minted)
    BY <1>1
  <2>5. Writes(q, id) /\ Writes(r, id) => q = r
    BY DEF IdInv
  <2> QED
    BY <2>1, <2>2, <2>3, <2>4, <2>5
<1>5. ASSUME NEW n \in DOMAIN files' PROVE files'[n].id >= 1
  <2>1. DOMAIN files = 1..Len(files) /\ DOMAIN files' = 1..Len(files')
    BY <1>1, LenProperties DEF TypeInv
  <2>2. WriteCheckpoint(p) => procs[p].id >= 1
    BY DEF WriteCheckpoint, IdInv
  <2>3. \/ n \in DOMAIN files /\ files'[n] = files[n]
        \/ WriteCheckpoint(p) /\ files'[n].id = procs[p].id
    BY <1>5, <2>1, FilesGrow
  <2> QED
    BY <2>2, <2>3 DEF IdInv
<1>6. ASSUME NEW q \in Processes
      PROVE  /\ procs'[q].at \in {"resume", "reconstruct", "recover"} => procs'[q].id >= 1
             /\ procs'[q].op = "append" /\ procs'[q].at = "write" => procs'[q].id >= 1
  <2>1. CASE q # p
    BY <2>1, Moves DEF IdInv
  <2>2. CASE q = p
    <3>1. files # <<>> => Latest.id >= 1
      BY LatestIs DEF IdInv
    <3>2. minted + 1 >= 1
      BY <1>1
    <3> QED
      BY <2>2, <3>1, <3>2, Holds DEF IdInv
  <2> QED
    BY <2>1, <2>2
<1>7. \A q \in Processes, id \in Nat : Writes(q, id)' =>
        /\ id <= minted' /\ ~Seen(id)'
        /\ \A r \in Processes : Writes(r, id)' => r = q
  BY <1>3, <1>4
<1>8. (\A id \in Nat : Seen(id) => id <= minted)'
  BY <1>2
<1>9. (\A q \in Processes, id \in Nat : Writes(q, id) =>
        /\ id <= minted /\ ~Seen(id)
        /\ \A r \in Processes : Writes(r, id) => r = q)'
  BY <1>7
<1> QED
  BY <1>5, <1>6, <1>8, <1>9 DEF IdInv

\* A binding moves from the append to its file, from the file to a recovery, from
\* there into the ledger; it is made with the id.
LEMMA BoundMoves ==
  ASSUME TypeInv, CallInv, NEW p \in Processes, StoreCall(p) \/ Runtime(p),
         NEW id \in Nat, NEW t \in Nat, Bound(id, t)'
  PROVE  \/ Bound(id, t)
         \/ id = minted + 1 /\ minted' = minted + 1 /\ t = procs[p].tip
<1>1. TypeInv' /\ procs[p] \in ProcType
  BY TypeStep DEF TypeInv
<1>2. ASSUME NEW n \in DOMAIN files', files'[n].id = id /\ files'[n].tip = t
      PROVE  Bound(id, t)
  <2>1. DOMAIN files = 1..Len(files) /\ DOMAIN files' = 1..Len(files')
    BY <1>1, LenProperties DEF TypeInv
  <2>2. CASE WriteCheckpoint(p) /\ n = procs[p].n + 1
    <3>1. procs[p].id = id /\ procs[p].tip = t
      BY <1>2, <2>2, FilesGrow
    <3>2. procs[p].op = "append" /\ procs[p].at = "write"
      BY <2>2 DEF WriteCheckpoint
    <3> QED
      BY <3>1, <3>2 DEF Bound, Writes
  <2>3. CASE ~(WriteCheckpoint(p) /\ n = procs[p].n + 1)
    <3>1. n \in DOMAIN files /\ files'[n] = files[n]
      BY <2>1, <2>3, FilesGrow
    <3> QED
      BY <1>2, <3>1 DEF Bound
  <2> QED
    BY <2>2, <2>3
<1>3. ASSUME NEW q \in Processes, Writes(q, id)', procs'[q].tip = t
      PROVE  \/ Bound(id, t)
             \/ id = minted + 1 /\ minted' = minted + 1 /\ t = procs[p].tip
  <2>1. CASE q # p
    BY <1>3, <2>1, Moves DEF Bound, Writes
  <2>2. CASE q = p
    <3>1. procs'[p].op = "append" /\ procs'[p].at = "write" /\ procs'[p].id = id
      BY <1>3, <2>2 DEF Writes
    <3>2. \/ id = minted + 1 /\ minted' = minted + 1 /\ t = procs[p].tip
          \/ procs[p].op = "append" /\ procs[p].at = "write" /\ procs[p].id = id
             /\ procs[p].tip = t
      BY <1>3, <2>2, <3>1, Holds
    <3> QED
      BY <3>2 DEF Bound, Writes
  <2> QED
    BY <2>1, <2>2
<1>4. ASSUME NEW q \in Processes, procs'[q].at \in {"reconstruct", "recover"},
             procs'[q].id = id, procs'[q].tip = t
      PROVE  Bound(id, t)
  <2>1. CASE q # p
    BY <1>4, <2>1, Moves DEF Bound
  <2>2. CASE q = p
    <3>1. CASE files # <<>> /\ id = Latest.id /\ t = Latest.tip
      BY <3>1, LatestIs DEF Bound
    <3>2. CASE procs[p].at \in {"reconstruct", "recover"} /\ id = procs[p].id /\ t = procs[p].tip
      BY <3>2 DEF Bound
    <3> QED
      BY <1>4, <2>2, <3>1, <3>2, Holds
  <2> QED
    BY <2>1, <2>2
<1>5. ASSUME NEW i \in DOMAIN ledger', ledger'[i].kind = "recovered",
             ledger'[i].from = id, ledger'[i].tip = t
      PROVE  Bound(id, t)
  <2>1. /\ ledger \in Seq(EventType) /\ DOMAIN ledger = 1..Len(ledger) /\ Len(ledger) \in Nat
        /\ DOMAIN ledger' = 1..Len(ledger')
    BY <1>1, LenProperties DEF TypeInv
  <2>2. CASE UNCHANGED ledger
    BY <1>5, <2>2 DEF Bound
  <2>3. ASSUME NEW e \in EventType, ledger' = Append(ledger, e),
               \/ AppendRecovered(p) /\ e.from = procs[p].id /\ e.tip = procs[p].tip
               \/ e.kind # "recovered"
        PROVE  Bound(id, t)
    <3>1. Len(ledger') = Len(ledger) + 1 /\ ledger'[Len(ledger) + 1] = e
          /\ \A j \in 1..Len(ledger) : ledger'[j] = ledger[j]
      BY <2>1, <2>3, AppendProperties
    <3>2. CASE i \in 1..Len(ledger)
      BY <1>5, <2>1, <3>1, <3>2 DEF Bound
    <3>3. CASE i = Len(ledger) + 1
      <4>1. AppendRecovered(p) /\ procs[p].id = id /\ procs[p].tip = t
        BY <1>5, <2>3, <3>1, <3>3
      <4>2. procs[p].at = "recover"
        BY <4>1 DEF AppendRecovered
      <4> QED
        BY <4>1, <4>2 DEF Bound
    <3> QED
      BY <1>5, <2>1, <3>1, <3>2, <3>3
  <2> QED
    BY <2>2, <2>3, LedgerGrows
<1> QED
  BY <1>2, <1>3, <1>4, <1>5 DEF Bound

\* What is bound has been made.
LEMMA BoundIsMade ==
  ASSUME TypeInv, CallInv, IdInv, NEW id \in Nat, NEW t \in Nat, Bound(id, t)
  PROVE  id <= minted
<1>1. ASSUME NEW q \in Processes, procs[q].at \in {"reconstruct", "recover"}, procs[q].id = id
      PROVE  Seen(id)
  <2>1. ~Writes(q, id)
    BY <1>1 DEF Writes
  <2> QED
    BY <1>1, <2>1 DEF Seen
<1>2. Seen(id) \/ \E q \in Processes : Writes(q, id)
  BY <1>1 DEF Bound, Seen
<1> QED
  BY <1>2 DEF IdInv

\* Every step keeps the binding: the tip is in the record before its id is used.
LEMMA BindStep ==
  ASSUME TypeInv, CallInv, IdInv, BindInv, NEW p \in Processes, StoreCall(p) \/ Runtime(p)
  PROVE  BindInv'
<1>1. ASSUME NEW id \in Nat, NEW t \in Nat, NEW u \in Nat, Bound(id, t)', Bound(id, u)'
      PROVE  t = u
  <2>1. \/ Bound(id, t) /\ id <= minted
        \/ id = minted + 1 /\ t = procs[p].tip
    BY <1>1, BoundMoves, BoundIsMade
  <2>2. \/ Bound(id, u) /\ id <= minted
        \/ id = minted + 1 /\ u = procs[p].tip
    BY <1>1, BoundMoves, BoundIsMade
  <2>3. id = minted + 1 => ~(id <= minted)
    BY DEF TypeInv
  <2>4. Bound(id, t) /\ Bound(id, u) => t = u
    BY DEF BindInv
  <2> QED
    BY <2>1, <2>2, <2>3, <2>4
<1>2. (\A id, t, u \in Nat : Bound(id, t) /\ Bound(id, u) => t = u)'
  BY <1>1
<1> QED
  BY <1>2 DEF BindInv

-------------------------------------------------------------------------------
(***************************************************************************)
(* Epochs: of the ledger, and of the coordinators that write in it.         *)
(***************************************************************************)

\* The events before the ith.
Before(i) == SubSeq(ledger, 1, i - 1)

\* A recovered event is what its recovery read, at the tip where it read it; every
\* coordinator writes in an epoch of its own, and none is past the ledger's.
EpochInv ==
  /\ \A i \in DOMAIN ledger : ledger[i].kind = "recovered" =>
       /\ ledger[i].tip = i - 1 /\ ledger[i].from >= 1
       /\ Active(Before(i)) = 0
       /\ ledger[i].epoch = LatestEpoch(Before(i)) + 1
  /\ \A i \in DOMAIN ledger : ledger[i].kind # "recovered" => ledger[i].from = 0
  /\ \E i \in DOMAIN ledger : \A j \in DOMAIN ledger : ledger[j].epoch <= ledger[i].epoch
  /\ \A p \in Processes : \E i \in DOMAIN ledger : procs[p].epoch <= ledger[i].epoch
  /\ \A p, q \in Processes : p # q /\ procs[p].epoch > 0 => procs[p].epoch # procs[q].epoch
  /\ \A p \in Processes : procs[p].at = "recover" =>
       /\ Active(SubSeq(ledger, 1, procs[p].tip)) = 0
       /\ procs[p].n = LatestEpoch(SubSeq(ledger, 1, procs[p].tip)) + 1

\* What stood before an event stays when another one is appended.
LEMMA PrefixOfAppend ==
  ASSUME NEW es \in Seq(EventType), NEW e \in EventType, NEW n \in 0..Len(es)
  PROVE  SubSeq(Append(es, e), 1, n) = SubSeq(es, 1, n)
<1>1. /\ Append(es, e) \in Seq(EventType)
      /\ Len(Append(es, e)) = Len(es) + 1
      /\ \A i \in 1..Len(es) : Append(es, e)[i] = es[i]
      /\ Len(es) \in Nat
  BY AppendProperties, LenProperties
<1>2. /\ SubSeq(Append(es, e), 1, n) \in Seq(EventType)
      /\ Len(SubSeq(Append(es, e), 1, n)) = n
      /\ \A i \in 1..n : SubSeq(Append(es, e), 1, n)[i] = Append(es, e)[i]
  <2>1. \A i \in 1..n : Append(es, e)[i] \in EventType
    BY <1>1
  <2> QED
    BY <1>1, <2>1, SubSeqProperties
<1>3. /\ SubSeq(es, 1, n) \in Seq(EventType)
      /\ Len(SubSeq(es, 1, n)) = n
      /\ \A i \in 1..n : SubSeq(es, 1, n)[i] = es[i]
  <2>1. \A i \in 1..n : es[i] \in EventType
    BY <1>1
  <2> QED
    BY <1>1, <2>1, SubSeqProperties
<1> QED
  BY <1>1, <1>2, <1>3, SeqEqual

\* The epoch of a ledger in which one is greatest.
LEMMA GreatestEpoch ==
  ASSUME NEW es \in Seq(EventType),
         NEW i \in DOMAIN es, \A j \in DOMAIN es : es[j].epoch <= es[i].epoch
  PROVE  LatestEpoch(es) = es[i].epoch
<1> DEFINE S == {es[j].epoch : j \in DOMAIN es}
<1>1. \A j \in DOMAIN es : es[j].epoch \in Nat
  <2>1. \A j \in DOMAIN es : es[j] \in EventType
    BY ElementOfSeq, LenProperties
  <2> QED
    BY <2>1 DEF EventType
<1>2. es[i].epoch \in S /\ \A y \in S : es[i].epoch >= y /\ y \in Nat
  BY <1>1
<1>3. Max(S) \in S /\ \A y \in S : Max(S) >= y
  BY <1>2 DEF Max
<1>4. Max(S) = es[i].epoch
  <2>1. Max(S) >= es[i].epoch /\ es[i].epoch >= Max(S) /\ Max(S) \in Nat /\ es[i].epoch \in Nat
    BY <1>1, <1>2, <1>3
  <2> HIDE DEF S
  <2> QED
    BY <2>1
<1> QED
  BY <1>4 DEF LatestEpoch

\* The epoch a process writes in, and what a recovery knows when it appends.
LEMMA Epochs ==
  ASSUME TypeInv, CallInv, NEW p \in Processes, StoreCall(p) \/ Runtime(p)
  PROVE  LET me == procs[p] now == procs'[p] IN
         /\ \/ now.epoch = me.epoch
            \/ now.epoch = 0
            \/ AppendRecovered(p) /\ Tip = me.tip /\ now.epoch = me.n
               /\ ledger' = Append(ledger, [kind |-> "recovered", epoch |-> me.n,
                                            tip |-> me.tip, from |-> me.id])
         /\ now.at = "recover" => /\ Reconstruct(p) /\ now.tip = Tip
                                  /\ now.n = LatestEpoch(ledger) + 1 /\ Active(ledger) = 0
<1>1. Fits(procs[p])
  BY DEF CallInv
<1>2. CASE Create(p)
  BY <1>1, <1>2, After DEF But, Fields, Steady, Ended, Fits
<1>3. CASE Mark(p)
  BY <1>1, <1>3, After DEF But, Fields, Steady, Ended, Fits
<1>4. CASE MeetLock(p)
  BY <1>1, <1>4, After DEF But, Fields, Steady, Ended, Fits
<1>5. CASE RecheckOwner(p)
  BY <1>1, <1>5, After DEF But, Fields, Steady, Ended, Fits
<1>6. CASE UnlinkDead(p)
  BY <1>1, <1>6, After DEF But, Fields, Steady, Ended, Fits
<1>7. CASE Release(p)
  BY <1>1, <1>7, After DEF But, Fields, Steady, Ended, Fits
<1>8. CASE Refuse(p)
  BY <1>1, <1>8, After DEF But, Fields, Steady, Ended, Fits
<1>9. CASE ReadToAppend(p)
  BY <1>1, <1>9, After DEF But, Fields, Steady, Ended, Fits
<1>10. CASE WriteCheckpoint(p)
  BY <1>1, <1>10, After DEF But, Fields, Steady, Ended, Fits
<1>11. CASE WriteCheckpointHead(p)
  BY <1>1, <1>11, After DEF But, Fields, Steady, Ended, Fits
<1>12. CASE ReadToConsume(p)
  BY <1>1, <1>12, After DEF But, Fields, Steady, Ended, Fits
<1>13. CASE WriteReceipt(p)
  BY <1>1, <1>13, After DEF But, Fields, Steady, Ended, Fits
<1>14. CASE WriteReceiptHead(p)
  BY <1>1, <1>14, After DEF But, Fields, Steady, Ended, Fits
<1>15. CASE Pin(p)
  BY <1>1, <1>15, After DEF But, Fields, Steady, Ended, Fits
<1>16. CASE Resume(p)
  BY <1>1, <1>16, After DEF But, Fields, Steady, Ended, Fits
<1>17. CASE AppendRecovered(p)
  BY <1>1, <1>17, After DEF But, Fields, Steady, Ended, Fits
<1>18. CASE Operate(p)
  BY <1>1, <1>18, After DEF But, Fields, Steady, Ended, Fits
<1>19. CASE Boot(p)
  BY <1>1, <1>19, After DEF But, Fields, Steady, Ended, Fits
<1>20. CASE Crash(p)
  BY <1>1, <1>20, After DEF But, Fields, Steady, Ended, Fits, New
<1>21. CASE BeginCheckpoint(p)
  BY <1>1, <1>21, After DEF But, Fields, Steady, Ended, Fits
<1>22. CASE TakeSnapshot(p)
  BY <1>1, <1>22, After DEF But, Fields, Steady, Ended, Fits
<1>23. CASE BeginRecover(p)
  BY <1>1, <1>23, After DEF But, Fields, Steady, Ended, Fits
<1>24. CASE \E r \in Requests, cost \in 1..Budget : BeginConsume(p, r, cost)
  BY <1>1, <1>24, After DEF But, Fields, Steady, Ended, Fits
<1>25. CASE Reconstruct(p)
  <2>1. procs[p].at = "reconstruct"
    BY <1>25, After
  <2>2. CASE procs'[p].at = "release" /\ Steady(procs[p], procs'[p])
    BY <2>1, <2>2 DEF But, Fields, Steady
  <2>3. CASE /\ Tip = procs[p].tip /\ procs[p].n = LatestEpoch(ledger) + 1
             /\ Active(ledger) = 0 /\ Steady(procs[p], procs'[p])
    BY <1>25, <2>1, <2>3 DEF But, Fields, Steady
  <2> QED
    BY <1>25, <2>2, <2>3, After
<1>26. CASE Finalize(p)
  BY <1>26, After DEF Finalize
<1> QED
  BY <1>2, <1>3, <1>4, <1>5, <1>6, <1>7, <1>8, <1>9, <1>10, <1>11, <1>12, <1>13, <1>14, <1>15,
     <1>16, <1>17, <1>18, <1>19, <1>20, <1>21, <1>22, <1>23, <1>24, <1>25, <1>26 DEF StoreCall,
     Runtime

\* Every step keeps the epochs: the append of a recovery expects the tip where it
\* read the epoch, so nothing can have come between.
LEMMA EpochStep ==
  ASSUME TypeInv, CallInv, IdInv, EpochInv, NEW p \in Processes, StoreCall(p) \/ Runtime(p)
  PROVE  EpochInv'
<1> USE DEF Before
<1>1. /\ TypeInv' /\ ledger \in Seq(EventType) /\ ledger' \in Seq(EventType)
      /\ Len(ledger) \in Nat /\ Len(ledger') \in Nat /\ Len(ledger) >= 1
      /\ DOMAIN ledger = 1..Len(ledger) /\ DOMAIN ledger' = 1..Len(ledger')
      /\ \A j \in DOMAIN ledger : ledger[j] \in EventType
  BY TypeStep, LenProperties, ElementOfSeq DEF TypeInv, Tip
<1>2. procs \in [Processes -> ProcType] /\ \A q \in Processes : procs[q].epoch \in Nat
      /\ procs[q].tip \in Nat
  BY DEF TypeInv, ProcType
<1>3. PICK top \in DOMAIN ledger : \A j \in DOMAIN ledger : ledger[j].epoch <= ledger[top].epoch
  BY DEF EpochInv
<1>4. LatestEpoch(ledger) = ledger[top].epoch /\ ledger[top].epoch \in Nat
      /\ \A j \in DOMAIN ledger : ledger[j].epoch \in Nat
  BY <1>1, <1>3, GreatestEpoch DEF EventType
<1>5. SubSeq(ledger, 1, Tip) = ledger
  BY <1>1, SubSeqFull DEF Tip
<1>6. \A q \in Processes : procs[q].epoch <= ledger[top].epoch
  <2>1. ASSUME NEW q \in Processes PROVE procs[q].epoch <= ledger[top].epoch
    <3>1. PICK i \in DOMAIN ledger : procs[q].epoch <= ledger[i].epoch
      BY DEF EpochInv
    <3>2. ledger[i].epoch <= ledger[top].epoch
      BY <1>3
    <3> QED
      BY <1>2, <1>4, <3>1, <3>2
  <2> QED
    BY <2>1
<1>7. CASE UNCHANGED ledger
  <2>1. ~AppendRecovered(p) \/ procs'[p].epoch \in {0, procs[p].epoch}
    <3>1. \A e : ledger' # Append(ledger, e) \/ e \notin EventType
      <4>1. ASSUME NEW e \in EventType, ledger' = Append(ledger, e) PROVE FALSE
        <5>1. Len(ledger') = Len(ledger) + 1
          BY <1>1, <4>1, AppendProperties
        <5> QED
          BY <1>1, <1>7, <5>1
      <4> QED
        BY <4>1
    <3>2. [kind |-> "recovered", epoch |-> procs[p].n, tip |-> procs[p].tip,
           from |-> procs[p].id] \in EventType
      BY <1>2 DEF ProcType, EventType, Kinds
    <3> QED
      BY <3>1, <3>2, Epochs
  <2>2. procs'[p].epoch \in {0, procs[p].epoch}
    BY <2>1, Epochs
  <2>3. \A q \in Processes : procs'[q].epoch \in {0, procs[q].epoch}
    BY <2>2, Moves
  <2>4. \A q \in Processes : procs'[q].epoch <= ledger[top].epoch
    BY <1>4, <1>6, <2>3
  <2>5. \A q, r \in Processes : q # r /\ procs'[q].epoch > 0 => procs'[q].epoch # procs'[r].epoch
    <3>1. ASSUME NEW q \in Processes, NEW r \in Processes, q # r, procs'[q].epoch > 0
          PROVE  procs'[q].epoch # procs'[r].epoch
      <4>1. procs'[q].epoch = procs[q].epoch /\ procs[q].epoch > 0
        BY <1>2, <2>3, <3>1
      <4>2. procs'[r].epoch \in {0, procs[r].epoch} /\ procs[q].epoch # procs[r].epoch
        BY <2>3, <3>1, <4>1 DEF EpochInv
      <4> QED
        BY <1>2, <4>1, <4>2
    <3> QED
      BY <3>1
  <2>6. ASSUME NEW q \in Processes, procs'[q].at = "recover"
        PROVE  /\ Active(SubSeq(ledger, 1, procs'[q].tip)) = 0
               /\ procs'[q].n = LatestEpoch(SubSeq(ledger, 1, procs'[q].tip)) + 1
    <3>1. CASE q # p
      BY <2>6, <3>1, Moves DEF EpochInv
    <3>2. CASE q = p
      BY <1>5, <2>6, <3>2, Epochs
    <3> QED
      BY <3>1, <3>2
  <2> QED
    BY <1>3, <1>7, <2>4, <2>5, <2>6 DEF EpochInv
<1>8. ASSUME NEW e \in EventType, ledger' = Append(ledger, e),
             \/ AppendRecovered(p) /\ Tip = procs[p].tip
                /\ e = [kind |-> "recovered", epoch |-> procs[p].n, tip |-> procs[p].tip,
                        from |-> procs[p].id]
             \/ ~AppendRecovered(p) /\ e.kind # "recovered" /\ e.epoch = 0 /\ e.from = 0
      PROVE  EpochInv'
  <2>1. /\ Len(ledger') = Len(ledger) + 1 /\ ledger'[Len(ledger) + 1] = e
        /\ \A j \in 1..Len(ledger) : ledger'[j] = ledger[j]
    BY <1>1, <1>8, AppendProperties
  <2>2. \A j \in 0..Len(ledger) : SubSeq(ledger', 1, j) = SubSeq(ledger, 1, j)
    BY <1>1, <1>8, PrefixOfAppend
  <2>3. CASE AppendRecovered(p)
    <3>1. /\ Tip = procs[p].tip /\ e.kind = "recovered" /\ e.epoch = procs[p].n
          /\ e.tip = Tip /\ e.from = procs[p].id
      BY <1>8, <2>3
    <3>2. procs[p].at = "recover"
      BY <2>3 DEF AppendRecovered
    <3>3. Active(ledger) = 0 /\ e.epoch = LatestEpoch(ledger) + 1 /\ e.from >= 1
      BY <1>5, <3>1, <3>2 DEF EpochInv, IdInv
    <3>4. e.epoch = ledger[top].epoch + 1
      BY <1>4, <3>3
    <3> DEFINE new == Len(ledger) + 1
    <3>5. new \in DOMAIN ledger' /\ ledger'[new] = e
      BY <1>1, <2>1
    <3>6. \A j \in DOMAIN ledger' : ledger'[j].epoch <= ledger'[new].epoch
      BY <1>1, <1>3, <1>4, <2>1, <3>4
    <3>7. procs'[p].epoch \in {0, procs[p].epoch, procs[p].n}
      BY Epochs
    <3>8. \A q \in Processes : q # p => procs'[q].epoch = procs[q].epoch
      BY Moves
    <3>9. \A q \in Processes : procs'[q].epoch <= e.epoch
      BY <1>2, <1>4, <1>6, <3>1, <3>4, <3>7, <3>8
    <3>10. \A q, r \in Processes : q # r /\ procs'[q].epoch > 0 =>
             procs'[q].epoch # procs'[r].epoch
      <4>1. ASSUME NEW q \in Processes, NEW r \in Processes, q # r, procs'[q].epoch > 0
            PROVE  procs'[q].epoch # procs'[r].epoch
        <5>1. procs[q].epoch <= ledger[top].epoch /\ procs[r].epoch <= ledger[top].epoch
          BY <1>6
        <5>2. procs[q].epoch > 0 => procs[q].epoch # procs[r].epoch
          BY <4>1 DEF EpochInv
        <5>3. procs'[q].epoch \in {procs[q].epoch} \/ q = p
          BY <3>8
        <5>4. procs'[r].epoch \in {procs[r].epoch} \/ r = p
          BY <3>8
        <5>5. procs[q].epoch \in Nat /\ procs[r].epoch \in Nat /\ ledger[top].epoch \in Nat
          BY <1>2, <1>4
        <5>6. CASE q = p
          BY <3>1, <3>4, <3>7, <4>1, <5>1, <5>2, <5>4, <5>5, <5>6
        <5>7. CASE q # p
          BY <3>1, <3>4, <3>7, <4>1, <5>1, <5>2, <5>3, <5>4, <5>5, <5>7
        <5> QED
          BY <5>6, <5>7
      <4> QED
        BY <4>1
    <3>11. ASSUME NEW q \in Processes, procs'[q].at = "recover"
           PROVE  /\ Active(SubSeq(ledger', 1, procs'[q].tip)) = 0
                  /\ procs'[q].n = LatestEpoch(SubSeq(ledger', 1, procs'[q].tip)) + 1
      <4>1. q # p
        <5>1. procs'[p].at = "release"
          BY <2>3, After DEF But, Fields, Steady
        <5> QED
          BY <3>11, <5>1
      <4>2. procs'[q] = procs[q] /\ procs[q].at = "recover"
        BY <3>11, <4>1, Moves
      <4>3. procs[q].tip \in 0..Len(ledger)
        BY <1>1, <1>2, <4>2 DEF CallInv, Fits, Tip
      <4> QED
        BY <2>2, <4>2, <4>3 DEF EpochInv
    <3>12. ASSUME NEW i \in DOMAIN ledger', ledger'[i].kind = "recovered"
           PROVE  /\ ledger'[i].tip = i - 1 /\ ledger'[i].from >= 1
                  /\ Active(SubSeq(ledger', 1, i - 1)) = 0
                  /\ ledger'[i].epoch = LatestEpoch(SubSeq(ledger', 1, i - 1)) + 1
      <4>1. CASE i \in DOMAIN ledger
        <5>1. ledger'[i] = ledger[i] /\ SubSeq(ledger', 1, i - 1) = SubSeq(ledger, 1, i - 1)
          BY <1>1, <2>1, <2>2, <4>1
        <5> QED
          BY <3>12, <4>1, <5>1 DEF EpochInv
      <4>2. CASE i = new
        <5>1. i - 1 = Tip /\ SubSeq(ledger', 1, i - 1) = ledger
          BY <1>1, <1>5, <2>2, <4>2 DEF Tip
        <5> QED
          BY <3>1, <3>3, <3>5, <4>2, <5>1
      <4> QED
        BY <1>1, <2>1, <3>12, <4>1, <4>2
    <3>13. \A i \in DOMAIN ledger' : ledger'[i].kind # "recovered" => ledger'[i].from = 0
      BY <1>1, <2>1, <3>1 DEF EpochInv
    <3> HIDE DEF new
    <3>14. \A q \in Processes : \E i \in DOMAIN ledger' : procs'[q].epoch <= ledger'[i].epoch
      BY <3>5, <3>9
    <3> QED
      BY <3>5, <3>6, <3>14, <3>10, <3>11, <3>12, <3>13 DEF EpochInv
  <2>4. CASE ~AppendRecovered(p)
    <3>1. e.kind # "recovered" /\ e.epoch = 0 /\ e.from = 0
      BY <1>8, <2>4
    <3>2. top \in DOMAIN ledger' /\ ledger'[top] = ledger[top]
      BY <1>1, <2>1
    <3>3. \A j \in DOMAIN ledger' : ledger'[j].epoch <= ledger'[top].epoch
      BY <1>1, <1>3, <1>4, <2>1, <3>1, <3>2
    <3>4. \A q \in Processes : procs'[q].epoch \in {0, procs[q].epoch}
      BY <2>4, Moves, Epochs
    <3>5. \A q \in Processes : procs'[q].epoch <= ledger'[top].epoch
      BY <1>4, <1>6, <3>2, <3>4
    <3>6. \A q, r \in Processes : q # r /\ procs'[q].epoch > 0 =>
             procs'[q].epoch # procs'[r].epoch
      <4>1. ASSUME NEW q \in Processes, NEW r \in Processes, q # r, procs'[q].epoch > 0
            PROVE  procs'[q].epoch # procs'[r].epoch
        <5>1. procs'[q].epoch = procs[q].epoch /\ procs[q].epoch > 0
          BY <1>2, <3>4, <4>1
        <5>2. procs'[r].epoch \in {0, procs[r].epoch} /\ procs[q].epoch # procs[r].epoch
          BY <3>4, <4>1, <5>1 DEF EpochInv
        <5> QED
          BY <1>2, <5>1, <5>2
      <4> QED
        BY <4>1
    <3>7. ASSUME NEW q \in Processes, procs'[q].at = "recover"
          PROVE  /\ Active(SubSeq(ledger', 1, procs'[q].tip)) = 0
                 /\ procs'[q].n = LatestEpoch(SubSeq(ledger', 1, procs'[q].tip)) + 1
      <4>1. CASE q = p
        <5>1. Reconstruct(p)
          BY <3>7, <4>1, Epochs
        <5>2. ledger' = ledger
          BY <5>1 DEF Reconstruct
        <5> QED
          BY <1>1, <2>1, <5>2
      <4>2. CASE q # p
        <5>1. procs'[q] = procs[q] /\ procs[q].at = "recover"
          BY <3>7, <4>2, Moves
        <5>2. procs[q].tip \in 0..Len(ledger)
          BY <1>1, <1>2, <5>1 DEF CallInv, Fits, Tip
        <5> QED
          BY <2>2, <5>1, <5>2 DEF EpochInv
      <4> QED
        BY <4>1, <4>2
    <3>8. ASSUME NEW i \in DOMAIN ledger', ledger'[i].kind = "recovered"
          PROVE  /\ ledger'[i].tip = i - 1 /\ ledger'[i].from >= 1
                 /\ Active(SubSeq(ledger', 1, i - 1)) = 0
                 /\ ledger'[i].epoch = LatestEpoch(SubSeq(ledger', 1, i - 1)) + 1
      <4>1. i \in DOMAIN ledger
        BY <1>1, <2>1, <3>1, <3>8
      <4>2. ledger'[i] = ledger[i] /\ SubSeq(ledger', 1, i - 1) = SubSeq(ledger, 1, i - 1)
        BY <1>1, <2>1, <2>2, <4>1
      <4> QED
        BY <3>8, <4>1, <4>2 DEF EpochInv
    <3>9. \A i \in DOMAIN ledger' : ledger'[i].kind # "recovered" => ledger'[i].from = 0
      BY <1>1, <2>1, <3>1 DEF EpochInv
    <3> QED
      BY <3>2, <3>3, <3>5, <3>6, <3>7, <3>8, <3>9 DEF EpochInv
  <2> QED
    BY <2>3, <2>4
<1> QED
  BY <1>7, <1>8, LedgerGrows

-------------------------------------------------------------------------------
(***************************************************************************)
(* The lock, and the store, while no lock was stolen.                       *)
(***************************************************************************)

\* While no lock was stolen, a call inside the store holds the lock, and what is
\* taken for dead is dead.
LockInv ==
  /\ \A p \in Processes :
       /\ procs[p].at = "mark" => lock = [owner |-> p, written |-> FALSE]
       /\ procs[p].at \in Inside \ {"mark"} => lock = [owner |-> p, written |-> TRUE]
       /\ procs[p].at \in {"recheck", "unlink"} =>
            procs[p].prey \in Processes /\ procs[procs[p].prey].life = "dead"
  /\ lock.owner = 0 => ~lock.written
  /\ lock.owner \in Processes => procs[lock.owner].life # "new"

\* Where a call comes from, and that the dead stay dead.
LEMMA Comes ==
  ASSUME TypeInv, CallInv, NEW p \in Processes, StoreCall(p) \/ Runtime(p)
  PROVE  LET me == procs[p] now == procs'[p] IN
         /\ now.at = "mark" => Create(p)
         /\ now.at = "read" => Mark(p)
         /\ now.at \in Inside \ {"mark", "read"} =>
              me.at \in Inside \ {"mark"} /\ ~Release(p) /\ ~Create(p)
               /\ ~Mark(p) /\ ~UnlinkDead(p)
         /\ now.at \in {"recheck", "unlink"} =>
              \/ me.at = "recheck" /\ now.prey = me.prey
              \/ lock.written /\ ~Up(lock.owner) /\ now.prey = lock.owner
         /\ me.life = "dead" => now.life = "dead"
         /\ me.life # "new" => now.life # "new"
         /\ me.at # "idle" => me.life = "up"
<1>1. Fits(procs[p]) /\ procs[p].life \in {"new", "up", "dead"}
  BY DEF CallInv, TypeInv, ProcType
<1>2. /\ Create(p) => procs[p].at = "acquire"
      /\ Mark(p) => procs[p].at = "mark"
      /\ UnlinkDead(p) => procs[p].at = "unlink"
      /\ Release(p) => procs[p].at = "release"
  BY DEF Create, Mark, UnlinkDead, Release
<1>3. CASE Create(p)
  BY <1>1, <1>2, <1>3, After DEF But, Fields, Steady, Ended, Fits, Inside
<1>4. CASE Mark(p)
  BY <1>1, <1>2, <1>4, After DEF But, Fields, Steady, Ended, Fits, Inside
<1>5. CASE MeetLock(p)
  BY <1>1, <1>2, <1>5, After DEF But, Fields, Steady, Ended, Fits, Inside
<1>6. CASE RecheckOwner(p)
  BY <1>1, <1>2, <1>6, After DEF But, Fields, Steady, Ended, Fits, Inside
<1>7. CASE UnlinkDead(p)
  BY <1>1, <1>2, <1>7, After DEF But, Fields, Steady, Ended, Fits, Inside
<1>8. CASE Release(p)
  BY <1>1, <1>2, <1>8, After DEF But, Fields, Steady, Ended, Fits, Inside
<1>9. CASE Refuse(p)
  BY <1>1, <1>2, <1>9, After DEF But, Fields, Steady, Ended, Fits, Inside
<1>10. CASE ReadToAppend(p)
  BY <1>1, <1>2, <1>10, After DEF But, Fields, Steady, Ended, Fits, Inside
<1>11. CASE WriteCheckpoint(p)
  BY <1>1, <1>2, <1>11, After DEF But, Fields, Steady, Ended, Fits, Inside
<1>12. CASE WriteCheckpointHead(p)
  BY <1>1, <1>2, <1>12, After DEF But, Fields, Steady, Ended, Fits, Inside
<1>13. CASE ReadToConsume(p)
  BY <1>1, <1>2, <1>13, After DEF But, Fields, Steady, Ended, Fits, Inside
<1>14. CASE WriteReceipt(p)
  BY <1>1, <1>2, <1>14, After DEF But, Fields, Steady, Ended, Fits, Inside
<1>15. CASE WriteReceiptHead(p)
  BY <1>1, <1>2, <1>15, After DEF But, Fields, Steady, Ended, Fits, Inside
<1>16. CASE Pin(p)
  BY <1>1, <1>2, <1>16, After DEF But, Fields, Steady, Ended, Fits, Inside
<1>17. CASE AppendRecovered(p)
  BY <1>1, <1>2, <1>17, After DEF But, Fields, Steady, Ended, Fits, Inside
<1>18. CASE Operate(p)
  BY <1>1, <1>2, <1>18, After DEF But, Fields, Steady, Ended, Fits, Inside
<1>19. CASE Boot(p)
  BY <1>1, <1>2, <1>19, After DEF But, Fields, Steady, Ended, Fits, Inside
<1>20. CASE Crash(p)
  BY <1>1, <1>2, <1>20, After DEF But, Fields, Steady, Ended, Fits, Inside, New
<1>21. CASE BeginCheckpoint(p)
  BY <1>1, <1>2, <1>21, After DEF But, Fields, Steady, Ended, Fits, Inside
<1>22. CASE TakeSnapshot(p)
  BY <1>1, <1>2, <1>22, After DEF But, Fields, Steady, Ended, Fits, Inside
<1>23. CASE BeginRecover(p)
  BY <1>1, <1>2, <1>23, After DEF But, Fields, Steady, Ended, Fits, Inside
<1>24. CASE \E r \in Requests, cost \in 1..Budget : BeginConsume(p, r, cost)
  BY <1>1, <1>2, <1>24, After DEF But, Fields, Steady, Ended, Fits, Inside
<1>25. CASE Reconstruct(p) \/ Resume(p)
  <2>1. procs[p].at \in {"reconstruct", "resume"}
    BY <1>25, After
  <2>2. procs'[p].at \in {"release", "recover", "reconstruct"} /\ procs'[p].life = procs[p].life
    BY <1>25, After DEF But, Fields, Steady
  <2> QED
    BY <1>1, <1>2, <2>1, <2>2 DEF Fits, Inside
<1>26. CASE Finalize(p)
  <2>1. procs[p].at = "idle" /\ procs[p].life = "up"
    BY <1>26 DEF Finalize, Up
  <2> QED
    BY <1>1, <1>2, <1>26, <2>1, After DEF Inside
<1> QED
  BY <1>3, <1>4, <1>5, <1>6, <1>7, <1>8, <1>9, <1>10, <1>11, <1>12, <1>13, <1>14, <1>15, <1>16,
     <1>17, <1>18, <1>19, <1>20, <1>21, <1>22, <1>23, <1>24, <1>25, <1>26 DEF StoreCall, Runtime

\* Every step that steals no lock keeps the lock: it is created when free, removed by
\* its owner, or taken from an owner that is dead.
LEMMA LockStep ==
  ASSUME TypeInv, CallInv, LockInv, NEW p \in Processes, StoreCall(p) \/ Runtime(p), ~stolen'
  PROVE  LockInv'
<1>1. /\ \A q \in Processes : q # p => procs'[q] = procs[q]
      /\ \A q \in Processes : procs[q].at # "idle" => procs[q].life = "up"
      /\ \A q \in Processes : procs[q].life \in {"new", "up", "dead"}
      /\ \A q \in Processes : procs[q].life = "dead" => procs'[q].life = "dead"
      /\ \A q \in Processes : procs[q].life # "new" => procs'[q].life # "new"
  <2>1. \A q \in Processes : procs[q].life \in {"new", "up", "dead"}
    BY DEF TypeInv, ProcType
  <2>2. \A q \in Processes : procs[q].at # "idle" => procs[q].life = "up"
    BY DEF CallInv, Fits
  <2>3. \A q \in Processes : q # p => procs'[q] = procs[q]
    BY Moves
  <2>4. /\ procs[p].life = "dead" => procs'[p].life = "dead"
        /\ procs[p].life # "new" => procs'[p].life # "new"
    BY Comes
  <2> QED
    BY <2>1, <2>2, <2>3, <2>4
<1>2. /\ lock \in [owner : Processes \cup {0}, written : BOOLEAN]
      /\ \A q \in Processes : q # 0
  BY ProcessesAssumption DEF TypeInv
<1>3. \A q \in Processes : procs[q].at \in Inside => lock.owner = q
  BY DEF LockInv, Inside
<1>4. ASSUME NEW q \in Processes, procs'[q].at \in {"recheck", "unlink"}
      PROVE  procs'[q].prey \in Processes /\ procs'[procs'[q].prey].life = "dead"
  <2>1. CASE procs[q].at \in {"recheck", "unlink"} /\ procs'[q].prey = procs[q].prey
    BY <1>1, <2>1 DEF LockInv
  <2>2. CASE lock.written /\ ~Up(lock.owner) /\ procs'[q].prey = lock.owner
    <3>1. lock.owner \in Processes
      BY <1>2, <2>2 DEF LockInv
    <3>2. procs[lock.owner].life = "dead"
      BY <1>1, <2>2, <3>1 DEF LockInv, Up
    <3> QED
      BY <1>1, <2>2, <3>1, <3>2
  <2> QED
    BY <1>1, <1>4, <2>1, <2>2, Comes
<1>5. CASE Create(p)
  <2>1. lock = Free /\ lock' = [owner |-> p, written |-> FALSE] /\ procs[p].at = "acquire"
    BY <1>5 DEF Create
  <2>2. procs'[p].at = "mark"
    BY <1>5, After
  <2>3. \A q \in Processes : q # p => procs'[q].at \notin Inside
    BY <1>1, <1>2, <1>3, <2>1 DEF Free
  <2>4. procs'[p].life # "new"
    BY <1>1, <2>1
  <2> QED
    BY <1>2, <1>4, <2>1, <2>2, <2>3, <2>4 DEF LockInv, Inside
<1>6. CASE Mark(p)
  <2>1. procs[p].at = "mark" /\ lock = [owner |-> p, written |-> FALSE]
    BY <1>6 DEF Mark, LockInv
  <2>2. lock' = [owner |-> p, written |-> TRUE]
    BY <1>6, <2>1 DEF Mark
  <2>3. procs'[p].at = "read"
    BY <1>6, After
  <2>4. \A q \in Processes : q # p => procs'[q].at \notin Inside
    BY <1>1, <1>3, <2>1
  <2>5. procs'[p].life # "new"
    BY <1>1, <2>1
  <2> QED
    BY <1>2, <1>4, <2>2, <2>3, <2>4, <2>5 DEF LockInv, Inside
<1>7. CASE UnlinkDead(p)
  <2>1. procs[p].at = "unlink" /\ lock' = Free /\ lock.owner \in {0, procs[p].prey}
    BY <1>7 DEF UnlinkDead
  <2>2. \A q \in Processes : procs[q].at \notin Inside
    <3>1. procs[procs[p].prey].life = "dead" /\ procs[p].prey \in Processes
      BY <2>1 DEF LockInv
    <3>2. \A q \in Processes : procs[q].at \in Inside => q = procs[p].prey
      BY <1>2, <1>3, <2>1
    <3> QED
      BY <1>1, <3>1, <3>2 DEF Inside
  <2>3. \A q \in Processes : procs'[q].at \notin Inside
    <3>1. procs'[p].at \in {"idle", "acquire"}
      BY <1>7, After DEF Ended
    <3> QED
      BY <1>1, <2>2, <3>1 DEF Inside
  <2> QED
    BY <1>2, <1>4, <2>1, <2>3 DEF LockInv, Free, Inside
<1>8. CASE Release(p)
  <2>1. procs[p].at = "release" /\ lock = [owner |-> p, written |-> TRUE]
    BY <1>8 DEF Release, LockInv, Inside
  <2>2. lock' = Free
    BY <1>8, <2>1 DEF Release
  <2>3. \A q \in Processes : procs'[q].at \notin Inside
    <3>1. procs'[p].at = "idle"
      BY <1>8, After DEF Ended
    <3> QED
      BY <1>1, <1>3, <2>1, <3>1 DEF Inside
  <2> QED
    BY <1>2, <1>4, <2>2, <2>3 DEF LockInv, Free, Inside
<1>9. CASE ~Create(p) /\ ~Mark(p) /\ ~UnlinkDead(p) /\ ~Release(p)
  <2>1. lock' = lock
    BY <1>9, Frames
  <2>2. ASSUME NEW q \in Processes
        PROVE  /\ procs'[q].at = "mark" => lock = [owner |-> q, written |-> FALSE]
               /\ procs'[q].at \in Inside \ {"mark"} => lock = [owner |-> q, written |-> TRUE]
    <3>1. CASE q # p
      BY <1>1, <3>1 DEF LockInv
    <3>2. CASE q = p
      BY <1>9, <3>2, Comes DEF LockInv
    <3> QED
      BY <3>1, <3>2
  <2>3. lock.owner \in Processes => procs'[lock.owner].life # "new"
    BY <1>1 DEF LockInv
  <2> QED
    BY <1>4, <2>1, <2>2, <2>3 DEF LockInv
<1> QED
  BY <1>5, <1>6, <1>7, <1>8, <1>9

\* One call at a time is inside the store.
LEMMA OneInside ==
  ASSUME LockInv, NEW p \in Processes, NEW q \in Processes,
         procs[p].at \in Inside, procs[q].at \in Inside
  PROVE  p = q
<1>1. lock.owner = p /\ lock.owner = q
  BY DEF LockInv, Inside
<1> QED
  BY <1>1

\* Every checkpoint with this id has its head written.
Sealed(id) == \A n \in DOMAIN files : files[n].id = id => head.n >= n

\* While no lock was stolen, the store is where the call inside it left it, what
\* was returned is there, and what is used is sealed.
StoreInv ==
  /\ head.n <= Len(files)
  /\ \A c \in kept : c.n \in DOMAIN files /\ files[c.n].id = c.id
  /\ \A p \in Processes :
       /\ procs[p].done => procs[p].at = "release"
       /\ procs[p].op = "append" /\ procs[p].at = "write" =>
            procs[p].n = Len(files) /\ head.n = Len(files)
       /\ procs[p].op = "append" /\ (procs[p].at = "head" \/ procs[p].done) =>
            procs[p].n + 1 = Len(files) /\ files[Len(files)].id = procs[p].id
       /\ procs[p].op \in {"recover", "consume"} => Sealed(procs[p].id)
  /\ \A i \in DOMAIN ledger : Sealed(ledger[i].from)
  /\ \A c \in spent : Sealed(c.id)

\* What a call finds in the store, and what it did to it.
LEMMA Finds ==
  ASSUME TypeInv, CallInv, NEW p \in Processes, StoreCall(p) \/ Runtime(p),
         procs[p].done => procs[p].at = "release"
  PROVE  LET me == procs[p] now == procs'[p] IN
         /\ now.done => now.at = "release"
         /\ now.op = "append" /\ now.at = "write" =>
              ReadToAppend(p) /\ StoreOK /\ now.n = Len(files)
         /\ now.op = "append" /\ now.at = "head" =>
              WriteCheckpoint(p) /\ now.n = me.n /\ now.id = me.id
         /\ now.op = "append" /\ now.done =>
              WriteCheckpointHead(p) /\ now.n = me.n /\ now.id = me.id
         /\ now.op \in {"recover", "consume"} =>
              \/ me.op = now.op /\ now.id = me.id
              \/ now.id = 0
              \/ StoreOK /\ files # <<>> /\ now.id = Latest.id
<1>1. Fits(procs[p])
  BY DEF CallInv
<1>2. procs[p].done => procs[p].at = "release"
  OBVIOUS
<1>3. CASE Create(p)
  BY <1>1, <1>2, <1>3, After DEF But, Fields, Steady, Ended, Fits
<1>4. CASE Mark(p)
  BY <1>1, <1>2, <1>4, After DEF But, Fields, Steady, Ended, Fits
<1>5. CASE MeetLock(p)
  BY <1>1, <1>2, <1>5, After DEF But, Fields, Steady, Ended, Fits
<1>6. CASE RecheckOwner(p)
  BY <1>1, <1>2, <1>6, After DEF But, Fields, Steady, Ended, Fits
<1>7. CASE UnlinkDead(p)
  BY <1>1, <1>2, <1>7, After DEF But, Fields, Steady, Ended, Fits
<1>8. CASE Release(p)
  BY <1>1, <1>2, <1>8, After DEF But, Fields, Steady, Ended, Fits
<1>9. CASE Refuse(p)
  BY <1>1, <1>2, <1>9, After DEF But, Fields, Steady, Ended, Fits
<1>10. CASE ReadToAppend(p)
  <2>1. procs[p].op = "append" /\ procs[p].at = "read"
    BY <1>10, After
  <2>2. /\ procs'[p].op = procs[p].op /\ procs'[p].done = procs[p].done
        /\ \/ StoreOK /\ procs'[p].at = "write" /\ procs'[p].n = Len(files)
           \/ procs'[p].at = "release"
    BY <1>10, After DEF But, Fields, Steady
  <2> QED
    BY <1>1, <1>2, <1>10, <2>1, <2>2 DEF Fits
<1>11. CASE WriteCheckpoint(p)
  BY <1>1, <1>2, <1>11, After DEF But, Fields, Steady, Ended, Fits
<1>12. CASE WriteCheckpointHead(p)
  BY <1>1, <1>2, <1>12, After DEF But, Fields, Steady, Ended, Fits
<1>13. CASE WriteReceipt(p)
  BY <1>1, <1>2, <1>13, After DEF But, Fields, Steady, Ended, Fits
<1>14. CASE WriteReceiptHead(p)
  BY <1>1, <1>2, <1>14, After DEF But, Fields, Steady, Ended, Fits
<1>15. CASE Pin(p)
  <2>1. procs[p].op = "recover" /\ procs[p].at = "read"
    BY <1>15, After
  <2>2. /\ procs'[p].op = procs[p].op /\ procs'[p].done = procs[p].done
        /\ \/ /\ StoreOK /\ files # <<>>
              /\ procs'[p].at = "resume" /\ procs'[p].id = Latest.id
           \/ procs'[p].at = "release" /\ procs'[p].id = procs[p].id
    BY <1>15, After DEF But, Fields, Steady
  <2> QED
    BY <1>1, <1>2, <2>1, <2>2 DEF Fits
<1>16. CASE AppendRecovered(p)
  <2>1. procs[p].at = "recover"
    BY <1>16, After
  <2>2. procs'[p].at = "release" /\ procs'[p].op = procs[p].op /\ procs'[p].id = procs[p].id
    BY <1>16, After DEF But, Fields, Steady
  <2> QED
    BY <1>1, <1>2, <2>1, <2>2 DEF Fits
<1>17. CASE Operate(p)
  <2>1. procs[p].at \in {"idle", "tipped"}
    BY <1>17, After
  <2>2. /\ procs'[p].at = procs[p].at /\ procs'[p].op = procs[p].op
        /\ procs'[p].id = procs[p].id /\ procs'[p].done = procs[p].done
    BY <1>17, After DEF But, Fields, Steady
  <2> QED
    BY <1>1, <1>2, <2>1, <2>2 DEF Fits
<1>18. CASE Boot(p)
  BY <1>1, <1>2, <1>18, After DEF But, Fields, Steady, Ended, Fits
<1>19. CASE Crash(p)
  BY <1>1, <1>2, <1>19, After DEF But, Fields, Steady, Ended, Fits, New
<1>20. CASE BeginCheckpoint(p)
  <2>1. procs[p].at = "idle"
    BY <1>20, After
  <2>2. procs'[p].at = "tipped" /\ procs'[p].op = "append" /\ procs'[p].done = procs[p].done
    BY <1>20, After DEF But, Fields, Steady
  <2> QED
    BY <1>1, <1>2, <2>1, <2>2 DEF Fits
<1>21. CASE TakeSnapshot(p)
  BY <1>1, <1>2, <1>21, After DEF But, Fields, Steady, Ended, Fits
<1>22. CASE BeginRecover(p)
  <2>1. procs[p].at = "idle"
    BY <1>22, After
  <2>2. /\ procs'[p].at = "acquire" /\ procs'[p].op = "recover"
        /\ procs'[p].id = procs[p].id /\ procs'[p].done = procs[p].done
    BY <1>22, After DEF But, Fields, Steady
  <2> QED
    BY <1>1, <1>2, <2>1, <2>2 DEF Fits
<1>23. CASE \E r \in Requests, cost \in 1..Budget : BeginConsume(p, r, cost)
  <2>1. procs[p].at = "idle"
    BY <1>23, After
  <2>2. /\ procs'[p].at = "acquire" /\ procs'[p].op = "consume"
        /\ procs'[p].id = procs[p].id /\ procs'[p].done = procs[p].done
    BY <1>23, After DEF But, Fields, Steady
  <2> QED
    BY <1>1, <1>2, <2>1, <2>2 DEF Fits
<1>24. CASE Reconstruct(p) \/ Resume(p)
  <2>1. procs[p].at \in {"reconstruct", "resume"}
    BY <1>24, After
  <2>2. /\ procs'[p].at \in {"release", "recover", "reconstruct"} /\ procs'[p].op = procs[p].op
        /\ procs'[p].id = procs[p].id /\ procs'[p].done = procs[p].done
    BY <1>24, After DEF But, Fields, Steady
  <2> QED
    BY <1>1, <1>2, <1>10, <2>1, <2>2 DEF Fits
<1>25. CASE Finalize(p)
  <2>1. procs[p].at = "idle" /\ procs[p].life = "up"
    BY <1>25 DEF Finalize, Up
  <2> QED
    BY <1>1, <1>2, <1>25, <2>1, After DEF Fits
<1>26. CASE ReadToConsume(p)
  <2>1. procs[p].op = "consume" /\ procs[p].at = "read"
    BY <1>26, After
  <2>2. CASE procs'[p].at = "release" /\ Steady(procs[p], procs'[p])
    <3>1. /\ procs'[p].op = procs[p].op /\ procs'[p].id = procs[p].id
          /\ procs'[p].done = procs[p].done
      BY <2>2 DEF But, Fields, Steady
    <3> QED
      BY <1>2, <2>1, <2>2, <3>1
  <2>3. CASE /\ StoreOK /\ files # <<>> /\ procs'[p].id = Latest.id /\ procs'[p].at = "write"
             /\ procs'[p].op = procs[p].op /\ procs'[p].done = procs[p].done
    BY <1>2, <2>1, <2>3
  <2>4. \/ procs'[p].at = "release" /\ Steady(procs[p], procs'[p])
        \/ /\ StoreOK /\ files # <<>> /\ procs'[p].id = Latest.id /\ procs'[p].at = "write"
           /\ procs'[p].op = procs[p].op /\ procs'[p].done = procs[p].done
    BY <1>26, After DEF But, Fields
  <2> QED
    BY <2>2, <2>3, <2>4
<1> QED
  BY <1>3, <1>4, <1>5, <1>6, <1>7, <1>8, <1>9, <1>10, <1>11, <1>12, <1>13, <1>14, <1>15, <1>16,
     <1>17, <1>18, <1>19, <1>20, <1>21, <1>22, <1>23, <1>24, <1>25, <1>26 DEF StoreCall, Runtime

\* A store that verifies has the head of its last checkpoint.
LEMMA StoreIsSealed ==
  ASSUME TypeInv, StoreOK
  PROVE  head.n = Len(files) /\ \A id : Sealed(id)
<1>1. Len(files) \in Nat /\ DOMAIN files = 1..Len(files) /\ Len(<<>>) = 0
  BY LenProperties, EmptySeq DEF TypeInv
<1>2. head.n = Len(files)
  BY <1>1 DEF StoreOK, NoHead
<1> QED
  BY <1>1, <1>2 DEF Sealed

\* Only the call that is inside the store moves its files, one at a time.
LEMMA FilesMove ==
  ASSUME TypeInv, CallInv, LockInv, StoreInv, NEW p \in Processes, StoreCall(p) \/ Runtime(p)
  PROVE  /\ head.n <= head'.n /\ head.n \in Nat /\ head'.n \in Nat
         /\ head'.n <= Len(files')
         /\ \A n \in DOMAIN files : n \in DOMAIN files' /\ files'[n] = files[n]
         /\ \A n \in DOMAIN files' : n \in DOMAIN files
              \/ /\ WriteCheckpoint(p) /\ n = Len(files) + 1 /\ n = Len(files')
                 /\ files'[n].id = procs[p].id /\ procs[p].n = Len(files)
<1>1. /\ TypeInv' /\ Len(files) \in Nat /\ Len(files') \in Nat
      /\ DOMAIN files = 1..Len(files) /\ DOMAIN files' = 1..Len(files')
      /\ head.n \in Nat /\ head'.n \in Nat /\ procs[p].n \in Nat
  BY TypeStep, LenProperties DEF TypeInv, HeadType, ProcType
<1>2. CASE WriteCheckpoint(p)
  <2>1. procs[p].n = Len(files)
    BY <1>2 DEF StoreInv, WriteCheckpoint
  <2>2. Len(files') = Len(files) + 1 /\ files'[Len(files) + 1].id = procs[p].id
        /\ \A n \in 1..Len(files) : files'[n] = files[n]
    <3>1. /\ Len(files') = IF procs[p].n = Len(files) THEN Len(files) + 1 ELSE Len(files)
          /\ files'[procs[p].n + 1].id = procs[p].id
          /\ \A m \in 1..Len(files') : m # procs[p].n + 1 =>
               m \in 1..Len(files) /\ files'[m] = files[m]
      BY <1>2, FilesGrow
    <3> QED
      BY <1>1, <2>1, <3>1
  <2>3. head' = head
    BY <1>2 DEF WriteCheckpoint
  <2> QED
    BY <1>1, <1>2, <2>1, <2>2, <2>3 DEF StoreInv
<1>3. CASE ~WriteCheckpoint(p)
  <2>1. files' = files
    BY <1>3, Frames
  <2>2. CASE WriteCheckpointHead(p)
    <3>1. procs[p].n + 1 = Len(files) /\ head'.n = procs[p].n + 1
      BY <2>2 DEF WriteCheckpointHead, StoreInv
    <3> QED
      BY <1>1, <2>1, <3>1 DEF StoreInv
  <2>3. CASE ~WriteCheckpointHead(p)
    BY <1>1, <2>1, <2>3, Frames DEF StoreInv
  <2> QED
    BY <2>2, <2>3
<1> QED
  BY <1>2, <1>3

\* What is sealed stays so: a new checkpoint has a new id.
LEMMA SealedStays ==
  ASSUME TypeInv, CallInv, LockInv, StoreInv, IdInv, NEW p \in Processes,
         StoreCall(p) \/ Runtime(p), NEW id \in Nat, Sealed(id), Seen(id) \/ id = 0
  PROVE  Sealed(id)'
<1>1. ASSUME NEW n \in DOMAIN files', files'[n].id = id PROVE head'.n >= n
  <2>1. CASE n \in DOMAIN files
    <3>1. head.n >= n /\ n \in Nat
      <4>1. files'[n] = files[n]
        BY <2>1, FilesMove
      <4>2. n \in Nat
        BY <2>1, LenProperties DEF TypeInv
      <4> QED
        BY <1>1, <2>1, <4>1, <4>2 DEF Sealed
    <3> QED
      BY <3>1, FilesMove
  <2>2. CASE n \notin DOMAIN files
    <3>1. WriteCheckpoint(p) /\ procs[p].id = id
      BY <1>1, <2>2, FilesMove
    <3>2. Writes(p, id)
      BY <3>1 DEF WriteCheckpoint, Writes
    <3> QED
      BY <3>2 DEF IdInv, Writes
  <2> QED
    BY <2>1, <2>2
<1> QED
  BY <1>1 DEF Sealed

\* Every step that steals no lock keeps the store: append writes the record and then
\* its head, and nobody else writes a checkpoint meanwhile.
LEMMA StoreStep ==
  ASSUME TypeInv, CallInv, LockInv, StoreInv, IdInv, NEW p \in Processes,
         StoreCall(p) \/ Runtime(p)
  PROVE  StoreInv'
<1>1. /\ TypeInv' /\ Len(files) \in Nat /\ Len(files') \in Nat
      /\ DOMAIN files = 1..Len(files) /\ DOMAIN files' = 1..Len(files')
      /\ \A q \in Processes : procs[q].id \in Nat /\ procs[q].n \in Nat
  BY TypeStep, LenProperties DEF TypeInv, ProcType
<1>2. head'.n <= Len(files')
  BY FilesMove
<1>3. ASSUME NEW c \in kept' PROVE c.n \in DOMAIN files' /\ files'[c.n].id = c.id
  <2>1. CASE c \in kept
    BY <2>1, FilesMove DEF StoreInv
  <2>2. CASE c \notin kept
    <3>1. Release(p) /\ procs[p].done /\ procs[p].op = "append"
          /\ c = [n |-> procs[p].n + 1, id |-> procs[p].id]
      BY <1>3, <2>2, Frames DEF Release
    <3>2. procs[p].n + 1 = Len(files) /\ files[Len(files)].id = procs[p].id
      BY <3>1 DEF StoreInv
    <3>3. Len(files) \in DOMAIN files
      BY <1>1, <3>2
    <3> QED
      BY <3>1, <3>2, <3>3, FilesMove
  <2> QED
    BY <2>1, <2>2
<1>4. ASSUME NEW q \in Processes, NEW id \in Nat, id = procs[q].id,
             procs[q].op \in {"recover", "consume"}
      PROVE  Sealed(id)'
  <2>1. Seen(id) /\ Sealed(id)
    BY <1>4 DEF Seen, Writes, StoreInv
  <2> QED
    BY <2>1, SealedStays
<1>5. Sealed(0)'
  <2>1. \A n \in DOMAIN files' : files'[n].id # 0
    BY IdStep DEF IdInv
  <2> QED
    BY <2>1 DEF Sealed
<1>6. ASSUME NEW q \in Processes, NEW id \in Nat, id = procs'[q].id,
             procs'[q].op \in {"recover", "consume"}
      PROVE  Sealed(id)'
  <2>1. CASE q # p
    BY <1>4, <1>6, <2>1, Moves
  <2>2. CASE q = p
    <3>1. \/ procs[p].op = procs'[p].op /\ procs'[p].id = procs[p].id
          \/ procs'[p].id = 0
          \/ StoreOK /\ files # <<>> /\ procs'[p].id = Latest.id
      BY <1>6, <2>2, Finds DEF StoreInv
    <3>2. CASE StoreOK /\ files # <<>> /\ procs'[p].id = Latest.id
      <4>1. Sealed(id)
        BY StoreIsSealed, <3>2
      <4>2. Seen(id)
        BY <1>6, <2>2, <3>2, LatestIs DEF Seen
      <4> QED
        BY <4>1, <4>2, SealedStays
    <3> QED
      BY <1>4, <1>5, <1>6, <2>2, <3>1, <3>2
  <2> QED
    BY <2>1, <2>2
<1>7. ASSUME NEW q \in Processes
      PROVE  /\ procs'[q].done => procs'[q].at = "release"
             /\ procs'[q].op = "append" /\ procs'[q].at = "write" =>
                  procs'[q].n = Len(files') /\ head'.n = Len(files')
             /\ procs'[q].op = "append" /\ (procs'[q].at = "head" \/ procs'[q].done) =>
                  procs'[q].n + 1 = Len(files') /\ files'[Len(files')].id = procs'[q].id
  <2>1. CASE q # p
    <3>1. procs'[q] = procs[q]
      BY <2>1, Moves
    <3>2. CASE procs[p].at \in {"write", "head"}
      <4>1. procs[q].at \notin Inside
        BY <2>1, <3>2, OneInside DEF Inside
      <4> QED
        BY <3>1, <4>1 DEF StoreInv, Inside
    <3>3. CASE procs[p].at \notin {"write", "head"}
      <4>1. files' = files /\ head' = head
        BY <3>3, Frames DEF WriteCheckpoint, WriteCheckpointHead
      <4> QED
        BY <3>1, <4>1 DEF StoreInv
    <3> QED
      BY <3>2, <3>3
  <2>2. CASE q = p
    <3>1. /\ procs'[p].done => procs'[p].at = "release"
          /\ procs'[p].op = "append" /\ procs'[p].at = "write" =>
               ReadToAppend(p) /\ StoreOK /\ procs'[p].n = Len(files)
          /\ procs'[p].op = "append" /\ procs'[p].at = "head" =>
               WriteCheckpoint(p) /\ procs'[p].n = procs[p].n /\ procs'[p].id = procs[p].id
          /\ procs'[p].op = "append" /\ procs'[p].done =>
               WriteCheckpointHead(p) /\ procs'[p].n = procs[p].n /\ procs'[p].id = procs[p].id
      BY Finds DEF StoreInv
    <3>2. CASE procs'[p].op = "append" /\ procs'[p].at = "write"
      <4>1. files' = files /\ head' = head
        BY <3>1, <3>2 DEF ReadToAppend, storeVars
      <4> QED
        BY <2>2, <3>1, <3>2, <4>1, StoreIsSealed
    <3>3. CASE procs'[p].op = "append" /\ procs'[p].at = "head"
      <4>1. procs[p].n = Len(files) /\ Len(files') = Len(files) + 1
            /\ files'[procs[p].n + 1].id = procs[p].id
        <5>1. WriteCheckpoint(p)
          BY <3>1, <3>3
        <5>2. procs[p].n = Len(files)
          BY <5>1 DEF StoreInv, WriteCheckpoint
        <5> QED
          BY <1>1, <5>1, <5>2, FilesGrow
      <4> QED
        BY <2>2, <3>1, <3>3, <4>1
    <3>4. CASE procs'[p].op = "append" /\ procs'[p].done
      <4>1. WriteCheckpointHead(p)
        BY <3>1, <3>4
      <4>2. procs[p].n + 1 = Len(files) /\ files[Len(files)].id = procs[p].id /\ files' = files
        BY <4>1 DEF WriteCheckpointHead, StoreInv
      <4> QED
        BY <2>2, <3>1, <3>4, <4>2
    <3> QED
      BY <2>2, <3>1, <3>2, <3>3, <3>4
  <2> QED
    BY <2>1, <2>2
<1>8. ASSUME NEW i \in DOMAIN ledger', NEW id \in Nat, id = ledger'[i].from
      PROVE  Sealed(id)'
  <2>1. /\ ledger \in Seq(EventType) /\ Len(ledger) \in Nat
        /\ DOMAIN ledger = 1..Len(ledger) /\ DOMAIN ledger' = 1..Len(ledger')
    BY <1>1, LenProperties DEF TypeInv
  <2>2. CASE i \in DOMAIN ledger /\ ledger'[i] = ledger[i]
    <3>1. Sealed(id) /\ Seen(id)
      BY <1>8, <2>2 DEF StoreInv, Seen
    <3> QED
      BY <3>1, SealedStays
  <2>3. ASSUME NEW e \in EventType, ledger' = Append(ledger, e),
               \/ AppendRecovered(p) /\ e.from = procs[p].id
               \/ e.from = 0
        PROVE  Sealed(id)'
    <3>1. Len(ledger') = Len(ledger) + 1 /\ ledger'[Len(ledger) + 1] = e
          /\ \A j \in 1..Len(ledger) : ledger'[j] = ledger[j]
      BY <2>1, <2>3, AppendProperties
    <3>2. CASE i = Len(ledger) + 1 /\ AppendRecovered(p) /\ e.from = procs[p].id
      <4>1. procs[p].op = "recover"
        BY <3>2 DEF AppendRecovered, CallInv, Fits
      <4> QED
        BY <1>4, <1>8, <3>1, <3>2, <4>1
    <3> QED
      BY <1>5, <1>8, <2>1, <2>2, <2>3, <3>1, <3>2
  <2> QED
    BY <1>8, <2>2, <2>3, LedgerGrows
<1>9. ASSUME NEW c \in spent', NEW id \in Nat, id = c.id
      PROVE  Sealed(id)'
  <2>1. CASE c \in spent
    <3>1. Sealed(id) /\ Seen(id)
      BY <1>9, <2>1 DEF StoreInv, Seen
    <3> QED
      BY <3>1, SealedStays
  <2>2. CASE c \notin spent
    <3>1. Release(p) /\ procs[p].op = "consume" /\ id = procs[p].id
      BY <1>9, <2>2, Frames DEF Release
    <3> QED
      BY <1>4, <3>1
  <2> QED
    BY <2>1, <2>2
<1>10. /\ \A q \in Processes : procs'[q].id \in Nat
       /\ \A i \in DOMAIN ledger' : ledger'[i].from \in Nat
       /\ \A c \in spent' : c.id \in Nat
  <2>1. \A i \in DOMAIN ledger' : ledger'[i] \in EventType
    BY <1>1, LenProperties, ElementOfSeq DEF TypeInv
  <2> QED
    BY <1>1, <2>1 DEF TypeInv, ProcType, EventType
<1>11. \A q \in Processes : procs'[q].op \in {"recover", "consume"} =>
         \A n \in DOMAIN files' : files'[n].id = procs'[q].id => head'.n >= n
  BY <1>6, <1>10 DEF Sealed
<1>12. \A i \in DOMAIN ledger' :
         \A n \in DOMAIN files' : files'[n].id = ledger'[i].from => head'.n >= n
  BY <1>8, <1>10 DEF Sealed
<1>13. \A c \in spent' :
         \A n \in DOMAIN files' : files'[n].id = c.id => head'.n >= n
  BY <1>9, <1>10 DEF Sealed
<1> QED
  BY <1>2, <1>3, <1>7, <1>11, <1>12, <1>13 DEF StoreInv, Sealed

-------------------------------------------------------------------------------
(***************************************************************************)
(* What receipts add up to.                                                *)
(***************************************************************************)

\* A set of numbers that is not empty has a least one: what stands for induction below,
\* where a set of counterexamples takes the place of a predicate.
LEMMA LeastNat ==
  ASSUME NEW T \in SUBSET Nat, T # {}
  PROVE  \E x \in T : \A y \in T : x <= y
<1>1. IsWellFoundedOn(OpToRel(<, Nat), Nat)
  BY NatLessThanWellFounded
<1>2. PICK R : R = OpToRel(<, Nat)
  OBVIOUS
<1>3. \A x, y \in Nat : x < y => <<x, y>> \in R
  BY <1>2 DEF OpToRel
<1>4. PICK x \in T : \A y \in T : ~(<<y, x>> \in R)
  BY <1>1, <1>2, WFMin
<1>5. ASSUME NEW y \in T PROVE x <= y
  <2>1. ~(y < x)
    BY <1>3, <1>4
  <2>2. x \in Int /\ y \in Int
    OBVIOUS
  <2> QED
    BY <2>1, <2>2
<1> QED
  BY <1>5

\* A property of finite sets that holds of {} and of s when of every s \ {x} holds of
\* all: bad is the set of those of which it does not.
LEMMA NoLeastBad ==
  ASSUME NEW U, IsFiniteSet(U), NEW bad \in SUBSET SUBSET U,
         \A s \in bad : \E x \in s, t \in bad : t \subseteq s \ {x}
  PROVE  bad = {}
<1> SUFFICES ASSUME bad # {} PROVE FALSE
  OBVIOUS
<1> DEFINE T == {Cardinality(s) : s \in bad}
<1>1. \A s \in bad : IsFiniteSet(s) /\ Cardinality(s) \in Nat
  BY FS_Subset, FS_CardinalityType
<1>2. T \in SUBSET Nat /\ T # {}
  BY <1>1
<1>3. PICK n \in T : \A m \in T : n <= m
  BY <1>2, LeastNat
<1>4. PICK s \in bad : n = Cardinality(s)
  BY <1>3
<1>5. PICK x \in s, t \in bad : t \subseteq s \ {x}
  OBVIOUS
<1>6. Cardinality(s \ {x}) = Cardinality(s) - 1 /\ IsFiniteSet(s \ {x})
  BY <1>1, FS_RemoveElement
<1>7. Cardinality(t) <= Cardinality(s \ {x})
  BY <1>5, <1>6, FS_Subset
<1>8. Cardinality(s) <= Cardinality(t)
  BY <1>3, <1>4
<1> QED
  BY <1>1, <1>6, <1>7, <1>8

\* g sums the weights w over the subsets of U, each in the order of the choices c.
IsSum(g, U, w, c) ==
  g = [s \in SUBSET U |-> IF s = {} THEN 0 ELSE w[c[s]] + g[s \ {c[s]}]]

\* c chooses an element of every set.
Chooses(c, U) == \A s \in SUBSET U : s # {} => c[s] \in s

\* There is such a sum.
LEMMA SumExists ==
  ASSUME NEW U, IsFiniteSet(U), NEW w \in [U -> Nat], NEW c, Chooses(c, U)
  PROVE  \E g \in [SUBSET U -> Nat] : IsSum(g, U, w, c)
<1> DEFINE Step(g, s) == IF s = {} THEN 0 ELSE w[c[s]] + g[s \ {c[s]}]
           Below(n) == {s \in SUBSET U : Cardinality(s) <= n}
           H(n) == \E g \in [SUBSET U -> Nat] : \A s \in Below(n) : g[s] = Step(g, s)
           T == {n \in Nat : ~H(n)}
<1>1. \A s \in SUBSET U : IsFiniteSet(s) /\ Cardinality(s) \in Nat
  BY FS_Subset, FS_CardinalityType
<1>2. ASSUME NEW g \in [SUBSET U -> Nat], NEW s \in SUBSET U PROVE Step(g, s) \in Nat
  BY DEF Chooses
<1>3. T = {}
  <2> SUFFICES ASSUME T # {} PROVE FALSE
    OBVIOUS
  <2>1. PICK n \in T : \A m \in T : n <= m
    BY LeastNat
  <2>2. CASE n = 0
    <3> DEFINE g == [s \in SUBSET U |-> 0]
    <3>1. \A s \in Below(0) : g[s] = Step(g, s)
      <4>1. \A s \in Below(0) : s = {}
        BY <1>1, FS_EmptySet
      <4> QED
        BY <4>1
    <3>2. g \in [SUBSET U -> Nat]
      OBVIOUS
    <3>3. H(0)
      BY <3>1, <3>2
    <3> QED
      BY <2>1, <2>2, <3>3
  <2>3. CASE n # 0
    <3>1. n - 1 \in Nat /\ n - 1 < n
      BY <2>3
    <3>2. H(n - 1)
      <4>1. ASSUME n - 1 \in T PROVE FALSE
        <5>1. n <= n - 1
          BY <2>1, <4>1
        <5> QED
          BY <3>1, <5>1
      <4> QED
        BY <3>1, <4>1
    <3>3. PICK g \in [SUBSET U -> Nat] : \A s \in Below(n - 1) : g[s] = Step(g, s)
      BY <3>2
    <3> DEFINE h == [s \in SUBSET U |-> Step(g, s)]
    <3>4. h \in [SUBSET U -> Nat]
      BY <1>2
    <3>5. ASSUME NEW s \in Below(n) PROVE h[s] = Step(h, s)
      <4>1. CASE s = {}
        BY <4>1
      <4>2. CASE s # {}
        <5>1. c[s] \in s
          BY <4>2 DEF Chooses
        <5>2. Cardinality(s \ {c[s]}) = Cardinality(s) - 1
          BY <1>1, <5>1, FS_RemoveElement
        <5>3. s \ {c[s]} \in Below(n - 1)
          BY <1>1, <5>2
        <5>4. g[s \ {c[s]}] = h[s \ {c[s]}]
          BY <3>3, <5>3
        <5> QED
          BY <4>2, <5>4
      <4> QED
        BY <4>1, <4>2
    <3> HIDE DEF h
    <3>6. H(n)
      BY <3>4, <3>5
    <3> QED
      BY <2>1, <3>6
  <2> QED
    BY <2>2, <2>3
<1>4. PICK n \in Nat : n = Cardinality(U)
  BY FS_CardinalityType
<1>5. PICK g \in [SUBSET U -> Nat] : \A s \in Below(n) : g[s] = Step(g, s)
  BY <1>3, <1>4
<1>6. \A s \in SUBSET U : s \in Below(n)
  BY <1>4, FS_Subset
<1>7. g = [s \in SUBSET U |-> g[s]]
  OBVIOUS
<1>8. g = [s \in SUBSET U |-> Step(g, s)]
  BY <1>5, <1>6, <1>7
<1> QED
  BY <1>8 DEF IsSum

\* What every sum is of one set.
LEMMA SumIs ==
  ASSUME NEW U, NEW w, NEW c, NEW g, IsSum(g, U, w, c)
  PROVE  \A s \in SUBSET U : /\ s = {} => g[s] = 0
                             /\ s # {} => g[s] = w[c[s]] + g[s \ {c[s]}]
<1> DEFINE h == [t \in SUBSET U |-> IF t = {} THEN 0 ELSE w[c[t]] + g[t \ {c[t]}]]
<1>1. g = h
  BY DEF IsSum
<1>2. \A s \in SUBSET U : h[s] = IF s = {} THEN 0 ELSE w[c[s]] + g[s \ {c[s]}]
  OBVIOUS
<1> HIDE DEF h
<1> QED
  BY <1>1, <1>2

\* Its values are numbers.
LEMMA SumType ==
  ASSUME NEW U, IsFiniteSet(U), NEW w \in [U -> Nat], NEW c, Chooses(c, U), NEW g,
         IsSum(g, U, w, c)
  PROVE  \A s \in SUBSET U : g[s] \in Nat
<1>1. \A s \in SUBSET U : /\ s = {} => g[s] = 0
                          /\ s # {} => g[s] = w[c[s]] + g[s \ {c[s]}]
  BY SumIs
<1> DEFINE bad == {s \in SUBSET U : g[s] \notin Nat}
<1>2. ASSUME NEW s \in bad
      PROVE  \E x \in s, t \in bad : t \subseteq s \ {x}
  <2>1. s \in SUBSET U /\ g[s] \notin Nat
    OBVIOUS
  <2>2. s # {} /\ g[s] = w[c[s]] + g[s \ {c[s]}]
    <3>1. /\ s = {} => g[s] = 0
          /\ s # {} => g[s] = w[c[s]] + g[s \ {c[s]}]
      BY <1>1, <2>1, Zenon
    <3> QED
      BY <2>1, <3>1
  <2>3. c[s] \in s /\ w[c[s]] \in Nat
    BY <2>1, <2>2 DEF Chooses
  <2>4. g[s \ {c[s]}] \notin Nat
    BY <2>1, <2>2, <2>3
  <2> QED
    BY <2>1, <2>3, <2>4
<1>3. bad \in SUBSET SUBSET U
  OBVIOUS
<1> HIDE DEF bad
<1>4. bad = {}
  BY <1>2, <1>3, NoLeastBad
<1> QED
  BY <1>4 DEF bad

\* The order of the choices does not matter.
LEMMA SumWithout ==
  ASSUME NEW U, IsFiniteSet(U), NEW w \in [U -> Nat], NEW c, Chooses(c, U), NEW g,
         IsSum(g, U, w, c)
  PROVE  \A s \in SUBSET U : \A x \in s : g[s] = w[x] + g[s \ {x}]
<1>1. \A s \in SUBSET U : /\ s = {} => g[s] = 0
                          /\ s # {} => g[s] = w[c[s]] + g[s \ {c[s]}]
  BY SumIs
<1> DEFINE bad == {s \in SUBSET U : \E x \in s : g[s] # w[x] + g[s \ {x}]}
<1>2. ASSUME NEW s \in bad
      PROVE  \E x \in s, t \in bad : t \subseteq s \ {x}
  <2>1. PICK x \in s : g[s] # w[x] + g[s \ {x}]
    OBVIOUS
  <2>2. PICK y : y = c[s]
    OBVIOUS
  <2>3. s \in SUBSET U /\ y \in s
    BY <2>1, <2>2 DEF Chooses
  <2>4. g[s] = w[y] + g[s \ {y}]
    BY <1>1, <2>1, <2>2, <2>3
  <2>5. x # y
    BY <2>1, <2>4
  <2>6. PICK a \in SUBSET U, b \in SUBSET U, d \in SUBSET U :
          a = s \ {x} /\ b = s \ {y} /\ d = s \ {x, y}
    BY <2>3
  <2>7. x \in b /\ y \in a /\ b \ {x} = d /\ a \ {y} = d
    BY <2>1, <2>3, <2>5, <2>6
  <2>8. g[a] \in Nat /\ g[b] \in Nat /\ g[d] \in Nat /\ w[x] \in Nat /\ w[y] \in Nat
    BY <2>3, <2>6, SumType
  <2>9. ~(g[a] = w[y] + g[d] /\ g[b] = w[x] + g[d])
    BY <2>1, <2>4, <2>6, <2>8
  <2>10. a \in bad \/ b \in bad
    BY <2>6, <2>7, <2>9
  <2> QED
    BY <2>3, <2>6, <2>10
<1>3. bad \in SUBSET SUBSET U
  OBVIOUS
<1> HIDE DEF bad
<1>4. bad = {}
  BY <1>2, <1>3, NoLeastBad
<1> QED
  BY <1>4 DEF bad

\* Two sums of the same weights agree where both are defined.
LEMMA SumsAgree ==
  ASSUME NEW U, IsFiniteSet(U), NEW w \in [U -> Nat], NEW c, Chooses(c, U), NEW g,
         IsSum(g, U, w, c),
         NEW V \in SUBSET U, NEW v, \A x \in V : v[x] = w[x],
         NEW d, Chooses(d, V), NEW h, IsSum(h, V, v, d)
  PROVE  \A s \in SUBSET V : h[s] = g[s]
<1>1. \A s \in SUBSET U : /\ s = {} => g[s] = 0
                          /\ s # {} => g[s] = w[c[s]] + g[s \ {c[s]}]
  BY SumIs
<1>2. \A s \in SUBSET V : /\ s = {} => h[s] = 0
                          /\ s # {} => h[s] = v[d[s]] + h[s \ {d[s]}]
  BY SumIs
<1> DEFINE bad == {s \in SUBSET V : h[s] # g[s]}
<1>3. ASSUME NEW s \in bad
      PROVE  \E x \in s, t \in bad : t \subseteq s \ {x}
  <2>1. s \in SUBSET V /\ s \in SUBSET U /\ h[s] # g[s]
    OBVIOUS
  <2>2. s # {}
    <3>1. s = {} => g[s] = 0 /\ h[s] = 0
      BY <1>1, <1>2, <2>1, Zenon
    <3> QED
      BY <2>1, <3>1
  <2>3. PICK x : x = d[s]
    OBVIOUS
  <2>4. x \in s /\ x \in V
    BY <2>1, <2>2, <2>3 DEF Chooses
  <2>5. h[s] = w[x] + h[s \ {x}]
    <3>1. h[s] = v[x] + h[s \ {x}]
      BY <1>2, <2>1, <2>2, <2>3, Zenon
    <3>2. v[x] = w[x]
      BY <2>4
    <3> QED
      BY <3>1, <3>2
  <2>6. g[s] = w[x] + g[s \ {x}]
    BY <2>1, <2>4, SumWithout
  <2>7. h[s \ {x}] # g[s \ {x}]
    BY <2>1, <2>5, <2>6
  <2> QED
    BY <2>1, <2>4, <2>7
<1>4. bad \in SUBSET SUBSET U
  OBVIOUS
<1> HIDE DEF bad
<1>5. bad = {}
  BY <1>3, <1>4, NoLeastBad
<1> QED
  BY <1>5 DEF bad

\* What a set of receipts costs.
Cost(S) == MapThenSumSet(LAMBDA r : r.cost, S)

\* It is every sum of their costs.
LEMMA CostIs ==
  ASSUME NEW U, IsFiniteSet(U), NEW w \in [U -> Nat], \A x \in U : w[x] = x.cost,
         NEW c, Chooses(c, U), NEW g, IsSum(g, U, w, c), NEW S \in SUBSET U
  PROVE  Cost(S) = g[S]
<1> DEFINE d == [s \in SUBSET S |-> CHOOSE x \in s : TRUE]
           v == [x \in S |-> w[x]]
           Is(f) == f = [s \in SUBSET S |-> IF s = {} THEN 0
                                           ELSE LET x == CHOOSE x \in s : TRUE
                                                IN x.cost + f[s \ {x}]]
           iter == CHOOSE f : Is(f)
<1>1. Chooses(d, S) /\ v \in [S -> Nat] /\ IsFiniteSet(S)
  BY FS_Subset DEF Chooses
<1>2. ASSUME NEW f PROVE Is(f) <=> IsSum(f, S, v, d)
  <2> DEFINE A(s) == IF s = {} THEN 0 ELSE LET x == CHOOSE x \in s : TRUE IN x.cost + f[s \ {x}]
             B(s) == IF s = {} THEN 0 ELSE v[d[s]] + f[s \ {d[s]}]
  <2>1. ASSUME NEW s \in SUBSET S PROVE A(s) = B(s)
    <3>1. CASE s = {}
      BY <3>1
    <3>2. CASE s # {}
      <4>1. PICK x : x = CHOOSE e \in s : TRUE
        OBVIOUS
      <4>2. x \in s
        BY <3>2, <4>1
      <4>3. d[s] = x /\ v[x] = x.cost
        BY <2>1, <4>1, <4>2
      <4> QED
        BY <3>2, <4>1, <4>3
    <3> QED
      BY <3>1, <3>2
  <2>2. [s \in SUBSET S |-> A(s)] = [s \in SUBSET S |-> B(s)]
    BY <2>1
  <2> QED
    BY <2>2, Zenon DEF IsSum
<1>3. PICK h : IsSum(h, S, v, d)
  BY <1>1, SumExists
<1>4. Is(iter)
  <2>1. Is(h)
    BY <1>2, <1>3
  <2> QED
    BY <2>1, Zenon
<1>5. Cost(S) = iter[S]
  BY DEF Cost, MapThenSumSet, MapThenFoldSet
<1>6. \A x \in S : v[x] = w[x]
  OBVIOUS
<1> HIDE DEF iter, d, v
<1>7. IsSum(iter, S, v, d)
  BY <1>2, <1>4
<1>8. \A s \in SUBSET S : iter[s] = g[s]
  BY <1>1, <1>6, <1>7, SumsAgree
<1> QED
  BY <1>5, <1>8

\* One receipt more costs what it costs.
LEMMA CostOfOneMore ==
  ASSUME NEW S, IsFiniteSet(S), \A x \in S : x.cost \in Nat, NEW y, y.cost \in Nat
  PROVE  /\ Cost(S) \in Nat
         /\ y \notin S => Cost(S \cup {y}) = Cost(S) + y.cost
<1> DEFINE U == S \cup {y}
           w == [x \in U |-> x.cost]
           c == [s \in SUBSET U |-> CHOOSE x \in s : TRUE]
<1>1. IsFiniteSet(U) /\ w \in [U -> Nat] /\ Chooses(c, U) /\ \A x \in U : w[x] = x.cost
  BY FS_AddElement DEF Chooses
<1>2. S \in SUBSET U /\ U \in SUBSET U /\ y \in U /\ w[y] = y.cost
  OBVIOUS
<1>3. y \notin S => U \ {y} = S
  OBVIOUS
<1> HIDE DEF U, w, c
<1>4. PICK g : IsSum(g, U, w, c)
  BY <1>1, SumExists
<1>5. Cost(S) = g[S] /\ Cost(U) = g[U]
  BY <1>1, <1>2, <1>4, CostIs
<1>6. g[S] \in Nat /\ g[U] = w[y] + g[U \ {y}]
  <2>1. g[S] \in Nat
    BY <1>1, <1>2, <1>4, SumType
  <2>2. g[U] = w[y] + g[U \ {y}]
    BY <1>1, <1>2, <1>4, SumWithout
  <2> QED
    BY <2>1, <2>2
<1>7. U = S \cup {y}
  BY DEF U
<1>8. ASSUME y \notin S PROVE Cost(U) = Cost(S) + y.cost
  <2>1. U \ {y} = S
    BY <1>3, <1>8
  <2>2. g[U] = y.cost + g[S]
    BY <1>2, <1>6, <2>1
  <2> QED
    BY <1>5, <1>6, <2>2
<1> QED
  BY <1>5, <1>6, <1>7, <1>8

\* Nothing costs nothing.
LEMMA CostOfNone == Cost({}) = 0
<1>1. PICK U : U = {}
  OBVIOUS
<1> DEFINE w == [x \in U |-> x.cost]
           c == [s \in SUBSET U |-> CHOOSE x \in s : TRUE]
<1>2. IsFiniteSet(U) /\ w \in [U -> Nat] /\ Chooses(c, U) /\ \A x \in U : w[x] = x.cost
  BY <1>1, FS_EmptySet DEF Chooses
<1> HIDE DEF w, c
<1>3. PICK g : IsSum(g, U, w, c)
  BY <1>2, SumExists
<1>4. U \in SUBSET U
  OBVIOUS
<1>5. Cost(U) = g[U]
  BY <1>2, <1>3, <1>4, CostIs
<1>6. g[U] = 0
  <2>1. \A s \in SUBSET U : s = {} => g[s] = 0
    BY <1>3, SumIs, Zenon
  <2> QED
    BY <1>1, <1>4, <2>1, Zenon
<1> QED
  BY <1>1, <1>5, <1>6

\* What a list of receipts uses of the budget.
UsedOf(rs) == FoldLeft(LAMBDA sum, r : sum + r.cost, 0, rs)

\* It is a sum of their costs, too, over their positions.
LEMMA UsedIsASum ==
  ASSUME NEW rs \in Seq(ReceiptType)
  PROVE  \E v, d, g : /\ v \in [DOMAIN rs -> Nat] /\ \A x \in DOMAIN rs : v[x] = rs[x].cost
                      /\ Chooses(d, DOMAIN rs) /\ IsSum(g, DOMAIN rs, v, d)
                      /\ UsedOf(rs) = g[DOMAIN rs]
<1> DEFINE S == DOMAIN rs
           d == [s \in SUBSET S |-> Max(s)]
           v == [x \in S |-> rs[x].cost]
           Is(f) == f = [s \in SUBSET S |-> IF s = {} THEN 0
                                           ELSE LET x == Max(s) IN f[s \ {x}] + rs[x].cost]
           iter == CHOOSE f : Is(f)
<1>1. IsFiniteSet(S) /\ v \in [S -> Nat] /\ S \in SUBSET S
  <2>1. IsFiniteSet(S)
    BY LenProperties, FS_Interval
  <2>2. \A x \in S : rs[x].cost \in Nat
    <3>1. \A x \in S : rs[x] \in ReceiptType
      BY LenProperties, ElementOfSeq
    <3> QED
      BY <3>1 DEF ReceiptType
  <2> QED
    BY <2>1, <2>2
<1>2. ASSUME NEW s \in SUBSET S, s # {} PROVE Max(s) \in s
  <2> DEFINE T == {Len(rs) - x : x \in s}
  <2>1. Len(rs) \in Nat /\ DOMAIN rs = 1..Len(rs)
    BY LenProperties
  <2>2. \A x \in s : x \in Nat /\ x <= Len(rs)
    BY <2>1
  <2>3. T \in SUBSET Nat /\ T # {}
    BY <1>2, <2>1, <2>2
  <2>4. PICK k \in T : \A m \in T : k <= m
    BY <2>3, LeastNat
  <2>5. PICK x \in s : k = Len(rs) - x
    BY <2>4
  <2>6. ASSUME NEW y \in s PROVE x >= y
    <3>1. k <= Len(rs) - y
      BY <2>4
    <3> HIDE DEF T
    <3> QED
      BY <2>1, <2>2, <2>5, <3>1
  <2> QED
    BY <2>5, <2>6 DEF Max
<1>3. Chooses(d, S)
  BY <1>2 DEF Chooses
<1>4. ASSUME NEW f, \A s \in SUBSET S : f[s] \in Nat PROVE Is(f) <=> IsSum(f, S, v, d)
  <2> DEFINE A(s) == IF s = {} THEN 0 ELSE LET x == Max(s) IN f[s \ {x}] + rs[x].cost
             B(s) == IF s = {} THEN 0 ELSE v[d[s]] + f[s \ {d[s]}]
  <2>1. ASSUME NEW s \in SUBSET S PROVE A(s) = B(s)
    <3>1. CASE s = {}
      BY <3>1
    <3>2. CASE s # {}
      <4>1. PICK x : x = Max(s)
        OBVIOUS
      <4>2. x \in s /\ x \in S
        BY <1>2, <3>2, <4>1
      <4>3. d[s] = x /\ v[x] = rs[x].cost
        BY <2>1, <4>1, <4>2
      <4>4. v[x] \in Nat
        BY <1>1, <4>2, Zenon
      <4>5. f[s \ {x}] \in Nat
        BY <1>4
      <4>6. f[s \ {x}] + rs[x].cost = v[x] + f[s \ {x}]
        BY <4>3, <4>5, <4>4
      <4> QED
        BY <3>2, <4>1, <4>3, <4>6
    <3> QED
      BY <3>1, <3>2
  <2>2. [s \in SUBSET S |-> A(s)] = [s \in SUBSET S |-> B(s)]
    BY <2>1
  <2> QED
    BY <2>2, Zenon DEF IsSum
<1>5. PICK h \in [SUBSET S -> Nat] : IsSum(h, S, v, d)
  BY <1>1, <1>3, SumExists
<1>6. Is(iter)
  <2>1. \A s \in SUBSET S : h[s] \in Nat
    OBVIOUS
  <2>2. Is(h)
    BY <1>4, <1>5, <2>1
  <2> QED
    BY <2>2, Zenon
<1>7. UsedOf(rs) = iter[S]
  BY DEF UsedOf, FoldLeft, MapThenFoldSet
<1>8. \A x \in S : v[x] = rs[x].cost /\ v[x] \in Nat
  BY <1>1
<1>9. \A s \in SUBSET S : s # {} => d[s] = Max(s)
  OBVIOUS
<1>10. \A s \in SUBSET S : /\ s = {} => iter[s] = 0
                           /\ s # {} => iter[s] = iter[s \ {Max(s)}] + rs[Max(s)].cost
  <2> DEFINE k == [s \in SUBSET S |-> IF s = {} THEN 0
                                      ELSE LET x == Max(s) IN iter[s \ {x}] + rs[x].cost]
  <2>1. iter = k
    BY <1>6, Zenon
  <2>2. \A s \in SUBSET S : k[s] = IF s = {} THEN 0 ELSE iter[s \ {Max(s)}] + rs[Max(s)].cost
    OBVIOUS
  <2> HIDE DEF k, iter
  <2> QED
    BY <2>1, <2>2
<1> HIDE DEF iter, d, v
<1>11. \A s \in SUBSET S : iter[s] \in Nat
  <2> DEFINE bad == {s \in SUBSET S : iter[s] \notin Nat}
  <2>1. ASSUME NEW s \in bad
        PROVE  \E x \in s, t \in bad : t \subseteq s \ {x}
    <3>1. s \in SUBSET S /\ iter[s] \notin Nat
      OBVIOUS
    <3>2. s # {} /\ iter[s] = iter[s \ {Max(s)}] + rs[Max(s)].cost
      BY <1>10, <3>1
    <3>3. Max(s) \in s /\ rs[Max(s)].cost \in Nat
      BY <1>2, <1>8, <3>1, <3>2
    <3>4. iter[s \ {Max(s)}] \notin Nat
      BY <3>1, <3>2, <3>3
    <3> QED
      BY <3>1, <3>3, <3>4
  <2>2. bad \in SUBSET SUBSET S
    OBVIOUS
  <2> HIDE DEF bad
  <2>3. bad = {}
    BY <1>1, <2>1, <2>2, NoLeastBad
  <2> QED
    BY <2>3 DEF bad
<1>12. IsSum(iter, S, v, d)
  BY <1>4, <1>6, <1>11
<1> QED
  BY <1>1, <1>3, <1>7, <1>8, <1>12, Zenon

\* It is every sum of their costs.
LEMMA UsedIs ==
  ASSUME NEW rs, rs \in Seq(ReceiptType), NEW U, IsFiniteSet(U), NEW w \in [U -> Nat],
         NEW S \in SUBSET U, S = DOMAIN rs, \A x \in S : w[x] = rs[x].cost,
         NEW c, Chooses(c, U), NEW g, IsSum(g, U, w, c)
  PROVE  UsedOf(rs) = g[S]
<1>1. PICK v, d, h : /\ \A x \in S : v[x] = rs[x].cost
                     /\ Chooses(d, S) /\ IsSum(h, S, v, d) /\ UsedOf(rs) = h[S]
  BY UsedIsASum
<1>2. \A x \in S : v[x] = w[x]
  BY <1>1
<1>3. Chooses(d, S) /\ IsSum(h, S, v, d) /\ UsedOf(rs) = h[S]
  BY <1>1
<1>4. \A s \in SUBSET S : h[s] = g[s]
  <2>1. Chooses(d, S) /\ IsSum(h, S, v, d)
    BY <1>3
  <2> QED
    BY ONLY IsFiniteSet(U), Chooses(c, U), IsSum(g, U, w, c), <1>2, <2>1, SumsAgree
<1> QED
  BY <1>3, <1>4

\* One receipt more uses what it costs.
LEMMA UsedOfOneMore ==
  ASSUME NEW rs, rs \in Seq(ReceiptType)
  PROVE  /\ UsedOf(rs) \in Nat
         /\ \A r \in ReceiptType : UsedOf(Append(rs, r)) = UsedOf(rs) + r.cost
<1>1. Len(rs) \in Nat /\ DOMAIN rs = 1..Len(rs) /\ \A x \in DOMAIN rs : rs[x] \in ReceiptType
  BY LenProperties, ElementOfSeq
<1>2. UsedOf(rs) \in Nat
  <2>1. PICK S : S = DOMAIN rs
    OBVIOUS
  <2>2. PICK v, d, g : /\ v \in [S -> Nat] /\ Chooses(d, S) /\ IsSum(g, S, v, d)
                       /\ UsedOf(rs) = g[S]
    BY <2>1, UsedIsASum
  <2>3. IsFiniteSet(S) /\ S \in SUBSET S
    BY <1>1, <2>1, FS_Interval
  <2> QED
    BY <2>2, <2>3, SumType
<1>3. ASSUME NEW r \in ReceiptType
      PROVE  UsedOf(Append(rs, r)) = UsedOf(rs) + r.cost
  <2>1. PICK l : l = Append(rs, r) /\ l \in Seq(ReceiptType)
    BY AppendProperties
  <2>2. PICK S, U, y : S = DOMAIN rs /\ U = DOMAIN l /\ y = Len(rs) + 1
    OBVIOUS
  <2>3. /\ U = 1..(Len(rs) + 1) /\ l[y] = r
        /\ \A x \in S : l[x] = rs[x]
    BY <1>1, <2>1, <2>2, AppendProperties, LenProperties
  <2>4. U = S \cup {y} /\ y \notin S /\ y \in U /\ U \ {y} = S /\ IsFiniteSet(U)
    <3>1. S = 1..Len(rs) /\ U = 1..(Len(rs) + 1) /\ y = Len(rs) + 1 /\ Len(rs) \in Nat
      BY <1>1, <2>2, <2>3
    <3>2. IsFiniteSet(U)
      BY <3>1, FS_Interval
    <3>3. U = S \cup {y} /\ y \notin S
      BY <3>1
    <3> QED
      BY <3>2, <3>3
  <2>5. \A x \in U : l[x].cost \in Nat
    BY <1>1, <2>2, <2>3, <2>4 DEF ReceiptType
  <2>6. PICK w, c : /\ w \in [U -> Nat] /\ Chooses(c, U) /\ w[y] = r.cost
                    /\ \A x \in U : w[x] = l[x].cost
    <3> DEFINE v == [x \in U |-> l[x].cost]
               d == [s \in SUBSET U |-> CHOOSE x \in s : TRUE]
    <3>1. v \in [U -> Nat] /\ v[y] = r.cost /\ \A x \in U : v[x] = l[x].cost
      BY <2>3, <2>4, <2>5
    <3>2. Chooses(d, U)
      BY DEF Chooses
    <3> HIDE DEF v, d
    <3> QED
      BY <3>1, <3>2, Zenon
  <2>7. S \in SUBSET U /\ U \in SUBSET U
    BY <2>4
  <2>8. \A x \in S : w[x] = rs[x].cost
    BY <2>3, <2>6, <2>7
  <2>9. PICK g : IsSum(g, U, w, c)
    BY <2>4, <2>6, SumExists
  <2>10. UsedOf(rs) = g[S]
    BY <2>2, <2>4, <2>6, <2>7, <2>8, <2>9, UsedIs
  <2>11. UsedOf(l) = g[U]
    <3>1. l \in Seq(ReceiptType) /\ U = DOMAIN l
      BY <2>1, <2>2
    <3> QED
      BY <2>4, <2>6, <2>7, <2>8, <2>9, <3>1, UsedIs
  <2>12. g[S] \in Nat
    BY <2>4, <2>6, <2>7, <2>9, SumType
  <2>13. g[U] = w[y] + g[U \ {y}]
    <3>1. IsFiniteSet(U) /\ w \in [U -> Nat] /\ Chooses(c, U)
      BY <2>4, <2>6
    <3>2. U \in SUBSET U /\ y \in U
      BY <2>4
    <3> QED
      BY ONLY <2>9, <3>1, <3>2, SumWithout
  <2>14. g[U] = r.cost + g[S]
    BY <2>4, <2>6, <2>13
  <2>15. r.cost \in Nat
    BY DEF ReceiptType
  <2> QED
    BY <2>1, <2>10, <2>11, <2>12, <2>14, <2>15
<1> QED
  BY <1>2, <1>3

\* No receipts use nothing.
LEMMA UsedOfNone == UsedOf(<<>>) = 0
<1>1. PICK rs : rs = <<>>
  OBVIOUS
<1>2. rs \in Seq(ReceiptType)
  BY <1>1, EmptySeq
<1>3. PICK v, d, g : IsSum(g, DOMAIN rs, v, d) /\ UsedOf(rs) = g[DOMAIN rs]
  BY <1>2, UsedIsASum, Zenon
<1>4. PICK S : S = DOMAIN rs
  OBVIOUS
<1>5. S = {}
  BY <1>1, <1>4, EmptySeq
<1>6. IsSum(g, S, v, d)
  BY <1>3, <1>4
<1>7. g[S] = 0
  <2>1. \A s \in SUBSET S : s = {} => g[s] = 0
    BY <1>6, SumIs, Zenon
  <2>2. S \in SUBSET S
    OBVIOUS
  <2> QED
    BY <1>5, <2>1, <2>2, Zenon
<1> QED
  BY <1>1, <1>3, <1>4, <1>7

-------------------------------------------------------------------------------
(***************************************************************************)
(* Receipts and the budget, while no lock was stolen.                      *)
(***************************************************************************)

\* Which step of a consumption brought a call where it is.
LEMMA Consumption ==
  ASSUME TypeInv, CallInv, NEW p \in Processes, StoreCall(p) \/ Runtime(p),
         procs[p].done => procs[p].at = "release"
  PROVE  procs'[p].op = "consume" /\ (procs'[p].at \in {"write", "head"} \/ procs'[p].done) =>
         \/ ReadToConsume(p) /\ procs'[p].at = "write" /\ ~procs'[p].done
         \/ WriteReceipt(p) /\ procs'[p].at = "head" /\ ~procs'[p].done
         \/ WriteReceiptHead(p) /\ procs'[p].at = "release"
<1>1. procs[p].at \in {"idle", "tipped"} => procs[p].op # "consume" /\ ~procs[p].done
  BY DEF CallInv, Fits
<1>2. CASE Create(p)
  <2>1. procs[p].at \in {"acquire"}
    BY <1>2, After
  <2>2. procs'[p].at \in {"mark"} /\ procs'[p].done = procs[p].done
    BY <1>2, After DEF But, Fields, Steady
  <2> QED
    BY <1>1, <2>1, <2>2
<1>3. CASE Mark(p)
  <2>1. procs[p].at \in {"mark"}
    BY <1>3, After
  <2>2. procs'[p].at \in {"read"} /\ procs'[p].done = procs[p].done
    BY <1>3, After DEF But, Fields, Steady
  <2> QED
    BY <1>1, <2>1, <2>2
<1>4. CASE MeetLock(p)
  <2>1. procs[p].at \in {"acquire"}
    BY <1>4, After
  <2>2. \/ procs'[p].at \in {"recheck"} /\ procs'[p].done = procs[p].done
        \/ procs'[p].at = "idle" /\ ~procs'[p].done
    BY <1>4, After DEF But, Fields, Steady, Ended
  <2> QED
    BY <1>1, <2>1, <2>2
<1>5. CASE RecheckOwner(p)
  <2>1. procs[p].at \in {"recheck"}
    BY <1>5, After
  <2>2. \/ procs'[p].at \in {"unlink"} /\ procs'[p].done = procs[p].done
        \/ procs'[p].at = "idle" /\ ~procs'[p].done
    BY <1>5, After DEF But, Fields, Steady, Ended
  <2> QED
    BY <1>1, <2>1, <2>2
<1>6. CASE UnlinkDead(p)
  <2>1. procs[p].at \in {"unlink"}
    BY <1>6, After
  <2>2. \/ procs'[p].at \in {"acquire"} /\ procs'[p].done = procs[p].done
        \/ procs'[p].at = "idle" /\ ~procs'[p].done
    BY <1>6, After DEF But, Fields, Steady, Ended
  <2> QED
    BY <1>1, <2>1, <2>2
<1>7. CASE Refuse(p)
  <2>1. procs[p].at \in {"read", "resume", "reconstruct"}
    BY <1>7, After
  <2>2. procs'[p].at \in {"release"} /\ procs'[p].done = procs[p].done
    BY <1>7, After DEF But, Fields, Steady
  <2> QED
    BY <1>1, <2>1, <2>2
<1>8. CASE Pin(p)
  <2>1. procs[p].op = "recover"
    BY <1>8 DEF Pin
  <2>2. procs'[p].op = procs[p].op
    BY <1>8, After DEF But, Fields, Steady
  <2> QED
    BY <2>1, <2>2
<1>9. CASE Resume(p)
  <2>1. procs[p].at \in {"resume"}
    BY <1>9, After
  <2>2. procs'[p].at \in {"reconstruct", "release"} /\ procs'[p].done = procs[p].done
    BY <1>9, After DEF But, Fields, Steady
  <2> QED
    BY <1>1, <2>1, <2>2
<1>10. CASE Reconstruct(p)
  <2>1. procs[p].at \in {"reconstruct"}
    BY <1>10, After
  <2>2. procs'[p].at \in {"recover", "release"} /\ procs'[p].done = procs[p].done
    BY <1>10, After DEF But, Fields, Steady
  <2> QED
    BY <1>1, <2>1, <2>2
<1>11. CASE Operate(p)
  <2>1. procs[p].at \in {"idle", "tipped"}
    BY <1>11, After
  <2>2. procs'[p].at \in {"idle", "tipped"} /\ procs'[p].done = procs[p].done
    BY <1>11, After DEF But, Fields, Steady
  <2> QED
    BY <1>1, <2>1, <2>2
<1>12. CASE BeginCheckpoint(p)
  <2>1. procs[p].at \in {"idle"}
    BY <1>12, After
  <2>2. procs'[p].at \in {"tipped"} /\ procs'[p].done = procs[p].done
    BY <1>12, After DEF But, Fields, Steady
  <2> QED
    BY <1>1, <2>1, <2>2
<1>13. CASE TakeSnapshot(p)
  <2>1. procs[p].at \in {"tipped"}
    BY <1>13, After
  <2>2. \/ procs'[p].at \in {"acquire"} /\ procs'[p].done = procs[p].done
        \/ procs'[p].at = "idle" /\ ~procs'[p].done
    BY <1>13, After DEF But, Fields, Steady, Ended
  <2> QED
    BY <1>1, <2>1, <2>2
<1>14. CASE BeginRecover(p)
  <2>1. procs[p].at \in {"idle"}
    BY <1>14, After
  <2>2. procs'[p].at \in {"acquire"} /\ procs'[p].done = procs[p].done
    BY <1>14, After DEF But, Fields, Steady
  <2> QED
    BY <1>1, <2>1, <2>2
<1>15. CASE Release(p)
  BY <1>15, After DEF Ended
<1>16. CASE ReadToAppend(p)
  <2>1. procs[p].op = "append"
    BY <1>16 DEF ReadToAppend
  <2>2. procs'[p].op = procs[p].op
    BY <1>16, After DEF But, Fields, Steady
  <2> QED
    BY <2>1, <2>2
<1>17. CASE WriteCheckpoint(p)
  <2>1. procs[p].op = "append"
    BY <1>17 DEF WriteCheckpoint
  <2>2. procs'[p].op = procs[p].op
    BY <1>17, After DEF But, Fields, Steady
  <2> QED
    BY <2>1, <2>2
<1>18. CASE WriteCheckpointHead(p)
  <2>1. procs[p].op = "append"
    BY <1>18 DEF WriteCheckpointHead
  <2>2. procs'[p].op = procs[p].op
    BY <1>18, After DEF But, Fields, Steady
  <2> QED
    BY <2>1, <2>2
<1>19. CASE AppendRecovered(p)
  <2>1. procs[p].op = "recover"
    BY <1>19 DEF AppendRecovered, CallInv, Fits
  <2>2. procs'[p].op = procs[p].op
    BY <1>19, After DEF But, Fields, Steady
  <2> QED
    BY <2>1, <2>2
<1>20. CASE ReadToConsume(p)
  <2>1. procs[p].at = "read" /\ procs'[p].at \in {"write", "release"}
    BY <1>20, After
  <2>2. procs'[p].done = procs[p].done
    BY <1>20, After DEF But, Fields, Steady
  <2> QED
    BY <1>20, <2>1, <2>2
<1>21. CASE WriteReceipt(p)
  <2>1. procs[p].at = "write" /\ procs'[p].at = "head"
    BY <1>21, After
  <2>2. procs'[p].done = procs[p].done
    BY <1>21, After DEF But, Fields, Steady
  <2> QED
    BY <1>21, <2>1, <2>2
<1>22. CASE WriteReceiptHead(p)
  BY <1>22, After
<1>23. CASE Finalize(p)
  <2>1. procs'[p] = procs[p] /\ procs[p].at = "idle"
    BY <1>23 DEF Finalize
  <2> QED
    BY <1>1, <2>1
<1>24. CASE Boot(p)
  <2>1. procs[p].at = "idle"
    BY <1>24 DEF Boot, CallInv, Fits
  <2>2. procs'[p].op = procs[p].op
    BY <1>24, After DEF But, Fields
  <2> QED
    BY <1>1, <2>1, <2>2
<1>25. CASE Crash(p)
  <2>1. procs'[p].op = "none"
    BY <1>25, After DEF Ended, New
  <2> QED
    BY <2>1
<1>26. CASE \E r \in Requests, cost \in 1..Budget : BeginConsume(p, r, cost)
  <2>1. procs[p].at = "idle" /\ procs'[p].at = "acquire"
    BY <1>26, After
  <2>2. procs'[p].done = procs[p].done
    BY <1>26, After DEF But, Fields
  <2> QED
    BY <1>1, <2>1, <2>2
<1> QED
  BY <1>2, <1>3, <1>4, <1>5, <1>6, <1>7, <1>8, <1>9, <1>10, <1>11, <1>12, <1>13, <1>14, <1>15,
     <1>16, <1>17, <1>18, <1>19, <1>20, <1>21, <1>22, <1>23, <1>24, <1>25, <1>26
     DEF StoreCall, Runtime

\* What was granted for a checkpoint, and what is on record for it.
Granted(id) == {c \in spent : c.id = id}
Recorded(n, req) == \E m \in DOMAIN receipts[n] : receipts[n][m].req = req

\* What a consumption relies on when it writes its receipt, and once it has.
MayWrite(r) == /\ r.n \in DOMAIN files /\ files[r.n].id = r.id
               /\ r.tip = Len(receipts[r.n]) /\ UsedOf(receipts[r.n]) + r.cost <= Budget
               /\ ~Recorded(r.n, r.req)
HasWritten(r) == /\ r.n \in DOMAIN files /\ files[r.n].id = r.id
                 /\ Cost(Granted(r.id)) + r.cost <= UsedOf(receipts[r.n])
                 /\ Recorded(r.n, r.req)
                 /\ \A c \in Granted(r.id) : c.req # r.req
Consumes(r) == r.op = "consume" => /\ r.at = "write" => MayWrite(r)
                                   /\ r.at = "head" \/ r.done => HasWritten(r)

\* While no lock was stolen, the receipts of a checkpoint stay within the budget, and
\* what was granted is on record there: a receipt whose caller died was not granted.
BudgetInv ==
  /\ IsFiniteSet(spent)
  /\ \A n \in 1..MaxRecords : UsedOf(receipts[n]) <= Budget
  /\ \A m, n \in DOMAIN files : files[m].id = files[n].id => m = n
  /\ \A n \in DOMAIN files : Cost(Granted(files[n].id)) <= UsedOf(receipts[n])
  /\ \A c \in spent : \E n \in DOMAIN files : files[n].id = c.id /\ Recorded(n, c.req)
  /\ \A c, d \in spent : c.id = d.id /\ c.req = d.req => c = d
  /\ \A p \in Processes : Consumes(procs[p])

\* The sums are numbers.
LEMMA Sums ==
  ASSUME TypeInv
  PROVE  /\ \A n \in DOMAIN files : n \in 1..MaxRecords
         /\ \A n \in 1..MaxRecords : receipts[n] \in Seq(ReceiptType)
                                     /\ UsedOf(receipts[n]) \in Nat
         /\ IsFiniteSet(spent) => \A id : IsFiniteSet(Granted(id)) /\ Cost(Granted(id)) \in Nat
         /\ \A c \in spent : c.cost \in Nat
<1>1. \A n \in DOMAIN files : n \in 1..MaxRecords
  BY LenProperties, BoundsAssumption DEF TypeInv
<1>2. ASSUME NEW n \in 1..MaxRecords
      PROVE  receipts[n] \in Seq(ReceiptType) /\ UsedOf(receipts[n]) \in Nat
  <2>1. receipts[n] \in Seq(ReceiptType)
    BY DEF TypeInv
  <2> QED
    BY <2>1, UsedOfOneMore
<1>3. \A c \in spent : c.cost \in Nat
  BY DEF TypeInv
<1>4. ASSUME IsFiniteSet(spent), NEW id
      PROVE  IsFiniteSet(Granted(id)) /\ Cost(Granted(id)) \in Nat
  <2>1. PICK S : S = Granted(id)
    OBVIOUS
  <2>2. IsFiniteSet(S) /\ \A x \in S : x.cost \in Nat
    BY <1>3, <1>4, <2>1, FS_Subset DEF Granted
  <2>3. PICK y : y = [cost |-> 0]
    OBVIOUS
  <2>4. y.cost \in Nat
    BY <2>3
  <2>5. Cost(S) \in Nat
    BY <2>2, <2>4, CostOfOneMore
  <2> QED
    BY <2>1, <2>2, <2>5
<1> QED
  BY <1>1, <1>2, <1>3, <1>4

\* What a consumption that goes on has read.
LEMMA Reads ==
  ASSUME TypeInv, CallInv, BudgetInv, NEW p \in Processes, ReadToConsume(p),
         procs'[p].at = "write", NEW r, r = procs'[p]
  PROVE  MayWrite(r)
<1>1. procs \in [Processes -> ProcType] /\ procs[p] \in ProcType
  BY DEF TypeInv
<1>2. Affordable(procs[p].req, procs[p].cost)
  <2>1. ASSUME GoTo(p, "release") PROVE FALSE
    <3>1. PICK s : s = [procs[p] EXCEPT !.at = "release"]
      OBVIOUS
    <3>2. s.at = "release"
      BY <1>1, <3>1 DEF ProcType
    <3>3. procs'[p] = s
      BY <1>1, <2>1, <3>1 DEF GoTo, Set
    <3> QED
      BY <3>2, <3>3
  <2> QED
    BY <2>1 DEF ReadToConsume
<1>3. /\ files # <<>> /\ r.n = Len(files) /\ r.id = Latest.id /\ r.tip = Len(ReceiptsOf)
      /\ But(procs[p], r, {"at", "n", "id", "tip"})
  BY After
<1>4. r.req = procs[p].req /\ r.cost = procs[p].cost
  BY <1>3 DEF But, Fields
<1>5. r.n \in DOMAIN files /\ files[r.n].id = r.id
  BY <1>3, LatestIs
<1>6. ReceiptsOf = receipts[r.n] /\ Used = UsedOf(receipts[r.n])
  BY <1>3 DEF ReceiptsOf, Used, UsedOf
<1> QED
  BY <1>2, <1>3, <1>4, <1>5, <1>6 DEF MayWrite, Affordable, Recorded

\* The receipts after one was written.
LEMMA ReceiptIsAdded ==
  ASSUME TypeInv, CallInv, BudgetInv, NEW p \in Processes, WriteReceipt(p),
         NEW me, me = procs[p], NEW n, n = me.n
  PROVE  /\ n \in DOMAIN files /\ n \in 1..MaxRecords /\ me.cost \in Nat /\ MayWrite(me)
         /\ UsedOf(receipts'[n]) = UsedOf(receipts[n]) + me.cost
         /\ \A m \in 1..MaxRecords : m # n => receipts'[m] = receipts[m]
         /\ \A m \in 1..MaxRecords : \A req : Recorded(m, req) => Recorded(m, req)'
         /\ Recorded(n, me.req)'
<1> DEFINE receipt == [id |-> me.id, req |-> me.req, cost |-> me.cost]
<1>1. /\ me \in ProcType /\ me.op = "consume" /\ me.at = "write"
      /\ me.req \in Requests
  BY DEF TypeInv, CallInv, Fits, WriteReceipt
<1>2. me.cost \in Nat /\ receipt \in ReceiptType
  BY <1>1 DEF ProcType, ReceiptType
<1>3. MayWrite(me)
  BY <1>1 DEF BudgetInv, Consumes
<1>4. n \in DOMAIN files /\ n \in 1..MaxRecords /\ me.tip = Len(receipts[n])
  BY <1>3, Sums DEF MayWrite
<1>5. receipts[n] \in Seq(ReceiptType) /\ UsedOf(receipts[n]) \in Nat
  BY <1>4, Sums
<1>6. receipts \in [1..MaxRecords -> Seq(ReceiptType)]
  BY DEF TypeInv
<1>7. receipts' = [receipts EXCEPT ![n] = Append(receipts[n], receipt)]
  BY <1>4, <1>6 DEF WriteReceipt
<1> HIDE DEF receipt
<1>8. /\ receipts'[n] = Append(receipts[n], receipt)
      /\ \A m \in 1..MaxRecords : m # n => receipts'[m] = receipts[m]
  BY <1>4, <1>6, <1>7
<1>9. UsedOf(receipts'[n]) = UsedOf(receipts[n]) + me.cost
  <2>1. UsedOf(Append(receipts[n], receipt)) = UsedOf(receipts[n]) + receipt.cost
    BY <1>2, <1>5, UsedOfOneMore
  <2>2. receipt.cost = me.cost
    BY DEF receipt
  <2> QED
    BY <1>8, <2>1, <2>2
<1>10. /\ \A k \in DOMAIN receipts[n] : k \in DOMAIN receipts'[n]
                                       /\ receipts'[n][k] = receipts[n][k]
       /\ Len(receipts[n]) + 1 \in DOMAIN receipts'[n]
       /\ receipts'[n][Len(receipts[n]) + 1] = receipt
  BY <1>2, <1>5, <1>8, AppendProperties, LenProperties
<1>11. receipt.req = me.req
  BY DEF receipt
<1>12. Recorded(n, me.req)'
  BY <1>10, <1>11 DEF Recorded
<1>13. ASSUME NEW m \in 1..MaxRecords, NEW req, Recorded(m, req) PROVE Recorded(m, req)'
  <2>1. CASE m = n
    BY <1>10, <1>13, <2>1 DEF Recorded
  <2>2. CASE m # n
    BY <1>8, <1>13, <2>2 DEF Recorded
  <2> QED
    BY <2>1, <2>2
<1> QED
  BY <1>2, <1>3, <1>4, <1>8, <1>9, <1>12, <1>13

\* What was granted after one more was.
LEMMA GrantIsAdded ==
  ASSUME TypeInv, BudgetInv, NEW p \in Processes, Release(p), procs[p].done,
         procs[p].op = "consume",
         NEW c, c = [id |-> procs[p].id, req |-> procs[p].req, cost |-> procs[p].cost, by |-> p],
         NEW n, n = procs[p].n
  PROVE  /\ spent' = spent \cup {c} /\ IsFiniteSet(spent')
         /\ n \in DOMAIN files /\ files[n].id = c.id /\ Recorded(n, c.req)
         /\ \A d \in spent : d.id = c.id => d.req # c.req
         /\ Cost(Granted(c.id)') <= UsedOf(receipts[n])
         /\ \A id : id # c.id => Granted(id)' = Granted(id)
<1>1. c.id = procs[p].id /\ c.req = procs[p].req /\ c.cost = procs[p].cost
  OBVIOUS
<1>2. spent' = spent \cup {c}
  BY DEF Release
<1>3. HasWritten(procs[p])
  BY DEF BudgetInv, Consumes
<1>4. /\ n \in DOMAIN files /\ files[n].id = c.id /\ Recorded(n, c.req)
      /\ \A d \in Granted(c.id) : d.req # c.req
      /\ Cost(Granted(c.id)) + c.cost <= UsedOf(receipts[n])
  BY <1>1, <1>3 DEF HasWritten
<1>5. IsFiniteSet(spent')
  BY <1>2, FS_AddElement DEF BudgetInv
<1>6. Cost(Granted(c.id)') <= UsedOf(receipts[n])
  <2>1. PICK S : S = Granted(c.id)
    OBVIOUS
  <2>2. Granted(c.id)' = S \cup {c} /\ c \notin S
    BY <1>2, <1>4, <2>1 DEF Granted
  <2>3. IsFiniteSet(S) /\ (\A x \in S : x.cost \in Nat) /\ c.cost \in Nat
    <3>1. IsFiniteSet(S)
      BY <2>1, Sums DEF BudgetInv
    <3>2. \A x \in S : x.cost \in Nat
      BY <2>1, Sums DEF Granted
    <3>3. c.cost \in Nat
      BY <1>1 DEF TypeInv, ProcType
    <3> QED
      BY <3>1, <3>2, <3>3
  <2>4. Cost(S \cup {c}) = Cost(S) + c.cost
    BY <2>2, <2>3, CostOfOneMore
  <2> QED
    BY <1>4, <2>1, <2>2, <2>4
<1>7. \A id : id # c.id => Granted(id)' = Granted(id)
  BY <1>2 DEF Granted
<1>8. \A d \in spent : d.id = c.id => d.req # c.req
  BY <1>4 DEF Granted
<1> QED
  BY <1>2, <1>4, <1>5, <1>6, <1>7, <1>8

\* Every step that steals no lock keeps the receipts and the budget: a consumption
\* writes its receipt where it counted, and is granted what it wrote.
LEMMA BudgetStep ==
  ASSUME TypeInv, CallInv, IdInv, LockInv, StoreInv, BudgetInv,
         NEW p \in Processes, StoreCall(p) \/ Runtime(p)
  PROVE  BudgetInv'
<1>1. TypeInv' /\ \A n \in DOMAIN files : n \in 1..MaxRecords
  BY TypeStep, Sums
<1>2. ASSUME procs[p].at \in Inside, NEW q \in Processes, q # p, NEW r, r = procs'[q]
      PROVE  r.at # "write" /\ r.at # "head" /\ ~r.done
  <2>1. r = procs[q]
    BY <1>2, Moves
  <2>2. r.at \notin Inside
    BY <1>2, <2>1, OneInside
  <2>3. r.done => r.at = "release"
    BY <2>1 DEF StoreInv
  <2> QED
    BY <2>2, <2>3 DEF Inside
<1>3. CASE WriteReceipt(p)
  <2>1. PICK me, n : me = procs[p] /\ n = me.n
    OBVIOUS
  <2>2. /\ n \in DOMAIN files /\ n \in 1..MaxRecords /\ me.cost \in Nat /\ MayWrite(me)
        /\ UsedOf(receipts'[n]) = UsedOf(receipts[n]) + me.cost
        /\ \A m \in 1..MaxRecords : m # n => receipts'[m] = receipts[m]
        /\ \A m \in 1..MaxRecords : \A req : Recorded(m, req) => Recorded(m, req)'
        /\ Recorded(n, me.req)'
    BY <1>3, <2>1, ReceiptIsAdded
  <2>3. /\ files[n].id = me.id /\ UsedOf(receipts[n]) + me.cost <= Budget
        /\ ~Recorded(n, me.req)
    BY <2>1, <2>2 DEF MayWrite
  <2>4. files' = files /\ spent' = spent
    BY <1>3 DEF WriteReceipt
  <2>5. \A id : Granted(id)' = Granted(id)
    BY <2>4 DEF Granted
  <2>6. \A m \in 1..MaxRecords : /\ UsedOf(receipts'[m]) <= Budget
                                 /\ UsedOf(receipts[m]) <= UsedOf(receipts'[m])
                                 /\ UsedOf(receipts[m]) \in Nat /\ UsedOf(receipts'[m]) \in Nat
    <3>1. \A m \in 1..MaxRecords : UsedOf(receipts[m]) \in Nat /\ UsedOf(receipts[m]) <= Budget
      BY Sums DEF BudgetInv
    <3> QED
      BY <2>2, <2>3, <3>1
  <2>7. \A m \in DOMAIN files : Cost(Granted(files[m].id)) <= UsedOf(receipts'[m])
    <3>1. \A m \in DOMAIN files : /\ Cost(Granted(files[m].id)) <= UsedOf(receipts[m])
                                  /\ Cost(Granted(files[m].id)) \in Nat
      BY <1>1, Sums DEF BudgetInv
    <3> QED
      BY <1>1, <2>6, <3>1
  <2>8. \A c \in spent : \E m \in DOMAIN files : files[m].id = c.id /\ Recorded(m, c.req)'
    BY <1>1, <2>2 DEF BudgetInv
  <2>9. ASSUME NEW q \in Processes, NEW r, r = procs'[q]
        PROVE  Consumes(r)'
    <3>1. CASE q # p
      <4>1. procs[p].at \in Inside
        BY <1>3 DEF WriteReceipt, Inside
      <4> QED
        BY <1>2, <2>9, <3>1, <4>1 DEF Consumes
    <3>2. CASE q = p
      <4>1. r.at = "head" /\ But(me, r, {"at"})
        BY <1>3, <2>1, <2>9, <3>2, After DEF Steady
      <4>2. r.n = n /\ r.id = me.id /\ r.req = me.req /\ r.cost = me.cost
        BY <2>1, <4>1 DEF But, Fields
      <4>3. Cost(Granted(me.id)) + me.cost <= UsedOf(receipts'[n])
        <5>1. Cost(Granted(me.id)) <= UsedOf(receipts[n]) /\ Cost(Granted(me.id)) \in Nat
          BY <2>2, <2>3, Sums DEF BudgetInv
        <5>2. UsedOf(receipts[n]) \in Nat
          BY <2>2, Sums
        <5> QED
          BY <2>2, <5>1, <5>2
      <4>4. \A c \in Granted(me.id) : c.req # me.req
        <5>1. ASSUME NEW c \in Granted(me.id), c.req = me.req PROVE FALSE
          <6>1. PICK m \in DOMAIN files : files[m].id = c.id /\ Recorded(m, c.req)
            BY DEF BudgetInv, Granted
          <6>2. m = n
            BY <2>2, <2>3, <6>1 DEF BudgetInv, Granted
          <6> QED
            BY <2>3, <5>1, <6>1, <6>2
        <5> QED
          BY <5>1
      <4>5. HasWritten(r)'
        BY <2>2, <2>3, <2>4, <2>5, <4>2, <4>3, <4>4 DEF HasWritten
      <4> QED
        BY <4>1, <4>5 DEF Consumes
    <3> QED
      BY <3>1, <3>2
  <2>10. \A q \in Processes : Consumes(procs[q])'
    BY <2>9
  <2> QED
    BY <2>4, <2>5, <2>6, <2>7, <2>8, <2>10 DEF BudgetInv
<1>4. CASE Release(p) /\ procs[p].done /\ procs[p].op = "consume"
  <2>1. PICK c, n : /\ c = [id |-> procs[p].id, req |-> procs[p].req,
                            cost |-> procs[p].cost, by |-> p]
                    /\ n = procs[p].n
    OBVIOUS
  <2>2. /\ spent' = spent \cup {c} /\ IsFiniteSet(spent')
        /\ n \in DOMAIN files /\ files[n].id = c.id /\ Recorded(n, c.req)
        /\ \A d \in spent : d.id = c.id => d.req # c.req
        /\ Cost(Granted(c.id)') <= UsedOf(receipts[n])
        /\ \A id : id # c.id => Granted(id)' = Granted(id)
    BY <1>4, <2>1, GrantIsAdded
  <2>3. files' = files /\ receipts' = receipts
    BY <1>4 DEF Release, storeVars
  <2>4. \A m, req : Recorded(m, req)' <=> Recorded(m, req)
    BY <2>3 DEF Recorded
  <2>5. ASSUME NEW m \in DOMAIN files, NEW id, id = files[m].id
        PROVE  Cost(Granted(id)') <= UsedOf(receipts[m])
    <3>1. CASE id = c.id
      <4>1. m = n
        BY <2>2, <2>5, <3>1 DEF BudgetInv
      <4> QED
        BY <2>2, <3>1, <4>1
    <3>2. CASE id # c.id
      BY <2>2, <2>5, <3>2 DEF BudgetInv
    <3> QED
      BY <3>1, <3>2
  <2>6. \A d \in spent' : \E m \in DOMAIN files : files[m].id = d.id /\ Recorded(m, d.req)
    BY <2>2 DEF BudgetInv
  <2>7. \A d, e \in spent' : d.id = e.id /\ d.req = e.req => d = e
    BY <2>2 DEF BudgetInv
  <2>8. ASSUME NEW q \in Processes, NEW r, r = procs'[q]
        PROVE  Consumes(r)'
    <3>1. CASE q # p
      <4>1. procs[p].at \in Inside
        BY <1>4 DEF Release, Inside
      <4> QED
        BY <1>2, <2>8, <3>1, <4>1 DEF Consumes
    <3>2. CASE q = p
      BY <1>4, <2>8, <3>2, After DEF Ended, Consumes
    <3> QED
      BY <3>1, <3>2
  <2>9. \A q \in Processes : Consumes(procs[q])'
    BY <2>8
  <2>10. \A m \in 1..MaxRecords : UsedOf(receipts[m]) <= Budget
    BY DEF BudgetInv
  <2>11. \A l, m \in DOMAIN files : files[l].id = files[m].id => l = m
    BY DEF BudgetInv
  <2> QED
    BY <2>2, <2>3, <2>4, <2>5, <2>6, <2>7, <2>9, <2>10, <2>11 DEF BudgetInv
<1>5. CASE WriteCheckpoint(p)
  <2>1. receipts' = receipts /\ spent' = spent
    BY <1>5 DEF WriteCheckpoint
  <2>2. /\ \A id : Granted(id)' = Granted(id)
        /\ \A m, req : Recorded(m, req)' <=> Recorded(m, req)
    BY <2>1 DEF Granted, Recorded
  <2>3. PICK id : id = procs[p].id
    OBVIOUS
  <2>4. /\ \A n \in DOMAIN files : n \in DOMAIN files' /\ files'[n] = files[n]
        /\ \A n \in DOMAIN files' : \/ n \in DOMAIN files
                                    \/ n = Len(files) + 1 /\ files'[n].id = id
    BY <2>3, FilesMove
  <2>5. /\ \A n \in DOMAIN files : files[n].id # id
        /\ \A c \in spent : c.id # id
    <3>1. id \in Nat /\ Writes(p, id)
      BY <1>5, <2>3 DEF TypeInv, ProcType, Writes, WriteCheckpoint
    <3>2. ~Seen(id)
      BY <3>1 DEF IdInv
    <3> QED
      BY <3>2 DEF Seen
  <2>6. \A m, n \in DOMAIN files' : files'[m].id = files'[n].id => m = n
    BY <2>4, <2>5 DEF BudgetInv
  <2>7. ASSUME NEW n \in DOMAIN files', NEW i, i = files'[n].id
        PROVE  Cost(Granted(i)) <= UsedOf(receipts[n])
    <3>1. CASE n \in DOMAIN files
      BY <2>4, <2>7, <3>1 DEF BudgetInv
    <3>2. CASE i = id
      <4>1. PICK S : S = Granted(i)
        OBVIOUS
      <4>2. S = {}
        BY <2>5, <3>2, <4>1 DEF Granted
      <4>3. Cost(S) = 0
        BY <4>2, CostOfNone
      <4>4. n \in 1..MaxRecords
        BY <1>1, Sums, LenProperties, BoundsAssumption DEF TypeInv
      <4>5. UsedOf(receipts[n]) \in Nat
        BY <4>4, Sums
      <4> QED
        BY <4>1, <4>3, <4>5
    <3> QED
      BY <2>4, <2>7, <3>1, <3>2
  <2>8. \A c \in spent : \E n \in DOMAIN files' : files'[n].id = c.id /\ Recorded(n, c.req)
    BY <2>4 DEF BudgetInv
  <2>9. ASSUME NEW q \in Processes, NEW r, r = procs'[q]
        PROVE  Consumes(r)'
    <3>1. CASE q # p
      <4>1. procs[p].at \in Inside
        BY <1>5 DEF WriteCheckpoint, Inside
      <4> QED
        BY <1>2, <2>9, <3>1, <4>1 DEF Consumes
    <3>2. CASE q = p
      <4>1. procs[p].op = "append"
        BY <1>5 DEF WriteCheckpoint
      <4>2. procs'[p].op = procs[p].op
        BY <1>5, After DEF But, Fields, Steady
      <4> QED
        BY <2>9, <3>2, <4>1, <4>2 DEF Consumes
    <3> QED
      BY <3>1, <3>2
  <2>10. \A q \in Processes : Consumes(procs[q])'
    BY <2>9
  <2>11. /\ IsFiniteSet(spent) /\ \A m \in 1..MaxRecords : UsedOf(receipts[m]) <= Budget
         /\ \A c, d \in spent : c.id = d.id /\ c.req = d.req => c = d
    BY DEF BudgetInv
  <2> QED
    BY <2>1, <2>2, <2>6, <2>7, <2>8, <2>10, <2>11 DEF BudgetInv
<1>6. CASE /\ ~WriteReceipt(p) /\ ~WriteCheckpoint(p)
           /\ ~(Release(p) /\ procs[p].done /\ procs[p].op = "consume")
  <2>1. files' = files /\ receipts' = receipts /\ spent' = spent
    BY <1>6, Frames DEF Release
  <2>2. /\ \A id : Granted(id)' = Granted(id)
        /\ \A m, req : Recorded(m, req)' <=> Recorded(m, req)
    BY <2>1 DEF Granted, Recorded
  <2>3. \A r : (MayWrite(r)' <=> MayWrite(r)) /\ (HasWritten(r)' <=> HasWritten(r))
    BY <2>1, <2>2 DEF MayWrite, HasWritten
  <2>4. ASSUME NEW q \in Processes, NEW r, r = procs'[q]
        PROVE  Consumes(r)'
    <3>1. CASE q # p
      <4>1. r = procs[q]
        BY <2>4, <3>1, Moves
      <4>2. Consumes(r)
        BY <4>1 DEF BudgetInv
      <4> QED
        BY <2>3, <4>2 DEF Consumes
    <3>2. CASE q = p
      <4>1. procs[p].done => procs[p].at = "release"
        BY DEF StoreInv
      <4>2. r.op = "consume" /\ (r.at \in {"write", "head"} \/ r.done) =>
              \/ ReadToConsume(p) /\ r.at = "write" /\ ~r.done
              \/ WriteReceiptHead(p) /\ r.at = "release"
        BY <1>6, <2>4, <3>2, <4>1, Consumption
      <4>3. ASSUME ReadToConsume(p), r.at = "write" PROVE MayWrite(r)
        BY <2>4, <3>2, <4>3, Reads
      <4>4. ASSUME WriteReceiptHead(p) PROVE HasWritten(r)
        <5>1. PICK me : me = procs[p]
          OBVIOUS
        <5>2. me.op = "consume" /\ me.at = "head"
          BY <4>4, <5>1 DEF WriteReceiptHead
        <5>3. HasWritten(me)
          BY <5>1, <5>2 DEF BudgetInv, Consumes
        <5>4. But(me, r, {"at", "done"})
          BY <2>4, <3>2, <4>4, <5>1, After
        <5>5. r.n = me.n /\ r.id = me.id /\ r.req = me.req /\ r.cost = me.cost
          BY <5>4 DEF But, Fields
        <5> QED
          BY <5>3, <5>5 DEF HasWritten
      <4> QED
        BY <2>3, <4>2, <4>3, <4>4 DEF Consumes
    <3> QED
      BY <3>1, <3>2
  <2>5. \A q \in Processes : Consumes(procs[q])'
    BY <2>4
  <2> QED
    BY <2>1, <2>2, <2>5 DEF BudgetInv
<1> QED
  BY <1>3, <1>4, <1>5, <1>6

-------------------------------------------------------------------------------
(***************************************************************************)
(* The inductive invariant, and what it implies.                            *)
(***************************************************************************)

\* The inductive invariant. The last three parts hold only while no lock was stolen:
\* a lock removed by another's unlink lets two calls inside at once.
IInv == /\ TypeInv /\ CallInv /\ IdInv /\ BindInv /\ EpochInv
        /\ ~stolen => LockInv /\ StoreInv /\ BudgetInv

\* A trajectory opened by process 1, an empty store and a free lock.
LEMMA InitIInv == Init => IInv
<1> SUFFICES ASSUME Init PROVE IInv
  OBVIOUS
<1>1. /\ Len(ledger) = 1 /\ DOMAIN ledger = {1} /\ Len(files) = 0 /\ DOMAIN files = {}
      /\ ledger[1] = [kind |-> "opened", epoch |-> 1, tip |-> 0, from |-> 0]
      /\ ledger[1].kind = "opened" /\ ledger[1].epoch = 1 /\ ledger[1].from = 0
      /\ spent = {}
  BY DEF Init
<1>2. ASSUME NEW p \in Processes
      PROVE  /\ procs[p] \in ProcType /\ procs[p].at = "idle" /\ procs[p].op = "none"
             /\ procs[p].id = 0 /\ procs[p].known = 0 /\ procs[p].done = FALSE
             /\ (p = 1 /\ procs[p].epoch = 1) \/ procs[p].epoch = 0
             /\ procs[p].life = IF p = 1 THEN "up" ELSE "new"
  <2>1. CASE p = 1
    <3>1. PICK r : r = [New EXCEPT !.life = "up", !.epoch = 1]
      OBVIOUS
    <3>2. /\ r \in ProcType /\ r.at = "idle" /\ r.op = "none" /\ r.id = 0 /\ r.known = 0
          /\ r.done = FALSE /\ r.epoch = 1 /\ r.life = "up"
      BY <3>1 DEF New, ProcType, Steps
    <3>3. procs[p] = r
      BY <2>1, <3>1 DEF Init
    <3> QED
      BY <2>1, <3>2, <3>3
  <2>2. CASE p # 1
    <3>1. PICK r : r = New
      OBVIOUS
    <3>2. /\ r \in ProcType /\ r.at = "idle" /\ r.op = "none" /\ r.id = 0 /\ r.known = 0
          /\ r.done = FALSE /\ r.epoch = 0 /\ r.life = "new"
      BY <3>1 DEF New, ProcType, Steps
    <3>3. procs[p] = r
      BY <2>2, <3>1 DEF Init
    <3> QED
      BY <2>2, <3>2, <3>3
  <2> QED
    BY <2>1, <2>2
<1>3. TypeInv
  <2>1. ledger \in Seq(EventType) /\ Tip >= 1
    <3>1. ledger[1] \in EventType
      BY <1>1 DEF EventType, Kinds
    <3>2. PICK e \in EventType : e = ledger[1]
      BY <3>1
    <3>3. ledger = <<e>>
      BY <3>2 DEF Init
    <3>4. <<e>> \in Seq(EventType)
      OBVIOUS
    <3> QED
      BY <1>1, <3>3, <3>4 DEF Tip
  <2>2. files \in Seq(RecordType) /\ Len(files) <= MaxRecords
    BY <1>1, BoundsAssumption, EmptySeq DEF Init
  <2>3. NoHead \in HeadType /\ Free \in [owner : Processes \cup {0}, written : BOOLEAN]
    BY DEF NoHead, HeadType, Free
  <2>4. head \in HeadType /\ receiptHeads \in [1..MaxRecords -> HeadType]
    BY <2>3 DEF Init
  <2>5. receipts \in [1..MaxRecords -> Seq(ReceiptType)]
    BY EmptySeq DEF Init
  <2>6. procs \in [Processes -> ProcType]
    <3>1. procs = [p \in Processes |-> procs[p]]
      BY DEF Init
    <3> QED
      BY <1>2, <3>1
  <2> QED
    BY <2>1, <2>2, <2>3, <2>4, <2>5, <2>6 DEF Init, TypeInv
<1>4. CallInv
  BY <1>2 DEF CallInv, Fits, Inside
<1>5. IdInv
  <2>1. \A p \in Processes, id \in Nat : ~Writes(p, id)
    BY <1>2 DEF Writes
  <2>2. \A id \in Nat : Seen(id) => id = 0
    BY <1>1, <1>2 DEF Seen
  <2>3. minted = 0
    BY DEF Init
  <2> QED
    <3>1. \A id \in Nat : Seen(id) => id <= minted
      BY <2>2, <2>3
    <3>2. \A p \in Processes :
            ~(procs[p].at \in {"resume", "reconstruct", "recover"}) /\ procs[p].at # "write"
      BY <1>2
    <3> QED
      BY <1>1, <2>1, <3>1, <3>2 DEF IdInv
<1>6. BindInv
  <2>1. \A id, t \in Nat : ~Bound(id, t)
    BY <1>1, <1>2 DEF Bound, Writes
  <2> QED
    BY <2>1 DEF BindInv
<1>7. EpochInv
  <2>1. \A i \in DOMAIN ledger : /\ ledger[i].kind # "recovered" /\ ledger[i].from = 0
                                 /\ \A j \in DOMAIN ledger : ledger[j].epoch <= ledger[i].epoch
    BY <1>1
  <2> DEFINE epoch(p) == procs[p].epoch
  <2>2. \A p \in Processes : epoch(p) = 0 \/ (p = 1 /\ epoch(p) = 1)
    BY <1>2
  <2> HIDE DEF epoch
  <2>3. /\ \A p \in Processes : epoch(p) <= 1
        /\ \A p, q \in Processes : p # q /\ epoch(p) > 0 => epoch(p) # epoch(q)
    BY <2>2
  <2>4. 1 \in DOMAIN ledger /\ \A p \in Processes : procs[p].epoch <= ledger[1].epoch
    BY <1>1, <2>3 DEF epoch
  <2>5. \A p \in Processes : procs[p].at # "recover"
    BY <1>2
  <2>6. \A p, q \in Processes : p # q /\ procs[p].epoch > 0 => procs[p].epoch # procs[q].epoch
    BY <2>3 DEF epoch
  <2> QED
    BY <2>1, <2>4, <2>5, <2>6 DEF EpochInv
<1>8. LockInv
  <2>1. lock.owner = 0 /\ lock.written = FALSE
    BY DEF Init, Free
  <2> QED
    BY <1>2, <2>1, ProcessesAssumption DEF LockInv, Inside
<1>9. StoreInv
  <2>1. head.n = 0 /\ kept = {} /\ spent = {}
    BY DEF Init, NoHead
  <2> QED
    <3>1. \A id : Sealed(id)
      BY <1>1 DEF Sealed
    <3>2. \A p \in Processes :
            procs[p].done = FALSE /\ procs[p].at = "idle" /\ procs[p].op = "none"
      BY <1>2
    <3> QED
      BY <1>1, <2>1, <3>1, <3>2 DEF StoreInv
<1>10. BudgetInv
  <2>1. \A n \in 1..MaxRecords : UsedOf(receipts[n]) <= Budget
    BY UsedOfNone, BoundsAssumption DEF Init
  <2>2. \A p \in Processes : procs[p].op = "none"
    BY <1>2
  <2> QED
    BY <1>1, <2>1, <2>2, FS_EmptySet DEF BudgetInv, Consumes
<1> HIDE DEF Init
<1> QED
  BY <1>3, <1>4, <1>5, <1>6, <1>7, <1>8, <1>9, <1>10 DEF IInv

\* A step that changes nothing.
LEMMA StutterIInv == IInv /\ UNCHANGED vars => IInv'
<1> SUFFICES ASSUME IInv, UNCHANGED vars PROVE IInv'
  OBVIOUS
<1>1. TypeInv' /\ CallInv'
  BY DEF IInv, TypeInv, Tip, CallInv, Fits, vars, storeVars
<1>2. IdInv'
  BY DEF IInv, IdInv, Seen, Writes, vars, storeVars
<1>3. BindInv'
  BY DEF IInv, BindInv, Bound, Writes, vars, storeVars
<1>4. EpochInv'
  BY DEF IInv, EpochInv, Before, vars, storeVars
<1>5. ~stolen' => LockInv' /\ StoreInv'
  BY DEF IInv, LockInv, StoreInv, Sealed, vars, storeVars
<1>6. ASSUME BudgetInv PROVE BudgetInv'
  <2>1. files' = files /\ receipts' = receipts /\ spent' = spent /\ procs' = procs
    BY DEF vars, storeVars
  <2>2. /\ \A id : Granted(id)' = Granted(id)
        /\ \A n, req : Recorded(n, req)' <=> Recorded(n, req)
    BY <2>1 DEF Granted, Recorded
  <2>3. \A r : (MayWrite(r)' <=> MayWrite(r)) /\ (HasWritten(r)' <=> HasWritten(r))
    BY <2>1, <2>2 DEF MayWrite, HasWritten
  <2>4. \A p \in Processes : Consumes(procs[p])'
    BY <1>6, <2>1, <2>3 DEF Consumes, BudgetInv
  <2> QED
    BY <1>6, <2>1, <2>2, <2>4 DEF BudgetInv
<1>7. stolen' = stolen
  BY DEF vars
<1> QED
  BY <1>1, <1>2, <1>3, <1>4, <1>5, <1>6, <1>7 DEF IInv

\* A step of a call or of the runtime.
LEMMA NextIInv == IInv /\ Next => IInv'
<1> SUFFICES ASSUME IInv, NEW p \in Processes, StoreCall(p) \/ Runtime(p) PROVE IInv'
  BY DEF Next
<1>1. TypeInv' /\ CallInv' /\ IdInv' /\ BindInv' /\ EpochInv'
  BY TypeStep, CallStep, IdStep, BindStep, EpochStep DEF IInv
<1>2. ASSUME ~stolen' PROVE LockInv' /\ StoreInv' /\ BudgetInv'
  <2>1. ~stolen
    BY <1>2, Frames DEF UnlinkDead
  <2> QED
    BY <1>2, <2>1, LockStep, StoreStep, BudgetStep DEF IInv
<1> QED
  BY <1>1, <1>2 DEF IInv

\* The inductive invariant, its types with it, holds for every number of processes,
\* records, calls and crashes.
THEOREM SpecIInv == Spec => []IInv
<1>1. IInv /\ [Next]_vars => IInv'
  BY NextIInv, StutterIInv
<1> QED
  BY <1>1, InitIInv, PTL DEF Spec

\* A checkpoint that append returned is in its file ever after, and one call at a time
\* is inside the store, unless a lock was stolen: each writes its record under the lock
\* of the store, at the number it read there.
THEOREM SpecKeepsAcknowledged == Spec => []KeepsAcknowledged
<1>1. IInv => KeepsAcknowledged
  <2> SUFFICES ASSUME IInv, ~stolen PROVE KeepsAcknowledged
    BY DEF KeepsAcknowledged
  <2> DEFINE S == {p \in Processes : procs[p].at \in Inside}
  <2>1. \A c \in kept : files[c.n].id = c.id
    BY DEF IInv, StoreInv
  <2>2. Cardinality(S) <= 1
    <3>1. CASE S = {}
      BY <3>1, FS_EmptySet
    <3>2. CASE S # {}
      <4>1. PICK p \in S : TRUE
        BY <3>2
      <4>2. \A q \in S : q = p
        BY <4>1, OneInside DEF IInv
      <4>3. S = {p}
        BY <4>1, <4>2
      <4>4. Cardinality({p}) = 1
        BY FS_Singleton
      <4> QED
        BY <4>3, <4>4
    <3> QED
      BY <3>1, <3>2
  <2> QED
    BY <2>1, <2>2 DEF KeepsAcknowledged
<1> QED
  BY <1>1, SpecIInv, PTL

\* What a recovery or a consumption uses, and what the budget was spent of, is a
\* checkpoint whose head was written: a crash between record and head shows nobody a
\* checkpoint that append did not finish, unless a lock was stolen.
THEOREM SpecOnlySealedIsUsed == Spec => []OnlySealedIsUsed
<1>1. IInv => OnlySealedIsUsed
  BY DEF IInv, StoreInv, Sealed, OnlySealedIsUsed
<1> QED
  BY <1>1, SpecIInv, PTL

\* What consume granted for a checkpoint is within its budget, whoever asked and whoever
\* died in between, and no request was granted twice, unless a lock was stolen: a receipt
\* is on record before it is granted, and is counted whether or not its caller lived.
THEOREM SpecBudgetKept == Spec => []BudgetKept
<1>1. IInv => BudgetKept
  <2> SUFFICES ASSUME IInv, ~stolen, NEW c \in spent
               PROVE  LET granted == {r \in spent : r.id = c.id} IN
                      /\ MapThenSumSet(LAMBDA r : r.cost, granted) <= Budget
                      /\ \A r \in granted : r.req = c.req => r = c
    BY Zenon DEF BudgetKept
  <2>1. TypeInv /\ BudgetInv
    BY DEF IInv
  <2>2. PICK n \in DOMAIN files : files[n].id = c.id
    BY <2>1 DEF BudgetInv
  <2>3. n \in 1..MaxRecords /\ UsedOf(receipts[n]) \in Nat /\ Cost(Granted(c.id)) \in Nat
    BY <2>1, Sums DEF BudgetInv
  <2>4. Cost(Granted(c.id)) <= UsedOf(receipts[n]) /\ UsedOf(receipts[n]) <= Budget
    BY <2>1, <2>2, <2>3 DEF BudgetInv
  <2>5. Cost(Granted(c.id)) <= Budget
    BY <2>3, <2>4, BoundsAssumption
  <2>6. \A r \in Granted(c.id) : r.req = c.req => r = c
    BY <2>1 DEF BudgetInv, Granted
  <2> QED
    BY <2>5, <2>6 DEF Cost, Granted
<1> QED
  BY <1>1, SpecIInv, PTL

\* A recovery takes the trajectory over at the tip and the epoch it read, with nothing
\* unsettled, and no checkpoint is recovered from twice, stolen lock or not: it is the
\* expected tip of the ledger's append that fences.
THEOREM SpecRecoveryFenced == Spec => []RecoveryFenced
<1>1. IInv => RecoveryFenced
  <2> SUFFICES ASSUME IInv PROVE RecoveryFenced
    OBVIOUS
  <2>1. \A i \in DOMAIN ledger : ledger[i] \in EventType /\ i \in Nat
    BY LenProperties, ElementOfSeq DEF IInv, TypeInv
  <2>2. ASSUME NEW i \in DOMAIN ledger, ledger[i].kind = "recovered",
               NEW j \in DOMAIN ledger, ledger[j].from = ledger[i].from
        PROVE  j = i
    <3>1. ledger[i].from >= 1 /\ ledger[i].tip = i - 1
      BY <2>2 DEF IInv, EpochInv
    <3>2. ledger[j].kind = "recovered"
      BY <2>2, <3>1 DEF IInv, EpochInv
    <3>3. ledger[j].tip = j - 1
      BY <3>2 DEF IInv, EpochInv
    <3>4. PICK id \in Nat : id = ledger[i].from
      BY <2>1 DEF EventType
    <3>5. PICK t \in Nat, u \in Nat : t = ledger[i].tip /\ u = ledger[j].tip
      BY <2>1 DEF EventType
    <3>6. Bound(id, t) /\ Bound(id, u)
      BY <2>2, <3>2, <3>4, <3>5 DEF Bound
    <3>7. t = u
      BY <3>6 DEF IInv, BindInv
    <3> QED
      BY <2>1, <3>1, <3>3, <3>5, <3>7
  <2> QED
    BY <2>2 DEF IInv, EpochInv, Before, RecoveryFenced
<1> QED
  BY <1>1, SpecIInv, PTL

\* Between the pin of the latest checkpoint and the end of the recovery nobody changes
\* the store, unless a lock was stolen: recovery pins under the writer lock.
THEOREM SpecPinHolds == Spec => PinHolds
<1>1. IInv /\ [Next]_vars =>
            [(~stolen' /\ \E p \in Processes : Pinned(p)) => UNCHANGED storeVars]_vars
  <2> SUFFICES ASSUME IInv, NEW q \in Processes, StoreCall(q) \/ Runtime(q), ~stolen',
                      NEW p \in Processes, Pinned(p)
               PROVE  UNCHANGED storeVars
    BY DEF Next
  <2>1. ~stolen
    BY Frames DEF UnlinkDead
  <2>2. procs[p].at \in Inside /\ procs[p].at \notin {"write", "head"}
    BY DEF Pinned, Inside
  <2>3. procs[q].at \notin {"write", "head"}
    <3>1. ASSUME procs[q].at \in {"write", "head"} PROVE FALSE
      <4>1. p = q
        BY <2>1, <2>2, <3>1, OneInside DEF IInv, Inside
      <4> QED
        BY <2>2, <3>1, <4>1
    <3> QED
      BY <3>1
  <2> QED
    BY <2>3, Frames DEF WriteCheckpoint, WriteCheckpointHead, WriteReceipt, WriteReceiptHead,
                        storeVars
<1> QED
  BY <1>1, SpecIInv, PTL DEF Spec, PinHolds
===============================================================================
