----------------------- MODULE TrajectoryLedgerProofs -----------------------
(***************************************************************************)
(* The abstract log: for every number of events, byte budget, set of ids    *)
(* and set of append calls, the logs append produces decode, keep their     *)
(* reserve, and can always be finalized.                                    *)
(*                                                                         *)
(* The directory of event files implements the atomic log, for any number   *)
(* of writers, retries and capacities, under any interleaving of their       *)
(* steps, I/O errors and crashes.                                            *)
(*                                                                         *)
(* The argument: what a writer has read stays a prefix of what is on disk,  *)
(* because event files are only ever added, under exclusive names.  A link  *)
(* succeeds only at the length that was read, so then the prefix is the     *)
(* whole chain and the verdict was reached on exactly what is extended.     *)
(***************************************************************************)
EXTENDS TrajectoryLedger, TrajectoryEventsProofs

-----------------------------------------------------------------------------
(* The invariants of the log.                                              *)

\* The inductive invariant of the log: a log that has begun has its reserve.
LogInv == LogTypeOK /\ LogDecodes /\ (log # <<>> => Reserve(log))

\* Every append keeps it: the verdict was reached on the log that is extended.
LEMMA LogInvInductive == LogInv /\ [LogNext]_log => LogInv'
<1> SUFFICES ASSUME LogInv, LogNext PROVE LogInv'
  BY DEF LogInv, LogTypeOK, LogDecodes
<1>1. PICK c \in Calls : AppendEvent(c)
  BY DEF LogNext
<1>2. c.input \in Input /\ log \in Seq(Event)
  BY CallsAssumption DEF LogInv, LogTypeOK
<1>3. Verdict(log, c.input, c.expect) = "append" /\ log' = Extend(log, c.input)
  BY <1>1 DEF AppendEvent
<1>4. LogTypeOK'
  BY <1>2, <1>3, ExtendType DEF LogTypeOK
<1>5. LogDecodes'
  BY <1>2, <1>3, ExtendDecodes DEF LogInv, LogDecodes
<1>6. Reserve(log)'
  BY <1>2, <1>3, AppendVerdict, AppendKeepsReserve DEF Reserve
<1> QED
  BY <1>4, <1>5, <1>6 DEF LogInv

\* It holds of the empty log.
LEMMA LogInvInit == LogInit => LogInv
BY EmptySeq, LimitsAssumption DEF LogInit, LogInv, LogTypeOK, LogDecodes, Decodes

\* assertCapacity's reserve is enough: an event that pays an obligation is
\* never refused for lack of room, whatever was appended before.
THEOREM FinalizationNeverStarves == LogSpec => []FinalizationAdmitted
<1>1. LogInv => FinalizationAdmitted
  <2> SUFFICES ASSUME LogInv, log # <<>>, ~Terminated(log),
                      NEW kind \in ControlKinds, NEW s \in Subjects,
                      NEW b \in 1..MaxControlBytes,
                      Discharges(log, [kind |-> kind, subject |-> s, bytes |-> b,
                                       id |-> CHOOSE i \in EventIds : TRUE,
                                       causes |-> {}, epoch |-> 0, binds |-> 0, claim |-> "none"])
               PROVE  LeavesReserve(log, [kind |-> kind, subject |-> s, bytes |-> b,
                                          id |-> CHOOSE i \in EventIds : TRUE,
                                          causes |-> {}, epoch |-> 0, binds |-> 0,
                                          claim |-> "none"])
    BY DEF FinalizationAdmitted
  <2> DEFINE in == [kind |-> kind, subject |-> s, bytes |-> b,
                    id |-> CHOOSE i \in EventIds : TRUE,
                    causes |-> {}, epoch |-> 0, binds |-> 0, claim |-> "none"]
  <2>1. log \in Seq(Event) /\ MaxControlBytes \in Nat /\ MaxTotalBytes \in Nat /\ MaxEvents \in Nat
    BY LimitsAssumption DEF LogInv, LogTypeOK
  <2>2. EventIds # {}
    <3>1. 1 \in 1..Len(log)
      BY <2>1, EmptySeq
    <3>2. log[1] \in Event
      BY <2>1, <3>1, ElementOfSeq
    <3> QED
      BY <3>2 DEF Event
  <2>3. in \in Input
    BY <2>1, <2>2 DEF Input, ControlKinds, Claims
  <2> HIDE DEF in
  <2>4. in.bytes <= MaxControlBytes
    BY DEF in
  <2> QED
    BY <2>1, <2>3, <2>4, DischargeFits DEF LogInv, in
<1> QED
  BY <1>1, LogInvInit, LogInvInductive, PTL DEF LogSpec

\* The log is append-only and its terminal event is final.
THEOREM LogGrowsByOne == LogSpec => GrowsByOne
<1>1. LogInv /\ [LogNext]_log => [ /\ Len(log') = Len(log) + 1
                               /\ SubSeq(log', 1, Len(log)) = log
                               /\ ~Terminated(log) ]_log
  <2> SUFFICES ASSUME LogInv, LogNext
               PROVE  /\ Len(log') = Len(log) + 1
                      /\ SubSeq(log', 1, Len(log)) = log
                      /\ ~Terminated(log)
    OBVIOUS
  <2>1. PICK c \in Calls : AppendEvent(c)
    BY DEF LogNext
  <2>2. c.input \in Input /\ log \in Seq(Event)
    BY CallsAssumption DEF LogInv, LogTypeOK
  <2>3. /\ log' = Append(log, Stamp(log, c.input)) /\ Stamp(log, c.input) \in Event
        /\ Len(log') = Len(log) + 1
    BY <2>1, <2>2, ExtendType DEF AppendEvent, Extend
  <2>4. SubSeq(log', 1, Len(log)) = SubSeq(log, 1, Len(log))
    BY <2>2, <2>3, PrefixOfAppend, LenProperties
  <2>5. SubSeq(log, 1, Len(log)) = log
    BY <2>2, SubSeqFull
  <2>6. ~Terminated(log)
    BY <2>1, AppendVerdict DEF AppendEvent
  <2> QED
    BY <2>3, <2>4, <2>5, <2>6
<1> QED
  BY <1>1, LogInvInit, LogInvInductive, PTL DEF LogSpec, GrowsByOne

\* Every log has the type of a chain of events.
THEOREM LogSpecTypeOK == LogSpec => []LogTypeOK
<1>1. LogInv => LogTypeOK
  BY DEF LogInv
<1> QED
  BY <1>1, LogInvInit, LogInvInductive, PTL DEF LogSpec

\* reconstruct accepts whatever append wrote: no accepted append bricks its own ledger.
THEOREM SpecLogDecodes == LogSpec => []LogDecodes
<1>1. LogInv => LogDecodes
  BY DEF LogInv
<1> QED
  BY <1>1, LogInvInit, LogInvInductive, PTL DEF LogSpec

-----------------------------------------------------------------------------
(* The invariant of the directory and its writers.                         *)

\* What a writer has read is a prefix of what is on disk.
Prefix(w) == /\ Len(seen[w]) <= Len(log)
             /\ seen[w] = SubSeq(log, 1, Len(seen[w]))

\* A writer about to publish has its event on disk, right after what it read.
Linked(w) == /\ Len(seen[w]) + 1 <= Len(log)
             /\ SemanticInput(log[Len(seen[w]) + 1]) = call[w].input
             /\ call[w].expect # NoTip => Len(seen[w]) = call[w].expect

\* The append of w is on disk, at the tip it was fenced on.
Durable(w) == \E i \in DOMAIN log :
                 /\ SemanticInput(log[i]) = call[w].input
                 /\ outcome[w] = "appended" /\ call[w].expect # NoTip => i = call[w].expect + 1

\* The inductive invariant of the directory and its writers.
LedgerInv ==
  /\ TypeOK
  /\ HeadNamesPrefix
  /\ \A w \in Writers : Prefix(w)
  /\ \A w \in Writers : pc[w] = "publish" => Linked(w)
  /\ \A w \in Writers : outcome[w] \in Accepted => Durable(w)

-----------------------------------------------------------------------------

\* It holds of an empty directory.
LEMMA LedgerInvInit == Init => LedgerInv
<1> SUFFICES ASSUME Init PROVE LedgerInv
  OBVIOUS
<1>1. \A w \in Writers : seen[w] = <<>> /\ pc[w] = "idle" /\ outcome[w] = "none"
  BY DEF Init
<1>2. TypeOK
  BY EmptySeq, CallsAssumption, WritersAssumption DEF Init, TypeOK, Phases, Outcomes, NoTip
<1>3. SubSeq(log, 1, 0) = <<>> /\ Len(<<>>) = 0 /\ Len(log) = 0
  BY SubSeqEmpty, EmptySeq DEF Init
<1> QED
  BY <1>1, <1>2, <1>3 DEF LedgerInv, HeadNamesPrefix, Prefix, Accepted, Init, NoTip

\* append admits, recognises, or refuses with one of its errors.
LEMMA VerdictType ==
  ASSUME NEW es, NEW in, NEW tip
  PROVE  Verdict(es, in, tip) \in {"append", "idempotent"} \cup Refusals
BY DEF Verdict, CapacityRefusal, Refusals

\* Returning disturbs no other writer and forgets what was read.
LEMMA ReturnKeeps ==
  ASSUME LedgerInv, NEW w \in Writers, NEW result \in Outcomes,
         Return(w, result), UNCHANGED log,
         head' \in {NoTip} \cup Nat, head' <= Len(log),
         result \in Accepted =>
           \E i \in DOMAIN log :
              /\ SemanticInput(log[i]) = call[w].input
              /\ result = "appended" /\ call[w].expect # NoTip => i = call[w].expect + 1
  PROVE  LedgerInv'
<1>1. TypeOK'
  BY EmptySeq, CallsAssumption, WritersAssumption DEF LedgerInv, TypeOK, Return, Goto, Phases
<1>2. \A v \in Writers : v # w => /\ pc'[v] = pc[v] /\ seen'[v] = seen[v]
                                  /\ outcome'[v] = outcome[v] /\ call'[v] = call[v]
  BY DEF Return, Goto, LedgerInv, TypeOK
<1>3. pc'[w] = "idle" /\ seen'[w] = <<>> /\ outcome'[w] = result /\ call'[w] = call[w]
  BY DEF Return, Goto, LedgerInv, TypeOK
<1>4. HeadNamesPrefix'
  BY DEF HeadNamesPrefix
<1>5. \A v \in Writers : Prefix(v)'
  <2>1. SubSeq(log, 1, 0) = <<>> /\ Len(<<>>) = 0 /\ Len(log) \in Nat
    BY SubSeqEmpty, EmptySeq, LenProperties DEF LedgerInv, TypeOK
  <2>2. Prefix(w)'
    <3>1. log' = log
      OBVIOUS
    <3> QED
      BY <1>3, <2>1, <3>1 DEF Prefix
  <2>3. \A v \in Writers : v # w => Prefix(v)'
    BY <1>2 DEF Prefix, LedgerInv
  <2> QED
    BY <2>2, <2>3
<1>6. \A v \in Writers : pc'[v] = "publish" => Linked(v)'
  BY <1>2, <1>3 DEF Linked, LedgerInv
<1>7. \A v \in Writers : outcome'[v] \in Accepted => Durable(v)'
  BY <1>2, <1>3 DEF Durable, LedgerInv
<1> QED
  BY <1>1, <1>4, <1>5, <1>6, <1>7 DEF LedgerInv

\* A writer that moves on inside its append, with the disk unchanged but for
\* the head and what it read unchanged or a fresh copy of the chain.
LEMMA MoveKeeps ==
  ASSUME LedgerInv, NEW w \in Writers, NEW phase \in Phases, phase # "publish",
         Goto(w, phase), UNCHANGED <<log, call, outcome>>,
         attempt' \in [Writers -> 0..MaxAppendRetries],
         seen' = seen \/ seen' = [seen EXCEPT ![w] = log],
         head' \in {NoTip} \cup Nat, head' <= Len(log)
  PROVE  LedgerInv'
<1>1. TypeOK'
  BY DEF LedgerInv, TypeOK, Goto
<1>2. HeadNamesPrefix'
  BY DEF HeadNamesPrefix
<1>3. \A v \in Writers : v # w => pc'[v] = pc[v] /\ seen'[v] = seen[v]
  BY DEF Goto, LedgerInv, TypeOK
<1>4. pc'[w] = phase /\ (seen'[w] = seen[w] \/ seen'[w] = log)
  BY DEF Goto, LedgerInv, TypeOK
<1>5. \A v \in Writers : Prefix(v)'
  <2>1. Len(log) \in Nat /\ SubSeq(log, 1, Len(log)) = log
    BY SubSeqFull, LenProperties DEF LedgerInv, TypeOK
  <2> QED
    BY <1>3, <1>4, <2>1 DEF Prefix, LedgerInv
<1>6. \A v \in Writers : pc'[v] = "publish" => Linked(v)'
  BY <1>3, <1>4 DEF Linked, LedgerInv
<1>7. \A v \in Writers : outcome'[v] \in Accepted => Durable(v)'
  BY DEF Durable, LedgerInv
<1> QED
  BY <1>1, <1>2, <1>5, <1>6, <1>7 DEF LedgerInv

-----------------------------------------------------------------------------
(* The actions.                                                            *)

\* A link extends the whole chain by the event that was decided on it.
LEMMA LinkExtends ==
  ASSUME LedgerInv, NEW w \in Writers, Link(w)
  PROVE  /\ seen[w] = log
         /\ call[w] \in Calls /\ call[w].input \in Input
         /\ Verdict(log, call[w].input, call[w].expect) = "append"
         /\ log' = Extend(log, call[w].input)
<1>1. seen[w] = SubSeq(log, 1, Len(log)) /\ log \in Seq(Event)
  BY DEF Link, LedgerInv, Prefix, TypeOK
<1>2. seen[w] = log
  BY <1>1, SubSeqFull
<1>3. call[w] \in Calls /\ call[w].input \in Input
  BY CallsAssumption, WritersAssumption DEF LedgerInv, TypeOK
<1> QED
  BY <1>2, <1>3 DEF Link, Verdict_, Extend

\* A link keeps the invariant.
LEMMA LinkKeeps ==
  ASSUME LedgerInv, NEW w \in Writers, Link(w)
  PROVE  LedgerInv'
<1> DEFINE in == call[w].input
<1>1. /\ seen[w] = log
      /\ in \in Input
      /\ Verdict(log, in, call[w].expect) = "append"
      /\ log' = Extend(log, in)
  BY LinkExtends
<1>2. log \in Seq(Event) /\ Len(log) \in Nat
  BY LenProperties DEF LedgerInv, TypeOK
<1>3. /\ log' \in Seq(Event)
      /\ Len(log') = Len(log) + 1
      /\ \A i \in 1..Len(log) : log'[i] = log[i]
      /\ log'[Len(log) + 1] = Stamp(log, in)
      /\ log' = Append(log, Stamp(log, in)) /\ Stamp(log, in) \in Event
  BY <1>1, <1>2, ExtendType DEF Extend
<1>4. SemanticInput(Stamp(log, in)) = in
  BY <1>1 DEF SemanticInput, Stamp, Input
<1>5. UNCHANGED <<head, call, seen, attempt, outcome>> /\ pc' = [pc EXCEPT ![w] = "publish"]
  BY DEF Link, Goto
<1>6. TypeOK'
  BY <1>3, <1>5 DEF LedgerInv, TypeOK, Phases
<1>7. HeadNamesPrefix'
  BY <1>2, <1>3, <1>5 DEF LedgerInv, HeadNamesPrefix, TypeOK, NoTip
<1>8. \A v \in Writers : Prefix(v)'
  <2> SUFFICES ASSUME NEW v \in Writers PROVE Prefix(v)'
    OBVIOUS
  <2>1. seen[v] \in Seq(Event) /\ seen'[v] = seen[v] /\ Prefix(v)
    BY <1>5 DEF LedgerInv, TypeOK
  <2>2. Len(seen[v]) \in 0..Len(log)
    BY <1>2, <2>1, LenProperties DEF Prefix
  <2>3. SubSeq(log', 1, Len(seen[v])) = SubSeq(log, 1, Len(seen[v]))
    BY <1>2, <1>3, <2>2, PrefixOfAppend
  <2> QED
    BY <1>2, <1>3, <2>1, <2>2, <2>3 DEF Prefix
<1>9. \A v \in Writers : pc'[v] = "publish" => Linked(v)'
  <2> SUFFICES ASSUME NEW v \in Writers, pc'[v] = "publish" PROVE Linked(v)'
    OBVIOUS
  <2>1. CASE v = w
    <3>1. call[w].expect # NoTip => call[w].expect = Len(log)
      BY <1>1, AppendVerdict
    <3> QED
      BY <1>1, <1>2, <1>3, <1>4, <1>5, <2>1, <3>1 DEF Linked
  <2>2. CASE v # w
    <3>1. pc[v] = "publish" /\ Linked(v) /\ seen[v] \in Seq(Event)
      BY <1>5, <2>2 DEF LedgerInv, TypeOK
    <3>2. Len(seen[v]) + 1 \in 1..Len(log)
      BY <1>2, <3>1, LenProperties DEF Linked
    <3> QED
      BY <1>2, <1>3, <1>5, <3>1, <3>2 DEF Linked
  <2> QED
    BY <2>1, <2>2
<1>10. \A v \in Writers : outcome'[v] \in Accepted => Durable(v)'
  <2> SUFFICES ASSUME NEW v \in Writers, outcome[v] \in Accepted PROVE Durable(v)'
    BY <1>5
  <2>1. PICK i \in DOMAIN log :
           /\ SemanticInput(log[i]) = call[v].input
           /\ outcome[v] = "appended" /\ call[v].expect # NoTip => i = call[v].expect + 1
    BY DEF LedgerInv, Durable
  <2>2. DOMAIN log = 1..Len(log) /\ DOMAIN log' = 1..Len(log')
    BY <1>2, <1>3, LenProperties
  <2>3. i \in DOMAIN log' /\ log'[i] = log[i]
    BY <1>2, <1>3, <2>1, <2>2
  <2> QED
    BY <1>5, <2>1, <2>3 DEF Durable
<1> QED
  BY <1>6, <1>7, <1>8, <1>9, <1>10 DEF LedgerInv

\* What an append found already on disk is on disk.
LEMMA RefuseKeeps ==
  ASSUME LedgerInv, NEW w \in Writers, Refuse(w)
  PROVE  LedgerInv'
<1> DEFINE result == Verdict_(w)
<1>1. result \in {"idempotent"} \cup Refusals /\ result \in Outcomes
  BY VerdictType DEF Refuse, Verdict_, Outcomes, Accepted
<1>2. result \in Accepted =>
        \E i \in DOMAIN log :
           /\ SemanticInput(log[i]) = call[w].input
           /\ result = "appended" /\ call[w].expect # NoTip => i = call[w].expect + 1
  <2> SUFFICES ASSUME result = "idempotent"
               PROVE  \E i \in DOMAIN log : SemanticInput(log[i]) = call[w].input
    BY <1>1 DEF Accepted, Refusals
  <2>1. PICK i \in DOMAIN seen[w] : SemanticInput(seen[w][i]) = call[w].input
    BY DEF Verdict_, Verdict, CapacityRefusal
  <2>2. seen[w] \in Seq(Event) /\ log \in Seq(Event) /\ Prefix(w)
    BY DEF LedgerInv, TypeOK
  <2>3. i \in 1..Len(seen[w]) /\ i \in 1..Len(log)
    BY <2>1, <2>2, LenProperties DEF Prefix
  <2>4. SubSeq(log, 1, Len(seen[w]))[i] = log[i]
    <3>1. \A k \in 1..Len(seen[w]) : log[k] \in Event
      BY <2>2, LenProperties, ElementOfSeq DEF Prefix
    <3> QED
      BY <2>2, <2>3, <3>1, LenProperties, SubSeqProperties
  <2>5. i \in DOMAIN log
    BY <2>2, <2>3, LenProperties
  <2> QED
    BY <2>1, <2>2, <2>4, <2>5 DEF Prefix
<1>3. Return(w, result) /\ UNCHANGED <<log, head>>
  BY DEF Refuse
<1>4. head' \in {NoTip} \cup Nat /\ head' <= Len(log)
  BY <1>3 DEF LedgerInv, TypeOK, HeadNamesPrefix
<1> HIDE DEF result
<1> QED
  BY <1>1, <1>2, <1>3, <1>4, ReturnKeeps

\* So does the writing of the head.
LEMMA PublishKeeps ==
  ASSUME LedgerInv, NEW w \in Writers, PublishHead(w)
  PROVE  LedgerInv'
<1>1. /\ Return(w, "appended") /\ UNCHANGED log /\ head' = Len(seen[w]) + 1
      /\ Linked(w) /\ seen[w] \in Seq(Event) /\ log \in Seq(Event)
  BY DEF PublishHead, LedgerInv, TypeOK
<1>2. Len(seen[w]) \in Nat /\ Len(log) \in Nat /\ DOMAIN log = 1..Len(log)
  BY <1>1, LenProperties
<1>3. \E i \in DOMAIN log :
         /\ SemanticInput(log[i]) = call[w].input
         /\ "appended" = "appended" /\ call[w].expect # NoTip => i = call[w].expect + 1
  <2>1. Len(seen[w]) + 1 \in DOMAIN log
    BY <1>1, <1>2 DEF Linked
  <2> QED
    BY <1>1, <2>1 DEF Linked
<1>4. head' \in {NoTip} \cup Nat /\ head' <= Len(log)
  BY <1>1, <1>2 DEF Linked
<1>5. "appended" \in Outcomes
  BY DEF Outcomes, Accepted
<1> QED
  BY <1>1, <1>3, <1>4, <1>5, ReturnKeeps

\* Ending an append without an answer of success needs no justification.
LEMMA GiveUpKeeps ==
  ASSUME LedgerInv, NEW w \in Writers, NEW result \in Outcomes \ Accepted,
         Return(w, result), HeadWriteCut(w), UNCHANGED log
  PROVE  LedgerInv'
<1>1. Len(seen[w]) \in Nat /\ Len(log) \in Nat /\ Len(seen[w]) <= Len(log)
  BY LenProperties DEF LedgerInv, TypeOK, Prefix
<1>2. pc[w] = "publish" => Len(seen[w]) + 1 <= Len(log)
  BY <1>1 DEF LedgerInv, Linked
<1>3. head' \in {NoTip} \cup Nat /\ head' <= Len(log)
  BY <1>1, <1>2 DEF LedgerInv, TypeOK, HeadNamesPrefix, HeadWriteCut
<1> QED
  BY <1>3, ReturnKeeps

\* And so every step of every writer.
LEMMA LedgerInvNext == LedgerInv /\ [Next]_vars => LedgerInv'
<1> SUFFICES ASSUME LedgerInv, [Next]_vars PROVE LedgerInv'
  OBVIOUS
<1> USE DEF Phases
<1>1. ASSUME NEW w \in Writers, Submit(w) PROVE LedgerInv'
  <2>1. TypeOK'
    <3>1. 1 \in 0..MaxAppendRetries
      BY CallsAssumption, WritersAssumption
    <3>2. attempt' \in [Writers -> 0..MaxAppendRetries]
      BY <1>1, <3>1 DEF Submit, LedgerInv, TypeOK
    <3>3. /\ call' \in [Writers -> Calls] /\ pc' \in [Writers -> Phases]
          /\ outcome' \in [Writers -> Outcomes]
      BY <1>1 DEF Submit, Goto, LedgerInv, TypeOK, Outcomes
    <3> QED
      BY <1>1, <3>2, <3>3 DEF Submit, LedgerInv, TypeOK
  <2>2. \A v \in Writers : v # w => /\ pc'[v] = pc[v] /\ call'[v] = call[v]
                                    /\ outcome'[v] = outcome[v]
    BY <1>1 DEF Submit, Goto, LedgerInv, TypeOK
  <2>3. pc'[w] = "scan" /\ outcome'[w] = "pending" /\ UNCHANGED <<log, head, seen>>
    BY <1>1 DEF Submit, Goto, LedgerInv, TypeOK
  <2> QED
    BY <2>1, <2>2, <2>3 DEF LedgerInv, HeadNamesPrefix, Prefix, Linked, Durable, Accepted
<1>2. ASSUME NEW w \in Writers, Scan(w) PROVE LedgerInv'
  BY <1>2, MoveKeeps DEF Scan, LedgerInv, TypeOK, HeadNamesPrefix
<1>3. ASSUME NEW w \in Writers, CompareHead(w) PROVE LedgerInv'
  <2>1. head' \in {NoTip} \cup Nat /\ head' <= Len(log) /\ UNCHANGED <<log, head>>
    BY <1>3 DEF CompareHead, LedgerInv, TypeOK, HeadNamesPrefix
  <2>2. CASE Goto(w, "decide") /\ UNCHANGED <<call, seen, attempt, outcome>>
    BY <2>1, <2>2, MoveKeeps DEF LedgerInv, TypeOK
  <2>3. CASE Goto(w, "repair") /\ UNCHANGED <<call, seen, attempt, outcome>>
    BY <2>1, <2>3, MoveKeeps DEF LedgerInv, TypeOK
  <2>4. CASE Return(w, "HEAD_CORRUPT")
    BY <2>1, <2>4, GiveUpKeeps DEF Outcomes, Accepted, HeadWriteCut
  <2> QED
    BY <1>3, <2>2, <2>3, <2>4 DEF CompareHead
<1>4. ASSUME NEW w \in Writers, RepairHead(w) PROVE LedgerInv'
  <2>1. Len(seen[w]) \in Nat /\ Len(seen[w]) <= Len(log)
    BY LenProperties DEF LedgerInv, TypeOK, Prefix
  <2> QED
    BY <1>4, <2>1, MoveKeeps DEF RepairHead, LedgerInv, TypeOK
<1>5. ASSUME NEW w \in Writers, Refuse(w) PROVE LedgerInv'
  BY <1>5, RefuseKeeps
<1>6. ASSUME NEW w \in Writers, Link(w) PROVE LedgerInv'
  BY <1>6, LinkKeeps
<1>7. ASSUME NEW w \in Writers, LoseRace(w) PROVE LedgerInv'
  <2>1. head' \in {NoTip} \cup Nat /\ head' <= Len(log) /\ UNCHANGED <<log, head>>
    BY <1>7 DEF LoseRace, LedgerInv, TypeOK, HeadNamesPrefix
  <2>2. CASE \E result \in {"EXPECTED_TIP_MISMATCH", "CONCURRENT_APPEND_EXHAUSTED"} :
               Return(w, result)
    BY <2>1, <2>2, GiveUpKeeps DEF Outcomes, Accepted, Refusals, HeadWriteCut
  <2>3. CASE /\ attempt[w] < MaxAppendRetries
             /\ attempt' = [attempt EXCEPT ![w] = @ + 1]
             /\ Goto(w, "scan")
             /\ UNCHANGED <<call, seen, outcome>>
    <3>1. attempt' \in [Writers -> 0..MaxAppendRetries]
      BY <2>3, CallsAssumption, WritersAssumption DEF LedgerInv, TypeOK
    <3> QED
      BY <2>1, <2>3, <3>1, MoveKeeps
  <2> QED
    BY <1>7, <2>2, <2>3 DEF LoseRace
<1>8. ASSUME NEW w \in Writers, PublishHead(w) PROVE LedgerInv'
  BY <1>8, PublishKeeps
<1>9. ASSUME NEW w \in Writers, FailIo(w) PROVE LedgerInv'
  BY <1>9, GiveUpKeeps DEF FailIo, Outcomes, Accepted
<1>10. ASSUME NEW w \in Writers, Crash(w) PROVE LedgerInv'
  BY <1>10, GiveUpKeeps DEF Crash, Outcomes, Accepted
<1>11. CASE UNCHANGED vars
  BY <1>11 DEF vars, writerVars, LedgerInv, TypeOK, HeadNamesPrefix, Prefix, Linked, Durable
<1> QED
  BY <1>1, <1>2, <1>3, <1>4, <1>5, <1>6, <1>7, <1>8, <1>9, <1>10, <1>11 DEF Next, Step

-----------------------------------------------------------------------------
(* Theorems.                                                               *)

\* Whatever the writers do, the advisory head names a prefix of the chain
\* and every acknowledged append is on disk at the tip it was fenced on.
THEOREM LedgerInvariant ==
  Safe => [](TypeOK /\ HeadNamesPrefix /\ AcknowledgedIsDurable)
<1>1. LedgerInv => TypeOK /\ HeadNamesPrefix /\ AcknowledgedIsDurable
  BY DEF LedgerInv, AcknowledgedIsDurable, Durable
<1> QED
  BY <1>1, LedgerInvInit, LedgerInvNext, PTL DEF Safe

\* The interleaved writers implement the atomic log.
THEOREM LedgerImplementsLog == Safe => ImplementsLog
<1>1. Init => LogInit
  BY DEF Init, LogInit
<1>2. LedgerInv /\ [Next]_vars => [LogNext]_log
  <2> SUFFICES ASSUME LedgerInv, Next, log' # log PROVE LogNext
    BY DEF vars
  <2>1. PICK w \in Writers : Link(w)
    BY DEF Next, Submit, Step, Scan, CompareHead, RepairHead, Refuse, LoseRace, PublishHead,
           FailIo, Crash
  <2>2. /\ call[w] \in Calls
        /\ Verdict(log, call[w].input, call[w].expect) = "append"
        /\ log' = Extend(log, call[w].input)
    BY <2>1, LinkExtends
  <2> QED
    BY <2>2 DEF LogNext, AppendEvent
<1> QED
  BY <1>1, <1>2, LedgerInvInit, LedgerInvNext, PTL DEF Safe, ImplementsLog, LogSpec

\* Directory, head and writers keep their types; no writer exceeds its retries.
THEOREM SpecTypeOK == Safe => []TypeOK
<1>1. LedgerInv => TypeOK
  BY DEF LedgerInv
<1> QED
  BY <1>1, LedgerInvInit, LedgerInvNext, PTL DEF Safe

\* However writers race to rewrite HEAD.json, it never names an event that is not on disk.
THEOREM SpecHeadNamesPrefix == Safe => []HeadNamesPrefix
<1>1. LedgerInv => HeadNamesPrefix
  BY DEF LedgerInv
<1> QED
  BY <1>1, LedgerInvInit, LedgerInvNext, PTL DEF Safe

\* So whatever the writers do, the directory is one that reconstruct accepts, and
\* the events its trajectory owes have their room in it.
THEOREM DirectoryDecodes == Safe => [](LogDecodes /\ FinalizationAdmitted)
BY LedgerImplementsLog, SpecLogDecodes, FinalizationNeverStarves, PTL DEF ImplementsLog
=============================================================================
