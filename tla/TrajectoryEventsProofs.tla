----------------------- MODULE TrajectoryEventsProofs -----------------------
(***************************************************************************)
(* Lemmas about the operators of TrajectoryEvents: what extending a chain   *)
(* does to its folds, its obligations and its audit.                        *)
(***************************************************************************)
EXTENDS TrajectoryEvents, SequenceTheorems, FiniteSetTheorems, WellFoundedInduction, TLAPS

-----------------------------------------------------------------------------
(* Extending a chain.                                                      *)

\* What Extend, the operator append commits with, returns.
LEMMA ExtendType ==
  ASSUME NEW es \in Seq(Event), NEW in \in Input
  PROVE  /\ Stamp(es, in) \in Event
         /\ Extend(es, in) \in Seq(Event)
         /\ Len(Extend(es, in)) = Len(es) + 1
         /\ \A i \in 1..Len(es) : Extend(es, in)[i] = es[i]
         /\ Extend(es, in)[Len(es) + 1] = Stamp(es, in)
         /\ UsedBytes(es) \in Nat
         /\ UsedBytes(Extend(es, in)) = UsedBytes(es) + in.bytes
<1>1. UsedBytes(es) \in Nat
  <2>1. CASE es = <<>>
    BY <2>1 DEF UsedBytes
  <2>2. CASE es # <<>>
    <3>1. Len(es) \in 1..Len(es)
      BY <2>2, EmptySeq
    <3>2. es[Len(es)] \in Event
      BY <3>1, ElementOfSeq
    <3> QED
      BY <2>2, <3>2 DEF UsedBytes, Event
  <2> QED
    BY <2>1, <2>2
<1>2. Stamp(es, in) \in Event
  BY <1>1 DEF Stamp, Event, Input
<1>3. /\ Extend(es, in) \in Seq(Event)
      /\ Extend(es, in) # <<>>
      /\ Len(Extend(es, in)) = Len(es) + 1
      /\ \A i \in 1..Len(es) : Extend(es, in)[i] = es[i]
      /\ Extend(es, in)[Len(es) + 1] = Stamp(es, in)
  BY <1>2, AppendProperties DEF Extend
<1> QED
  BY <1>1, <1>2, <1>3 DEF UsedBytes, Stamp

\* Every prefix that ends inside a chain survives its extension.
LEMMA PrefixOfAppend ==
  ASSUME NEW es \in Seq(Event), NEW e \in Event, NEW n \in 0..Len(es)
  PROVE  SubSeq(Append(es, e), 1, n) = SubSeq(es, 1, n)
<1>1. /\ Append(es, e) \in Seq(Event)
      /\ Len(Append(es, e)) = Len(es) + 1
      /\ \A i \in 1..Len(es) : Append(es, e)[i] = es[i]
      /\ Len(es) \in Nat
  BY AppendProperties, LenProperties
<1>2. /\ SubSeq(Append(es, e), 1, n) \in Seq(Event)
      /\ Len(SubSeq(Append(es, e), 1, n)) = n
      /\ \A i \in 1..n : SubSeq(Append(es, e), 1, n)[i] = Append(es, e)[i]
  <2>1. \A i \in 1..n : Append(es, e)[i] \in Event
    BY <1>1, ElementOfSeq
  <2> QED
    BY <2>1, <1>1, SubSeqProperties
<1>3. /\ SubSeq(es, 1, n) \in Seq(Event)
      /\ Len(SubSeq(es, 1, n)) = n
      /\ \A i \in 1..n : SubSeq(es, 1, n)[i] = es[i]
  <2>1. \A i \in 1..n : es[i] \in Event
    BY <1>1, ElementOfSeq
  <2> QED
    BY <2>1, <1>1, SubSeqProperties
<1> QED
  BY <1>1, <1>2, <1>3, SeqEqual

-----------------------------------------------------------------------------
(* What an event does to the folds.                                        *)

\* Ids and Has of an extended chain.
LEMMA FoldsOfAppend ==
  ASSUME NEW es \in Seq(Event), NEW e \in Event
  PROVE  /\ Ids(Append(es, e)) = Ids(es) \cup {e.id}
         /\ \A k : Has(Append(es, e), k) <=> (Has(es, k) \/ e.kind = k)
<1>1. /\ DOMAIN Append(es, e) = 1..(Len(es) + 1)
      /\ DOMAIN es = 1..Len(es)
      /\ \A i \in 1..Len(es) : Append(es, e)[i] = es[i]
      /\ Append(es, e)[Len(es) + 1] = e
      /\ Len(es) \in Nat
  BY AppendProperties, LenProperties
<1> QED
  BY <1>1 DEF Ids, Has

\* The matters standing at some kinds are finitely many.
LEMMA StandingFinite ==
  ASSUME NEW es \in Seq(Event), NEW kinds
  PROVE  IsFiniteSet(StandingAt(es, kinds))
<1> DEFINE D == {k \in DOMAIN es : es[k].kind \in kinds /\ Standing(es, k)}
           f == [k \in D |-> Matter(es[k])]
<1>1. IsFiniteSet(D)
  <2>1. DOMAIN es = 1..Len(es) /\ Len(es) \in Nat
    BY LenProperties
  <2>2. IsFiniteSet(1..Len(es))
    BY <2>1, FS_Interval
  <2> QED
    BY <2>1, <2>2, FS_Subset
<1>2. f \in Surjection(D, StandingAt(es, kinds))
  BY DEF Surjection, StandingAt
<1> QED
  BY <1>1, <1>2, FS_Surjection

\* An event replaces whatever stood for its matter.
LEMMA StandingOfAppend ==
  ASSUME NEW es \in Seq(Event), NEW e \in Event, NEW kinds
  PROVE  StandingAt(Append(es, e), kinds) =
           (StandingAt(es, kinds) \ {Matter(e)})
           \cup (IF e.kind \in kinds THEN {Matter(e)} ELSE {})
<1> DEFINE xs == Append(es, e)
           n  == Len(es)
<1>1. /\ DOMAIN xs = 1..(n + 1)
      /\ DOMAIN es = 1..n
      /\ Len(xs) = n + 1
      /\ \A i \in 1..n : xs[i] = es[i]
      /\ xs[n + 1] = e
      /\ n \in Nat
  BY AppendProperties, LenProperties
<1> HIDE DEF xs, n
<1>2. Standing(xs, n + 1)
  BY <1>1 DEF Standing
<1>3. \A i \in 1..n : Standing(xs, i) <=> (Standing(es, i) /\ Matter(es[i]) # Matter(e))
  <2> SUFFICES ASSUME NEW i \in 1..n
               PROVE  Standing(xs, i) <=> (Standing(es, i) /\ Matter(es[i]) # Matter(e))
    OBVIOUS
  <2>1. (i + 1)..Len(xs) = ((i + 1)..n) \cup {n + 1}
    BY <1>1
  <2>2. \A j \in (i + 1)..n : xs[j] = es[j]
    BY <1>1
  <2>3. xs[i] = es[i] /\ Len(es) = n
    BY <1>1 DEF n
  <2> QED
    BY <2>1, <2>2, <2>3, <1>1 DEF Standing
<1>4. ASSUME NEW m
      PROVE  m \in StandingAt(xs, kinds) <=>
               \/ m \in StandingAt(es, kinds) /\ m # Matter(e)
               \/ m = Matter(e) /\ e.kind \in kinds
  <2>1. m \in StandingAt(xs, kinds) <=>
          \E i \in 1..(n + 1) : xs[i].kind \in kinds /\ Standing(xs, i) /\ m = Matter(xs[i])
    BY <1>1 DEF StandingAt
  <2>2. m \in StandingAt(es, kinds) <=>
          \E i \in 1..n : es[i].kind \in kinds /\ Standing(es, i) /\ m = Matter(es[i])
    BY <1>1 DEF StandingAt
  <2>3. 1..(n + 1) = (1..n) \cup {n + 1}
    BY <1>1
  <2> QED
    BY <2>1, <2>2, <2>3, <1>1, <1>2, <1>3
<1> QED
  BY <1>4 DEF xs

\* Hence the number of matters standing at some kinds moves by at most one.
LEMMA StandingCount ==
  ASSUME NEW es \in Seq(Event), NEW e \in Event, NEW kinds
  PROVE  /\ Cardinality(StandingAt(es, kinds)) \in Nat
         /\ Cardinality(StandingAt(Append(es, e), kinds)) =
              Cardinality(StandingAt(es, kinds))
              - (IF Matter(e) \in StandingAt(es, kinds) THEN 1 ELSE 0)
              + (IF e.kind \in kinds THEN 1 ELSE 0)
<1> DEFINE S == StandingAt(es, kinds)
           m == Matter(e)
<1>1. IsFiniteSet(S) /\ Cardinality(S) \in Nat
  BY StandingFinite, FS_CardinalityType
<1>2. /\ IsFiniteSet(S \ {m})
      /\ Cardinality(S \ {m}) = Cardinality(S) - (IF m \in S THEN 1 ELSE 0)
  BY <1>1, FS_RemoveElement
<1>3. /\ Cardinality((S \ {m}) \cup {m}) = Cardinality(S \ {m}) + 1
  BY <1>2, FS_AddElement
<1>4. StandingAt(Append(es, e), kinds) = (S \ {m}) \cup (IF e.kind \in kinds THEN {m} ELSE {})
  BY StandingOfAppend
<1> HIDE DEF S, m
<1>5. CASE e.kind \in kinds
  BY <1>1, <1>2, <1>3, <1>4, <1>5 DEF S, m
<1>6. CASE e.kind \notin kinds
  <2>1. StandingAt(Append(es, e), kinds) = S \ {m}
    BY <1>4, <1>6
  <2> QED
    BY <1>1, <1>2, <2>1, <1>6 DEF S, m
<1> QED
  BY <1>5, <1>6

-----------------------------------------------------------------------------
(* Obligations.                                                            *)

LEMMA ObligationsType ==
  ASSUME NEW es \in Seq(Event)
  PROVE  /\ Obligations(es) \in Nat
         /\ ~Terminated(es) => Obligations(es) >= 1
<1>1. /\ Cardinality(StandingAt(es, OwingKinds)) \in Nat
      /\ Cardinality(StandingAt(es, OwingTwiceKinds)) \in Nat
  BY StandingFinite, FS_CardinalityType
<1> QED
  BY <1>1 DEF Obligations

\* Paying an obligation lowers what is owed by at least one.
LEMMA DischargeReduces ==
  ASSUME NEW es \in Seq(Event), NEW e \in Event, ~Terminated(es), Discharges(es, e)
  PROVE  Obligations(Append(es, e)) <= Obligations(es) - 1
<1> DEFINE xs == Append(es, e)
           one == Cardinality(StandingAt(es, OwingKinds))
           two == Cardinality(StandingAt(es, OwingTwiceKinds))
<1>1. /\ one \in Nat
      /\ Cardinality(StandingAt(xs, OwingKinds)) =
           one - (IF Matter(e) \in StandingAt(es, OwingKinds) THEN 1 ELSE 0)
               + (IF e.kind \in OwingKinds THEN 1 ELSE 0)
  BY StandingCount
<1>2. /\ two \in Nat
      /\ Cardinality(StandingAt(xs, OwingTwiceKinds)) =
           two - (IF Matter(e) \in StandingAt(es, OwingTwiceKinds) THEN 1 ELSE 0)
               + (IF e.kind \in OwingTwiceKinds THEN 1 ELSE 0)
  BY StandingCount
<1>3. \A k : Has(xs, k) <=> (Has(es, k) \/ e.kind = k)
  BY FoldsOfAppend
<1>4. StandingAt(es, OwingTwiceKinds) \subseteq StandingAt(es, OwingKinds)
  BY DEF StandingAt, OwingKinds, OwingTwiceKinds
<1>5. Obligations(es) = one + two + (IF Has(es, "finalization.started") THEN 0 ELSE 1)
                        + (IF Has(es, "finalization.receipt") THEN 0 ELSE 1) + 1
  BY DEF Obligations
<1>6. CASE e.kind = "trajectory.terminal"
  <2>1. Obligations(xs) = 0
    BY <1>3, <1>6 DEF Obligations, Terminated
  <2> QED
    BY <2>1, ObligationsType
<1>7. CASE e.kind # "trajectory.terminal"
  <2>1. ~Terminated(xs)
    BY <1>3, <1>7 DEF Terminated
  <2> DEFINE fin(c)  == IF Has(c, "finalization.started") THEN 0 ELSE 1
             rec(c)  == IF Has(c, "finalization.receipt") THEN 0 ELSE 1
  <2>2. Obligations(xs) = Cardinality(StandingAt(xs, OwingKinds))
                          + Cardinality(StandingAt(xs, OwingTwiceKinds))
                          + fin(xs) + rec(xs) + 1
    BY <2>1 DEF Obligations
  <2>6. /\ fin(xs) \in 0..1 /\ fin(es) \in 0..1 /\ fin(xs) <= fin(es)
        /\ rec(xs) \in 0..1 /\ rec(es) \in 0..1 /\ rec(xs) <= rec(es)
    BY <1>3
  <2>7. Obligations(es) = one + two + fin(es) + rec(es) + 1
    BY <1>5
  <2>8. SUFFICES Obligations(xs) <= Obligations(es) - 1
    OBVIOUS
  <2>3. CASE /\ e.kind \notin OwingKinds
             /\ Matter(e) \in StandingAt(es, OwingKinds)
    <3>1. e.kind \notin OwingTwiceKinds
      BY <2>3 DEF OwingKinds, OwingTwiceKinds
    <3> HIDE DEF xs, one, two, fin, rec
    <3> QED
      BY <1>1, <1>2, <2>2, <2>3, <2>6, <2>7, <3>1
  <2>4. CASE /\ e.kind = "disposer.started"
             /\ Matter(e) \in StandingAt(es, OwingTwiceKinds)
    <3>1. /\ e.kind \in OwingKinds /\ e.kind \notin OwingTwiceKinds
          /\ Matter(e) \in StandingAt(es, OwingKinds)
      BY <1>4, <2>4 DEF OwingKinds, OwingTwiceKinds
    <3> HIDE DEF xs, one, two, fin, rec
    <3> QED
      BY <1>1, <1>2, <2>2, <2>4, <2>6, <2>7, <3>1
  <2>5. CASE /\ e.kind \in {"finalization.started", "finalization.receipt"}
             /\ ~Has(es, e.kind)
    <3>1. e.kind \notin OwingKinds /\ e.kind \notin OwingTwiceKinds
      BY <2>5 DEF OwingKinds, OwingTwiceKinds
    <3>2. fin(xs) + rec(xs) <= fin(es) + rec(es) - 1
      BY <1>3, <2>5
    <3> HIDE DEF xs, one, two, fin, rec
    <3> QED
      BY <1>1, <1>2, <2>2, <2>6, <2>7, <3>1, <3>2
  <2> QED
    BY <1>7, <2>3, <2>4, <2>5 DEF Discharges
<1> QED
  BY <1>6, <1>7

\* One full-sized control record is released by each obligation paid.
LEMMA RecordReleased ==
  ASSUME NEW before \in Nat, NEW after \in Nat, NEW size \in Nat, after <= before - 1
  PROVE  after * size <= before * size - size
<1>1. PICK d \in Nat : before = after + 1 + d
  <2>1. before - after - 1 \in Nat
    OBVIOUS
  <2> WITNESS before - after - 1 \in Nat
  <2> QED
    BY <2>1
<1>2. before * size = after * size + size + d * size
  BY <1>1
<1>3. d * size >= 0 /\ after * size \in Nat /\ d * size \in Nat
  OBVIOUS
<1> QED
  BY <1>2, <1>3

-----------------------------------------------------------------------------
(* What a verdict of "append" establishes.                                 *)

LEMMA AppendVerdict ==
  ASSUME NEW es, NEW in, NEW tip, Verdict(es, in, tip) = "append"
  PROVE  /\ in.id \notin Ids(es)
         /\ tip # NoTip => tip = Len(es)
         /\ ~Terminated(es)
         /\ WellPlaced(es, in)
         /\ ~Oversized(in)
         /\ LeavesReserve(es, in)
BY DEF Verdict, CapacityRefusal

\* A chain that decodes still decodes when an admitted event is linked to it.
LEMMA ExtendDecodes ==
  ASSUME NEW es \in Seq(Event), NEW in \in Input, NEW tip,
         Decodes(es), Verdict(es, in, tip) = "append"
  PROVE  Decodes(Extend(es, in))
<1> DEFINE e  == Stamp(es, in)
           xs == Extend(es, in)
           n  == Len(es)
<1>1. /\ e \in Event
      /\ xs \in Seq(Event)
      /\ xs = Append(es, e)
      /\ Len(xs) = n + 1
      /\ \A i \in 1..n : xs[i] = es[i]
      /\ xs[n + 1] = e
      /\ UsedBytes(es) \in Nat
  BY ExtendType DEF Extend
<1>2. /\ n \in Nat
      /\ DOMAIN es = 1..n
      /\ DOMAIN xs = 1..(n + 1)
      /\ 1..(n + 1) = (1..n) \cup {n + 1}
  BY <1>1, LenProperties
<1>3. /\ in.id \notin Ids(es)
      /\ ~Terminated(es)
      /\ WellPlaced(es, in)
      /\ LeavesReserve(es, in)
      /\ in.bytes <= MaxEventBytes
  <2>1. in.bytes \in Nat /\ MaxEventBytes \in Nat
    BY LimitsAssumption DEF Input
  <2> QED BY <2>1, AppendVerdict DEF Oversized
<1>4. \A i \in 1..(n + 1) : SubSeq(xs, 1, i - 1) = SubSeq(es, 1, i - 1)
  <2> SUFFICES ASSUME NEW i \in 1..(n + 1)
               PROVE  SubSeq(xs, 1, i - 1) = SubSeq(es, 1, i - 1)
    OBVIOUS
  <2>1. i - 1 \in 0..Len(es)
    BY <1>2
  <2> QED
    BY <2>1, <1>1, PrefixOfAppend
<1>5. SubSeq(es, 1, n) = es
  BY SubSeqFull
<1>6. Obligations(xs) \in Nat
  BY <1>1, ObligationsType
<1>7. n + 1 <= MaxEvents
  BY <1>2, <1>3, <1>6, LimitsAssumption DEF LeavesReserve
<1>8. UsedBytes(es) + in.bytes <= MaxTotalBytes
  <2>1. in.bytes \in Nat /\ MaxTotalBytes \in Nat /\ MaxControlBytes \in Nat
    BY LimitsAssumption DEF Input
  <2>2. Obligations(xs) * MaxControlBytes >= 0
    BY <1>6, <2>1
  <2>3. MaxTotalBytes - UsedBytes(es) - in.bytes >= Obligations(xs) * MaxControlBytes
    BY <1>3 DEF LeavesReserve
  <2>4. Obligations(xs) * MaxControlBytes \in Nat
    BY <1>6, <2>1
  <2> QED
    BY <1>1, <2>1, <2>2, <2>3, <2>4
<1>9. e.id = in.id /\ e.kind = in.kind /\ e.causes = in.causes /\ e.epoch = in.epoch
      /\ e.binds = in.binds /\ e.claim = in.claim /\ e.bytes = in.bytes /\ e.used = UsedBytes(es) + in.bytes
  BY DEF Stamp
<1> HIDE DEF e, xs, n
<1>10. ASSUME NEW i \in 1..n
       PROVE  /\ (xs[i].kind = "trajectory.opened") <=> (i = 1)
              /\ xs[i].kind = "trajectory.terminal" => i = Len(xs)
              /\ xs[i].kind = "finalization.receipt" => xs[i].binds = i - 1
              /\ xs[i].kind = "trajectory.recovered" =>
                   xs[i].epoch = NextEpoch(SubSeq(xs, 1, i - 1))
              /\ xs[i].causes \subseteq Ids(SubSeq(xs, 1, i - 1))
              /\ xs[i].id \notin Ids(SubSeq(xs, 1, i - 1))
              /\ xs[i].bytes <= MaxEventBytes /\ xs[i].used <= MaxTotalBytes
  <2>1. xs[i] = es[i] /\ SubSeq(xs, 1, i - 1) = SubSeq(es, 1, i - 1) /\ i \in DOMAIN es
    BY <1>1, <1>2, <1>4
  <2>2. es[i].kind # "trajectory.terminal"
    BY <1>3, <2>1 DEF Terminated, Has
  <2> QED
    BY <2>1, <2>2 DEF Decodes
<1>11. /\ (xs[n + 1].kind = "trajectory.opened") <=> (n + 1 = 1)
       /\ xs[n + 1].kind = "trajectory.terminal" => n + 1 = Len(xs)
       /\ xs[n + 1].kind = "finalization.receipt" => xs[n + 1].binds = (n + 1) - 1
       /\ xs[n + 1].kind = "trajectory.recovered"
            => xs[n + 1].epoch = NextEpoch(SubSeq(xs, 1, (n + 1) - 1))
       /\ xs[n + 1].causes \subseteq Ids(SubSeq(xs, 1, (n + 1) - 1))
       /\ xs[n + 1].id \notin Ids(SubSeq(xs, 1, (n + 1) - 1))
       /\ xs[n + 1].bytes <= MaxEventBytes /\ xs[n + 1].used <= MaxTotalBytes
  <2>1. n + 1 \in 1..(n + 1) /\ (n + 1) - 1 = n
    BY <1>2
  <2>2. SubSeq(xs, 1, (n + 1) - 1) = es
    BY <1>4, <1>5, <2>1
  <2>3. xs[n + 1] = e
    BY <1>1
  <2>4. n + 1 = 1 <=> es = <<>>
    BY <1>2, EmptySeq DEF n
  <2>5. Len(es) = n
    BY DEF n
  <2>6. /\ e.kind = "trajectory.opened" <=> n + 1 = 1
        /\ e.causes \subseteq Ids(es)
        /\ e.kind = "trajectory.recovered" => e.epoch = NextEpoch(es)
        /\ e.kind = "finalization.receipt" => e.binds = n
        /\ e.id \notin Ids(es)
        /\ e.bytes <= MaxEventBytes /\ e.used <= MaxTotalBytes
    BY <1>3, <1>8, <1>9, <2>4, <2>5 DEF WellPlaced
  <2> HIDE DEF e
  <2> QED
    BY <1>1, <2>1, <2>2, <2>3, <2>6
<1>12. ASSUME NEW i \in DOMAIN xs
       PROVE  /\ (xs[i].kind = "trajectory.opened") <=> (i = 1)
              /\ xs[i].kind = "trajectory.terminal" => i = Len(xs)
              /\ xs[i].kind = "finalization.receipt" => xs[i].binds = i - 1
              /\ xs[i].kind = "trajectory.recovered" =>
                   xs[i].epoch = NextEpoch(SubSeq(xs, 1, i - 1))
              /\ xs[i].causes \subseteq Ids(SubSeq(xs, 1, i - 1))
              /\ xs[i].id \notin Ids(SubSeq(xs, 1, i - 1))
              /\ xs[i].bytes <= MaxEventBytes /\ xs[i].used <= MaxTotalBytes
  <2>1. CASE i \in 1..n
    BY <1>10, <2>1
  <2>2. CASE i = n + 1
    BY <1>11, <2>2
  <2> QED
    BY <1>2, <2>1, <2>2
<1>13. Decodes(xs)
  BY <1>1, <1>7, <1>12 DEF Decodes
<1> QED
  BY <1>13 DEF xs

-----------------------------------------------------------------------------
(* What is owed, and the reserve for it.                                   *)

\* A nonempty set of positions has a last one.
LEMMA LastOf ==
  ASSUME NEW n \in Nat, NEW S \in SUBSET (1..n), S # {}
  PROVE  \E i \in S : \A j \in S : j <= i
<1> DEFINE T == {(i + 1)..n : i \in S}
           R == StrictSubsetOrdering(Nat)
<1>1. T # {} /\ T \subseteq FiniteSubsetsOf(Nat)
  <2>1. ASSUME NEW i \in S
        PROVE  (i + 1)..n \in FiniteSubsetsOf(Nat)
    <3>1. IsFiniteSet((i + 1)..n)
      BY FS_Interval
    <3> QED
      BY <3>1 DEF FiniteSubsetsOf
  <2> QED
    BY <2>1
<1>2. PICK X \in T : \A Y \in T : <<Y, X>> \notin R
  <2> HIDE DEF T, R
  <2> QED
    BY <1>1, WFMin, FS_StrictSubsetOrderingWellFounded DEF R
<1>3. PICK i \in S : X = (i + 1)..n
  OBVIOUS
<1>4. ASSUME NEW j \in S, i < j
      PROVE  FALSE
  <2> DEFINE Y == (j + 1)..n
  <2>1. Y \subseteq X /\ Y # X
    <3>1. j \in X /\ j \notin Y
      BY <1>3, <1>4
    <3> QED
      BY <1>3, <1>4, <3>1
  <2>2. <<Y, X>> \in R
    BY <1>3, <2>1 DEF StrictSubsetOrdering
  <2> QED
    BY <1>2, <2>2
<1> QED
  BY <1>4

\* The epoch a recovery must claim is a number.
LEMMA NextEpochType ==
  ASSUME NEW es \in Seq(Event)
  PROVE  NextEpoch(es) \in Nat
<1> DEFINE marks == {i \in DOMAIN es : es[i].kind \in EpochKinds}
           last  == CHOOSE i \in marks : \A j \in marks : j <= i
<1>1. CASE marks = {}
  BY <1>1 DEF NextEpoch
<1>2. CASE marks # {}
  <2>1. DOMAIN es = 1..Len(es) /\ Len(es) \in Nat
    BY LenProperties
  <2>2. \E i \in marks : \A j \in marks : j <= i
    BY <1>2, <2>1, LastOf
  <2>3. last \in marks
    BY <2>2
  <2>4. es[last] \in Event
    BY <2>1, <2>3, ElementOfSeq
  <2>5. NextEpoch(es) = es[last].epoch + 1
    BY <1>2 DEF NextEpoch
  <2> QED
    BY <2>4, <2>5 DEF Event
<1> QED
  BY <1>1, <1>2

\* What each kind of event does to the scopes, operations and disposers owed.
LEMMA OwedOfAppend ==
  ASSUME NEW es \in Seq(Event), NEW e \in Event
  PROVE  /\ OpenScopes(Append(es, e)) =
              IF e.kind = "scope.opened" THEN OpenScopes(es) \cup {e.subject}
              ELSE IF e.kind = "scope.closed" THEN OpenScopes(es) \ {e.subject}
              ELSE OpenScopes(es)
         /\ ActiveOperations(Append(es, e)) =
              IF e.kind = "operation.started" THEN ActiveOperations(es) \cup {e.subject}
              ELSE IF e.kind = "operation.settled" THEN ActiveOperations(es) \ {e.subject}
              ELSE ActiveOperations(es)
         /\ PendingDisposers(Append(es, e)) =
              IF e.kind \in {"disposer.registered", "disposer.started"}
                THEN PendingDisposers(es) \cup {e.subject}
              ELSE IF e.kind = "disposer.settled" THEN PendingDisposers(es) \ {e.subject}
              ELSE PendingDisposers(es)
<1> DEFINE xs == Append(es, e)
           old == StandingAt(es, OwingKinds)
           new == StandingAt(xs, OwingKinds)
<1>1. ASSUME NEW m
      PROVE  m \in new <=> \/ m \in old /\ m # Matter(e)
                           \/ m = Matter(e) /\ e.kind \in OwingKinds
  BY StandingOfAppend
<1>2. e.kind \in Kinds /\ e.subject \in Subjects
  BY DEF Event
<1>3. /\ OpenScopes(xs) = {s \in Subjects : <<"scope", s>> \in new}
      /\ OpenScopes(es) = {s \in Subjects : <<"scope", s>> \in old}
      /\ ActiveOperations(xs) = {s \in Subjects : <<"operation", s>> \in new}
      /\ ActiveOperations(es) = {s \in Subjects : <<"operation", s>> \in old}
      /\ PendingDisposers(xs) = {s \in Subjects : <<"disposer", s>> \in new}
      /\ PendingDisposers(es) = {s \in Subjects : <<"disposer", s>> \in old}
  BY DEF OpenScopes, ActiveOperations, PendingDisposers
<1>4. /\ Matter(e) = <<Family(e.kind), e.subject>>
      /\ e.kind \in ScopeKinds => Family(e.kind) = "scope"
      /\ e.kind \in OperationKinds => Family(e.kind) = "operation"
      /\ e.kind \in DisposerKinds => Family(e.kind) = "disposer"
      /\ e.kind \notin ScopeKinds => Family(e.kind) # "scope"
      /\ e.kind \notin OperationKinds => Family(e.kind) # "operation"
      /\ e.kind \notin DisposerKinds => Family(e.kind) # "disposer"
  BY <1>2 DEF Matter, Family, Kinds, ScopeKinds, OperationKinds, DisposerKinds, CancelKinds, RunKinds
<1> HIDE DEF xs, old, new
<1>5. /\ e.kind \in ScopeKinds <=> e.kind \in {"scope.opened", "scope.closed"}
      /\ e.kind \in OperationKinds <=> e.kind \in {"operation.started", "operation.settled"}
      /\ e.kind \in DisposerKinds <=>
           e.kind \in {"disposer.registered", "disposer.started", "disposer.settled"}
      /\ e.kind \in {"scope.opened", "operation.started", "disposer.registered",
                     "disposer.started"} => e.kind \in OwingKinds
      /\ e.kind \in {"scope.closed", "operation.settled", "disposer.settled"}
           => e.kind \notin OwingKinds
  BY DEF ScopeKinds, OperationKinds, DisposerKinds, OwingKinds
<1>6. \A s \in Subjects : <<"scope", s>> \in new <=>
         \/ <<"scope", s>> \in old /\ ~(e.kind \in ScopeKinds /\ s = e.subject)
         \/ e.kind = "scope.opened" /\ s = e.subject
  BY <1>1, <1>4, <1>5
<1>7. \A s \in Subjects : <<"operation", s>> \in new <=>
         \/ <<"operation", s>> \in old /\ ~(e.kind \in OperationKinds /\ s = e.subject)
         \/ e.kind = "operation.started" /\ s = e.subject
  BY <1>1, <1>4, <1>5
<1>8. \A s \in Subjects : <<"disposer", s>> \in new <=>
         \/ <<"disposer", s>> \in old /\ ~(e.kind \in DisposerKinds /\ s = e.subject)
         \/ e.kind \in {"disposer.registered", "disposer.started"} /\ s = e.subject
  BY <1>1, <1>4, <1>5
<1>9. OpenScopes(xs) = IF e.kind = "scope.opened" THEN OpenScopes(es) \cup {e.subject}
              ELSE IF e.kind = "scope.closed" THEN OpenScopes(es) \ {e.subject}
              ELSE OpenScopes(es)
  BY <1>2, <1>3, <1>5, <1>6
<1>10. ActiveOperations(xs) =
              IF e.kind = "operation.started" THEN ActiveOperations(es) \cup {e.subject}
              ELSE IF e.kind = "operation.settled" THEN ActiveOperations(es) \ {e.subject}
              ELSE ActiveOperations(es)
  BY <1>2, <1>3, <1>5, <1>7
<1>11. PendingDisposers(xs) =
              IF e.kind \in {"disposer.registered", "disposer.started"}
                THEN PendingDisposers(es) \cup {e.subject}
              ELSE IF e.kind = "disposer.settled" THEN PendingDisposers(es) \ {e.subject}
              ELSE PendingDisposers(es)
  BY <1>2, <1>3, <1>5, <1>8
<1> QED
  BY <1>9, <1>10, <1>11 DEF xs

\* What is owed stands in the ledger as an event of that kind.
LEMMA OpenIsOpened ==
  ASSUME NEW es, NEW s \in OpenScopes(es)
  PROVE  \E i \in DOMAIN es : es[i].kind = "scope.opened" /\ es[i].subject = s
<1>1. PICK i \in DOMAIN es : es[i].kind \in OwingKinds /\ Matter(es[i]) = <<"scope", s>>
  BY DEF OpenScopes, StandingAt
<1>2. Family(es[i].kind) = "scope" /\ es[i].subject = s
  BY <1>1 DEF Matter
<1>3. es[i].kind = "scope.opened"
  BY <1>1, <1>2 DEF OwingKinds, Family, ScopeKinds, OperationKinds, DisposerKinds, CancelKinds
<1> QED
  BY <1>2, <1>3

LEMMA ActiveIsStarted ==
  ASSUME NEW es, NEW o \in ActiveOperations(es)
  PROVE  \E i \in DOMAIN es : es[i].kind = "operation.started" /\ es[i].subject = o
<1>1. PICK i \in DOMAIN es : es[i].kind \in OwingKinds /\ Matter(es[i]) = <<"operation", o>>
  BY DEF ActiveOperations, StandingAt
<1>2. Family(es[i].kind) = "operation" /\ es[i].subject = o
  BY <1>1 DEF Matter
<1>3. es[i].kind = "operation.started"
  BY <1>1, <1>2 DEF OwingKinds, Family, ScopeKinds, OperationKinds, DisposerKinds, CancelKinds
<1> QED
  BY <1>2, <1>3

\* The reserve of a chain that has not ended: LeavesReserve establishes it, and
\* an event that pays an obligation is never refused because of it.
Reserve(es) ==
  ~Terminated(es) => /\ MaxEvents - Len(es) >= Obligations(es)
                     /\ MaxTotalBytes - UsedBytes(es) >= Obligations(es) * MaxControlBytes

LEMMA AppendKeepsReserve ==
  ASSUME NEW es \in Seq(Event), NEW in \in Input, LeavesReserve(es, in)
  PROVE  /\ Reserve(Extend(es, in))
         /\ Len(Extend(es, in)) <= MaxEvents
<1>1. /\ Len(Extend(es, in)) = Len(es) + 1
      /\ UsedBytes(Extend(es, in)) = UsedBytes(es) + in.bytes
      /\ Len(es) \in Nat /\ UsedBytes(es) \in Nat
      /\ in.bytes \in Nat
      /\ Extend(es, in) \in Seq(Event)
  BY ExtendType, LenProperties DEF Input
<1>2. MaxEvents \in Nat /\ MaxTotalBytes \in Nat
  BY LimitsAssumption
<1>3. Obligations(Extend(es, in)) \in Nat
  BY <1>1, ObligationsType
<1>4. MaxEvents - Len(es) - 1 >= Obligations(Extend(es, in))
  BY DEF LeavesReserve
<1>5. MaxTotalBytes - UsedBytes(es) - in.bytes >= Obligations(Extend(es, in)) * MaxControlBytes
  BY DEF LeavesReserve
<1> HIDE DEF Extend
<1> QED
  BY <1>1, <1>2, <1>3, <1>4, <1>5 DEF Reserve

LEMMA DischargeFits ==
  ASSUME NEW es \in Seq(Event), NEW in \in Input, ~Terminated(es), Reserve(es),
         Discharges(es, in), in.bytes <= MaxControlBytes
  PROVE  LeavesReserve(es, in)
<1> DEFINE e == Stamp(es, in)
<1>1. /\ e \in Event /\ Extend(es, in) = Append(es, e)
      /\ e.kind = in.kind /\ e.subject = in.subject
      /\ Len(es) \in Nat /\ UsedBytes(es) \in Nat
      /\ in.bytes \in Nat
  BY ExtendType, LenProperties DEF Input, Extend, Stamp
<1>2. Discharges(es, e)
  BY <1>1 DEF Discharges, Matter
<1> HIDE DEF e
<1> DEFINE before == Obligations(es)
           after  == Obligations(Append(es, e))
<1>3. after <= before - 1
  BY <1>1, <1>2, DischargeReduces
<1>4. before \in Nat /\ after \in Nat
  <2>1. Append(es, e) \in Seq(Event)
    BY <1>1, AppendProperties
  <2> QED
    BY <2>1, ObligationsType
<1>5. MaxEvents \in Nat /\ MaxTotalBytes \in Nat /\ MaxControlBytes \in Nat
  BY LimitsAssumption
<1> HIDE DEF before, after
<1>6. after * MaxControlBytes <= before * MaxControlBytes - MaxControlBytes
  BY <1>3, <1>4, <1>5, RecordReleased
<1>7. MaxEvents - Len(es) >= before /\ MaxTotalBytes - UsedBytes(es) >= before * MaxControlBytes
  BY DEF Reserve, before
<1>8. before * MaxControlBytes \in Int /\ after * MaxControlBytes \in Int
  BY <1>4, <1>5
<1>9. MaxTotalBytes - UsedBytes(es) - in.bytes >= after * MaxControlBytes
  BY <1>1, <1>5, <1>6, <1>7, <1>8
<1>10. MaxEvents - Len(es) - 1 >= after
  BY <1>1, <1>3, <1>4, <1>5, <1>7
<1> QED
  BY <1>1, <1>9, <1>10 DEF LeavesReserve, after
=============================================================================
