------------------------- MODULE LagMonitoringProofs -------------------------
(***************************************************************************)
(* Theorems about LagExporter and LagMonitoring, for any partitions, any   *)
(* length of the logs and any number of failures: the exporter's types,    *)
(* and that its gauge never understates. What holds of the exporter alone  *)
(* holds beside its watchers, for any SLOs, thresholds and answers of      *)
(* Prometheus.                                                             *)
(***************************************************************************)
EXTENDS LagMonitoring, WellFoundedInduction, TLAPS

LEMMA MaxWithZero == \A n \in Int : Max({n, 0}) = IF n >= 0 THEN n ELSE 0
<1> SUFFICES ASSUME NEW n \in Int
             PROVE  Max({n, 0}) = IF n >= 0 THEN n ELSE 0
  OBVIOUS
<1>1. \E x \in {n, 0} : \A y \in {n, 0} : x >= y
  OBVIOUS
<1>2. Max({n, 0}) \in {n, 0} /\ Max({n, 0}) >= n /\ Max({n, 0}) >= 0
  BY <1>1 DEF Max
<1> QED
  BY <1>2

\* A set of partitions that is not empty has a smallest one.
LEMMA MinOfPartitions ==
    ASSUME NEW S \in SUBSET Nat, S # {}
    PROVE  Min(S) \in S
<1> DEFINE less == OpToRel(<, Nat)
<1>1. \E x \in S : \A y \in S : ~(<<y, x>> \in less)
  BY NatLessThanWellFounded, WFMin
<1>2. ASSUME NEW x \in Nat, NEW y \in Nat, y < x
      PROVE  <<y, x>> \in less
  <2>1. <<y, x>> \in Nat \X Nat /\ <<y, x>>[1] < <<y, x>>[2]
    BY <1>2
  <2> QED
    BY <2>1 DEF OpToRel
<1> HIDE DEF less
<1>3. PICK x \in S : \A y \in S : ~(<<y, x>> \in less)
  BY <1>1
<1>4. ASSUME NEW y \in S
      PROVE  x <= y
  <2>1. x \in Nat /\ y \in Nat /\ ~(<<y, x>> \in less)
    BY <1>3
  <2>2. ~(y < x)
    BY <1>2, <2>1, Zenon
  <2> QED
    BY <2>1, <2>2
<1> QED
  BY <1>4 DEF Min

IInv == LagTypeOK /\ SweepBehind /\ NeverUnderstated

LEMMA InHandIsLeft ==
    ASSUME LagTypeOK, pc \in {"watermark", "set"}
    PROVE  InHand \in left /\ InHand \in Partitions
<1>1. left \in SUBSET Nat /\ left # {}
  BY ExporterAssumption DEF LagTypeOK
<1> QED
  BY <1>1, MinOfPartitions DEF InHand, LagTypeOK

LEMMA ConsumedInLog ==
    ASSUME LagTypeOK, NEW p \in Partitions
    PROVE  /\ Consumed(p) \in 0 .. MaxEnd /\ Consumed(p) <= end[p]
           /\ stored[p] >= 0 => Consumed(p) = stored[p]
           /\ stored[p] < 0 => Consumed(p) = 0
           /\ ReadOffset(p) = Consumed(p)
<1>1. stored[p] \in Int /\ end[p] \in 0 .. MaxEnd /\ stored[p] <= end[p]
      /\ MaxEnd \in Nat /\ stored[p] \in 0 .. MaxEnd \union {NoOffset}
  BY ExporterAssumption DEF LagTypeOK, NoOffset
<1>2. Max({stored[p], 0}) = IF stored[p] >= 0 THEN stored[p] ELSE 0
  BY <1>1, MaxWithZero, Zenon
<1> QED
  BY <1>1, <1>2 DEF Consumed, ReadOffset, NoOffset

LEMMA InitHolds == LagInit => IInv
<1> SUFFICES ASSUME LagInit PROVE IInv
  OBVIOUS
<1>1. MaxEnd \in Nat /\ MaxTroubles \in Nat /\ 0 \in 0 .. MaxEnd /\ 0 \in 0 .. MaxTroubles
  BY ExporterAssumption
<1>2. \A p \in Partitions : stored[p] <= end[p] /\ stored[p] = NoOffset
  BY <1>1 DEF LagInit, NoOffset
<1>3. LagTypeOK
  <2>1. end \in [Partitions -> 0 .. MaxEnd]
    BY <1>1 DEF LagInit
  <2>2. /\ stored \in [Partitions -> 0 .. MaxEnd \union {NoOffset}]
        /\ gauge \in [Partitions -> 0 .. MaxEnd \union {NoSeries}]
    BY DEF LagInit
  <2>3. read \in [Partitions -> 0 .. MaxEnd] /\ seen \in [Partitions -> 0 .. MaxEnd]
    BY <1>1 DEF LagInit
  <2> QED
    BY <1>1, <1>2, <2>1, <2>2, <2>3 DEF LagInit, LagTypeOK
<1>4. SweepBehind /\ NeverUnderstated
  BY DEF LagInit, SweepBehind, NeverUnderstated, NoSeries
<1> QED
  BY <1>3, <1>4 DEF IInv

-----------------------------------------------------------------------------
(* One lemma per kind of step.                                             *)

\* Steps of the thread between two sweeps, its end, and a sweep given up.
Moves ==
    /\ pc # "killed" /\ (pc # "set" \/ pc' = "killed")
    /\ pc' \in {"wait", "list", "committed", "closed", "killed"}
    /\ stopping' \in BOOLEAN /\ troubles' \in 0 .. MaxTroubles
    /\ UNCHANGED <<end, stored, read, left, high, gauge, seen>>

LEMMA MovesKeep ==
    ASSUME IInv, Moves
    PROVE  IInv'
<1>1. LagTypeOK'
  BY DEF IInv, LagTypeOK, Moves
<1>2. SweepBehind'
  BY DEF Moves, SweepBehind
<1>3. \A p \in Partitions : Consumed(p)' = Consumed(p)
  BY DEF Moves, Consumed
<1>4. NeverUnderstated'
  <2> SUFFICES ASSUME NEW p \in Partitions, gauge[p] # NoSeries, pc' # "killed"
               PROVE  seen[p] - Consumed(p) <= gauge[p]
    BY <1>3 DEF NeverUnderstated, Moves
  <2>1. pc # "set" /\ (pc = "killed" => FALSE)
    BY DEF Moves
  <2> QED
    BY <2>1 DEF IInv, NeverUnderstated
<1> QED
  BY <1>1, <1>2, <1>4 DEF IInv

LEMMA SameThread ==
    ASSUME IInv, LagTypeOK', UNCHANGED exporterVars,
           \A p \in Partitions : Consumed(p) <= Consumed(p)'
    PROVE  IInv'
<1>1. /\ pc' = pc /\ read' = read /\ left' = left /\ high' = high
      /\ gauge' = gauge /\ seen' = seen /\ InHand' = InHand
  BY DEF exporterVars, InHand
<1>2. /\ \A p \in Partitions : Consumed(p) \in Int /\ Consumed(p)' \in Int
      /\ \A p \in Partitions : read[p] \in Int /\ seen[p] \in Int /\ gauge[p] \in Int
      /\ left \subseteq Partitions
  <2>1. \A p \in Partitions : Consumed(p) \in Int
    BY ConsumedInLog DEF IInv
  <2>2. \A p \in Partitions : stored'[p] \in Int
    BY ExporterAssumption DEF LagTypeOK, NoOffset
  <2>3. \A p \in Partitions : Max({stored'[p], 0}) = IF stored'[p] >= 0 THEN stored'[p] ELSE 0
    BY <2>2, MaxWithZero, Zenon
  <2>4. \A p \in Partitions : Max({stored'[p], 0}) \in Int
    BY <2>2, <2>3
  <2>5. \A p \in Partitions : Consumed(p)' \in Int
    BY <2>4, Zenon DEF Consumed
  <2> QED
    BY <2>1, <2>5, ExporterAssumption DEF IInv, LagTypeOK, NoSeries
<1>3. SweepBehind'
  BY <1>1, <1>2 DEF IInv, SweepBehind
<1>4. NeverUnderstated'
  <2> SUFFICES ASSUME NEW p \in Partitions,
                      gauge[p] # NoSeries, pc # "killed", ~(pc = "set" /\ p = InHand)
               PROVE  seen[p] - Consumed(p)' <= gauge[p]
    BY <1>1 DEF NeverUnderstated
  <2>1. seen[p] - Consumed(p) <= gauge[p]
    BY DEF IInv, NeverUnderstated
  <2> QED
    BY <1>2, <2>1
<1> QED
  BY <1>3, <1>4 DEF IInv

LEMMA PublishKeeps ==
    ASSUME IInv, NEW p \in Partitions, Publish(p)
    PROVE  IInv'
<1>1. LagTypeOK'
  BY ExporterAssumption DEF IInv, LagTypeOK, Publish, exporterVars, NoOffset
<1>2. \A q \in Partitions : Consumed(q) \in Int
  BY ConsumedInLog DEF IInv
<1>3. \A q \in Partitions : Consumed(q)' = Consumed(q)
  BY DEF Publish, Consumed
<1> QED
  BY <1>1, <1>2, <1>3, SameThread DEF Publish

LEMMA CommitKeeps ==
    ASSUME IInv, NEW p \in Partitions, Commit(p)
    PROVE  IInv'
<1>1. PICK o \in 1 .. end[p] : o > stored[p] /\ stored' = [stored EXCEPT ![p] = o]
  BY DEF Commit
<1>2. /\ end \in [Partitions -> 0 .. MaxEnd] /\ MaxEnd \in Nat
      /\ stored \in [Partitions -> 0 .. MaxEnd \union {NoOffset}]
      /\ o \in 1 .. MaxEnd
  BY ExporterAssumption DEF IInv, LagTypeOK
<1>3. LagTypeOK'
  BY <1>1, <1>2 DEF IInv, LagTypeOK, Commit, exporterVars, NoOffset
<1>4. \A q \in Partitions : stored[q] \in Int /\ stored'[q] \in Int /\ stored[q] <= stored'[q]
  BY <1>1, <1>2 DEF NoOffset
<1>5. \A q \in Partitions :
         /\ Max({stored[q], 0}) = IF stored[q] >= 0 THEN stored[q] ELSE 0
         /\ Max({stored'[q], 0}) = IF stored'[q] >= 0 THEN stored'[q] ELSE 0
  BY <1>4, MaxWithZero, Zenon
<1>6. \A q \in Partitions : Consumed(q) <= Consumed(q)'
  BY <1>4, <1>5 DEF Consumed
<1> QED
  BY <1>3, <1>6, SameThread DEF Commit

LEMMA ReadKeeps ==
    ASSUME IInv, pc = "committed", pc' = "watermark", left' = Partitions,
           read' \in [Partitions -> Int],
           \A p \in Partitions : read'[p] \in {0, ReadOffset(p)},
           troubles' \in 0 .. MaxTroubles,
           UNCHANGED <<end, stored, high, gauge, seen, stopping>>
    PROVE  IInv'
<1>1. \A p \in Partitions : /\ Consumed(p) \in 0 .. MaxEnd /\ ReadOffset(p) = Consumed(p)
                             /\ Consumed(p)' = Consumed(p)
  BY ConsumedInLog DEF IInv, Consumed
<1>2. \A p \in Partitions : read'[p] \in 0 .. MaxEnd /\ read'[p] <= Consumed(p)
  BY <1>1, ExporterAssumption
<1>3. LagTypeOK'
  BY <1>2, ExporterAssumption DEF IInv, LagTypeOK
<1>4. SweepBehind'
  BY <1>1, <1>2 DEF SweepBehind
<1>5. NeverUnderstated'
  BY <1>1 DEF IInv, NeverUnderstated
<1> QED
  BY <1>3, <1>4, <1>5 DEF IInv

LEMMA ReadWatermarkKeeps ==
    ASSUME IInv, ReadWatermark
    PROVE  IInv'
<1>1. InHand \in left /\ InHand \in Partitions
  BY InHandIsLeft DEF IInv, ReadWatermark
<1>2. /\ pc = "watermark" /\ pc' = "set" /\ high' = end[InHand]
      /\ seen' = [seen EXCEPT ![InHand] = end[InHand]]
      /\ UNCHANGED <<end, stored, read, left, gauge, stopping, troubles>>
  BY DEF ReadWatermark, Watermark, kafkaVars
<1>3. InHand' = InHand /\ \A p \in Partitions : Consumed(p)' = Consumed(p)
  BY <1>2 DEF InHand, Consumed
<1>4. LagTypeOK'
  BY <1>1, <1>2 DEF IInv, LagTypeOK
<1>5. /\ seen'[InHand] = end[InHand]
      /\ \A p \in Partitions : p # InHand => seen'[p] = seen[p]
  BY <1>1, <1>2 DEF IInv, LagTypeOK
<1>6. SweepBehind'
  <2>1. \A p \in left : p \in Partitions /\ read[p] <= Consumed(p)
    BY <1>2 DEF IInv, LagTypeOK, SweepBehind
  <2> QED
    BY <1>2, <1>3, <1>5, <2>1 DEF SweepBehind
<1>7. NeverUnderstated'
  BY <1>2, <1>3, <1>5 DEF IInv, NeverUnderstated
<1> QED
  BY <1>4, <1>6, <1>7 DEF IInv

LEMMA SetLagKeeps ==
    ASSUME IInv, SetLag
    PROVE  IInv'
<1>1. InHand \in left /\ InHand \in Partitions
  BY InHandIsLeft DEF IInv, SetLag
<1>2. /\ pc = "set" /\ pc' \in {"wait", "watermark"} /\ (pc' = "watermark" => left' # {})
      /\ gauge' = [gauge EXCEPT ![InHand] = SweepLag]
      /\ left' = left \ {InHand}
      /\ UNCHANGED <<end, stored, read, high, seen, stopping, troubles>>
  BY DEF SetLag, SetsGauge, kafkaVars
<1>3. \A p \in Partitions : Consumed(p)' = Consumed(p) /\ Consumed(p) \in 0 .. MaxEnd
  BY <1>2, ConsumedInLog DEF IInv, Consumed
<1>4. /\ high \in 0 .. MaxEnd /\ read[InHand] \in 0 .. MaxEnd /\ MaxEnd \in Nat
      /\ high = seen[InHand] /\ read[InHand] <= Consumed(InHand)
  BY <1>1, <1>2, ExporterAssumption DEF IInv, LagTypeOK, SweepBehind
<1>5. SweepLag \in 0 .. MaxEnd /\ SweepLag >= high - read[InHand]
  <2>1. high - read[InHand] \in Int /\ high - read[InHand] <= MaxEnd
    BY <1>4
  <2>2. SweepLag = IF high - read[InHand] >= 0 THEN high - read[InHand] ELSE 0
    BY <2>1, MaxWithZero, Zenon DEF SweepLag
  <2> QED
    BY <1>4, <2>1, <2>2
<1>6. LagTypeOK'
  BY <1>1, <1>2, <1>5 DEF IInv, LagTypeOK
<1>7. SweepBehind'
  <2>1. \A p \in left' : p \in Partitions /\ read[p] <= Consumed(p)
    BY <1>2 DEF IInv, LagTypeOK, SweepBehind
  <2> QED
    BY <1>2, <1>3, <2>1 DEF SweepBehind
<1>8. /\ gauge'[InHand] = SweepLag
      /\ \A p \in Partitions : p # InHand => gauge'[p] = gauge[p]
  BY <1>1, <1>2 DEF IInv, LagTypeOK
<1>9. NeverUnderstated'
  <2> SUFFICES ASSUME NEW p \in Partitions, gauge'[p] # NoSeries
               PROVE  seen[p] - Consumed(p) <= gauge'[p]
    BY <1>2, <1>3 DEF NeverUnderstated
  <2>1. CASE p = InHand
    BY <1>1, <1>3, <1>4, <1>5, <1>8, <2>1
  <2>2. CASE p # InHand
    BY <1>2, <1>8, <2>2 DEF IInv, NeverUnderstated
  <2> QED
    BY <2>1, <2>2
<1> QED
  BY <1>6, <1>7, <1>9 DEF IInv

LEMMA StepKeeps ==
    ASSUME IInv, [LagNext]_lagVars
    PROVE  IInv'
<1>1. CASE UNCHANGED lagVars
  BY <1>1 DEF IInv, LagTypeOK, SweepBehind, NeverUnderstated, Consumed, InHand,
              lagVars, kafkaVars, exporterVars
<1>2. CASE Begin \/ ListTopics \/ Abandon \/ Close \/ JoinTimesOut
  <2>1. Moves
    BY <1>2, ExporterAssumption
       DEF IInv, LagTypeOK, Moves, Begin, GoesOn, ListTopics, Abandon, Close, JoinTimesOut,
           kafkaVars
  <2> QED
    BY <2>1, MovesKeep
<1>3. CASE Stop
  <2>1. LagTypeOK' /\ UNCHANGED exporterVars
    BY <1>3 DEF IInv, LagTypeOK, Stop, kafkaVars, exporterVars
  <2>2. \A p \in Partitions : Consumed(p)' = Consumed(p) /\ Consumed(p) \in Int
    BY <1>3, ConsumedInLog DEF IInv, Consumed, Stop, kafkaVars
  <2> QED
    BY <2>1, <2>2, SameThread
<1>4. CASE ReadCommitted
  BY <1>4, ConsumedInLog, ReadKeeps DEF ReadCommitted, IInv, LagTypeOK, kafkaVars
<1>5. ASSUME NEW p \in Partitions, ReadInPart(p)
      PROVE  IInv'
  BY <1>5, ConsumedInLog, ReadKeeps, ExporterAssumption
     DEF ReadInPart, IInv, LagTypeOK, kafkaVars
<1> QED
  BY <1>1, <1>2, <1>3, <1>4, <1>5, PublishKeeps, CommitKeeps, ReadWatermarkKeeps,
     SetLagKeeps DEF LagNext, Thread

LEMMA Invariance == LagSpec => []IInv
<1>1. IInv /\ [LagNext]_lagVars => IInv'
  BY StepKeeps
<1> QED
  BY <1>1, InitHolds, PTL DEF LagSpec

\* The variables of the exporter keep their types; its gauges stay within the log.
THEOREM TypeCorrect == LagSpec => []LagTypeOK
<1>1. IInv => LagTypeOK
  BY DEF IInv
<1> QED
  BY <1>1, Invariance, PTL

\* Reading the offsets first and the watermarks after them keeps the exported lag
\* from ever understating the backlog, whatever is published, committed or fails.
THEOREM LagNeverUnderstated == LagSpec => []NeverUnderstated
<1>1. IInv => NeverUnderstated
  BY DEF IInv
<1> QED
  BY <1>1, Invariance, PTL

-----------------------------------------------------------------------------
(* The exporter beside its watchers.                                       *)

\* The watchers leave the exporter alone; a scrape that fails uses up a trouble.
LEMMA ExporterStep ==
    ASSUME IInv, [Next]_vars
    PROVE  IInv'
<1>1. CASE UNCHANGED lagVars
  <2>1. [LagNext]_lagVars
    BY <1>1
  <2> QED
    BY <2>1, StepKeeps
<1>2. CASE Exporter
  <2>1. [LagNext]_lagVars
    BY <1>2 DEF Exporter
  <2> QED
    BY <2>1, StepKeeps
<1>3. CASE ScrapeFails
  <2>1. UNCHANGED <<kafkaVars, exporterVars, stopping>>
    BY <1>3 DEF ScrapeFails
  <2>2. troubles' \in 0 .. MaxTroubles
    BY <1>3, ExporterAssumption DEF ScrapeFails, IInv, LagTypeOK
  <2>3. UNCHANGED <<end, stored, pc, read, left, high, gauge, seen, stopping>>
    BY <2>1 DEF kafkaVars, exporterVars
  <2>4. LagTypeOK'
    BY <2>2, <2>3 DEF IInv, LagTypeOK
  <2>5. InHand' = InHand /\ \A p \in Partitions : Consumed(p)' = Consumed(p)
    BY <2>3 DEF InHand, Consumed
  <2>6. SweepBehind'
    BY <2>3, <2>5 DEF IInv, SweepBehind, LagTypeOK
  <2>7. NeverUnderstated'
    BY <2>3, <2>5 DEF IInv, NeverUnderstated
  <2> QED
    BY <2>4, <2>6, <2>7 DEF IInv
<1>4. CASE \/ Scrape \/ EvaluatePipeline \/ EvaluateServices
           \/ NoSlos \/ LoadSlos \/ Check
  <2>1. UNCHANGED lagVars
    BY <1>4 DEF Scrape, EvaluatePipeline, EvaluateServices, NoSlos, LoadSlos, Check,
                Evaluate, EvaluationFails, Report
  <2> QED
    BY <1>1, <2>1
<1> QED
  BY <1>1, <1>2, <1>3, <1>4 DEF Next, vars

\* The exporter starts beside its watchers as it starts alone.
LEMMA InitialState == Init => IInv
BY InitHolds DEF Init

\* Neither scrapes nor their failures, alerts or checks make the exported lag
\* understate the backlog.
THEOREM WatchedLagNeverUnderstated == Spec => []NeverUnderstated
<1>1. IInv => NeverUnderstated
  BY DEF IInv
<1> QED
  BY <1>1, InitialState, ExporterStep, PTL DEF Spec
=============================================================================
