----------------------------- MODULE LagExporter -----------------------------
(***************************************************************************)
(* The lag exporter (consumer_service/lag_exporter.py): a thread that      *)
(* every five seconds asks Kafka for the group's committed offsets, then,  *)
(* partition by partition, for the end of the log, and sets the gauge      *)
(* consumer_lag. Messages and commits arrive between any two of its calls. *)
(***************************************************************************)
EXTENDS Integers, FiniteSets, FiniteSetsExt

CONSTANTS
    Partitions,   \* partitions of the topic warehouse-events, by number
    MaxEnd,       \* bound: messages published to each partition
    MaxTroubles   \* bound: calls of the exporter that fail or time out

ASSUME ExporterAssumption ==
    /\ Partitions \subseteq Nat /\ IsFiniteSet(Partitions) /\ Partitions # {}
    /\ MaxEnd \in Nat /\ MaxTroubles \in Nat

VARIABLES
    end,        \* end[p]: high watermark of the partition
    stored,     \* stored[p]: offset the group has committed, NoOffset if none
    pc,         \* where the thread is
    read,       \* read[p]: committed offset as this sweep has read it
    left,       \* partitions this sweep has not exported yet
    high,       \* the watermark in hand
    gauge,      \* gauge[p]: the value of consumer_lag, NoSeries before the first
    seen,       \* seen[p]: end[p] when its watermark was last asked for (history)
    stopping,   \* the stopping event; the HTTP server is gone by then
    troubles    \* failed calls so far

kafkaVars == <<end, stored>>
exporterVars == <<pc, read, left, high, gauge, seen>>
lagVars == <<kafkaVars, exporterVars, stopping, troubles>>

NoOffset == -1
NoSeries == -1

Consumed(p) == Max({stored[p], 0})
Lag(p) == end[p] - Consumed(p)

LagInit ==
    /\ end \in [Partitions -> {0, MaxEnd}]
    /\ stored = [p \in Partitions |-> NoOffset]
    /\ pc = "wait"
    /\ read = [p \in Partitions |-> 0]
    /\ left = {}
    /\ high = 0
    /\ gauge = [p \in Partitions |-> NoSeries]
    /\ seen = [p \in Partitions |-> 0]
    /\ stopping = FALSE
    /\ troubles = 0

-----------------------------------------------------------------------------
(* The topic and the group. Committed offsets only rise (DeliveryContract,*)
(* which ConsumerRunner implements).                                      *)

Publish(p) ==
    /\ end[p] < MaxEnd
    /\ end' = [end EXCEPT ![p] = @ + 1]
    /\ UNCHANGED <<stored, exporterVars, stopping, troubles>>

Commit(p) ==
    /\ \E o \in 1 .. end[p] : o > stored[p] /\ stored' = [stored EXCEPT ![p] = o]
    /\ UNCHANGED <<end, exporterVars, stopping, troubles>>

-----------------------------------------------------------------------------
(* run and update_lag.                                                     *)

AlwaysGoesOn == pc = "wait"   \* mutant: stopping is not tested

GoesOn == pc = "wait" /\ ~stopping

Begin ==
    /\ GoesOn
    /\ pc' = "list"
    /\ UNCHANGED <<kafkaVars, read, left, high, gauge, seen, stopping, troubles>>

ListTopics ==
    /\ pc = "list"
    /\ pc' = "committed"
    /\ UNCHANGED <<kafkaVars, read, left, high, gauge, seen, stopping, troubles>>

\* What was never committed counts from the beginning of the log.
ReadOffset(p) == IF stored[p] >= 0 THEN stored[p] ELSE 0

ReadCommitted ==
    /\ pc = "committed"
    /\ read' = [p \in Partitions |-> ReadOffset(p)]
    /\ left' = Partitions
    /\ pc' = "watermark"
    /\ UNCHANGED <<kafkaVars, high, gauge, seen, stopping, troubles>>

\* An error of one partition leaves its offset negative, as if none was committed.
ReadInPart(p) ==
    /\ pc = "committed"
    /\ troubles < MaxTroubles
    /\ troubles' = troubles + 1
    /\ read' = [q \in Partitions |-> IF q = p THEN 0 ELSE ReadOffset(q)]
    /\ left' = Partitions
    /\ pc' = "watermark"
    /\ UNCHANGED <<kafkaVars, high, gauge, seen, stopping>>

InHand == Min(left)

CachedWatermark == seen[InHand]   \* mutant: cached=True, as of the sweep before

Watermark == end[InHand]

ReadWatermark ==
    /\ pc = "watermark"
    /\ high' = Watermark
    /\ seen' = [seen EXCEPT ![InHand] = end[InHand]]
    /\ pc' = "set"
    /\ UNCHANGED <<kafkaVars, read, left, gauge, stopping, troubles>>

SweepLag == Max({high - read[InHand], 0})

\* mutant: a partition without a committed offset is skipped
SkipsUncommitted ==
    gauge' = IF stored[InHand] = NoOffset THEN gauge ELSE [gauge EXCEPT ![InHand] = SweepLag]

SetsGauge == gauge' = [gauge EXCEPT ![InHand] = SweepLag]

SetLag ==
    /\ pc = "set"
    /\ SetsGauge
    /\ left' = left \ {InHand}
    /\ pc' = IF left' = {} THEN "wait" ELSE "watermark"
    /\ UNCHANGED <<kafkaVars, read, high, seen, stopping, troubles>>

\* No metadata of the topic, or any exception: the sweep ends where it is, and
\* the gauges it did not reach keep their values.
Abandon ==
    /\ pc \in {"list", "committed", "watermark"}
    /\ troubles < MaxTroubles
    /\ troubles' = troubles + 1
    /\ pc' = "wait"
    /\ UNCHANGED <<kafkaVars, read, left, high, gauge, seen, stopping>>

Close ==
    /\ pc = "wait" /\ stopping
    /\ pc' = "closed"
    /\ UNCHANGED <<kafkaVars, read, left, high, gauge, seen, stopping, troubles>>

\* uvicorn.run returns on a signal; the thread is then told to stop, and dies
\* with the process if it has not ended after five seconds.
Stop ==
    /\ ~stopping
    /\ stopping' = TRUE
    /\ UNCHANGED <<kafkaVars, exporterVars, troubles>>

JoinTimesOut ==
    /\ stopping /\ pc \notin {"closed", "killed"}
    /\ pc' = "killed"
    /\ UNCHANGED <<kafkaVars, read, left, high, gauge, seen, stopping, troubles>>

-----------------------------------------------------------------------------
Thread ==
    \/ Begin \/ ListTopics \/ ReadCommitted \/ ReadWatermark \/ SetLag
    \/ Abandon \/ Close \/ \E p \in Partitions : ReadInPart(p)

LagNext ==
    \/ Thread \/ Stop \/ JoinTimesOut
    \/ \E p \in Partitions : Publish(p) \/ Commit(p)

LagSpec == LagInit /\ [][LagNext]_lagVars

\* Every call to Kafka has a time-out of five seconds, and so has the pause.
FairThread == WF_lagVars(Thread)
FairLagSpec == LagSpec /\ FairThread

-----------------------------------------------------------------------------
(* Properties.                                                             *)

\* The variables keep their types; a gauge is never negative.
LagTypeOK ==
    /\ end \in [Partitions -> 0 .. MaxEnd]
    /\ stored \in [Partitions -> 0 .. MaxEnd \union {NoOffset}]
    /\ \A p \in Partitions : stored[p] <= end[p]
    /\ pc \in {"wait", "list", "committed", "watermark", "set", "closed", "killed"}
    /\ read \in [Partitions -> 0 .. MaxEnd]
    /\ left \subseteq Partitions /\ (pc \in {"watermark", "set"} => left # {})
    /\ high \in 0 .. MaxEnd
    /\ gauge \in [Partitions -> 0 .. MaxEnd \union {NoSeries}]
    /\ seen \in [Partitions -> 0 .. MaxEnd]
    /\ stopping \in BOOLEAN
    /\ troubles \in 0 .. MaxTroubles

\* Although offset and watermark are read at different moments, the gauge never
\* understates: of the messages that were there when the watermark was asked for,
\* no more are unconsumed, then or at any time later, than the gauge says.
NeverUnderstated ==
    \A p \in Partitions :
        gauge[p] # NoSeries /\ pc # "killed" /\ ~(pc = "set" /\ p = InHand) =>
            seen[p] - Consumed(p) <= gauge[p]

\* What makes it inductive: the offsets of a sweep are not ahead of the group's,
\* and the watermark in hand is what was seen.
SweepBehind ==
    /\ pc \in {"watermark", "set"} => \A p \in left : read[p] <= Consumed(p)
    /\ pc = "set" => high = seen[InHand]

\* When publishing and consuming have come to rest, the gauges come to show the
\* true lag, also of partitions nobody has ever committed, and after any failures.
LagConverges == <>[](stopping \/ \A p \in Partitions : gauge[p] = Lag(p))

\* A signal ends the thread, wherever it is in a sweep.
StopEnds == stopping ~> pc \in {"closed", "killed"}
=============================================================================
