---------------------------- MODULE LagMonitoring ----------------------------
(***************************************************************************)
(* Who watches the consumer lag: Prometheus scrapes the lag exporter and   *)
(* evaluates two alerts of monitoring/alerts.yml, KafkaConsumerLagHigh and *)
(* TargetDown; in CI, scripts/check_slo.py asks Prometheus for the SLIs of *)
(* monitoring/slo.yml one by one and turns the answers into an exit code.  *)
(***************************************************************************)
EXTENDS LagExporter, Sequences

CONSTANTS
    Threshold,    \* of KafkaConsumerLagHigh and of the SLO pipeline_freshness
    For,          \* evaluations that "for: 1m" spans
    Slos,         \* the SLOs in the order of slo.yml: [name, objective, direction]
    OtherAnswers  \* what Prometheus may answer to the queries of the other SLOs

NoData == -1      \* the query has no result
NaN == -2
NoCode == -1

ASSUME MonitoringAssumption ==
    /\ Threshold \in Nat /\ For \in Nat
    /\ OtherAnswers \subseteq Nat \union {NoData, NaN}

VARIABLES
    scraped,      \* scraped[p]: the newest sample of consumer_lag, or NoSeries
    up,           \* the sample of up for the exporter; 0 also before the first scrape,
                  \* when the series is missing and TargetDown has no result
    lagActive,    \* evaluations for which the lag alert has been active
    downActive,   \* evaluations for which TargetDown has been active
    checking,     \* where check_slo.py is
    measured,     \* the values it has measured so far
    exit          \* its exit code, NoCode while it runs

promVars == <<scraped, up, lagActive, downActive>>
checkVars == <<checking, measured, exit>>
vars == <<lagVars, promVars, checkVars>>

Init ==
    /\ LagInit
    /\ scraped = [p \in Partitions |-> NoSeries]
    /\ up = FALSE
    /\ lagActive = 0 /\ downActive = 0
    /\ checking = "idle" /\ measured = << >> /\ exit = NoCode

Exporter == LagNext /\ UNCHANGED <<promVars, checkVars>>

-----------------------------------------------------------------------------
(* Prometheus: a scrape or an evaluation of a rule group every 5 seconds.  *)

Scrape ==
    /\ ~stopping
    /\ scraped' = gauge
    /\ up' = TRUE
    /\ UNCHANGED <<lagVars, lagActive, downActive, checkVars>>

\* After a scrape that failed, the series of the target are stale: they are gone.
ScrapeFails ==
    /\ \/ stopping /\ UNCHANGED troubles
       \/ troubles < MaxTroubles /\ troubles' = troubles + 1
    /\ scraped' = [p \in Partitions |-> NoSeries]
    /\ up' = FALSE
    /\ UNCHANGED <<kafkaVars, exporterVars, stopping, lagActive, downActive, checkVars>>

\* max(consumer_lag); without a series there is no result.
MaxLag == Max({scraped[p] : p \in Partitions})

\* An alert is pending while its expression has a result, and fires after "for".
Active(count, holds) == IF holds THEN Min({count + 1, For + 1}) ELSE 0
Fires(count) == count = For + 1

\* mutant: the rule compares the partition that lags least
LeastLagIsHigh == Min({scraped[p] : p \in Partitions}) > Threshold

LagIsHigh == MaxLag # NoData /\ MaxLag > Threshold

EvaluatePipeline ==
    /\ lagActive' = Active(lagActive, LagIsHigh)
    /\ UNCHANGED <<lagVars, scraped, up, downActive, checkVars>>

EvaluateServices ==
    /\ downActive' = Active(downActive, ~up)
    /\ UNCHANGED <<lagVars, scraped, up, lagActive, checkVars>>

-----------------------------------------------------------------------------
(* check_slo.py.                                                           *)

\* No such file: 2. A file without slos raises ValueError: 1, as any exception.
NoSlos ==
    /\ checking = "idle"
    /\ exit' \in {1, 2}
    /\ checking' = "ended"
    /\ UNCHANGED <<lagVars, promVars, measured>>

LoadSlos ==
    /\ checking = "idle"
    /\ checking' = "evaluating"
    /\ UNCHANGED <<lagVars, promVars, measured, exit>>

Slo == Slos[Len(measured) + 1]
Evaluating == checking = "evaluating" /\ Len(measured) < Len(Slos)

Answers(slo) == IF slo.name = "pipeline_freshness" THEN {MaxLag} ELSE OtherAnswers

\* query_prometheus: the first result, 0.0 if there is none.
Measure(answer) == IF answer = NoData THEN 0 ELSE answer

Satisfied(slo, value) ==
    /\ value # NaN
    /\ slo.direction = "less_or_equal" => value <= slo.objective
    /\ slo.direction = "greater_or_equal" => value >= slo.objective

Evaluate ==
    /\ Evaluating
    /\ \E answer \in Answers(Slo) : measured' = Append(measured, Measure(answer))
    /\ UNCHANGED <<lagVars, promVars, checking, exit>>

\* mutant: an SLO that cannot be evaluated is reported and left out
EvaluationSkipped ==
    /\ Evaluating
    /\ measured' = Append(measured, Slo.objective)
    /\ UNCHANGED <<lagVars, promVars, checking, exit>>

\* Prometheus does not answer, or not with status success; or the direction of
\* the SLO is unknown.
EvaluationFails ==
    /\ Evaluating
    /\ exit' = 1
    /\ checking' = "ended"
    /\ UNCHANGED <<lagVars, promVars, measured>>

Breached == {n \in 1 .. Len(Slos) : ~Satisfied(Slos[n], measured[n])}

Report ==
    /\ checking = "evaluating" /\ Len(measured) = Len(Slos)
    /\ exit' = IF Breached = {} THEN 0 ELSE 1
    /\ checking' = "ended"
    /\ UNCHANGED <<lagVars, promVars, measured>>

-----------------------------------------------------------------------------
Check == Evaluate \/ EvaluationFails \/ Report

Next ==
    \/ Exporter
    \/ Scrape \/ ScrapeFails \/ EvaluatePipeline \/ EvaluateServices
    \/ NoSlos \/ LoadSlos \/ Check

Spec == Init /\ [][Next]_vars

\* The exporter's calls, scrapes and queries have time-outs; rules are evaluated
\* every five seconds.
FairSpec ==
    /\ Spec
    /\ WF_vars(Thread /\ UNCHANGED <<promVars, checkVars>>)
    /\ WF_vars(Scrape) /\ WF_vars(stopping /\ ScrapeFails)
    /\ WF_vars(EvaluatePipeline) /\ WF_vars(EvaluateServices)
    /\ WF_vars(Check)

-----------------------------------------------------------------------------
(* Properties.                                                             *)

\* The variables keep their types.
TypeOK ==
    /\ LagTypeOK
    /\ scraped \in [Partitions -> 0 .. MaxEnd \union {NoSeries}]
    /\ up \in BOOLEAN
    /\ lagActive \in 0 .. For + 1 /\ downActive \in 0 .. For + 1
    /\ checking \in {"idle", "evaluating", "ended"}
    /\ Len(measured) <= Len(Slos)
    /\ exit \in {NoCode, 0, 1, 2}

\* Once things are at rest, the lag is judged rightly whichever partition lags and
\* whatever failed before, or the exporter is reported down: never neither.
AlertsSettle ==
    <>[](IF stopping THEN Fires(downActive) /\ ~Fires(lagActive)
                     ELSE Fires(lagActive) <=> \E p \in Partitions : Lag(p) > Threshold)

\* A lag that is reported above the objective from the start of a check to its end
\* turns the build red.
BreachTurnsRed ==
    (checking = "evaluating" /\ measured = << >> /\ [](MaxLag > Threshold)) ~> exit = 1

\* What check_slo.py says of its exit code 0, for pipeline_freshness: the lag
\* was known to be at most the objective when the SLO was evaluated.
GreenMeansFresh ==
    [][ Evaluating /\ Slo.name = "pipeline_freshness" /\ measured' # measured
        /\ Satisfied(Slo, measured'[Len(measured) + 1])
            => MaxLag # NoData ]_vars
=============================================================================
