---------------------------- MODULE ServiceLevels ----------------------------
(***************************************************************************)
(* What Prometheus makes of the counters: the SLI wms_availability of      *)
(* monitoring/slo.yml and two alerts of monitoring/alerts.yml, over the    *)
(* pages of the WMS (HttpMetrics) and the samples of the consumer's        *)
(* events_processed_total.  A window of five minutes holds every scrape of *)
(* a behaviour.                                                            *)
(***************************************************************************)
EXTENDS HttpMetrics, Sequences

CONSTANTS
    Floor,         \* requests of a window that make one per second
    MaxProcessed   \* bound on the events that the consumer processes

ASSUME LevelsAssumption == Floor \in Nat \ {0} /\ MaxProcessed \in Nat

VARIABLES
    processed,   \* events_processed_total, of the one type of event
    flow         \* its samples

vars == <<httpVars, processed, flow>>

Init == HttpInit /\ processed = 0 /\ flow = << >>

Wms == HttpNext /\ UNCHANGED <<processed, flow>>

\* result.status is PROCESSED.
Process ==
    /\ processed < MaxProcessed
    /\ processed' = processed + 1
    /\ UNCHANGED <<httpVars, flow>>

ScrapeConsumer ==
    /\ Len(flow) < MaxScrapes
    /\ flow' = Append(flow, processed)
    /\ UNCHANGED <<httpVars, processed>>

Next == Wms \/ Process \/ ScrapeConsumer

Spec == Init /\ [][Next]_vars

-----------------------------------------------------------------------------
(* PromQL. A labelled counter has no series before its first increment,    *)
(* the rate of a series takes two samples of it, and a sum without terms   *)
(* has no result. A rate is given by its increase over the window.         *)

NoData == -1

\* A series is exported from its first increment on. (labels() makes it and inc()
\* counts: a page collected between the two would show it with 0.)
Present(samples) == {n \in DOMAIN samples : samples[n] > 0}
HasRate(samples) == \E m, n \in Present(samples) : m < n
Increase(samples) == samples[Max(Present(samples))] - samples[Min(Present(samples))]

Scraped == Cardinality({s \in Scrapes : pc[s] = "done"})
Samples(k) == [s \in 1 .. Scraped |-> page[s].requests[k]]
SumRate(S) ==
    LET rated == {k \in S : HasRate(Samples(k))}
    IN  IF rated = {} THEN NoData ELSE SumFunction([k \in rated |-> Increase(Samples(k))])

OfStatus(statuses) == {k \in Series : k[2] \in statuses}

\* wms_availability: a ratio, the default where it has no result, or 0 / 0.
Good == SumRate(OfStatus({"2xx", "4xx"}))
Served == SumRate(Series)
Availability == CASE Good = NoData \/ Served = NoData -> "vector(1)"
                  [] Served = 0 -> "NaN"
                  [] OTHER -> "ratio"

\* The condition that HighHttpErrorRate needs for five minutes.
Bad == SumRate(OfStatus({"4xx", "5xx"}))
HighHttpErrorRate == Bad # NoData /\ 20 * Bad > Max({Served, Floor})

\* The condition that NoEventsProcessed needs for two minutes: both sums have a
\* result.
Flat == HasRate(flow) /\ Increase(flow) = 0
Publishing == SumRate({<<"events", "2xx">>}) > 0
NoEventsProcessed == Flat /\ Publishing

-----------------------------------------------------------------------------
(* Properties.                                                             *)

\* From the third scrape on, availability is a ratio, however idle the service and
\* however many of its requests fail: its traffic is at least the scrapes.
AvailabilityMeasured == Scraped > 2 => Availability = "ratio"

\* What slo.yml says of a service without traffic: its availability is 1.
NoTrafficIsPerfect == Availability # "NaN"

\* What the README says of the error rate: client errors are not errors.
ClientErrorsDoNotAlert ==
    HighHttpErrorRate => \E r \in All : pc[r] = "done" /\ Status(r) = "5xx"

\* What the alert says of itself: no events are processed while the producer is
\* active. Here the consumer has been scraped and has never processed one.
StallAlarms == Publishing /\ Len(flow) > 1 /\ processed = 0 => NoEventsProcessed
=============================================================================
