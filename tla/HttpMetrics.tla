----------------------------- MODULE HttpMetrics -----------------------------
(***************************************************************************)
(* app/http_metrics.py in the WMS: the middleware counts a request in the  *)
(* event loop once its response is there, in three steps that only worker  *)
(* threads interleave; GET /metrics, in such a thread, collects the        *)
(* counters one after the other, and is itself a request that is counted.  *)
(***************************************************************************)
EXTENDS Integers, FiniteSets, FiniteSetsExt, Functions

CONSTANTS
    Requests,    \* requests to POST /events
    MaxScrapes   \* how often Prometheus asks for GET /metrics

Scrapes == 1 .. MaxScrapes

ASSUME MetricsAssumption ==
    IsFiniteSet(Requests) /\ MaxScrapes \in Nat /\ Requests \cap Scrapes = {}

VARIABLES
    pc,         \* pc[r]: where request r is
    outcome,    \* outcome[r]: a class of status codes, or how r ended without one
    requests,   \* http_requests_total, by endpoint and class of status
    errors,     \* http_request_errors_total
    durations,  \* http_request_duration_seconds_count
    page        \* page[s]: what scrape s has collected

httpVars == <<pc, outcome, requests, errors, durations, page>>

All == Requests \union Scrapes
Endpoint(r) == IF r \in Scrapes THEN "metrics" ELSE "events"

\* How a handler ends: a response, an exception, or the cancellation of its task.
Statuses == {"2xx", "4xx", "5xx"}
Outcomes == Statuses \union {"raised", "cancelled"}
Series == {<<"metrics", "2xx">>} \union ({"events"} \X Statuses)

\* status_code is 500 until a response says otherwise.
Status(r) == IF outcome[r] \in Statuses THEN outcome[r] ELSE "5xx"

NotRead == -1
BlankPage == [requests |-> [k \in Series |-> NotRead], errors |-> NotRead, durations |-> NotRead]
Total(counter) == SumFunction(counter)

\* install_http_metrics counts an error "_init".
HttpInit ==
    /\ pc = [r \in All |-> "new"]
    /\ outcome = [r \in All |-> "2xx"]
    /\ requests = [k \in Series |-> 0]
    /\ errors = 1
    /\ durations = 0
    /\ page = [s \in Scrapes |-> BlankPage]

-----------------------------------------------------------------------------
(* Handlers. The registry collects the metrics in the order in which the   *)
(* module creates them, and the series of one in any order.                *)

\* A thread of the pool takes the handler. Prometheus scrapes again when it has
\* the last answer, which is sent once dispatch is done.
Begin(r) ==
    /\ pc[r] = "new"
    /\ \A s \in Scrapes : r \in Scrapes /\ s < r => pc[s] = "done"
    /\ pc' = [pc EXCEPT ![r] = "handler"]
    /\ UNCHANGED <<outcome, requests, errors, durations, page>>

Ends(r, o) ==
    /\ outcome' = [outcome EXCEPT ![r] = o]
    /\ pc' = [pc EXCEPT ![r] = "ended"]

Handle(r) ==
    /\ pc[r] = "handler"
    /\ \E o \in Outcomes : Ends(r, o)
    /\ UNCHANGED <<requests, errors, durations, page>>

CollectRequests(s, k) ==
    /\ pc[s] = "handler"
    /\ page[s].requests[k] = NotRead
    /\ page' = [page EXCEPT ![s].requests[k] = requests[k]]
    /\ UNCHANGED <<pc, outcome, requests, errors, durations>>

CollectErrors(s) ==
    /\ pc[s] = "handler"
    /\ NotRead \notin Range(page[s].requests)
    /\ page[s].errors = NotRead
    /\ page' = [page EXCEPT ![s].errors = errors]
    /\ UNCHANGED <<pc, outcome, requests, errors, durations>>

CollectDurations(s) ==
    /\ pc[s] = "handler"
    /\ page[s].errors # NotRead
    /\ page' = [page EXCEPT ![s].durations = durations]
    /\ Ends(s, "2xx")
    /\ UNCHANGED <<requests, errors, durations>>

Scrape(s) ==
    \/ \E k \in Series : CollectRequests(s, k)
    \/ CollectErrors(s)
    \/ CollectDurations(s)

-----------------------------------------------------------------------------
(* The finally block of dispatch. The event loop is in one at a time.      *)

LoopFree == \A r \in All : pc[r] \notin {"count", "error"}

\* mutant: the latency of the requests that got a response
ObserveAnswered(r) ==
    /\ pc[r] = "ended"
    /\ LoopFree
    /\ durations' = durations + (IF outcome[r] \in Statuses THEN 1 ELSE 0)
    /\ pc' = [pc EXCEPT ![r] = "count"]
    /\ UNCHANGED <<outcome, requests, errors, page>>

Observe(r) ==
    /\ pc[r] = "ended"
    /\ LoopFree
    /\ durations' = durations + 1
    /\ pc' = [pc EXCEPT ![r] = "count"]
    /\ UNCHANGED <<outcome, requests, errors, page>>

\* mutant: Prometheus' own requests are left out
CountEvents(r) ==
    /\ pc[r] = "count"
    /\ requests' = IF r \in Scrapes THEN requests
                   ELSE [requests EXCEPT ![<<Endpoint(r), Status(r)>>] = @ + 1]
    /\ pc' = [pc EXCEPT ![r] = "error"]
    /\ UNCHANGED <<outcome, errors, durations, page>>

Count(r) ==
    /\ pc[r] = "count"
    /\ requests' = [requests EXCEPT ![<<Endpoint(r), Status(r)>>] = @ + 1]
    /\ pc' = [pc EXCEPT ![r] = "error"]
    /\ UNCHANGED <<outcome, errors, durations, page>>

\* mutant: a cancelled request has neither an exception nor a response
OnlyAnswered(r) == outcome[r] \in {"raised", "5xx"}

\* error_type is set, or the status is 500 or more.
IsError(r) == outcome[r] = "raised" \/ Status(r) = "5xx"

CountError(r) ==
    /\ pc[r] = "error"
    /\ errors' = errors + (IF IsError(r) THEN 1 ELSE 0)
    /\ pc' = [pc EXCEPT ![r] = "done"]
    /\ UNCHANGED <<outcome, requests, durations, page>>

Dispatch(r) == Begin(r) \/ Observe(r) \/ Count(r) \/ CountError(r)

-----------------------------------------------------------------------------
HttpNext ==
    \/ \E r \in All : Dispatch(r)
    \/ \E r \in Requests : Handle(r)
    \/ \E s \in Scrapes : Scrape(s)

HttpSpec == HttpInit /\ [][HttpNext]_httpVars

-----------------------------------------------------------------------------
(* Properties.                                                             *)

Failed(counter) == counter[<<"events", "5xx">>]
Collected(s) == pc[s] \in {"ended", "count", "error", "done"}

\* The variables keep their types.
HttpTypeOK ==
    /\ pc \in [All -> {"new", "handler", "ended", "count", "error", "done"}]
    /\ outcome \in [All -> Outcomes]
    /\ requests \in [Series -> Nat]
    /\ errors \in Nat \ {0} /\ durations \in Nat
    /\ \A s \in Scrapes :
          /\ page[s].requests \in [Series -> Nat \union {NotRead}]
          /\ Collected(s) => /\ page[s].requests \in [Series -> Nat]
                             /\ page[s].errors \in Nat /\ page[s].durations \in Nat

\* When no request is half counted the three metrics tell the same story: as many
\* durations as requests, an error for every 5xx and for nothing else.
MetricsAgree ==
    LoopFree => durations = Total(requests) /\ errors - 1 = Failed(requests)

\* A page may mix the moments at which its series were read, but it shows every
\* request it counts as a duration too, and every 5xx but one as an error (the
\* "_init" one makes up for it).
PagesConsistent ==
    \A s \in Scrapes : Collected(s) =>
        /\ page[s].durations >= Total(page[s].requests)
        /\ page[s].errors >= Failed(page[s].requests)

=============================================================================
