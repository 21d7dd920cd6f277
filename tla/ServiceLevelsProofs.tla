------------------------- MODULE ServiceLevelsProofs -------------------------
(***************************************************************************)
(* Theorems about HttpMetrics and ServiceLevels, for any requests and any  *)
(* number of scrapes: the metrics agree, every page is consistent, and the *)
(* availability is a ratio from the third scrape on.                       *)
(***************************************************************************)
EXTENDS ServiceLevels, Sums

Counts == Nat \union {NotRead}
Pages == [requests : [Series -> Counts], errors : Counts, durations : Counts]

\* HttpTypeOK, with the type of the pages.
HttpTypes ==
    /\ pc \in [All -> {"new", "handler", "ended", "count", "error", "done"}]
    /\ outcome \in [All -> Outcomes]
    /\ requests \in [Series -> Nat]
    /\ errors \in Nat \ {0} /\ durations \in Nat
    /\ page \in [Scrapes -> Pages]

\* The event loop is in dispatch for one request at a time, and a scrape succeeds.
OneCounted ==
    \A q, r \in All : pc[q] \in {"count", "error"} /\ pc[r] \in {"count", "error"} => q = r
ScrapesSucceed == \A s \in Scrapes : outcome[s] = "2xx"

\* What the request that is half counted still owes to the counters.
Owed(r) == IF IsError(r) THEN 1 ELSE 0
Balance ==
    /\ LoopFree => durations = Total(requests) /\ errors - 1 = Failed(requests)
    /\ \A r \in All :
          /\ pc[r] = "count" => /\ durations = Total(requests) + 1
                                /\ errors - 1 = Failed(requests)
          /\ pc[r] = "error" => /\ durations = Total(requests)
                                /\ errors - 1 + Owed(r) = Failed(requests)

CountInv == HttpTypes /\ OneCounted /\ ScrapesSucceed /\ Balance

\* There are four series.
LEMMA SeriesFinite ==
    /\ IsFiniteSet(Series)
    /\ <<"metrics", "2xx">> \in Series
    /\ \A x \in Statuses : <<"events", x>> \in Series
<1> DEFINE W(x) == <<"events", x>>
           E == (({W("2xx")} \union {W("4xx")}) \union {W("5xx")}) \union {<<"metrics", "2xx">>}
<1>1. IsFiniteSet(E)
  <2> HIDE DEF W
  <2> QED
    BY FS_Singleton, FS_Union
<1>2. \A x \in Statuses : W(x) \in E
  BY DEF Statuses
<1>3. \A k \in Series : k = <<"metrics", "2xx">> \/ \E x \in Statuses : k = W(x)
  BY DEF Series
<1>4. Series \subseteq E
  <2>1. <<"metrics", "2xx">> \in E
    OBVIOUS
  <2> HIDE DEF W, E
  <2> QED
    BY <1>2, <1>3, <2>1
<1>5. IsFiniteSet(Series)
  <2> HIDE DEF W, E
  <2> QED
    BY <1>1, <1>4, FS_Subset
<1> QED
  BY <1>5 DEF Series

\* The series of a request.
LEMMA SeriesOf ==
    ASSUME ScrapesSucceed, HttpTypes, NEW r \in All
    PROVE  /\ Status(r) \in Statuses
           /\ <<Endpoint(r), Status(r)>> \in Series
           /\ r \in Scrapes => <<Endpoint(r), Status(r)>> = <<"metrics", "2xx">>
           /\ r \notin Scrapes => <<Endpoint(r), Status(r)>> = <<"events", Status(r)>>
           /\ IsError(r) <=> <<Endpoint(r), Status(r)>> = <<"events", "5xx">>
<1>1. Status(r) \in Statuses /\ (IsError(r) <=> Status(r) = "5xx")
  BY DEF Status, Statuses, IsError, Outcomes, HttpTypes
<1>2. CASE r \in Scrapes
  <2>1. Status(r) = "2xx" /\ Endpoint(r) = "metrics"
    BY <1>2 DEF Status, Statuses, ScrapesSucceed, Endpoint
  <2> QED
    BY <1>1, <1>2, <2>1, SeriesFinite
<1>3. CASE r \notin Scrapes
  <2>1. Endpoint(r) = "events"
    BY <1>3 DEF Endpoint
  <2> QED
    BY <1>1, <1>3, <2>1, SeriesFinite
<1> QED
  BY <1>2, <1>3

\* The "_init" error is no error of a request.
LEMMA CountInitHolds == HttpInit => CountInv
<1> SUFFICES ASSUME HttpInit PROVE CountInv
  OBVIOUS
<1>1. HttpTypes
  BY DEF HttpInit, HttpTypes, Outcomes, Statuses, BlankPage, Pages, Counts, NotRead
<1>2. OneCounted /\ ScrapesSucceed
  BY DEF HttpInit, OneCounted, ScrapesSucceed, All
<1>3. Total(requests) = 0
  BY SeriesFinite, SumZero DEF HttpInit, Total
<1>4. Failed(requests) = 0
  BY SeriesFinite DEF HttpInit, Failed, Statuses
<1>5. Balance
  BY <1>3, <1>4 DEF HttpInit, Balance
<1> QED
  BY <1>1, <1>2, <1>5 DEF CountInv

\* A step that neither counts nor lets the event loop in or out.
LEMMA Uncounted ==
    ASSUME CountInv, HttpTypes', ScrapesSucceed',
           UNCHANGED <<requests, errors, durations>>,
           \A r \in All : /\ pc'[r] = "count" <=> pc[r] = "count"
                          /\ pc'[r] = "error" <=> pc[r] = "error"
                          /\ pc[r] = "error" => outcome'[r] = outcome[r]
    PROVE  CountInv'
<1>1. LoopFree' <=> LoopFree
  BY DEF LoopFree
<1>2. OneCounted'
  BY DEF CountInv, OneCounted
<1>3. \A r \in All : pc[r] = "error" => Owed(r)' = Owed(r)
  BY DEF Owed, IsError, Status
<1>4. Total(requests)' = Total(requests) /\ Failed(requests)' = Failed(requests)
  OBVIOUS
<1>5. Balance'
  BY <1>1, <1>3, <1>4 DEF CountInv, Balance
<1> QED
  BY <1>2, <1>5 DEF CountInv

\* A duration is observed first: it is one more than the requests counted.
LEMMA ObserveKeeps ==
    ASSUME CountInv, NEW r \in All, Observe(r)
    PROVE  CountInv'
<1> USE DEF CountInv
<1>1. HttpTypes'
  BY DEF HttpTypes, Observe
<1>2. ScrapesSucceed'
  BY DEF ScrapesSucceed, Observe
<1>3. /\ pc'[r] = "count"
      /\ \A q \in All : q # r => pc'[q] = pc[q] /\ pc[q] \notin {"count", "error"}
  BY DEF Observe, LoopFree, HttpTypes
<1>4. OneCounted'
  BY <1>3 DEF OneCounted
<1>5. durations = Total(requests) /\ errors - 1 = Failed(requests)
  BY DEF Observe, Balance
<1>6. Total(requests)' = Total(requests) /\ Failed(requests)' = Failed(requests)
  BY DEF Observe
<1>7. durations' = Total(requests)' + 1 /\ errors' - 1 = Failed(requests)'
  BY <1>5, <1>6 DEF Observe
<1>8. ~LoopFree'
  BY <1>3 DEF LoopFree
<1>9. Balance'
  BY <1>3, <1>7, <1>8 DEF Balance
<1> QED
  BY <1>1, <1>2, <1>4, <1>9

\* Then the request is counted, once, in the series of its status.
LEMMA CountKeeps ==
    ASSUME CountInv, NEW r \in All, Count(r)
    PROVE  CountInv'
<1> USE DEF CountInv
<1> DEFINE k == <<Endpoint(r), Status(r)>>
<1>1. k \in Series /\ (IsError(r) <=> k = <<"events", "5xx">>)
  BY SeriesOf
<1>2. requests' = [requests EXCEPT ![k] = @ + 1]
  BY DEF Count
<1> HIDE DEF k
<1>3. requests' \in [Series -> Nat]
  BY <1>1, <1>2 DEF HttpTypes
<1>4. HttpTypes'
  BY <1>3 DEF HttpTypes, Count
<1>5. ScrapesSucceed'
  BY DEF ScrapesSucceed, Count
<1>6. /\ pc'[r] = "error"
      /\ \A q \in All : q # r => pc'[q] = pc[q] /\ pc[q] \notin {"count", "error"}
  BY DEF Count, HttpTypes, OneCounted
<1>7. OneCounted' /\ ~LoopFree'
  BY <1>6 DEF OneCounted, LoopFree
<1>8. Total(requests') = Total(requests) + 1
  <2>1. requests \in [Series -> Int] /\ requests' \in [Series -> Int]
    BY <1>3 DEF HttpTypes
  <2>2. \A j \in Series : j # k => requests'[j] = requests[j]
    BY <1>1, <1>2 DEF HttpTypes
  <2>3. requests'[k] = requests[k] + 1
    BY <1>1, <1>2 DEF HttpTypes
  <2>4. SumFunction(requests') = SumFunction(requests) - requests[k] + requests'[k]
    BY <1>1, <2>1, <2>2, SeriesFinite, SumPoint
  <2>5. SumFunction(requests) \in Int /\ requests[k] \in Int
    BY <1>1, <2>1, SeriesFinite, SumInt
  <2> QED
    BY <2>3, <2>4, <2>5 DEF Total
<1>9. Failed(requests') = Failed(requests) + Owed(r)
  BY <1>1, <1>2, SeriesFinite DEF Failed, Owed, HttpTypes, Statuses
<1>10. durations = Total(requests) + 1 /\ errors - 1 = Failed(requests)
  BY DEF Count, Balance
<1>11. Owed(r)' = Owed(r)
  BY DEF Owed, IsError, Status, Count
<1>12. durations' = Total(requests)' /\ errors' - 1 + Owed(r)' = Failed(requests)'
  <2>1. Owed(r) \in Nat /\ Failed(requests) \in Nat /\ Total(requests) \in Nat
    BY SeriesFinite, SumNat DEF Owed, Failed, Total, HttpTypes, Statuses
  <2>2. durations' = durations /\ errors' = errors
    BY DEF Count
  <2> QED
    BY <1>8, <1>9, <1>10, <1>11, <2>1, <2>2 DEF HttpTypes
<1>13. Balance'
  BY <1>6, <1>7, <1>12 DEF Balance
<1> QED
  BY <1>4, <1>5, <1>7, <1>13

\* Its error, if it is one, squares the account.
LEMMA CountErrorKeeps ==
    ASSUME CountInv, NEW r \in All, CountError(r)
    PROVE  CountInv'
<1> USE DEF CountInv
<1>1. HttpTypes'
  BY DEF HttpTypes, CountError
<1>2. ScrapesSucceed'
  BY DEF ScrapesSucceed, CountError
<1>3. /\ pc'[r] = "done"
      /\ \A q \in All : q # r => pc'[q] = pc[q] /\ pc[q] \notin {"count", "error"}
  BY DEF CountError, HttpTypes, OneCounted
<1>4. OneCounted' /\ LoopFree'
  BY <1>3 DEF OneCounted, LoopFree
<1>5. durations = Total(requests) /\ errors - 1 + Owed(r) = Failed(requests)
  BY DEF CountError, Balance
<1>6. Total(requests)' = Total(requests) /\ Failed(requests)' = Failed(requests)
  BY DEF CountError
<1>7. errors' = errors + Owed(r) /\ durations' = durations
  BY DEF CountError, Owed
<1>8. durations' = Total(requests)' /\ errors' - 1 = Failed(requests)'
  <2>1. Owed(r) \in Int /\ errors \in Int
    BY DEF Owed, HttpTypes
  <2> QED
    BY <1>5, <1>6, <1>7, <2>1
<1>9. Balance'
  BY <1>3, <1>4, <1>8 DEF Balance
<1> QED
  BY <1>1, <1>2, <1>4, <1>9

\* What a scrape reads into its page.
LEMMA PageTyped ==
    ASSUME HttpTypes, NEW s \in Scrapes,
           \/ \E k \in Series : CollectRequests(s, k)
           \/ CollectErrors(s)
           \/ CollectDurations(s)
    PROVE  page' \in [Scrapes -> Pages]
<1>1. page \in [Scrapes -> Pages] /\ page[s].requests \in [Series -> Counts]
  BY DEF HttpTypes, Pages
<1>2. CASE \E k \in Series : CollectRequests(s, k)
  <2>1. PICK k \in Series : CollectRequests(s, k)
    BY <1>2
  <2> DEFINE read == [page[s].requests EXCEPT ![k] = requests[k]]
  <2>2. page' = [page EXCEPT ![s] = [page[s] EXCEPT !.requests = read]]
    BY <1>1, <2>1 DEF CollectRequests, Pages
  <2>3. requests[k] \in Counts
    BY DEF HttpTypes, Counts
  <2>4. read \in [Series -> Counts]
    BY <1>1, <2>3
  <2> HIDE DEF read
  <2>5. [page[s] EXCEPT !.requests = read] \in Pages
    BY <1>1, <2>4 DEF Pages
  <2> QED
    BY <1>1, <2>2, <2>5
<1>3. CASE CollectErrors(s)
  BY <1>1, <1>3 DEF CollectErrors, HttpTypes, Pages, Counts
<1>4. CASE CollectDurations(s)
  BY <1>1, <1>4 DEF CollectDurations, HttpTypes, Pages, Counts
<1> QED
  BY <1>2, <1>3, <1>4

\* Worker threads end handlers and read pages; the account is left alone.
LEMMA CountStepHolds == CountInv /\ [HttpNext]_httpVars => CountInv'
<1> SUFFICES ASSUME CountInv, [HttpNext]_httpVars
             PROVE  CountInv'
  OBVIOUS
<1>1. \A s \in Scrapes : s \in All
  BY DEF All
<1>2. ASSUME NEW r \in All, Begin(r)
      PROVE  CountInv'
  <2>1. HttpTypes' /\ ScrapesSucceed'
    BY <1>2 DEF CountInv, HttpTypes, ScrapesSucceed, Begin
  <2>2. \A q \in All : /\ pc'[q] = "count" <=> pc[q] = "count"
                       /\ pc'[q] = "error" <=> pc[q] = "error"
    BY <1>2 DEF Begin, CountInv, HttpTypes
  <2> QED
    BY <1>2, <2>1, <2>2, Uncounted DEF Begin
<1>3. ASSUME NEW r \in Requests, Handle(r)
      PROVE  CountInv'
  <2>1. PICK o \in Outcomes : Ends(r, o)
    BY <1>3 DEF Handle
  <2>2. HttpTypes' /\ ScrapesSucceed'
    BY <1>3, <2>1, MetricsAssumption DEF CountInv, HttpTypes, ScrapesSucceed, Handle, Ends, All
  <2>3. \A q \in All : /\ pc'[q] = "count" <=> pc[q] = "count"
                       /\ pc'[q] = "error" <=> pc[q] = "error"
                       /\ pc[q] = "error" => outcome'[q] = outcome[q]
    BY <1>3, <2>1 DEF Handle, Ends, CountInv, HttpTypes
  <2> QED
    BY <1>3, <2>2, <2>3, Uncounted DEF Handle
<1>4. ASSUME NEW s \in Scrapes,
             \/ \E k \in Series : CollectRequests(s, k)
             \/ CollectErrors(s)
      PROVE  CountInv'
  <2>1. page' \in [Scrapes -> Pages]
    BY <1>4, PageTyped DEF CountInv
  <2>2. UNCHANGED <<pc, outcome, requests, errors, durations>>
    BY <1>4 DEF CollectRequests, CollectErrors
  <2>3. HttpTypes' /\ ScrapesSucceed'
    BY <2>1, <2>2 DEF CountInv, HttpTypes, ScrapesSucceed
  <2> QED
    BY <2>2, <2>3, Uncounted
<1>5. ASSUME NEW s \in Scrapes, CollectDurations(s)
      PROVE  CountInv'
  <2>1. page' \in [Scrapes -> Pages]
    BY <1>5, PageTyped DEF CountInv
  <2>2. HttpTypes' /\ ScrapesSucceed'
    BY <1>1, <1>5, <2>1
       DEF CountInv, HttpTypes, ScrapesSucceed, CollectDurations, Ends, Outcomes, Statuses
  <2>3. \A q \in All : /\ pc'[q] = "count" <=> pc[q] = "count"
                       /\ pc'[q] = "error" <=> pc[q] = "error"
                       /\ pc[q] = "error" => outcome'[q] = outcome[q]
    BY <1>1, <1>5 DEF CollectDurations, Ends, CountInv, HttpTypes
  <2> QED
    BY <1>5, <2>2, <2>3, Uncounted DEF CollectDurations
<1>6. CASE UNCHANGED httpVars
  <2>1. HttpTypes' /\ ScrapesSucceed'
    BY <1>6 DEF httpVars, CountInv, HttpTypes, ScrapesSucceed
  <2> QED
    BY <1>6, <2>1, Uncounted DEF httpVars
<1> QED
  BY <1>2, <1>3, <1>4, <1>5, <1>6, ObserveKeeps, CountKeeps, CountErrorKeeps
     DEF HttpNext, Dispatch, Scrape

\* When no request is half counted, every request has its duration and every 5xx its
\* error, whatever the worker threads did in between.
THEOREM MetricsAlwaysAgree == HttpSpec => []MetricsAgree
<1>1. CountInv => MetricsAgree
  BY DEF CountInv, Balance, MetricsAgree
<1> QED
  BY <1>1, CountInitHolds, CountStepHolds, PTL DEF HttpSpec

-----------------------------------------------------------------------------
(* Pages.                                                                  *)

Up == <<"metrics", "2xx">>

\* What a scrape has read so far is behind the counters: its requests are counted
\* as errors and durations before these are read.
PageBehind(s) ==
    /\ \A k \in Series : page[s].requests[k] <= requests[k]
    /\ page[s].errors # NotRead => /\ page[s].requests \in [Series -> Nat]
                                   /\ page[s].errors >= Failed(page[s].requests)
    /\ Collected(s) => /\ page[s].errors # NotRead
                       /\ page[s].durations \in Nat
                       /\ page[s].durations >= Total(page[s].requests)
    /\ pc[s] = "new" => page[s] = BlankPage

\* A scrape begins when the one before it has been counted: it finds more scrapes.
Follows(s, t) ==
    /\ pc[s] # "new" => pc[t] = "done"
    /\ \A k \in Series :
          page[s].requests[k] # NotRead => page[t].requests[k] <= page[s].requests[k]
    /\ page[s].requests[Up] # NotRead => page[t].requests[Up] < page[s].requests[Up]

PagesInv ==
    /\ \A s \in Scrapes : PageBehind(s)
    /\ \A s, t \in Scrapes : t < s => Follows(s, t)
    /\ \A t \in Scrapes : pc[t] \in {"error", "done"} => page[t].requests[Up] < requests[Up]

HttpInv == CountInv /\ PagesInv

\* Before a scrape begins its page is blank.
LEMMA PagesInitHolds == HttpInit => PagesInv
<1> SUFFICES ASSUME HttpInit PROVE PagesInv
  OBVIOUS
<1>1. \A s \in Scrapes : page[s] = BlankPage /\ pc[s] = "new"
  BY DEF HttpInit, All
<1>2. \A k \in Series : BlankPage.requests[k] = NotRead /\ requests[k] = 0
  BY DEF HttpInit, BlankPage
<1>3. BlankPage.errors = NotRead /\ Up \in Series
  BY SeriesFinite DEF BlankPage, Up
<1>4. \A s \in Scrapes : PageBehind(s)
  BY <1>1, <1>2, <1>3 DEF PageBehind, Collected, NotRead
<1>5. \A s, t \in Scrapes : Follows(s, t)
  BY <1>1, <1>2, <1>3 DEF Follows
<1> QED
  BY <1>1, <1>4, <1>5 DEF PagesInv

\* Where a 5xx or a request is on a page, its error or its duration is counted.
LEMMA CountersAhead ==
    ASSUME CountInv
    PROVE  durations >= Total(requests) /\ errors >= Failed(requests)
<1>1. Total(requests) \in Nat /\ Failed(requests) \in Nat
  BY SeriesFinite, SumNat DEF Failed, Total, CountInv, HttpTypes, Statuses
<1>2. \A r \in All : Owed(r) \in {0, 1}
  BY DEF Owed
<1>3. CASE LoopFree
  BY <1>1, <1>3 DEF CountInv, Balance, HttpTypes
<1>4. CASE ~LoopFree
  <2>1. PICK r \in All : pc[r] \in {"count", "error"}
    BY <1>4 DEF LoopFree
  <2> QED
    BY <1>1, <1>2, <2>1 DEF CountInv, Balance, HttpTypes
<1> QED
  BY <1>3, <1>4

\* A page that shows a request or a 5xx less than the counters is behind them.
LEMMA BehindInAll ==
    ASSUME CountInv, NEW f \in [Series -> Nat], \A k \in Series : f[k] <= requests[k]
    PROVE  /\ Total(f) \in Nat /\ Total(f) <= durations
           /\ Failed(f) \in Nat /\ Failed(f) <= errors
<1>1. f \in [Series -> Int] /\ requests \in [Series -> Int] /\ requests \in [Series -> Nat]
  BY DEF CountInv, HttpTypes
<1>2. SumFunctionOnSet(f, Series) <= SumFunctionOnSet(requests, Series)
  BY <1>1, SeriesFinite, SumMonotone DEF IntOn
<1>3. Total(f) <= Total(requests)
  BY <1>1, <1>2 DEF Total, SumFunction
<1>4. Total(f) \in Nat /\ Total(requests) \in Nat
  BY <1>1, SeriesFinite, SumNat DEF Total
<1>5. Failed(f) \in Nat /\ Failed(requests) \in Nat /\ Failed(f) <= Failed(requests)
  BY <1>1, SeriesFinite DEF Failed, Statuses
<1> QED
  BY <1>3, <1>4, <1>5, CountersAhead DEF CountInv, HttpTypes

\* A step that leaves the pages alone.
LEMMA PagesStay ==
    ASSUME HttpInv, HttpTypes', UNCHANGED page,
           \A k \in Series : requests[k] <= requests'[k],
           \A s \in Scrapes :
              /\ Collected(s)' => Collected(s)
              /\ pc'[s] = "new" => pc[s] = "new"
              /\ pc[s] = "done" => pc'[s] = "done"
              /\ pc'[s] \in {"error", "done"} =>
                    pc[s] \in {"error", "done"} \/ page[s].requests[Up] < requests'[Up],
           \A s, t \in Scrapes : t < s /\ pc'[s] # "new" => pc[s] # "new" \/ pc[t] = "done"
    PROVE  PagesInv'
<1> USE DEF HttpInv, PagesInv
<1>1. \A s \in Scrapes : page[s].requests \in [Series -> Counts] /\ Up \in Series
  BY SeriesFinite DEF CountInv, HttpTypes, Pages, Up
<1>2. \A k \in Series : requests[k] \in Int /\ requests'[k] \in Int
  BY DEF CountInv, HttpTypes
<1>3. \A s \in Scrapes, k \in Series : page[s].requests[k] \in Int
  BY <1>1 DEF Counts, NotRead
<1>4. ASSUME NEW s \in Scrapes
      PROVE  PageBehind(s)'
  <2>1. PageBehind(s)
    BY <1>4
  <2>2. \A k \in Series : page'[s].requests[k] <= requests'[k]
    BY <1>2, <1>3, <2>1 DEF PageBehind
  <2>3. Failed(page[s].requests)' = Failed(page[s].requests)
    OBVIOUS
  <2> QED
    BY <2>1, <2>2, <2>3 DEF PageBehind
<1>5. ASSUME NEW s \in Scrapes, NEW t \in Scrapes, t < s
      PROVE  Follows(s, t)'
  <2>1. Follows(s, t)
    BY <1>5
  <2>2. pc'[s] # "new" => pc'[t] = "done"
    BY <1>5, <2>1 DEF Follows
  <2> QED
    BY <2>1, <2>2 DEF Follows
<1>6. ASSUME NEW t \in Scrapes, pc'[t] \in {"error", "done"}
      PROVE  page'[t].requests[Up] < requests'[Up]
  BY <1>1, <1>2, <1>3, <1>6
<1> QED
  BY <1>4, <1>5, <1>6

\* Counting only raises what pages are compared with.
LEMMA DispatchPages ==
    ASSUME HttpInv, HttpTypes', NEW r \in All, Dispatch(r)
    PROVE  PagesInv'
<1> USE DEF HttpInv, CountInv
<1>1. Scrapes \subseteq All /\ page' = page /\ Up \in Series
  BY SeriesFinite DEF All, Dispatch, Begin, Observe, Count, CountError, Up
<1>2. CASE Begin(r) \/ Observe(r) \/ CountError(r)
  <2>1. requests' = requests
    BY <1>2 DEF Begin, Observe, CountError
  <2>2. \A s \in Scrapes :
           /\ Collected(s)' => Collected(s)
           /\ pc'[s] = "new" => pc[s] = "new"
           /\ pc[s] = "done" => pc'[s] = "done"
           /\ pc'[s] \in {"error", "done"} => pc[s] \in {"error", "done"}
    BY <1>1, <1>2 DEF Begin, Observe, CountError, HttpTypes, Collected
  <2>3. \A s, t \in Scrapes : t < s /\ pc'[s] # "new" => pc[s] # "new" \/ pc[t] = "done"
    BY <1>1, <1>2 DEF Begin, Observe, CountError, HttpTypes
  <2>4. \A k \in Series : requests[k] <= requests'[k]
    BY <2>1 DEF HttpTypes
  <2> QED
    BY <1>1, <2>2, <2>3, <2>4, PagesStay
<1>3. CASE Count(r)
  <2> DEFINE k == <<Endpoint(r), Status(r)>>
  <2>1. k \in Series /\ (r \in Scrapes => k = Up)
    BY SeriesOf DEF Up
  <2>2. requests' = [requests EXCEPT ![k] = @ + 1]
    BY <1>3 DEF Count
  <2> HIDE DEF k
  <2>3. \A j \in Series : requests[j] <= requests'[j]
    BY <2>1, <2>2 DEF HttpTypes
  <2>4. \A s \in Scrapes :
           /\ Collected(s)' => Collected(s)
           /\ pc'[s] = "new" => pc[s] = "new"
           /\ pc[s] = "done" => pc'[s] = "done"
           /\ pc'[s] \in {"error", "done"} => pc[s] \in {"error", "done"} \/ s = r
    BY <1>1, <1>3 DEF Count, HttpTypes, Collected
  <2>5. \A s, t \in Scrapes : pc'[s] # "new" => pc[s] # "new"
    BY <1>1, <1>3 DEF Count, HttpTypes
  <2>6. ASSUME r \in Scrapes PROVE page[r].requests[Up] < requests'[Up]
    <3>1. page[r].requests[Up] <= requests[Up]
      BY <1>1, <2>6 DEF PagesInv, PageBehind
    <3>2. requests'[Up] = requests[Up] + 1 /\ requests[Up] \in Int
      BY <1>1, <2>1, <2>2, <2>6 DEF HttpTypes
    <3>3. page[r].requests[Up] \in Int
      BY <1>1, <2>6 DEF HttpTypes, Pages, Counts, NotRead
    <3> QED
      BY <3>1, <3>2, <3>3
  <2> QED
    BY <1>1, <2>3, <2>4, <2>5, <2>6, PagesStay
<1> QED
  BY <1>2, <1>3 DEF Dispatch

\* The handler of another request has no part in it.
LEMMA HandlePages ==
    ASSUME HttpInv, HttpTypes', NEW r \in Requests, Handle(r)
    PROVE  PagesInv'
<1>1. PICK o \in Outcomes : Ends(r, o)
  BY DEF Handle
<1>2. \A s \in Scrapes : pc'[s] = pc[s]
  BY <1>1, MetricsAssumption DEF Ends, HttpInv, CountInv, HttpTypes, All
<1>3. page' = page /\ \A k \in Series : requests[k] <= requests'[k]
  BY DEF Handle, HttpInv, CountInv, HttpTypes
<1>4. \A s \in Scrapes : Collected(s)' <=> Collected(s)
  BY <1>2 DEF Collected
<1> QED
  BY <1>2, <1>3, <1>4, PagesStay

\* A step that changes nothing.
LEMMA StutterPages ==
    ASSUME HttpInv, UNCHANGED httpVars
    PROVE  PagesInv'
<1>1. UNCHANGED <<pc, requests, page>>
  BY DEF httpVars
<1>2. HttpTypes'
  BY DEF HttpInv, CountInv, HttpTypes, httpVars
<1>3. \A s \in Scrapes : Collected(s)' <=> Collected(s)
  BY <1>1 DEF Collected
<1>4. \A k \in Series : requests[k] <= requests'[k]
  BY <1>1 DEF HttpInv, CountInv, HttpTypes
<1> QED
  BY <1>1, <1>2, <1>3, <1>4, PagesStay

\* While a scrape reads, those before it are done and those after it are new.
LEMMA OneReads ==
    ASSUME HttpInv, NEW s \in Scrapes, pc[s] = "handler", NEW t \in Scrapes
    PROVE  /\ t < s => pc[t] = "done"
           /\ s < t => pc[t] = "new" /\ page[t] = BlankPage
BY DEF HttpInv, PagesInv, Follows, PageBehind

\* A series that is read is at its counter, ahead of all earlier pages.
LEMMA RequestsRead ==
    ASSUME HttpInv, HttpTypes', NEW s \in Scrapes, NEW k \in Series, CollectRequests(s, k)
    PROVE  PagesInv'
<1> USE DEF HttpInv, CountInv
<1> DEFINE old == page[s].requests
           new == page'[s].requests
<1>1. /\ page \in [Scrapes -> Pages] /\ page[s] \in Pages /\ Up \in Series
      /\ page'[s] \in Pages /\ requests \in [Series -> Nat]
      /\ old \in [Series -> Counts] /\ new \in [Series -> Counts]
  BY SeriesFinite DEF HttpTypes, Pages, Up
<1>2. /\ new = [old EXCEPT ![k] = requests[k]]
      /\ page'[s].errors = page[s].errors
      /\ \A t \in Scrapes : t # s => page'[t] = page[t]
      /\ UNCHANGED <<pc, requests, errors, durations>>
      /\ pc[s] = "handler" /\ old[k] = NotRead
  BY <1>1 DEF CollectRequests, Pages
<1>3. \A j \in Series : old[j] <= requests[j]
  BY DEF PagesInv, PageBehind
<1>4. \A t \in Scrapes : Collected(t)' <=> Collected(t)
  BY <1>2 DEF Collected
<1>5. page[s].errors = NotRead
  <2>1. NotRead \notin Nat
    BY DEF NotRead
  <2> QED
    BY <1>2, <2>1 DEF PagesInv, PageBehind
<1> HIDE DEF old, new
<1>6. new[k] = requests[k] /\ \A j \in Series : j # k => new[j] = old[j]
  BY <1>1, <1>2
<1>7. PageBehind(s)'
  <2>1. \A j \in Series : new[j] <= requests[j]
    BY <1>1, <1>3, <1>6
  <2>2. ~Collected(s)' /\ pc'[s] # "new" /\ page'[s].errors = NotRead
    BY <1>2, <1>5 DEF Collected
  <2>3. \A j \in Series : page'[s].requests[j] <= requests'[j]
    BY <1>2, <2>1 DEF new
  <2> QED
    BY <2>2, <2>3 DEF PageBehind
<1>8. ASSUME NEW t \in Scrapes, t # s
      PROVE  PageBehind(t)'
  <2>1. PageBehind(t) /\ page'[t] = page[t] /\ requests' = requests /\ pc' = pc
    BY <1>2, <1>8 DEF PagesInv
  <2> QED
    BY <1>4, <2>1 DEF PageBehind
<1>9. ASSUME NEW t \in Scrapes, t < s
      PROVE  Follows(s, t)'
  <2>1. pc[t] = "done" /\ t # s /\ page'[t] = page[t] /\ Follows(s, t) /\ PageBehind(t)
    BY <1>2, <1>9, OneReads DEF PagesInv, Scrapes
  <2>2. \A j \in Series : new[j] # NotRead => page[t].requests[j] <= new[j]
    <3>1. page[t].requests[k] <= requests[k]
      BY <2>1 DEF PageBehind
    <3>2. \A j \in Series : old[j] # NotRead => page[t].requests[j] <= old[j]
      BY <2>1 DEF Follows, old
    <3> QED
      BY <1>6, <3>1, <3>2
  <2>3. new[Up] # NotRead => page[t].requests[Up] < new[Up]
    <3>1. page[t].requests[Up] < requests[Up]
      BY <2>1 DEF PagesInv
    <3>2. old[Up] # NotRead => page[t].requests[Up] < old[Up]
      BY <2>1 DEF Follows, old
    <3> QED
      BY <1>1, <1>6, <3>1, <3>2
  <2>4. pc'[t] = "done" /\ page'[s].requests = new
    BY <1>2, <2>1 DEF new
  <2> QED
    BY <2>1, <2>2, <2>3, <2>4 DEF Follows
<1>10. ASSUME NEW u \in Scrapes, NEW t \in Scrapes, t < u, u # s
       PROVE  Follows(u, t)'
  <2>1. Follows(u, t) /\ page'[u] = page[u]
    BY <1>2, <1>10 DEF PagesInv
  <2>2. CASE t # s
    BY <1>2, <2>1, <2>2 DEF Follows
  <2>3. CASE t = s
    <3>1. pc[u] = "new" /\ page[u] = BlankPage
      BY <1>2, <1>10, <2>3, OneReads
    <3>2. \A j \in Series : page'[u].requests[j] = NotRead
      BY <2>1, <3>1 DEF BlankPage
    <3> QED
      BY <1>1, <1>2, <3>1, <3>2 DEF Follows
  <2> QED
    BY <2>2, <2>3
<1>11. ASSUME NEW t \in Scrapes, pc'[t] \in {"error", "done"}
       PROVE  page'[t].requests[Up] < requests'[Up]
  <2>1. t # s
    BY <1>2, <1>11
  <2> QED
    BY <1>2, <1>11, <2>1 DEF PagesInv
<1> QED
  BY <1>7, <1>8, <1>9, <1>10, <1>11 DEF PagesInv

\* The order of the scrapes, when no series of http_requests_total is read.
LEMMA StillFollow ==
    ASSUME HttpInv, requests' = requests,
           \A t \in Scrapes : /\ page'[t].requests = page[t].requests
                              /\ pc'[t] = "new" <=> pc[t] = "new"
                              /\ pc[t] = "done" => pc'[t] = "done"
                              /\ pc'[t] \in {"error", "done"} => pc[t] \in {"error", "done"}
    PROVE  /\ \A s, t \in Scrapes : t < s => Follows(s, t)'
           /\ \A t \in Scrapes :
                 pc'[t] \in {"error", "done"} => page'[t].requests[Up] < requests'[Up]
BY DEF HttpInv, PagesInv, Follows

\* The errors are read after every series of the requests.
LEMMA ErrorsRead ==
    ASSUME HttpInv, HttpTypes', NEW s \in Scrapes, CollectErrors(s)
    PROVE  PagesInv'
<1> USE DEF HttpInv, CountInv
<1> DEFINE old == page[s].requests
<1>1. page \in [Scrapes -> Pages] /\ page[s] \in Pages /\ old \in [Series -> Counts]
  BY DEF HttpTypes, Pages
<1>2. /\ page'[s] = [page[s] EXCEPT !.errors = errors]
      /\ \A t \in Scrapes : t # s => page'[t] = page[t]
      /\ UNCHANGED <<pc, requests, errors, durations>>
      /\ pc[s] = "handler"
  BY <1>1 DEF CollectErrors
<1>3. page'[s].requests = old /\ page'[s].errors = errors
  BY <1>1, <1>2 DEF Pages
<1>4. old \in [Series -> Nat]
  BY <1>1 DEF CollectErrors, Range, Counts
<1>5. \A k \in Series : old[k] <= requests[k]
  BY DEF PagesInv, PageBehind
<1> HIDE DEF old
<1>6. Failed(old) <= errors /\ Failed(old) \in Nat
  BY <1>4, <1>5, BehindInAll
<1>7. PageBehind(s)'
  <2>1. ~Collected(s)' /\ pc'[s] # "new" /\ requests' = requests
    BY <1>2 DEF Collected
  <2>2. page'[s].errors >= Failed(page'[s].requests)
    BY <1>3, <1>6 DEF HttpTypes
  <2> QED
    BY <1>3, <1>4, <1>5, <2>1, <2>2 DEF PageBehind
<1>8. ASSUME NEW t \in Scrapes, t # s
      PROVE  PageBehind(t)'
  <2>1. /\ PageBehind(t) /\ page'[t] = page[t] /\ requests' = requests /\ pc' = pc
        /\ Collected(t)' <=> Collected(t)
    BY <1>2, <1>8 DEF PagesInv, Collected
  <2> QED
    BY <2>1 DEF PageBehind
<1>9. \A t \in Scrapes : page'[t].requests = page[t].requests
  BY <1>2, <1>3 DEF old
<1> QED
  BY <1>2, <1>7, <1>8, <1>9, StillFollow DEF PagesInv

\* The durations are read last.
LEMMA DurationsRead ==
    ASSUME HttpInv, HttpTypes', NEW s \in Scrapes, CollectDurations(s)
    PROVE  PagesInv'
<1> USE DEF HttpInv, CountInv
<1> DEFINE old == page[s].requests
<1>1. page \in [Scrapes -> Pages] /\ page[s] \in Pages
  BY DEF HttpTypes
<1>2. /\ page'[s] = [page[s] EXCEPT !.durations = durations]
      /\ \A t \in Scrapes : t # s => page'[t] = page[t]
      /\ UNCHANGED <<requests, errors, durations>>
      /\ pc[s] = "handler" /\ page[s].errors # NotRead
  BY <1>1 DEF CollectDurations
<1>3. /\ page'[s].requests = old /\ page'[s].errors = page[s].errors
      /\ page'[s].durations = durations
  BY <1>1, <1>2 DEF Pages
<1>4. pc'[s] = "ended" /\ \A t \in Scrapes : t # s => pc'[t] = pc[t]
  BY DEF CollectDurations, Ends, HttpTypes, All
<1>5. /\ old \in [Series -> Nat] /\ page[s].errors >= Failed(old)
      /\ \A k \in Series : old[k] <= requests[k]
  BY <1>2 DEF PagesInv, PageBehind
<1> HIDE DEF old
<1>6. Total(old) <= durations /\ Total(old) \in Nat
  BY <1>5, BehindInAll
<1>7. PageBehind(s)'
  <2>1. page'[s].durations >= Total(page'[s].requests) /\ page'[s].durations \in Nat
    BY <1>3, <1>6 DEF HttpTypes
  <2>2. page'[s].errors >= Failed(page'[s].requests) /\ page'[s].errors # NotRead
    BY <1>2, <1>3, <1>5
  <2>3. \A k \in Series : page'[s].requests[k] <= requests'[k]
    BY <1>2, <1>3, <1>5
  <2>4. page'[s].requests \in [Series -> Nat] /\ pc'[s] # "new"
    BY <1>3, <1>4, <1>5
  <2> QED
    BY <2>1, <2>2, <2>3, <2>4 DEF PageBehind
<1>8. ASSUME NEW t \in Scrapes, t # s
      PROVE  PageBehind(t)'
  <2>1. /\ PageBehind(t) /\ page'[t] = page[t] /\ requests' = requests /\ pc'[t] = pc[t]
        /\ Collected(t)' <=> Collected(t)
    BY <1>2, <1>4, <1>8 DEF PagesInv, Collected
  <2> QED
    BY <2>1 DEF PageBehind
<1>9. \A t \in Scrapes : page'[t].requests = page[t].requests
  BY <1>2, <1>3 DEF old
<1> QED
  BY <1>2, <1>4, <1>7, <1>8, <1>9, StillFollow DEF PagesInv

\* Every step keeps the account and the pages.
LEMMA HttpStepHolds == HttpInv /\ [HttpNext]_httpVars => HttpInv'
<1> SUFFICES ASSUME HttpInv, [HttpNext]_httpVars
             PROVE  HttpInv'
  OBVIOUS
<1>1. CountInv' /\ HttpTypes'
  BY CountStepHolds DEF HttpInv, CountInv
<1>2. PagesInv'
  BY <1>1, DispatchPages, HandlePages, RequestsRead, ErrorsRead, DurationsRead, StutterPages
     DEF HttpNext, Scrape
<1> QED
  BY <1>1, <1>2 DEF HttpInv

\* The invariant that the theorems rest on.
LEMMA HttpInvariance == HttpSpec => []HttpInv
<1>1. HttpInit => HttpInv
  BY CountInitHolds, PagesInitHolds DEF HttpInv
<1> QED
  BY <1>1, HttpStepHolds, PTL DEF HttpSpec

\* What a page holds once it is collected.
LEMMA PageHolds == HttpInv => HttpTypeOK /\ PagesConsistent
<1> SUFFICES ASSUME HttpInv PROVE HttpTypeOK /\ PagesConsistent
  OBVIOUS
<1>1. HttpTypes /\ \A s \in Scrapes : PageBehind(s)
  BY DEF HttpInv, CountInv, PagesInv
<1>2. \A s \in Scrapes : /\ page[s].requests \in [Series -> Nat \union {NotRead}]
                         /\ page[s].errors \in Nat \union {NotRead}
  BY <1>1 DEF HttpTypes, Pages, Counts
<1>3. ASSUME NEW s \in Scrapes, Collected(s)
      PROVE  /\ page[s].requests \in [Series -> Nat]
             /\ page[s].errors \in Nat /\ page[s].durations \in Nat
             /\ page[s].durations >= Total(page[s].requests)
             /\ page[s].errors >= Failed(page[s].requests)
  BY <1>1, <1>2, <1>3 DEF PageBehind
<1> QED
  BY <1>1, <1>2, <1>3 DEF HttpTypes, HttpTypeOK, PagesConsistent

\* The metrics keep their types, and a page that is served is complete.
THEOREM HttpTypeSafety == HttpSpec => []HttpTypeOK
BY HttpInvariance, PageHolds, PTL

\* However requests and scrapes interleave, a page shows every request it counts as a
\* duration and every 5xx but one as an error.
THEOREM PagesAlwaysConsistent == HttpSpec => []PagesConsistent
BY HttpInvariance, PageHolds, PTL

-----------------------------------------------------------------------------
(* The availability.                                                       *)

\* A set of positions that is not empty has a last and a first one.
LEMMA MaxMin ==
    ASSUME NEW n \in Nat, NEW S \in SUBSET (1 .. n), S # {}
    PROVE  /\ Max(S) \in S /\ \A y \in S : Max(S) >= y
           /\ Min(S) \in S /\ \A y \in S : Min(S) <= y
<1> DEFINE Bounded(T) == /\ \E x \in T : \A y \in T : x >= y
                       /\ \E x \in T : \A y \in T : x <= y
           G == {T \in SUBSET S : T # {} => Bounded(T)}
<1>1. IsFiniteSet(S)
  <2>1. IsFiniteSet(1 .. n)
    BY FS_Interval
  <2> QED
    BY <2>1, FS_Subset
<1>2. \A x \in S : x \in Int
  OBVIOUS
<1>3. ASSUME NEW T \in SUBSET S, \A x \in T : T \ {x} \in G
      PROVE  T \in G
  <2> SUFFICES ASSUME NEW x \in T PROVE Bounded(T)
    OBVIOUS
  <2>1. CASE T = {x}
    BY <1>2, <2>1
  <2>2. CASE T # {x}
    <3>1. Bounded(T \ {x})
      BY <1>3, <2>2
    <3>2. PICK a \in T \ {x} : \A y \in T \ {x} : a >= y
      BY <3>1
    <3>3. PICK b \in T \ {x} : \A y \in T \ {x} : b <= y
      BY <3>1
    <3>4. \E z \in T : \A y \in T : z >= y
      BY <1>2, <3>2
    <3>5. \E z \in T : \A y \in T : z <= y
      BY <1>2, <3>3
    <3> QED
      BY <3>4, <3>5
  <2> QED
    BY <2>1, <2>2
<1>4. S \in G
  <2> HIDE DEF G
  <2> QED
    BY <1>1, <1>3, SubsetInduction
<1> QED
  BY <1>4 DEF Max, Min

\* The scrapes that are done are the first ones.
LEMMA DoneFirst ==
    ASSUME HttpInv
    PROVE  /\ Scraped \in Nat
           /\ \A n \in 1 .. Scraped : n \in Scrapes /\ pc[n] = "done"
<1> DEFINE D == {s \in Scrapes : pc[s] = "done"}
<1>1. \A s \in D : \A t \in Scrapes : t < s => t \in D
  BY DEF HttpInv, PagesInv, Follows
<1>2. D \subseteq 1 .. MaxScrapes /\ MaxScrapes \in Nat
  BY MetricsAssumption DEF Scrapes
<1>3. CASE D = {}
  BY <1>3, FS_EmptySet DEF Scraped
<1>4. CASE D # {}
  <2> DEFINE n == Max(D)
  <2>1. n \in D /\ \A y \in D : n >= y
    <3> HIDE DEF D
    <3> QED
      BY <1>2, <1>4, MaxMin
  <2> HIDE DEF n
  <2>2. n \in 1 .. MaxScrapes /\ \A t \in 1 .. n : t \in D
    BY <1>1, <1>2, <2>1 DEF Scrapes
  <2>3. D = 1 .. n
    BY <1>2, <2>1, <2>2
  <2>4. Cardinality(1 .. n) = n
    BY <2>2, FS_Interval
  <2>5. Scraped = n
    BY <2>3, <2>4 DEF Scraped
  <2> QED
    BY <2>2, <2>5
<1> QED
  BY <1>3, <1>4

\* The samples of a series never fall, those of the scrapes' own always rise.
LEMMA SamplesRise ==
    ASSUME HttpInv, NEW k \in Series
    PROVE  /\ DOMAIN Samples(k) = 1 .. Scraped
           /\ \A n \in 1 .. Scraped : Samples(k)[n] \in Nat
           /\ \A m, n \in 1 .. Scraped : m < n =>
                 /\ Samples(k)[m] <= Samples(k)[n]
                 /\ k = Up => Samples(k)[m] < Samples(k)[n]
<1>1. ASSUME NEW n \in 1 .. Scraped
      PROVE  Samples(k)[n] = page[n].requests[k] /\ page[n].requests[k] \in Nat
  <2>1. /\ n \in Scrapes /\ pc[n] = "done"
        /\ \A s \in Scrapes : Collected(s) => page[s].requests \in [Series -> Nat]
    BY DoneFirst, PageHolds DEF HttpTypeOK
  <2>2. page[n].requests \in [Series -> Nat]
    BY <2>1 DEF Collected
  <2>3. Samples(k)[n] = page[n].requests[k]
    BY DEF Samples
  <2> QED
    BY <2>2, <2>3
<1>2. ASSUME NEW m \in 1 .. Scraped, NEW n \in 1 .. Scraped, m < n
      PROVE  /\ page[m].requests[k] <= page[n].requests[k]
             /\ k = Up => page[m].requests[k] < page[n].requests[k]
  <2>1. Follows(n, m)
    BY <1>2, DoneFirst DEF HttpInv, PagesInv
  <2>2. page[n].requests[k] # NotRead
    BY <1>1 DEF NotRead
  <2> QED
    BY <2>1, <2>2 DEF Follows
<1> QED
  BY <1>1, <1>2 DEF Samples

\* A counter that never falls has an increase, one that rises has a positive one.
LEMMA IncreaseOfRise ==
    ASSUME HttpInv, NEW k \in Series, HasRate(Samples(k))
    PROVE  Increase(Samples(k)) \in Nat /\ (k = Up => Increase(Samples(k)) > 0)
<1> DEFINE f == Samples(k)
           P == Present(f)
<1>1. Scraped \in Nat /\ P \subseteq 1 .. Scraped /\ \E m, n \in P : m < n
  BY DoneFirst, SamplesRise DEF HasRate, Present
<1>2. /\ \A n \in 1 .. Scraped : f[n] \in Nat
      /\ \A m, n \in 1 .. Scraped : m < n => f[m] <= f[n] /\ (k = Up => f[m] < f[n])
  BY SamplesRise
<1>3. Increase(f) = f[Max(P)] - f[Min(P)]
  BY DEF Increase
<1> HIDE DEF f, P
<1>4. /\ Max(P) \in P /\ \A y \in P : Max(P) >= y
      /\ Min(P) \in P /\ \A y \in P : Min(P) <= y
  BY <1>1, MaxMin
<1> DEFINE first == Min(P)
           last == Max(P)
<1>5. first \in 1 .. Scraped /\ last \in 1 .. Scraped
  BY <1>1, <1>4
<1>6. first < last
  <2>1. PICK m \in P, n \in P : m < n
    BY <1>1
  <2>2. m \in 1 .. Scraped /\ n \in 1 .. Scraped
    BY <1>1, <2>1
  <2>3. first <= m /\ n <= last
    BY <1>4
  <2> HIDE DEF first, last
  <2> QED
    BY <1>1, <1>5, <2>1, <2>2, <2>3
<1>7. Increase(f) = f[last] - f[first]
  BY <1>3
<1> HIDE DEF first, last
<1>8. /\ f[first] \in Nat /\ f[last] \in Nat
      /\ f[first] <= f[last] /\ (k = Up => f[first] < f[last])
  BY <1>2, <1>5, <1>6
<1>9. Increase(f) \in Nat /\ (k = Up => Increase(f) > 0)
  BY <1>7, <1>8
<1> QED
  BY <1>9 DEF f

\* From the third scrape on, a sum of rates with that of the scrapes is positive.
LEMMA SumRatePositive ==
    ASSUME HttpInv, Scraped > 2, NEW S \in SUBSET Series, Up \in S
    PROVE  SumRate(S) \in Nat /\ SumRate(S) > 0
<1> DEFINE rated == {k \in S : HasRate(Samples(k))}
           f == [k \in rated |-> Increase(Samples(k))]
<1>1. Up \in rated
  <2>1. Scraped \in Nat /\ Up \in Series
    BY DoneFirst
  <2>2. 1 \in 1 .. Scraped /\ 2 \in 1 .. Scraped /\ 3 \in 1 .. Scraped
    BY <2>1
  <2>3. Samples(Up)[1] \in Nat /\ Samples(Up)[2] \in Nat /\ Samples(Up)[3] \in Nat
    BY <2>1, <2>2, SamplesRise
  <2>4. Samples(Up)[1] < Samples(Up)[2] /\ Samples(Up)[2] < Samples(Up)[3]
    BY <2>1, <2>2, SamplesRise
  <2>5. Samples(Up)[2] > 0 /\ Samples(Up)[3] > 0
    BY <2>3, <2>4
  <2>6. 2 \in Present(Samples(Up)) /\ 3 \in Present(Samples(Up))
    BY <2>1, <2>2, <2>5, SamplesRise DEF Present
  <2> QED
    BY <2>6 DEF HasRate
<1>2. IsFiniteSet(rated)
  BY SeriesFinite, FS_Subset
<1>3. f \in [rated -> Nat] /\ f[Up] \in Nat /\ f[Up] > 0
  BY <1>1, IncreaseOfRise
<1>4. SumRate(S) = SumFunction(f)
  BY <1>1 DEF SumRate
<1> HIDE DEF rated, f
<1>5. SumFunction(f) \in Nat /\ f[Up] <= SumFunction(f)
  BY <1>1, <1>2, <1>3, SumNat, SumTerm
<1> QED
  BY <1>3, <1>4, <1>5

\* Both sums of the SLI are positive, so neither default nor 0 / 0 applies.
LEMMA RatioFromThird == HttpInv => AvailabilityMeasured
<1> SUFFICES ASSUME HttpInv, Scraped > 2
             PROVE  Availability = "ratio"
  BY DEF AvailabilityMeasured
<1>1. Up \in Series /\ Up \in OfStatus({"2xx", "4xx"}) /\ OfStatus({"2xx", "4xx"}) \subseteq Series
  BY SeriesFinite DEF OfStatus, Up
<1>2. Good \in Nat /\ Good > 0 /\ Served \in Nat /\ Served > 0
  BY <1>1, SumRatePositive DEF Good, Served
<1>3. Good # NoData /\ Served # NoData /\ Served # 0
  BY <1>2 DEF NoData
<1> QED
  BY <1>3 DEF Availability

\* Prometheus and the consumer change nothing in the WMS: what holds of HttpMetrics
\* alone holds here.
LEMMA WmsAlone == Spec => HttpSpec
<1>1. Init => HttpInit
  BY DEF Init
<1>2. [Next]_vars => [HttpNext]_httpVars
  BY DEF Next, vars, Wms, Process, ScrapeConsumer
<1> QED
  BY <1>1, <1>2, PTL DEF Spec, HttpSpec

\* From the third scrape of the WMS on, its availability is a ratio, whatever it serves
\* and whatever fails: the scrapes are requests of its own.
THEOREM AvailabilityAlwaysMeasured == Spec => []AvailabilityMeasured
BY WmsAlone, HttpInvariance, RatioFromThird, PTL
=============================================================================
