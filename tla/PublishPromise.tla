--------------------------- MODULE PublishPromise ---------------------------
(***************************************************************************)
(* What an answer of the WMS says about the topic, without threads, queue  *)
(* and delivery reports: the events of a request reach the log one after   *)
(* the other, an accepted request names where each of them lies, a refused *)
(* one published nothing, and a request answered 503 may have published a  *)
(* prefix of its events, the last of which may still arrive.               *)
(* EventPublisher is shown to implement this module.                       *)
(***************************************************************************)
EXTENDS Integers, Sequences

CONSTANTS
    Requests,     \* requests to POST /events and POST /events/bulk
    Bulk,         \* those to /events/bulk
    Body,         \* Body[r]: the events request r asks to publish
    Publishable,  \* events that can be normalized and serialized
    Partitions,   \* partitions of the topic warehouse-events
    PartitionOf   \* PartitionOf[e]: where the key of event e leads

VARIABLES
    log,          \* log[p]: messages of partition p, each <<request, index>>
    tried,        \* tried[r]: how many of its events were handed to Kafka
    answer,       \* "none", "ok" (200), "refused" (400) or "unavailable" (503)
    offsets       \* offsets[r]: the offsets an answer to r reports

vars == <<log, tried, answer, offsets>>

Home(r, n) == PartitionOf[Body[r][n]]

IsAt(r, n, o) ==
    /\ o \in 0 .. Len(log[Home(r, n)]) - 1
    /\ log[Home(r, n)][o + 1] = <<r, n>>

InLog(r, n) == \E o \in 0 .. Len(log[Home(r, n)]) - 1 : IsAt(r, n, o)

Init ==
    /\ log = [p \in Partitions |-> << >>]
    /\ tried = [r \in Requests |-> 0]
    /\ answer = [r \in Requests |-> "none"]
    /\ offsets = [r \in Requests |-> << >>]

\* The next event of r is handed over once the one before it is in the log.
Try(r) ==
    /\ answer[r] = "none"
    /\ tried[r] < Len(Body[r])
    /\ tried[r] > 0 => InLog(r, tried[r])
    /\ Body[r][tried[r] + 1] \in Publishable
    /\ tried' = [tried EXCEPT ![r] = @ + 1]
    /\ UNCHANGED <<log, answer, offsets>>

\* The event tried last arrives, once more if Kafka was asked again, and even
\* after the client was told 503; but never after any other answer.
Arrive(r) ==
    /\ tried[r] > 0
    /\ answer[r] \in {"none", "unavailable"}
    /\ log' = [log EXCEPT ![Home(r, tried[r])] = Append(@, <<r, tried[r]>>)]
    /\ UNCHANGED <<tried, answer, offsets>>

Accept(r, list) ==
    /\ answer[r] = "none"
    /\ tried[r] = Len(Body[r])
    /\ Len(list) = Len(Body[r])
    /\ \A n \in 1 .. Len(Body[r]) : IsAt(r, n, list[n])
    /\ answer' = [answer EXCEPT ![r] = "ok"]
    /\ offsets' = [offsets EXCEPT ![r] = list]
    /\ UNCHANGED <<log, tried>>

\* Only a single event is ever refused, and none of it was published.
Refuse(r) ==
    /\ answer[r] = "none"
    /\ r \notin Bulk
    /\ tried[r] = 0
    /\ answer' = [answer EXCEPT ![r] = "refused"]
    /\ UNCHANGED <<log, tried, offsets>>

Fail(r) ==
    /\ answer[r] = "none"
    /\ answer' = [answer EXCEPT ![r] = "unavailable"]
    /\ UNCHANGED <<log, tried, offsets>>

Next ==
    \E r \in Requests :
        \/ Try(r) \/ Arrive(r) \/ Refuse(r) \/ Fail(r)
        \/ \E list \in [1 .. Len(Body[r]) -> UNION {0 .. Len(log[p]) : p \in Partitions}] :
              Accept(r, list)

Spec == Init /\ [][Next]_vars
=============================================================================
