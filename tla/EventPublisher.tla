--------------------------- MODULE EventPublisher ---------------------------
(***************************************************************************)
(* The WMS (wms_service/main.py): POST /events and POST /events/bulk, each *)
(* handled in a worker thread, over one Kafka producer that all of them    *)
(* share. A thread puts its event into the producer's queue and calls      *)
(* flush, which serves the delivery reports of every thread and returns    *)
(* when the queue is empty or after ten seconds.                           *)
(***************************************************************************)
EXTENDS Integers, Sequences, FiniteSets

CONSTANTS
    Requests,       \* requests that clients send
    Bulk,           \* those to /events/bulk
    Events,         \* the events in their bodies
    Body,           \* Body[r]: the list of events of request r
    Malformed,      \* events without a type or with an unknown version
    Unserializable, \* events that do not fit their Avro schema
    Partitions,     \* partitions of the topic warehouse-events
    PartitionOf,    \* PartitionOf[e]: where the key of event e leads
    Versions,       \* schema versions
    VersionOf,      \* VersionOf[e]: the schema event e is written with
    Threads,        \* worker threads of the server
    MaxQueue,       \* queue.buffering.max.messages of the producer
    MaxCopies       \* bound: how often a message is appended, retries included

ASSUME PublisherAssumption ==
    /\ Bulk \subseteq Requests
    /\ Body \in [Requests -> Seq(Events)]
    /\ \A r \in Requests \ Bulk : Len(Body[r]) <= 1
    /\ Malformed \subseteq Events /\ Unserializable \subseteq Events
    /\ PartitionOf \in [Events -> Partitions]
    /\ VersionOf \in [Events -> Versions]
    /\ Threads \in Nat \ {0} /\ MaxQueue \in Nat \ {0} /\ MaxCopies \in Nat \ {0}

VARIABLES
    log,          \* log[p]: messages of partition p, each <<request, index>>
    queue,        \* messages flush still waits for
    outcome,      \* what the producer knows of a message: its offset or Lost
    delivery,     \* what on_delivery has stored for it
    known,        \* versions whose schema id the serializers have looked up
    pc,           \* pc[r]: where the thread of request r is
    at,           \* at[r]: how many events of r were produced
    results,      \* results[r]: the offsets collected for the answer
    answer        \* answer[r]: "none", or how r was answered

vars == <<log, queue, outcome, delivery, known, pc, at, results, answer>>

Messages == UNION {{r} \X (1 .. Len(Body[r])) : r \in Requests}
Home(m) == PartitionOf[Body[m[1]][m[2]]]
Copies(m) == {o \in 1 .. Len(log[Home(m)]) : log[Home(m)][o] = m}
InHand(r) == <<r, at[r]>>
NextEvent(r) == Body[r][at[r] + 1]

Lost == -1
Unknown == -2

\* "refused" is status 400; "unavailable" and "timed_out" are both 503.
Answers == {"none", "ok", "refused", "unavailable", "timed_out"}

Init ==
    /\ log = [p \in Partitions |-> << >>]
    /\ queue = {}
    /\ outcome = [m \in Messages |-> Unknown]
    /\ delivery = [m \in Messages |-> Unknown]
    /\ known = {}
    /\ pc = [r \in Requests |-> "idle"]
    /\ at = [r \in Requests |-> 0]
    /\ results = [r \in Requests |-> << >>]
    /\ answer = [r \in Requests |-> "none"]

-----------------------------------------------------------------------------
(* Requests and worker threads. A request with an empty body publishes     *)
(* nothing: an empty bulk, or GET /health, which needs a thread as well.   *)

Send(r) ==
    /\ pc[r] = "idle"
    /\ pc' = [pc EXCEPT ![r] = "waiting"]
    /\ UNCHANGED <<log, queue, outcome, delivery, known, at, results, answer>>

Busy == {r \in Requests : pc[r] \in {"publish", "flush"}}

Begin(r) ==
    /\ pc[r] = "waiting"
    /\ Cardinality(Busy) < Threads
    /\ pc' = [pc EXCEPT ![r] = "publish"]
    /\ UNCHANGED <<log, queue, outcome, delivery, known, at, results, answer>>

Answer(r, a) ==
    /\ answer' = [answer EXCEPT ![r] = a]
    /\ pc' = [pc EXCEPT ![r] = "done"]

-----------------------------------------------------------------------------
(* EventPublisher.publish, up to produce.                                  *)

Publishing(r) == pc[r] = "publish" /\ at[r] < Len(Body[r])

\* mutant: the handler of a bulk tells a ValueError from other exceptions
NormalizeRefuses(r) ==
    /\ Publishing(r)
    /\ NextEvent(r) \in Malformed
    /\ Answer(r, "refused")
    /\ UNCHANGED <<log, queue, outcome, delivery, known, at, results>>

\* _normalize_event raises ValueError: 400, except in a bulk, whose handler
\* catches every exception alike.
NormalizeFails(r) ==
    /\ Publishing(r)
    /\ NextEvent(r) \in Malformed
    /\ Answer(r, IF r \in Bulk THEN "unavailable" ELSE "refused")
    /\ UNCHANGED <<log, queue, outcome, delivery, known, at, results>>

\* The serializer raises, because the event does not fit the schema (some of
\* its errors are a ValueError, some are not) or because it has not looked up
\* the schema's id yet and the registry refuses or cannot be reached. The request
\* to the registry has no time-out: a registry that never answers holds the thread,
\* a step that is not taken.
EncodeFails(r) ==
    /\ Publishing(r)
    /\ NextEvent(r) \notin Malformed
    /\ NextEvent(r) \in Unserializable \/ VersionOf[NextEvent(r)] \notin known
    /\ \E a \in {"refused", "unavailable"} :
          /\ a = "refused" => r \notin Bulk
          /\ Answer(r, a)
    /\ UNCHANGED <<log, queue, outcome, delivery, known, at, results>>

Encodes(r) ==
    /\ Publishing(r)
    /\ NextEvent(r) \notin Malformed \union Unserializable

Handed(r) ==
    /\ known' = known \union {VersionOf[NextEvent(r)]}
    /\ at' = [at EXCEPT ![r] = @ + 1]
    /\ queue' = queue \union {<<r, at[r] + 1>>}
    /\ pc' = [pc EXCEPT ![r] = "flush"]
    /\ UNCHANGED <<log, outcome, delivery, results, answer>>

Produce(r) == Encodes(r) /\ Cardinality(queue) < MaxQueue /\ Handed(r)

\* BufferError: the queue is full of what earlier flushes gave up waiting for.
ProduceFails(r) ==
    /\ Encodes(r)
    /\ Cardinality(queue) >= MaxQueue
    /\ known' = known \union {VersionOf[NextEvent(r)]}
    /\ Answer(r, "unavailable")
    /\ UNCHANGED <<log, queue, outcome, delivery, at, results>>

-----------------------------------------------------------------------------
(* The producer's own thread, and Kafka. The producer is not idempotent: a *)
(* message whose acknowledgement is lost is sent and appended again, and   *)
(* messages may overtake one another. A message stays in the queue until   *)
(* its delivery report has been served.                                    *)

Append1(m, known_offset) ==
    /\ m \in queue
    /\ outcome[m] = Unknown
    /\ Cardinality(Copies(m)) < MaxCopies
    /\ log' = [log EXCEPT ![Home(m)] = Append(@, m)]
    /\ outcome' = [outcome EXCEPT ![m] = IF known_offset THEN Len(log[Home(m)]) ELSE Unknown]
    /\ UNCHANGED <<queue, delivery, known, pc, at, results, answer>>

Acknowledge(m) == Append1(m, TRUE)
LoseAck(m) == Append1(m, FALSE)

\* A permanent error, or message.timeout.ms is over; copies may be in the log.
GiveUp(m) ==
    /\ m \in queue
    /\ outcome[m] = Unknown
    /\ outcome' = [outcome EXCEPT ![m] = Lost]
    /\ UNCHANGED <<log, queue, delivery, known, pc, at, results, answer>>

-----------------------------------------------------------------------------
(* flush and what follows it.                                              *)

\* The flush of any thread serves the report of any message.
Serve(m) ==
    /\ \E r \in Requests : pc[r] = "flush"
    /\ m \in queue
    /\ outcome[m] # Unknown
    /\ delivery' = [delivery EXCEPT ![m] = outcome[m]]
    /\ queue' = queue \ {m}
    /\ UNCHANGED <<log, outcome, known, pc, at, results, answer>>

Flushing(r) == pc[r] = "flush"

\* mutant: what flush returns is ignored
FlushUnchecked(r) ==
    /\ Flushing(r)
    /\ delivery[InHand(r)] # Lost
    /\ results' = [results EXCEPT ![r] = Append(@, delivery[InHand(r)])]
    /\ pc' = [pc EXCEPT ![r] = "publish"]
    /\ UNCHANGED <<log, queue, outcome, delivery, known, at, answer>>

Delivered(r) ==
    /\ Flushing(r)
    /\ queue = {}
    /\ delivery[InHand(r)] # Lost
    /\ results' = [results EXCEPT ![r] = Append(@, delivery[InHand(r)])]
    /\ pc' = [pc EXCEPT ![r] = "publish"]
    /\ UNCHANGED <<log, queue, outcome, delivery, known, at, answer>>

\* mutant: a bulk goes on with its next event
DeliverySkipped(r) ==
    /\ Flushing(r)
    /\ queue = {}
    /\ delivery[InHand(r)] = Lost
    /\ pc' = [pc EXCEPT ![r] = "publish"]
    /\ UNCHANGED <<log, queue, outcome, delivery, known, at, results, answer>>

DeliveryFailed(r) ==
    /\ Flushing(r)
    /\ queue = {}
    /\ delivery[InHand(r)] = Lost
    /\ Answer(r, "unavailable")
    /\ UNCHANGED <<log, queue, outcome, delivery, known, at, results>>

\* mutants: TimeoutError is taken for the client's fault; no time limit
FlushBlamesClient(r) ==
    /\ Flushing(r)
    /\ queue # {}
    /\ Answer(r, "refused")
    /\ UNCHANGED <<log, queue, outcome, delivery, known, at, results>>

FlushForever(r) == FALSE

\* Ten seconds are over and something is left in the queue, of any thread.
FlushTimesOut(r) ==
    /\ Flushing(r)
    /\ queue # {}
    /\ Answer(r, "timed_out")
    /\ UNCHANGED <<log, queue, outcome, delivery, known, at, results>>

\* 200, with the partition and offset of every event.
Finish(r) ==
    /\ pc[r] = "publish"
    /\ at[r] = Len(Body[r])
    /\ Answer(r, "ok")
    /\ UNCHANGED <<log, queue, outcome, delivery, known, at, results>>

-----------------------------------------------------------------------------
Thread(r) ==
    \/ Begin(r) \/ NormalizeFails(r) \/ EncodeFails(r) \/ Produce(r) \/ ProduceFails(r)
    \/ Delivered(r) \/ DeliveryFailed(r) \/ FlushTimesOut(r) \/ Finish(r)

Kafka(m) == Acknowledge(m) \/ LoseAck(m) \/ GiveUp(m) \/ Serve(m)

Next ==
    \/ \E r \in Requests : Send(r) \/ Thread(r)
    \/ \E m \in Messages : Kafka(m)

Spec == Init /\ [][Next]_vars

\* Nothing is assumed of Kafka: flush returns after ten seconds, and a request
\* that waits for a thread gets one (they queue in order of arrival). Of Schema
\* Registry it is assumed that a look-up ends, with an answer or an error: the
\* first event of a schema version waits for it without a time-out.
FairSpec == Spec /\ \A r \in Requests : WF_vars(Thread(r))

-----------------------------------------------------------------------------
(* Properties.                                                             *)

\* The variables keep their types; the producer's queue keeps its limit.
TypeOK ==
    /\ log \in [Partitions -> Seq(Messages)]
    /\ queue \subseteq Messages
    /\ Cardinality(queue) <= MaxQueue
    /\ outcome \in [Messages -> Nat \union {Lost, Unknown}]
    /\ delivery \in [Messages -> Nat \union {Lost, Unknown}]
    /\ known \subseteq Versions
    /\ pc \in [Requests -> {"idle", "waiting", "publish", "flush", "done"}]
    /\ at \in [Requests -> Nat]
    /\ results \in [Requests -> Seq(Int)]
    /\ answer \in [Requests -> Answers]

IsAt(m, o) == o \in 0 .. Len(log[Home(m)]) - 1 /\ log[Home(m)][o + 1] = m

InLog(m) == \E o \in 0 .. Len(log[Home(m)]) - 1 : IsAt(m, o)

\* An answer 200 is true: every event of the request lies at the offset the
\* answer gives, whichever thread served its delivery report, and the events
\* of a bulk that share a partition lie there in the order of the bulk.
AnswerHolds ==
    \A r \in Requests : answer[r] = "ok" =>
        /\ Len(results[r]) = Len(Body[r])
        /\ \A n \in 1 .. Len(Body[r]) : IsAt(<<r, n>>, results[r][n])
        /\ \A n \in 1 .. Len(Body[r]) : \A k \in 1 .. n - 1 :
              Home(<<r, k>>) = Home(<<r, n>>) => results[r][k] < results[r][n]

\* A request answered 400 has published nothing and never will.
RefusedUnpublished ==
    \A m \in Messages : answer[m[1]] = "refused" => m \notin queue /\ ~InLog(m)

\* Whatever fails, what a bulk has handed to Kafka is a prefix, and all of it
\* but its last event is in the log: a retry of the rest keeps the order.
BulkInOrder ==
    \A m \in Messages :
        m \in queue \/ InLog(m) =>
            /\ m[2] <= at[m[1]]
            /\ \A k \in 1 .. m[2] - 1 : InLog(<<m[1], k>>)

\* What these need to be inductive: how far a thread is; that the messages of the
\* producer are the last ones their requests handed over; and what its reports say.
ThreadInHand ==
    \A r \in Requests :
        /\ Len(results[r]) <= at[r] /\ at[r] <= Len(results[r]) + 1
        /\ at[r] <= Len(Body[r])
        /\ pc[r] \in {"idle", "waiting"} => at[r] = 0
        /\ pc[r] = "publish" => Len(results[r]) = at[r]
        /\ pc[r] = "flush" => Len(results[r]) + 1 = at[r]
        /\ pc[r] # "done" => answer[r] = "none"
        /\ answer[r] = "refused" => at[r] = 0
        /\ answer[r] = "ok" => Len(results[r]) = Len(Body[r])

QueueInHand ==
    /\ IsFiniteSet(queue)
    /\ \A m \in queue : m[2] <= at[m[1]] /\ m[2] > Len(results[m[1]])
    /\ \A m \in Messages : InLog(m) => m[2] <= at[m[1]]

ReportsTrue ==
    \A m \in Messages :
        /\ outcome[m] \in Nat => IsAt(m, outcome[m])
        /\ delivery[m] \in Nat => IsAt(m, delivery[m])
        /\ m[2] <= at[m[1]] => m \in queue \/ delivery[m] # Unknown

ResultsTrue ==
    \A m \in Messages :
        m[2] <= Len(results[m[1]]) =>
            /\ IsAt(m, results[m[1]][m[2]])
            /\ \A k \in Messages : \A o \in 0 .. Len(log[Home(k)]) - 1 :
                  k[1] = m[1] /\ m[2] < k[2] /\ Home(k) = Home(m) /\ IsAt(k, o)
                      => results[m[1]][m[2]] < o

IInv == TypeOK /\ ThreadInHand /\ QueueInHand /\ ReportsTrue /\ ResultsTrue

\* No thread waits for ever: not for a full server, not for the messages of
\* other threads, not for a Kafka that does not answer.
EveryRequestAnswered == \A r \in Requests : pc[r] = "waiting" ~> answer[r] # "none"

\* What "Kafka delivery timed out" says to a client: its own event is one of the
\* messages that were not delivered when the time was over.
TimeoutIsOwn ==
    [][\A r \in Requests :
          answer'[r] = "timed_out" /\ answer[r] = "none" => InHand(r) \in queue]_vars

\* The answers keep the promise of PublishPromise.
Promise == INSTANCE PublishPromise WITH
    Publishable <- Events \ (Malformed \union Unserializable),
    tried <- at,
    answer <- [r \in Requests |->
                 IF answer[r] = "timed_out" THEN "unavailable" ELSE answer[r]],
    offsets <- [r \in Requests |-> IF answer[r] = "ok" THEN results[r] ELSE << >>]
ImplementsPromise == Promise!Spec
=============================================================================
