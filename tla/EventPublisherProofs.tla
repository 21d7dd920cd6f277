------------------------ MODULE EventPublisherProofs ------------------------
(***************************************************************************)
(* Theorems about EventPublisher, for any requests, events, partitions and *)
(* numbers of threads: its answers are true, a refused request published   *)
(* nothing, bulks stay in order, and it implements PublishPromise.         *)
(***************************************************************************)
EXTENDS EventPublisher, FiniteSetTheorems, TLAPS

\* A message is a request and the index of one of its events.
LEMMA MessageStructure ==
    ASSUME NEW m \in Messages
    PROVE  /\ m[1] \in Requests
           /\ m[2] \in Nat /\ m[2] >= 1
           /\ Len(Body[m[1]]) \in Nat /\ m[2] <= Len(Body[m[1]])
           /\ m = <<m[1], m[2]>>
           /\ Body[m[1]][m[2]] \in Events
           /\ Home(m) \in Partitions
<1>1. PICK r \in Requests : m \in {r} \X (1 .. Len(Body[r]))
  BY DEF Messages
<1>2. Body[r] \in Seq(Events)
  BY PublisherAssumption
<1>3. Len(Body[r]) \in Nat
  BY <1>2
<1>4. m[1] = r /\ m[2] \in 1 .. Len(Body[r]) /\ m = <<m[1], m[2]>>
  BY <1>1
<1>5. Body[r][m[2]] \in Events
  BY <1>2, <1>4
<1>6. PartitionOf[Body[r][m[2]]] \in Partitions
  BY <1>5, PublisherAssumption
<1> QED
  BY <1>3, <1>4, <1>5, <1>6 DEF Home

LEMMA MessageIntro ==
    ASSUME NEW r \in Requests, NEW n \in Nat, n >= 1, n <= Len(Body[r])
    PROVE  <<r, n>> \in Messages
<1>1. Len(Body[r]) \in Nat
  BY PublisherAssumption
<1>2. <<r, n>> \in {r} \X (1 .. Len(Body[r]))
  BY <1>1
<1> QED
  BY <1>2 DEF Messages

-----------------------------------------------------------------------------
(* The log only grows.                                                     *)

\* IsAt after the step, for a place named before it.
WillBeAt(m, o) == o \in 0 .. Len(log'[Home(m)]) - 1 /\ log'[Home(m)][o + 1] = m

LEMMA AppendGrows ==
    ASSUME TypeOK, NEW m \in Messages, NEW b \in BOOLEAN, Append1(m, b)
    PROVE  /\ log' \in [Partitions -> Seq(Messages)]
           /\ log'[Home(m)] = Append(log[Home(m)], m)
           /\ \A p \in Partitions \ {Home(m)} : log'[p] = log[p]
           /\ Len(log[Home(m)]) \in Nat
           /\ WillBeAt(m, Len(log[Home(m)]))
<1>1. log \in [Partitions -> Seq(Messages)] /\ Home(m) \in Partitions
  BY MessageStructure DEF TypeOK
<1>2. log' = [log EXCEPT ![Home(m)] = Append(@, m)]
  BY DEF Append1
<1>3. /\ log[Home(m)] \in Seq(Messages)
      /\ Append(log[Home(m)], m) \in Seq(Messages)
      /\ Len(log[Home(m)]) \in Nat
      /\ Len(Append(log[Home(m)], m)) = Len(log[Home(m)]) + 1
      /\ Append(log[Home(m)], m)[Len(log[Home(m)]) + 1] = m
  BY <1>1
<1>4. log'[Home(m)] = Append(log[Home(m)], m)
  BY <1>1, <1>2
<1>5. WillBeAt(m, Len(log[Home(m)]))
  BY <1>3, <1>4 DEF WillBeAt
<1> QED
  BY <1>1, <1>2, <1>3, <1>4, <1>5

\* What lies somewhere stays there; what is new is the message appended.
LEMMA PlacesAfterAppend ==
    ASSUME TypeOK, NEW m \in Messages, NEW b \in BOOLEAN, Append1(m, b),
           NEW k \in Messages, NEW o \in Int
    PROVE  /\ IsAt(k, o) => WillBeAt(k, o)
           /\ WillBeAt(k, o) => \/ IsAt(k, o)
                                \/ k = m /\ o = Len(log[Home(m)])
<1>1. Home(k) \in Partitions /\ Home(m) \in Partitions
  BY MessageStructure
<1>2. log[Home(k)] \in Seq(Messages) /\ Len(log[Home(k)]) \in Nat
  BY <1>1 DEF TypeOK
<1>4. CASE Home(k) = Home(m)
  <2>1. log'[Home(k)] = Append(log[Home(k)], m)
    BY <1>4, AppendGrows
  <2>2. Len(log'[Home(k)]) = Len(log[Home(k)]) + 1
    BY <2>1, <1>2
  <2>3. ASSUME o \in 0 .. Len(log[Home(k)]) - 1
        PROVE  log'[Home(k)][o + 1] = log[Home(k)][o + 1]
    <3>1. o + 1 \in 1 .. Len(log[Home(k)])
      BY <2>3, <1>2
    <3> QED
      BY <2>1, <3>1, <1>2
  <2>4. log'[Home(k)][Len(log[Home(k)]) + 1] = m
    BY <2>1, <1>2
  <2> QED
    BY <2>2, <2>3, <2>4, <1>2, <1>4 DEF IsAt, WillBeAt
<1>5. CASE Home(k) # Home(m)
  <2>1. log'[Home(k)] = log[Home(k)]
    BY <1>1, <1>5, AppendGrows
  <2> QED
    BY <2>1 DEF IsAt, WillBeAt
<1> QED
  BY <1>4, <1>5

-----------------------------------------------------------------------------
(* Kinds of steps: most only move a thread; the others are the interface   *)
(* between threads, producer and Kafka.                                    *)

\* The steps that touch neither the log nor the producer nor the results.
Quiet == UNCHANGED <<log, queue, outcome, delivery, at, results>>

\* Thread r goes from one point to another and may answer.
Moves(r, from, to, a) ==
    /\ pc[r] \in from
    /\ pc' = [pc EXCEPT ![r] = to]
    /\ answer' = [answer EXCEPT ![r] = a]

\* What a thread does besides producing, taking a report and finishing.
Goes(r) ==
    /\ Quiet
    /\ known' \subseteq known \union Versions
    /\ \/ Moves(r, {"idle"}, "waiting", "none")
       \/ Moves(r, {"waiting"}, "publish", "none")
       \/ Moves(r, {"publish", "flush"}, "done", "unavailable")
       \/ Moves(r, {"flush"}, "done", "timed_out")
       \/ /\ r \notin Bulk /\ at[r] < Len(Body[r])
          /\ Moves(r, {"publish"}, "done", "refused")

LEMMA NoAnswerYet ==
    ASSUME TypeOK, ThreadInHand, NEW r \in Requests, pc[r] # "done", answer' = answer
    PROVE  answer' = [answer EXCEPT ![r] = "none"]
BY DEF TypeOK, ThreadInHand

LEMMA Kinds ==
    ASSUME TypeOK, ThreadInHand, Next
    PROVE  \/ \E r \in Requests : Goes(r) \/ Finish(r) \/ Produce(r) \/ Delivered(r)
           \/ \E m \in Messages : Serve(m) \/ GiveUp(m) \/ Append1(m, TRUE) \/ Append1(m, FALSE)
<1>1. ASSUME NEW r \in Requests, Send(r) \/ Thread(r)
      PROVE  Goes(r) \/ Finish(r) \/ Produce(r) \/ Delivered(r)
  <2>1. CASE Send(r)
    BY <2>1, NoAnswerYet DEF Send, Quiet, Moves, Goes
  <2>2. CASE Begin(r)
    BY <2>2, NoAnswerYet DEF Begin, Quiet, Moves, Goes
  <2>3. CASE NormalizeFails(r)
    BY <2>3 DEF NormalizeFails, Answer, Publishing, Quiet, Moves, Goes
  <2>4. CASE EncodeFails(r)
    BY <2>4 DEF EncodeFails, Answer, Publishing, Quiet, Moves, Goes
  <2>5. CASE ProduceFails(r)
    <3>1. Len(Body[r]) \in Nat /\ at[r] \in Nat /\ Body[r] \in Seq(Events)
      BY PublisherAssumption DEF TypeOK
    <3>2. at[r] + 1 \in 1 .. Len(Body[r])
      BY <3>1, <2>5 DEF ProduceFails, Encodes, Publishing
    <3>3. VersionOf[NextEvent(r)] \in Versions
      BY <3>1, <3>2, PublisherAssumption DEF NextEvent
    <3> QED
      BY <3>3, <2>5 DEF ProduceFails, Encodes, Answer, Publishing, Quiet, Moves, Goes
  <2>6. CASE DeliveryFailed(r)
    BY <2>6 DEF DeliveryFailed, Flushing, Answer, Quiet, Moves, Goes
  <2>7. CASE FlushTimesOut(r)
    BY <2>7 DEF FlushTimesOut, Flushing, Answer, Quiet, Moves, Goes
  <2> QED
    BY <1>1, <2>1, <2>2, <2>3, <2>4, <2>5, <2>6, <2>7 DEF Thread
<1> QED
  BY <1>1 DEF Next, Kafka, Acknowledge, LoseAck

-----------------------------------------------------------------------------
(* Each kind preserves the invariant.                                      *)

LEMMA QuietKeeps ==
    ASSUME IInv, Quiet
    PROVE  QueueInHand' /\ ReportsTrue' /\ ResultsTrue'
<1>1. \A m, o : IsAt(m, o)' <=> IsAt(m, o)
  BY DEF Quiet, IsAt, Home
<1>2. \A m : InLog(m)' <=> InLog(m)
  BY <1>1 DEF Quiet, InLog, Home
<1>3. QueueInHand'
  BY <1>2 DEF IInv, QueueInHand, Quiet
<1>4. ReportsTrue'
  BY <1>1 DEF IInv, ReportsTrue, Quiet
<1>5. ResultsTrue'
  BY <1>1 DEF IInv, ResultsTrue, Quiet, Home
<1> QED
  BY <1>3, <1>4, <1>5

LEMMA GoesKeeps ==
    ASSUME IInv, NEW r \in Requests, Goes(r)
    PROVE  IInv'
<1>1. /\ TypeOK'
      /\ at' = at /\ results' = results
      /\ \A q \in Requests \ {r} : pc'[q] = pc[q] /\ answer'[q] = answer[q]
  BY DEF IInv, TypeOK, Goes, Quiet, Moves, Answers, Home
<1>2. \/ pc[r] = "idle" /\ pc'[r] = "waiting" /\ answer'[r] = "none"
      \/ pc[r] = "waiting" /\ pc'[r] = "publish" /\ answer'[r] = "none"
      \/ pc'[r] = "done" /\ answer'[r] \in {"unavailable", "timed_out"}
      \/ /\ pc[r] = "publish" /\ r \notin Bulk /\ at[r] < Len(Body[r])
         /\ pc'[r] = "done" /\ answer'[r] = "refused"
  BY DEF IInv, TypeOK, Goes, Moves
<1>3. Len(Body[r]) \in Nat /\ at[r] \in Nat /\ (r \notin Bulk => Len(Body[r]) <= 1)
      /\ Len(results[r]) \in Nat
  BY PublisherAssumption DEF IInv, TypeOK
<1>4. ThreadInHand'
  <2> SUFFICES ASSUME NEW q \in Requests
               PROVE  /\ Len(results[q]) <= at[q] /\ at[q] <= Len(results[q]) + 1
                      /\ at[q] <= Len(Body[q])
                      /\ pc'[q] \in {"idle", "waiting"} => at[q] = 0
                      /\ pc'[q] = "publish" => Len(results[q]) = at[q]
                      /\ pc'[q] = "flush" => Len(results[q]) + 1 = at[q]
                      /\ pc'[q] # "done" => answer'[q] = "none"
                      /\ answer'[q] = "refused" => at[q] = 0
                      /\ answer'[q] = "ok" => Len(results[q]) = Len(Body[q])
    BY <1>1 DEF ThreadInHand
  <2>1. CASE q = r
    BY <1>2, <1>3, <2>1 DEF IInv, ThreadInHand
  <2>2. CASE q # r
    BY <1>1, <2>2 DEF IInv, ThreadInHand
  <2> QED
    BY <2>1, <2>2
<1> QED
  BY <1>1, <1>4, QuietKeeps DEF IInv, Goes

LEMMA FinishKeeps ==
    ASSUME IInv, NEW r \in Requests, Finish(r)
    PROVE  IInv'
<1>1. /\ TypeOK' /\ Quiet
      /\ at' = at /\ results' = results
      /\ pc'[r] = "done" /\ answer'[r] = "ok"
      /\ \A q \in Requests \ {r} : pc'[q] = pc[q] /\ answer'[q] = answer[q]
  BY DEF IInv, TypeOK, Finish, Quiet, Answer, Answers, Home
<1>2. Len(results[r]) = at[r] /\ at[r] = Len(Body[r])
  BY DEF IInv, ThreadInHand, Finish
<1>3. ThreadInHand'
  BY <1>1, <1>2 DEF IInv, ThreadInHand
<1> QED
  BY <1>1, <1>3, QuietKeeps DEF IInv

LEMMA SamePlaces ==
    ASSUME log' = log
    PROVE  /\ \A m, o : IsAt(m, o)' <=> IsAt(m, o)
           /\ \A m : InLog(m)' <=> InLog(m)
BY DEF IsAt, InLog, Home

LEMMA ProduceKeeps ==
    ASSUME IInv, NEW r \in Requests, Produce(r)
    PROVE  IInv'
<1> DEFINE new == <<r, at[r] + 1>>
<1>1. /\ pc[r] = "publish" /\ Len(results[r]) = at[r] /\ answer[r] = "none"
      /\ Len(Body[r]) \in Nat /\ at[r] \in Nat /\ at[r] < Len(Body[r])
  BY PublisherAssumption DEF IInv, TypeOK, ThreadInHand, Produce, Encodes, Publishing
<1>2. new \in Messages /\ new \notin queue
  BY <1>1, MessageIntro DEF IInv, QueueInHand
<1>3. /\ IsFiniteSet(queue') /\ Cardinality(queue') <= MaxQueue
      /\ queue' = queue \union {new}
  <2>1. queue' = queue \union {new} /\ Cardinality(queue) < MaxQueue
    BY DEF Produce, Handed
  <2>2. IsFiniteSet(queue) /\ Cardinality(queue) \in Nat
    BY FS_CardinalityType DEF IInv, QueueInHand
  <2>3. IsFiniteSet(queue') /\ Cardinality(queue') = Cardinality(queue) + 1
    BY <1>2, <2>1, <2>2, FS_AddElement
  <2> QED
    BY <2>1, <2>2, <2>3, PublisherAssumption
<1>4. /\ log' = log /\ outcome' = outcome /\ delivery' = delivery
      /\ results' = results /\ answer' = answer
      /\ at' = [at EXCEPT ![r] = @ + 1]
      /\ pc' = [pc EXCEPT ![r] = "flush"]
      /\ known' = known \union {VersionOf[NextEvent(r)]}
  BY DEF Produce, Handed
<1>5. VersionOf[NextEvent(r)] \in Versions
  <2>1. Body[r] \in Seq(Events) /\ at[r] + 1 \in 1 .. Len(Body[r])
    BY <1>1, PublisherAssumption
  <2> QED
    BY <2>1, PublisherAssumption DEF NextEvent
<1> HIDE DEF new
<1>6. TypeOK'
  BY <1>1, <1>2, <1>3, <1>4, <1>5 DEF IInv, TypeOK, Home
<1>7. /\ at'[r] = at[r] + 1 /\ pc'[r] = "flush"
      /\ \A q \in Requests \ {r} : at'[q] = at[q] /\ pc'[q] = pc[q]
  BY <1>4 DEF IInv, TypeOK
<1>8. ThreadInHand'
  BY <1>1, <1>4, <1>7 DEF IInv, ThreadInHand
<1>9. \A m \in Messages : m[2] <= at'[m[1]] <=> m[2] <= at[m[1]] \/ m = new
  <2> SUFFICES ASSUME NEW m \in Messages
               PROVE  m[2] <= at'[m[1]] <=> m[2] <= at[m[1]] \/ m = new
    OBVIOUS
  <2>1. m[1] \in Requests /\ m[2] \in Nat /\ m = <<m[1], m[2]>>
    BY MessageStructure
  <2> QED
    BY <1>1, <1>7, <2>1 DEF new
<1>10. new[1] = r /\ new[2] = at[r] + 1
  BY DEF new
<1>11. QueueInHand'
  <2>1. ASSUME NEW m \in queue'
        PROVE  m[2] <= at'[m[1]] /\ m[2] > Len(results'[m[1]])
    <3>1. m \in Messages
      BY <1>2, <1>3 DEF IInv, TypeOK
    <3>2. CASE m \in queue
      BY <1>4, <1>9, <3>1, <3>2 DEF IInv, QueueInHand
    <3>3. CASE m = new
      BY <1>1, <1>4, <1>9, <1>10, <3>1, <3>3
    <3> QED
      BY <1>3, <3>2, <3>3
  <2> QED
    BY <1>3, <1>4, <1>9, <2>1, SamePlaces DEF IInv, QueueInHand
<1>12. ReportsTrue'
  BY <1>3, <1>4, <1>9, SamePlaces DEF IInv, ReportsTrue
<1>13. ResultsTrue'
  BY <1>4, SamePlaces DEF IInv, ResultsTrue, Home
<1> QED
  BY <1>6, <1>8, <1>11, <1>12, <1>13 DEF IInv

LEMMA ServeKeeps ==
    ASSUME IInv, NEW m \in Messages, Serve(m)
    PROVE  IInv'
<1>1. /\ m \in queue /\ outcome[m] # Unknown
      /\ delivery' = [delivery EXCEPT ![m] = outcome[m]]
      /\ queue' = queue \ {m}
      /\ log' = log /\ outcome' = outcome /\ known' = known /\ pc' = pc
      /\ at' = at /\ results' = results /\ answer' = answer
  BY DEF Serve
<1>2. IsFiniteSet(queue') /\ Cardinality(queue') <= MaxQueue
  <2>1. IsFiniteSet(queue) /\ Cardinality(queue) \in Nat
    BY FS_CardinalityType DEF IInv, QueueInHand
  <2>2. IsFiniteSet(queue') /\ Cardinality(queue') = Cardinality(queue) - 1
    BY <1>1, <2>1, FS_RemoveElement
  <2> QED
    BY <2>1, <2>2, PublisherAssumption DEF IInv, TypeOK
<1>3. TypeOK'
  BY <1>1, <1>2 DEF IInv, TypeOK, Home
<1>4. ThreadInHand'
  BY <1>1 DEF IInv, ThreadInHand
<1>5. QueueInHand'
  BY <1>1, <1>2, SamePlaces DEF IInv, QueueInHand
<1>6. /\ delivery'[m] = outcome[m]
      /\ \A k \in Messages \ {m} : delivery'[k] = delivery[k]
  BY <1>1 DEF IInv, TypeOK
<1>7. ReportsTrue'
  BY <1>1, <1>6, SamePlaces DEF IInv, ReportsTrue
<1>8. ResultsTrue'
  BY <1>1, SamePlaces DEF IInv, ResultsTrue, Home
<1> QED
  BY <1>3, <1>4, <1>5, <1>7, <1>8 DEF IInv

LEMMA GiveUpKeeps ==
    ASSUME IInv, NEW m \in Messages, GiveUp(m)
    PROVE  IInv'
<1>1. /\ outcome' = [outcome EXCEPT ![m] = Lost]
      /\ log' = log /\ queue' = queue /\ delivery' = delivery /\ known' = known
      /\ pc' = pc /\ at' = at /\ results' = results /\ answer' = answer
  BY DEF GiveUp
<1>2. TypeOK'
  BY <1>1 DEF IInv, TypeOK, Home
<1>3. ThreadInHand' /\ QueueInHand' /\ ResultsTrue'
  BY <1>1, SamePlaces DEF IInv, ThreadInHand, QueueInHand, ResultsTrue, Home
<1>4. /\ outcome'[m] = Lost
      /\ \A k \in Messages \ {m} : outcome'[k] = outcome[k]
  BY <1>1 DEF IInv, TypeOK
<1>5. ReportsTrue'
  BY <1>1, <1>4, SamePlaces DEF IInv, ReportsTrue, Lost
<1> QED
  BY <1>2, <1>3, <1>5 DEF IInv

LEMMA AppendKeeps ==
    ASSUME IInv, NEW m \in Messages, NEW b \in BOOLEAN, Append1(m, b)
    PROVE  IInv'
<1>1. TypeOK /\ QueueInHand /\ ReportsTrue /\ ResultsTrue
  BY DEF IInv
<1>2. /\ m \in queue /\ outcome[m] = Unknown
      /\ queue' = queue /\ delivery' = delivery /\ known' = known
      /\ pc' = pc /\ at' = at /\ results' = results /\ answer' = answer
      /\ outcome' = [outcome EXCEPT ![m] =
                        IF b THEN Len(log[Home(m)]) ELSE Unknown]
  BY DEF Append1
<1>3. Len(log[Home(m)]) \in Nat /\ log' \in [Partitions -> Seq(Messages)]
  BY <1>1, AppendGrows
<1>4. TypeOK'
  BY <1>2, <1>3 DEF IInv, TypeOK, Home
<1>5. ThreadInHand'
  BY <1>2 DEF IInv, ThreadInHand
<1>6. \A k \in Messages : InLog(k)' => InLog(k) \/ k = m
  <2> SUFFICES ASSUME NEW k \in Messages, InLog(k)', k # m
               PROVE  InLog(k)
    OBVIOUS
  <2>1. PICK o \in Int : WillBeAt(k, o)
    BY DEF InLog, IsAt, WillBeAt, Home
  <2>2. IsAt(k, o)
    BY <1>1, <2>1, PlacesAfterAppend
  <2> QED
    BY <2>2 DEF InLog, IsAt
<1>7. QueueInHand'
  BY <1>2, <1>6 DEF IInv, QueueInHand
<1>8. ReportsTrue'
  <2>1. \A k \in Messages, o \in Nat : IsAt(k, o) => WillBeAt(k, o)
    BY <1>1, PlacesAfterAppend
  <2>2. /\ outcome'[m] = Unknown \/ outcome'[m] = Len(log[Home(m)])
        /\ \A k \in Messages \ {m} : outcome'[k] = outcome[k]
    BY <1>2 DEF IInv, TypeOK
  <2>3. WillBeAt(m, Len(log[Home(m)]))
    BY <1>1, AppendGrows
  <2>4. \A k \in Messages : outcome'[k] \in Nat => WillBeAt(k, outcome'[k])
    BY <1>1, <2>1, <2>2, <2>3 DEF ReportsTrue, Unknown
  <2>5. \A k \in Messages : delivery[k] \in Nat => WillBeAt(k, delivery[k])
    BY <1>1, <2>1 DEF ReportsTrue
  <2> QED
    BY <1>1, <1>2, <2>4, <2>5 DEF ReportsTrue, IsAt, Home, WillBeAt
<1>9. ResultsTrue'
  <2> SUFFICES ASSUME NEW k \in Messages, k[2] <= Len(results[k[1]])
               PROVE  /\ WillBeAt(k, results[k[1]][k[2]])
                      /\ \A j \in Messages : \A o \in 0 .. Len(log'[Home(j)]) - 1 :
                            j[1] = k[1] /\ k[2] < j[2] /\ Home(j) = Home(k) /\ WillBeAt(j, o)
                               => results[k[1]][k[2]] < o
    BY <1>2 DEF ResultsTrue, IsAt, Home, WillBeAt
  <2>1. IsAt(k, results[k[1]][k[2]])
    BY <1>1 DEF ResultsTrue
  <2>2. results[k[1]][k[2]] \in Int
    BY <2>1 DEF IsAt
  <2>3. WillBeAt(k, results[k[1]][k[2]])
    BY <1>1, <2>1, <2>2, PlacesAfterAppend
  <2>4. ASSUME NEW j \in Messages, NEW o \in Int,
               j[1] = k[1], k[2] < j[2], Home(j) = Home(k), WillBeAt(j, o)
        PROVE  results[k[1]][k[2]] < o
    <3>1. CASE IsAt(j, o)
      BY <1>1, <2>4, <3>1 DEF ResultsTrue, IsAt
    <3>2. CASE j = m /\ o = Len(log[Home(m)])
      BY <1>3, <2>1, <2>4, <3>2 DEF IsAt
    <3> QED
      BY <1>1, <2>4, <3>1, <3>2, PlacesAfterAppend
  <2> QED
    BY <2>3, <2>4
<1> QED
  BY <1>4, <1>5, <1>7, <1>8, <1>9 DEF IInv

LEMMA DeliveredKeeps ==
    ASSUME IInv, NEW r \in Requests, Delivered(r)
    PROVE  IInv'
<1> DEFINE mine == InHand(r)
<1>1. /\ pc[r] = "flush" /\ queue = {} /\ delivery[mine] # Lost
      /\ results' = [results EXCEPT ![r] = Append(@, delivery[mine])]
      /\ pc' = [pc EXCEPT ![r] = "publish"]
      /\ log' = log /\ queue' = queue /\ outcome' = outcome /\ delivery' = delivery
      /\ known' = known /\ at' = at /\ answer' = answer
  BY DEF Delivered, Flushing
<1>2. /\ Len(results[r]) + 1 = at[r] /\ at[r] <= Len(Body[r]) /\ answer[r] = "none"
      /\ at[r] \in Nat /\ results[r] \in Seq(Int) /\ Len(results[r]) \in Nat
  BY <1>1 DEF IInv, ThreadInHand, TypeOK
<1>3. mine \in Messages /\ mine[1] = r /\ mine[2] = at[r]
  BY <1>2, MessageIntro DEF InHand
<1> HIDE DEF mine
<1>4. delivery[mine] \in Nat /\ IsAt(mine, delivery[mine])
  BY <1>1, <1>2, <1>3 DEF IInv, ReportsTrue, TypeOK
<1>5. /\ results'[r] = Append(results[r], delivery[mine])
      /\ \A q \in Requests \ {r} : results'[q] = results[q] /\ pc'[q] = pc[q]
      /\ pc'[r] = "publish"
  BY <1>1 DEF IInv, TypeOK
<1>6. /\ Len(results'[r]) = at[r]
      /\ results'[r] \in Seq(Int)
      /\ results'[r][at[r]] = delivery[mine]
      /\ \A n \in 1 .. Len(results[r]) : results'[r][n] = results[r][n]
  BY <1>2, <1>4, <1>5
<1>7. TypeOK'
  <2>1. results' \in [Requests -> Seq(Int)]
    BY <1>1, <1>5, <1>6 DEF IInv, TypeOK
  <2> QED
    BY <1>1, <2>1 DEF IInv, TypeOK, Home
<1>8. ThreadInHand'
  <2> SUFFICES ASSUME NEW q \in Requests
               PROVE  /\ Len(results'[q]) <= at[q] /\ at[q] <= Len(results'[q]) + 1
                      /\ at[q] <= Len(Body[q])
                      /\ pc'[q] \in {"idle", "waiting"} => at[q] = 0
                      /\ pc'[q] = "publish" => Len(results'[q]) = at[q]
                      /\ pc'[q] = "flush" => Len(results'[q]) + 1 = at[q]
                      /\ pc'[q] # "done" => answer[q] = "none"
                      /\ answer[q] = "refused" => at[q] = 0
                      /\ answer[q] = "ok" => Len(results'[q]) = Len(Body[q])
    BY <1>1 DEF ThreadInHand
  <2>1. CASE q = r
    BY <1>2, <1>5, <1>6, <2>1
  <2>2. CASE q # r
    BY <1>5, <2>2 DEF IInv, ThreadInHand
  <2> QED
    BY <2>1, <2>2
<1>9. QueueInHand'
  BY <1>1, SamePlaces DEF IInv, QueueInHand
<1>10. ReportsTrue'
  BY <1>1, SamePlaces DEF IInv, ReportsTrue
<1>11. ResultsTrue'
  <2>0. log' = log
    BY <1>1
  <2> SUFFICES ASSUME NEW m \in Messages, m[2] <= Len(results'[m[1]])
               PROVE  /\ IsAt(m, results'[m[1]][m[2]])
                      /\ \A k \in Messages : \A o \in 0 .. Len(log[Home(k)]) - 1 :
                            k[1] = m[1] /\ m[2] < k[2] /\ Home(k) = Home(m) /\ IsAt(k, o)
                                => results'[m[1]][m[2]] < o
    BY <2>0 DEF ResultsTrue, Home, IsAt
  <2>1. m[1] \in Requests /\ m[2] \in Nat /\ m[2] >= 1 /\ m = <<m[1], m[2]>>
    BY MessageStructure
  <2>2. CASE m[2] <= Len(results[m[1]])
    <3>1. results'[m[1]][m[2]] = results[m[1]][m[2]]
      BY <1>2, <1>5, <1>6, <2>1, <2>2
    <3> QED
      BY <2>2, <3>1 DEF IInv, ResultsTrue
  <2>3. CASE m[1] = r /\ m[2] = at[r]
    <3>1. m = mine /\ results'[m[1]][m[2]] = delivery[mine]
      BY <1>6, <2>1, <2>3 DEF mine, InHand
    <3>2. ASSUME NEW k \in Messages, NEW o \in 0 .. Len(log[Home(k)]) - 1,
                 k[1] = m[1], m[2] < k[2], IsAt(k, o)
          PROVE  FALSE
      <4>1. InLog(k)
        BY <3>2 DEF InLog
      <4>2. k[2] <= at[k[1]] /\ k[2] \in Nat
        BY <4>1, MessageStructure DEF IInv, QueueInHand
      <4> QED
        BY <1>2, <2>3, <3>2, <4>2
    <3> QED
      BY <1>4, <3>1, <3>2
  <2> QED
    BY <1>2, <1>5, <1>6, <2>1, <2>2, <2>3
<1> QED
  BY <1>7, <1>8, <1>9, <1>10, <1>11 DEF IInv

LEMMA StutterKeeps ==
    ASSUME IInv, UNCHANGED vars
    PROVE  IInv'
<1>1. Quiet /\ log' = log /\ known' = known /\ pc' = pc /\ answer' = answer /\ at' = at
      /\ results' = results
  BY DEF vars, Quiet
<1>2. TypeOK' /\ ThreadInHand'
  BY <1>1 DEF IInv, TypeOK, ThreadInHand, Quiet, Home
<1> QED
  BY <1>1, <1>2, QuietKeeps DEF IInv

LEMMA InitHolds ==
    ASSUME Init
    PROVE  IInv
<1>1. \A m \in Messages : log[Home(m)] = << >> /\ ~InLog(m) /\ m[2] >= 1 /\ m[2] \in Nat
                           /\ m[1] \in Requests
  <2> SUFFICES ASSUME NEW m \in Messages
               PROVE  log[Home(m)] = << >> /\ ~InLog(m) /\ m[2] >= 1 /\ m[2] \in Nat
                      /\ m[1] \in Requests
    OBVIOUS
  <2>1. log[Home(m)] = << >>
    BY MessageStructure DEF Init
  <2>2. Len(log[Home(m)]) = 0
    BY <2>1
  <2>3. ~InLog(m)
    BY <2>2 DEF InLog
  <2> QED
    BY <2>1, <2>3, MessageStructure
<1>2. IsFiniteSet(queue) /\ Cardinality(queue) = 0 /\ queue = {}
  BY FS_EmptySet DEF Init
<1>3. TypeOK
  BY <1>2, PublisherAssumption DEF Init, TypeOK, Answers
<1>4. ThreadInHand
  BY PublisherAssumption DEF Init, ThreadInHand
<1>5. QueueInHand
  BY <1>1, <1>2 DEF QueueInHand
<1>6. ReportsTrue
  BY <1>1 DEF Init, ReportsTrue, Unknown
<1>7. ResultsTrue
  <2>1. \A m \in Messages : Len(results[m[1]]) = 0
    BY <1>1 DEF Init
  <2> QED
    BY <1>1, <2>1 DEF ResultsTrue
<1> QED
  BY <1>3, <1>4, <1>5, <1>6, <1>7 DEF IInv

LEMMA StepKeeps ==
    ASSUME IInv, [Next]_vars
    PROVE  IInv'
<1>1. CASE UNCHANGED vars
  BY <1>1, StutterKeeps
<1>2. CASE Next
  <2>1. \/ \E r \in Requests : Goes(r) \/ Finish(r) \/ Produce(r) \/ Delivered(r)
        \/ \E m \in Messages : Serve(m) \/ GiveUp(m) \/ Append1(m, TRUE) \/ Append1(m, FALSE)
    BY <1>2, Kinds DEF IInv
  <2> QED
    BY <2>1, GoesKeeps, FinishKeeps, ProduceKeeps, DeliveredKeeps,
       ServeKeeps, GiveUpKeeps, AppendKeeps
<1> QED
  BY <1>1, <1>2

LEMMA Invariance == Spec => []IInv
<1>1. Init => IInv
  BY InitHolds
<1>2. IInv /\ [Next]_vars => IInv'
  BY StepKeeps
<1> QED
  BY <1>1, <1>2, PTL DEF Spec

-----------------------------------------------------------------------------
(* The theorems.                                                           *)

\* The variables keep their types, and the producer never holds more than
\* queue.buffering.max.messages: produce refuses what does not fit.
THEOREM TypeCorrect == Spec => []TypeOK
<1>1. IInv => TypeOK
  BY DEF IInv
<1> QED
  BY <1>1, Invariance, PTL

\* The offsets of an answer 200 are those of the request's own events, in the
\* order of its body, although any thread may have served their reports.
THEOREM AnswersTrue == Spec => []AnswerHolds
<1>1. ASSUME IInv
      PROVE  AnswerHolds
  <2> SUFFICES ASSUME NEW r \in Requests, answer[r] = "ok"
               PROVE  /\ Len(results[r]) = Len(Body[r])
                      /\ \A n \in 1 .. Len(Body[r]) : IsAt(<<r, n>>, results[r][n])
                      /\ \A n \in 1 .. Len(Body[r]) : \A k \in 1 .. n - 1 :
                            Home(<<r, k>>) = Home(<<r, n>>) => results[r][k] < results[r][n]
    BY DEF AnswerHolds
  <2>1. Len(results[r]) = Len(Body[r]) /\ Len(Body[r]) \in Nat
    BY <1>1, PublisherAssumption DEF IInv, ThreadInHand
  <2>2. \A n \in 1 .. Len(Body[r]) :
           <<r, n>> \in Messages /\ <<r, n>>[1] = r /\ <<r, n>>[2] = n
    BY <2>1, MessageIntro
  <2>3. \A n \in 1 .. Len(Body[r]) : IsAt(<<r, n>>, results[r][n])
    BY <1>1, <2>1, <2>2 DEF IInv, ResultsTrue
  <2>4. ASSUME NEW n \in 1 .. Len(Body[r]), NEW k \in 1 .. n - 1,
               Home(<<r, k>>) = Home(<<r, n>>)
        PROVE  results[r][k] < results[r][n]
    <3>1. k \in 1 .. Len(Body[r]) /\ k < n
      BY <2>1
    <3>2. results[r][n] \in 0 .. Len(log[Home(<<r, n>>)]) - 1
      BY <2>3 DEF IsAt
    <3> QED
      BY <1>1, <2>1, <2>2, <2>3, <2>4, <3>1, <3>2 DEF IInv, ResultsTrue
  <2> QED
    BY <2>1, <2>3, <2>4
<1> QED
  BY <1>1, Invariance, PTL

\* 400 means that nothing was published: the client may correct and resend.
THEOREM RefusedNeverPublished == Spec => []RefusedUnpublished
<1>1. ASSUME IInv
      PROVE  RefusedUnpublished
  BY <1>1, MessageStructure DEF IInv, ThreadInHand, QueueInHand, RefusedUnpublished
<1> QED
  BY <1>1, Invariance, PTL

\* A bulk that fails in the middle has published a prefix.
THEOREM BulksInOrder == Spec => []BulkInOrder
<1>1. ASSUME IInv
      PROVE  BulkInOrder
  <2> SUFFICES ASSUME NEW m \in Messages, m \in queue \/ InLog(m)
               PROVE  /\ m[2] <= at[m[1]]
                      /\ \A k \in 1 .. m[2] - 1 : InLog(<<m[1], k>>)
    BY DEF BulkInOrder
  <2>1. /\ m[1] \in Requests /\ m[2] \in Nat /\ m[2] <= Len(Body[m[1]])
        /\ Len(Body[m[1]]) \in Nat
    BY MessageStructure
  <2>2. m[2] <= at[m[1]]
    BY <1>1 DEF IInv, QueueInHand
  <2>3. ASSUME NEW k \in 1 .. m[2] - 1
        PROVE  InLog(<<m[1], k>>)
    <3>1. <<m[1], k>> \in Messages /\ <<m[1], k>>[1] = m[1] /\ <<m[1], k>>[2] = k
      BY <2>1, MessageIntro
    <3>2. k <= Len(results[m[1]])
      BY <1>1, <2>1, <2>2 DEF IInv, ThreadInHand, TypeOK
    <3>3. IsAt(<<m[1], k>>, results[m[1]][k])
      BY <1>1, <3>1, <3>2 DEF IInv, ResultsTrue
    <3> QED
      BY <3>3 DEF InLog, IsAt
  <2> QED
    BY <2>2, <2>3
<1> QED
  BY <1>1, Invariance, PTL

-----------------------------------------------------------------------------
(* The refinement: a time-out is an answer "unavailable" of the promise,   *)
(* and the offsets are reported with the answer.                           *)

Answered == [r \in Requests |-> IF answer[r] = "timed_out" THEN "unavailable" ELSE answer[r]]
Reported == [r \in Requests |-> IF answer[r] = "ok" THEN results[r] ELSE << >>]

LEMMA GoesKeepsPromise ==
    ASSUME IInv, NEW r \in Requests, Goes(r)
    PROVE  [Promise!Next]_(Promise!vars)
<1>1. /\ answer \in [Requests -> Answers]
      /\ pc \in [Requests -> {"idle", "waiting", "publish", "flush", "done"}]
      /\ log' = log /\ at' = at /\ results' = results
  BY DEF IInv, TypeOK, Goes, Quiet
<1>2. pc[r] # "done" => answer[r] = "none"
  BY DEF IInv, ThreadInHand
<1>3. CASE Moves(r, {"idle"}, "waiting", "none") \/ Moves(r, {"waiting"}, "publish", "none")
  <2>1. answer' = answer
    BY <1>1, <1>2, <1>3 DEF Moves
  <2> QED
    BY <1>1, <2>1 DEF Promise!vars
<1>4. CASE Moves(r, {"publish", "flush"}, "done", "unavailable")
           \/ Moves(r, {"flush"}, "done", "timed_out")
  <2>1. answer[r] = "none" /\ answer'[r] \in {"unavailable", "timed_out"}
        /\ \A q \in Requests \ {r} : answer'[q] = answer[q]
    BY <1>1, <1>2, <1>4 DEF Moves
  <2>2. Answered' = [Answered EXCEPT ![r] = "unavailable"] /\ Answered[r] = "none"
    BY <1>1, <2>1 DEF Answered
  <2>3. Reported' = Reported
    BY <1>1, <2>1 DEF Reported
  <2>4. Promise!Fail(r)
    BY <1>1, <2>2, <2>3 DEF Promise!Fail, Answered, Reported
  <2> QED
    BY <2>4 DEF Promise!Next
<1>5. CASE /\ r \notin Bulk /\ at[r] < Len(Body[r])
           /\ Moves(r, {"publish"}, "done", "refused")
  <2>1. answer[r] = "none" /\ answer'[r] = "refused"
        /\ \A q \in Requests \ {r} : answer'[q] = answer[q]
    BY <1>1, <1>2, <1>5 DEF Moves
  <2>2. Answered' = [Answered EXCEPT ![r] = "refused"] /\ Answered[r] = "none"
    BY <1>1, <2>1 DEF Answered
  <2>3. Reported' = Reported
    BY <1>1, <2>1 DEF Reported
  <2>4. at[r] = 0
    BY <1>5, PublisherAssumption DEF IInv, TypeOK
  <2>5. Promise!Refuse(r)
    BY <1>1, <1>5, <2>2, <2>3, <2>4 DEF Promise!Refuse, Answered, Reported
  <2> QED
    BY <2>5 DEF Promise!Next
<1> QED
  BY <1>3, <1>4, <1>5 DEF Goes

LEMMA FinishKeepsPromise ==
    ASSUME IInv, NEW r \in Requests, Finish(r)
    PROVE  Promise!Next
<1>1. /\ answer \in [Requests -> Answers] /\ results \in [Requests -> Seq(Int)]
      /\ log' = log /\ at' = at /\ results' = results
      /\ answer' = [answer EXCEPT ![r] = "ok"] /\ answer[r] = "none"
      /\ at[r] = Len(Body[r]) /\ Len(results[r]) = Len(Body[r]) /\ Len(Body[r]) \in Nat
  BY PublisherAssumption DEF IInv, TypeOK, ThreadInHand, Finish, Answer
<1>2. \A n \in 1 .. Len(Body[r]) : IsAt(<<r, n>>, results[r][n]) /\ <<r, n>> \in Messages
  <2> SUFFICES ASSUME NEW n \in 1 .. Len(Body[r])
               PROVE  IsAt(<<r, n>>, results[r][n]) /\ <<r, n>> \in Messages
    OBVIOUS
  <2>1. <<r, n>> \in Messages /\ <<r, n>>[1] = r /\ <<r, n>>[2] = n
    BY <1>1, MessageIntro
  <2> QED
    BY <1>1, <2>1 DEF IInv, ResultsTrue
<1>3. /\ Answered' = [Answered EXCEPT ![r] = "ok"] /\ Answered[r] = "none"
      /\ Reported' = [Reported EXCEPT ![r] = results[r]]
  BY <1>1 DEF Answered, Reported
<1>4. \A n \in 1 .. Len(Body[r]) : Promise!IsAt(r, n, results[r][n])
  BY <1>2 DEF IsAt, Home, Promise!IsAt, Promise!Home
<1>5. results[r] \in [1 .. Len(Body[r]) -> UNION {0 .. Len(log[p]) : p \in Partitions}]
  <2>1. ASSUME NEW n \in 1 .. Len(Body[r])
        PROVE  results[r][n] \in UNION {0 .. Len(log[p]) : p \in Partitions}
    <3>1. Home(<<r, n>>) \in Partitions
      BY <1>2, MessageStructure
    <3>2. Len(log[Home(<<r, n>>)]) \in Nat
      BY <3>1 DEF IInv, TypeOK
    <3>3. results[r][n] \in 0 .. Len(log[Home(<<r, n>>)])
      BY <1>2, <3>2 DEF IsAt
    <3> QED
      BY <3>1, <3>3
  <2>2. results[r] \in [1 .. Len(results[r]) -> Int]
    BY <1>1
  <2> QED
    BY <1>1, <2>1, <2>2
<1>6. PICK list \in [1 .. Len(Body[r]) -> UNION {0 .. Len(log[p]) : p \in Partitions}] :
         list = results[r]
  BY <1>5
<1>7. Promise!Accept(r, list)
  BY <1>1, <1>3, <1>4, <1>6 DEF Promise!Accept, Answered, Reported
<1> QED
  BY <1>7 DEF Promise!Next

LEMMA ProduceKeepsPromise ==
    ASSUME IInv, NEW r \in Requests, Produce(r)
    PROVE  Promise!Next
<1>1. /\ answer[r] = "none" /\ at[r] < Len(Body[r]) /\ at[r] \in Nat
      /\ Len(results[r]) = at[r] /\ Len(Body[r]) \in Nat
      /\ at' = [at EXCEPT ![r] = @ + 1]
      /\ log' = log /\ results' = results /\ answer' = answer
  BY PublisherAssumption
     DEF IInv, TypeOK, ThreadInHand, Produce, Encodes, Publishing, Handed
<1>2. Body[r][at[r] + 1] \in Events \ (Malformed \union Unserializable)
  <2>1. Body[r] \in Seq(Events) /\ at[r] + 1 \in 1 .. Len(Body[r])
    BY <1>1, PublisherAssumption
  <2> QED
    BY <2>1 DEF Produce, Encodes, NextEvent
<1>3. at[r] > 0 => Promise!InLog(r, at[r])
  <2> SUFFICES ASSUME at[r] > 0
               PROVE  Promise!InLog(r, at[r])
    OBVIOUS
  <2>1. <<r, at[r]>> \in Messages /\ <<r, at[r]>>[1] = r /\ <<r, at[r]>>[2] = at[r]
    BY <1>1, MessageIntro
  <2>2. IsAt(<<r, at[r]>>, results[r][at[r]])
    BY <1>1, <2>1 DEF IInv, ResultsTrue
  <2> QED
    BY <2>2 DEF IsAt, Home, Promise!InLog, Promise!IsAt, Promise!Home
<1>4. Promise!Try(r)
  BY <1>1, <1>2, <1>3 DEF Promise!Try
<1> QED
  BY <1>4 DEF Promise!Next

LEMMA DeliveredKeepsPromise ==
    ASSUME IInv, NEW r \in Requests, Delivered(r)
    PROVE  UNCHANGED Promise!vars
<1>1. /\ answer[r] = "none" /\ log' = log /\ at' = at /\ answer' = answer
      /\ results \in [Requests -> Seq(Int)]
      /\ \A q \in Requests \ {r} : results'[q] = results[q]
  BY DEF IInv, TypeOK, ThreadInHand, Delivered, Flushing
<1>2. Reported' = Reported
  BY <1>1 DEF Reported
<1> QED
  BY <1>1, <1>2 DEF Promise!vars, Reported

LEMMA AppendKeepsPromise ==
    ASSUME IInv, NEW m \in Messages, NEW b \in BOOLEAN, Append1(m, b)
    PROVE  Promise!Next
<1>1. /\ m \in queue /\ at' = at /\ answer' = answer /\ results' = results
      /\ log' = [log EXCEPT ![Home(m)] = Append(@, m)]
  BY DEF Append1
<1>2. /\ m[1] \in Requests /\ m[2] \in Nat /\ m[2] >= 1
      /\ m[2] <= Len(Body[m[1]]) /\ m = <<m[1], m[2]>> /\ Len(Body[m[1]]) \in Nat
  BY MessageStructure
<1>3. /\ at[m[1]] \in Nat /\ Len(results[m[1]]) \in Nat /\ answer[m[1]] \in Answers
  BY <1>2 DEF IInv, TypeOK
<1>4. m[2] <= at[m[1]] /\ m[2] > Len(results[m[1]])
  BY <1>1 DEF IInv, QueueInHand
<1>5. /\ at[m[1]] = m[2] /\ answer[m[1]] \in {"none", "unavailable", "timed_out"}
  BY <1>2, <1>3, <1>4 DEF IInv, ThreadInHand, Answers
<1>6. /\ Promise!Home(m[1], at[m[1]]) = Home(m)
      /\ <<m[1], at[m[1]]>> = m
  BY <1>2, <1>5 DEF Promise!Home, Home
<1>7. Answered[m[1]] \in {"none", "unavailable"} /\ UNCHANGED <<at, Answered, Reported>>
  BY <1>1, <1>2, <1>5 DEF Answered, Reported
<1>8. log' = [log EXCEPT ![Promise!Home(m[1], at[m[1]])] = Append(@, <<m[1], at[m[1]]>>)]
  BY <1>1, <1>6
<1>9. Promise!Arrive(m[1])
  BY <1>2, <1>5, <1>7, <1>8 DEF Promise!Arrive, Answered, Reported
<1> QED
  BY <1>2, <1>9 DEF Promise!Next

\* Whatever the threads, the shared producer and Kafka do, what the answers say
\* about the topic is what PublishPromise allows.
THEOREM Refinement == Spec => ImplementsPromise
<1>1. Init => Promise!Init
  BY DEF Init, Promise!Init
<1>2. IInv /\ [Next]_vars => [Promise!Next]_(Promise!vars)
  <2> SUFFICES ASSUME IInv, [Next]_vars
               PROVE  [Promise!Next]_(Promise!vars)
    OBVIOUS
  <2>1. CASE UNCHANGED vars
    BY <2>1 DEF vars, Promise!vars
  <2>2. CASE Next
    <3>1. \/ \E r \in Requests : Goes(r) \/ Finish(r) \/ Produce(r) \/ Delivered(r)
          \/ \E m \in Messages : Serve(m) \/ GiveUp(m) \/ Append1(m, TRUE) \/ Append1(m, FALSE)
      BY <2>2, Kinds DEF IInv
    <3>2. ASSUME NEW m \in Messages, Serve(m) \/ GiveUp(m)
          PROVE  UNCHANGED Promise!vars
      BY <3>2 DEF Serve, GiveUp, Promise!vars
    <3> QED
      BY <3>1, <3>2, GoesKeepsPromise, FinishKeepsPromise, ProduceKeepsPromise,
         DeliveredKeepsPromise, AppendKeepsPromise
  <2> QED
    BY <2>1, <2>2
<1> QED
  BY <1>1, <1>2, Invariance, PTL DEF Spec, ImplementsPromise, Promise!Spec
=============================================================================
