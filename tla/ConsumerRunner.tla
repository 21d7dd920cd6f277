--------------------------- MODULE ConsumerRunner ---------------------------
(***************************************************************************)
(* The control loop of the consumer service (consumer_service/main.py): one*)
(* thread polls the topic, hands each event to the state processor, then   *)
(* commits the offset, dead-letters the event or rewinds and retries.      *)
(* The processor appears by its verdicts only (StateProcessor has the      *)
(* detail), Kafka and Cassandra by the answers the loop reacts to.         *)
(***************************************************************************)
EXTENDS Integers, Sequences, FiniteSets

CONSTANTS
    Partitions,   \* partitions of the topic warehouse-events
    EventIds,     \* events, named by their event_id
    Undecodable,  \* events whose bytes are not Avro of a registered schema
    Malformed,    \* events process() refuses before it reads any table
    Refusable,    \* events a handler may refuse, given what it reads
    Unwritable,   \* events whose batch Cassandra always rejects
    Schemas,      \* writer schemas, fetched once from Schema Registry
    SchemaOf,     \* SchemaOf[e]: the schema event e is encoded with
    NoSlot,       \* stands for the offset of a consumer error: none
    CanCrash,     \* whether the process may be killed at any point
    MaxLog,       \* bound: MaxLog[p] messages are published to partition p
    MaxLate       \* bound: MaxLate[s] batches of the event at slot s are late

\* A message is named by its partition and its offset.
Slots == UNION {{p} \X (0 .. MaxLog[p] - 1) : p \in Partitions}

ASSUME ConsumerAssumption ==
    /\ Undecodable \subseteq EventIds
    /\ Malformed \subseteq EventIds
    /\ Refusable \subseteq EventIds
    /\ Unwritable \subseteq EventIds
    /\ SchemaOf \in [EventIds -> Schemas]
    /\ NoSlot \notin Partitions \X Nat
    /\ CanCrash \in BOOLEAN
    /\ MaxLog \in [Partitions -> Nat]
    /\ MaxLate \in [Slots -> Nat]

VARIABLES
    log,          \* log[p]: the sequence of events published to partition p
    committed,    \* committed[p]: offset stored for the consumer group
    recorded,     \* event_ids with a row in processed_events
    effects,      \* effects[e]: batches that changed the inventory for e
    late,         \* late[s]: batches of message s that may land although their
                  \* call has given up
    landed,       \* landed[e]: late batches of event e that did land
    dlq,          \* slots whose dead letter reached warehouse-events-dlq
    position,     \* position[p]: next offset the consumer fetches
    assigned,     \* whether the group has assigned the partitions to us
    cached,       \* schemas the Avro deserializer has fetched
    session,      \* the processor's Cassandra session: "open" or "closed"
    letters,      \* dead letters still in the DLQ producer's queue
    stopping,     \* the stopping event
    pc,           \* where the loop is
    cur           \* slot of the message in hand, NoSlot if there is none

brokerVars == <<log, committed, dlq>>
storeVars == <<recorded, effects, late, landed>>
clientVars == <<position, assigned, cached>>
vars == <<log, committed, recorded, effects, late, landed, dlq, position, assigned,
          cached, session, letters, stopping, pc, cur>>

\* Points of ConsumerRunner.run: "decode" is inside poll, "process" is the look-up
\* in processed_events and "handle" what process() does after it; "down" and
\* "closed" are a dead and a finished process.
Running == {"poll", "decode", "process", "handle", "dlq", "commit", "reconnect", "rewind"}
Stopped == {"down", "closed"}

EventAt(s) == log[s[1]][s[2] + 1]
Settled(s) == s \in dlq \/ EventAt(s) \in recorded

Init ==
    /\ log = [p \in Partitions |-> << >>]
    /\ committed = [p \in Partitions |-> 0]
    /\ recorded = {}
    /\ effects = [e \in EventIds |-> 0]
    /\ late = [s \in Slots |-> 0]
    /\ landed = [e \in EventIds |-> 0]
    /\ dlq = {}
    /\ position = [p \in Partitions |-> 0]
    /\ assigned = FALSE
    /\ cached = {}
    /\ session = "open"
    /\ letters = {}
    /\ stopping = FALSE
    /\ pc = "poll"
    /\ cur = NoSlot

-----------------------------------------------------------------------------
(* The topic.                                                              *)

Publish(p, e) ==
    /\ Len(log[p]) < MaxLog[p]
    /\ log' = [log EXCEPT ![p] = Append(@, e)]
    /\ UNCHANGED <<committed, dlq, storeVars, clientVars, session, letters,
                   stopping, pc, cur>>

\* The group takes the partitions away, e.g. because the loop did not poll for
\* max.poll.interval.ms while _connect was retrying.
LoseAssignment ==
    /\ pc \in Running
    /\ assigned
    /\ assigned' = FALSE
    /\ UNCHANGED <<brokerVars, storeVars, position, cached, session, letters,
                   stopping, pc, cur>>

-----------------------------------------------------------------------------
(* poll: the loop tests stopping, then asks the consumer for a message.    *)

PollForever == pc = "poll"   \* mutant: stopping is not tested

Polling == pc = "poll" /\ ~stopping

\* Joining the group restarts every partition from its committed offset.
Rejoin ==
    /\ Polling
    /\ ~assigned
    /\ assigned' = TRUE
    /\ position' = committed
    /\ UNCHANGED <<brokerVars, storeVars, cached, session, letters, stopping,
                   pc, cur>>

Fetch(p) ==
    /\ Polling
    /\ assigned
    /\ position[p] < Len(log[p])
    /\ cur' = <<p, position[p]>>
    /\ position' = [position EXCEPT ![p] = @ + 1]

SchemaAt(s) == SchemaOf[EventAt(s)]
Fetched(p) == <<p, position[p]>>

\* The value decodes with a schema at hand.
FetchEvent(p) ==
    /\ Fetch(p)
    /\ EventAt(Fetched(p)) \notin Undecodable
    /\ SchemaAt(Fetched(p)) \in cached
    /\ pc' = "process"
    /\ UNCHANGED <<brokerVars, storeVars, assigned, cached, session, letters,
                   stopping>>

\* The deserializer raises on bytes that name no schema, or do not fit theirs.
FetchRaises(p) ==
    /\ Fetch(p)
    /\ EventAt(Fetched(p)) \in Undecodable
    /\ pc' = "dlq"
    /\ UNCHANGED <<brokerVars, storeVars, assigned, cached, session, letters,
                   stopping>>

\* The schema is not at hand: still inside poll, with the message already taken,
\* the deserializer asks Schema Registry, a request without a time-out.
LookUp(p) ==
    /\ Fetch(p)
    /\ SchemaAt(Fetched(p)) \notin cached
    /\ pc' = "decode"
    /\ UNCHANGED <<brokerVars, storeVars, assigned, cached, session, letters,
                   stopping>>

SchemaArrives ==
    /\ pc = "decode"
    /\ cached' = cached \union {SchemaAt(cur)}
    /\ pc' = IF EventAt(cur) \in Undecodable THEN "dlq" ELSE "process"
    /\ UNCHANGED <<brokerVars, storeVars, position, assigned, session, letters,
                   stopping, cur>>

\* No connection, an error, or no such schema: poll raises, and the loop cannot
\* tell it from bad bytes.
LookUpFails ==
    /\ pc = "decode"
    /\ pc' = "dlq"
    /\ UNCHANGED <<brokerVars, storeVars, clientVars, session, letters, stopping,
                   cur>>

\* A consumer error (broker lost, poll interval exceeded) is raised as a
\* ConsumeError that carries a message too, but one without an offset.
FetchError ==
    /\ Polling
    /\ pc' = "dlq"
    /\ UNCHANGED <<brokerVars, storeVars, clientVars, session, letters,
                   stopping, cur>>

-----------------------------------------------------------------------------
(* process: the verdict of WarehouseStateProcessor.process.                *)

Leave(target) ==
    /\ pc' = target
    /\ UNCHANGED <<brokerVars, clientVars, session, letters, stopping, cur>>

Reject ==
    /\ pc = "process"
    /\ EventAt(cur) \in Malformed
    /\ Leave("dlq")
    /\ UNCHANGED storeVars

\* From here on the tables are read: the session must be open.
Reading ==
    /\ pc = "process"
    /\ EventAt(cur) \notin Malformed
    /\ session = "open"

Duplicate ==
    /\ Reading
    /\ EventAt(cur) \in recorded
    /\ Leave("commit")
    /\ UNCHANGED storeVars

\* mutant: processed_events is not looked up
DispatchAgain ==
    /\ Reading
    /\ Leave("handle")
    /\ UNCHANGED storeVars

\* No outcome is known of the event: its handler reads the tables and plans.
Dispatch ==
    /\ Reading
    /\ EventAt(cur) \notin recorded
    /\ Leave("handle")
    /\ UNCHANGED storeVars

\* mutant: the refused event is not dead-lettered
RefuseSilently ==
    /\ pc = "handle"
    /\ EventAt(cur) \in Refusable
    /\ Leave("commit")
    /\ UNCHANGED storeVars

Refuse ==
    /\ pc = "handle"
    /\ EventAt(cur) \in Refusable
    /\ Leave("dlq")
    /\ UNCHANGED storeVars

\* PROCESSED changes the inventory, STALE and ORDER_ALREADY_COMPLETED only record
\* the event.
Apply(e) ==
    /\ recorded' = recorded \union {e}
    /\ \E n \in {0, 1} : effects' = [effects EXCEPT ![e] = @ + n]

\* The batch is applied. The answer may be lost.
Record ==
    /\ pc = "handle"
    /\ EventAt(cur) \notin Unwritable
    /\ Apply(EventAt(cur))
    /\ \/ Leave("commit")
       \/ Leave("reconnect")
    /\ UNCHANGED <<late, landed>>

\* The call gives up on a batch that Cassandra still has. (A process that dies
\* here leaves one behind in the same way.)
BatchTimesOut ==
    /\ pc = "handle"
    /\ EventAt(cur) \notin Unwritable
    /\ late[cur] + landed[EventAt(cur)] < MaxLate[cur]
    /\ late' = [late EXCEPT ![cur] = @ + 1]
    /\ Leave("reconnect")
    /\ UNCHANGED <<recorded, effects, landed>>

\* It is applied whatever the loop has done since, or never.
BatchLands(s) ==
    /\ late[s] > 0
    /\ late' = [late EXCEPT ![s] = @ - 1]
    /\ landed' = [landed EXCEPT ![EventAt(s)] = @ + 1]
    /\ Apply(EventAt(s))
    /\ UNCHANGED <<brokerVars, clientVars, session, letters, stopping, pc, cur>>

\* StateStoreError and nothing written: a read or the batch failed, or the
\* session was left shut down by a reconnect that failed.
StoreFails ==
    /\ pc \in {"process", "handle"}
    /\ EventAt(cur) \notin Malformed
    /\ Leave("reconnect")
    /\ UNCHANGED storeVars

-----------------------------------------------------------------------------
(* The answer to a StateStoreError: a new session, and back to the offset. *)

\* If _connect gives up, its exception is swallowed and the session that was
\* just shut down stays in place.
Reconnect ==
    /\ pc = "reconnect"
    /\ session' \in {"open", "closed"}
    /\ pc' = "rewind"
    /\ UNCHANGED <<brokerVars, storeVars, clientVars, letters, stopping, cur>>

\* mutants: one offset too far, and not at all
RewindTooFar ==
    /\ pc = "rewind"
    /\ cur # NoSlot
    /\ position' = [position EXCEPT ![cur[1]] = cur[2] - 1]
    /\ pc' = "poll"
    /\ cur' = NoSlot
    /\ UNCHANGED <<brokerVars, storeVars, assigned, cached, session, letters,
                   stopping>>

RewindForgotten ==
    /\ pc = "rewind"
    /\ pc' = "poll"
    /\ cur' = NoSlot
    /\ UNCHANGED <<brokerVars, storeVars, clientVars, session, letters,
                   stopping>>

\* On partitions that were lost meanwhile the seek has no effect beyond the next
\* Rejoin, or it raises.
Rewind ==
    /\ pc = "rewind"
    /\ cur # NoSlot
    /\ position' = [position EXCEPT ![cur[1]] = cur[2]]
    /\ pc' = "poll"
    /\ cur' = NoSlot
    /\ UNCHANGED <<brokerVars, storeVars, assigned, cached, session, letters,
                   stopping>>

\* The process is gone, and unsent dead letters and its consumer state with it:
\* the next one starts from the committed offsets.
Exit(how) ==
    /\ pc' = how
    /\ cur' = NoSlot
    /\ letters' = {}
    /\ cached' = {}
    /\ assigned' = FALSE
    /\ position' = committed
    /\ session' = "closed"
    /\ UNCHANGED <<brokerVars, storeVars, stopping>>

\* seek on a partition that is no longer ours may raise, on no partition at all
\* it does. Both are called from except clauses of run: nothing catches it.
RewindRaises ==
    /\ pc = "rewind"
    /\ ~assigned \/ cur = NoSlot
    /\ Exit("down")

-----------------------------------------------------------------------------
(* _handle_dlq and DlqProducer.send.                                       *)

\* flush drained the queue and our own letter arrived; of the letters left by
\* earlier timeouts, those that did not arrive have expired.
DlqSent ==
    /\ pc = "dlq"
    /\ \E arrived \in SUBSET letters : dlq' = dlq \union arrived \union {cur}
    /\ letters' = {}
    /\ pc' = "commit"
    /\ UNCHANGED <<log, committed, storeVars, clientVars, session, stopping,
                   cur>>

\* mutant: the failure is swallowed and the offset committed
DlqFailsQuietly ==
    /\ pc = "dlq"
    /\ pc' = "commit"
    /\ UNCHANGED <<brokerVars, storeVars, clientVars, session, letters,
                   stopping, cur>>

\* produce raises, flush times out with letters left in the queue (not
\* necessarily ours) or our letter is refused. Some may have arrived.
DlqFails ==
    /\ pc = "dlq"
    /\ LET queue == letters \union {cur} IN
       \E arrived \in SUBSET queue : \E left \in SUBSET (queue \ arrived) :
          /\ left = {} => cur \notin arrived \/ cur \in letters
          /\ dlq' = dlq \union arrived
          /\ letters' = left
    /\ pc' = "rewind"
    /\ UNCHANGED <<log, committed, storeVars, clientVars, session, stopping,
                   cur>>

\* The producer's own thread goes on delivering what a timed-out flush left,
LateLetter(s) ==
    /\ s \in letters
    /\ letters' = letters \ {s}
    /\ dlq' = dlq \union {s}
    /\ UNCHANGED <<log, committed, storeVars, clientVars, session, stopping,
                   pc, cur>>

\* until message.timeout.ms is over.
LetterExpires(s) ==
    /\ s \in letters
    /\ letters' = letters \ {s}
    /\ UNCHANGED <<brokerVars, storeVars, clientVars, session, stopping, pc,
                   cur>>

-----------------------------------------------------------------------------
(* _safe_commit.                                                           *)

\* The offset after the message is stored, whether or not the answer arrives.
CommitStored ==
    /\ pc = "commit"
    /\ assigned
    /\ cur # NoSlot
    /\ committed' = [committed EXCEPT ![cur[1]] = cur[2] + 1]
    /\ pc' = "poll"
    /\ cur' = NoSlot
    /\ UNCHANGED <<log, dlq, storeVars, clientVars, session, letters, stopping>>

\* The KafkaException is logged and the loop goes on with the next message.
CommitFails ==
    /\ pc = "commit"
    /\ pc' = "poll"
    /\ cur' = NoSlot
    /\ UNCHANGED <<brokerVars, storeVars, clientVars, session, letters,
                   stopping>>

-----------------------------------------------------------------------------
(* Signals, the end of the loop, crashes and restarts.                     *)

Stop ==
    /\ pc \in Running
    /\ stopping' = TRUE
    /\ UNCHANGED <<brokerVars, storeVars, clientVars, session, letters, pc,
                   cur>>

Close ==
    /\ pc = "poll"
    /\ stopping
    /\ Exit("closed")

Crash ==
    /\ CanCrash
    /\ pc \in Running
    /\ Exit("down")

\* A new container. If the constructor cannot connect it dies again.
Restart ==
    /\ pc \in Stopped
    /\ pc' = "poll"
    /\ session' = "open"
    /\ stopping' = FALSE
    /\ UNCHANGED <<brokerVars, storeVars, clientVars, letters, cur>>

Next ==
    \/ \E p \in Partitions, e \in EventIds : Publish(p, e)
    \/ \E p \in Partitions : FetchEvent(p) \/ FetchRaises(p) \/ LookUp(p)
    \/ \E s \in letters : LateLetter(s) \/ LetterExpires(s)
    \/ \E s \in Slots : BatchLands(s)
    \/ LoseAssignment \/ Rejoin \/ FetchError \/ SchemaArrives \/ LookUpFails
    \/ Reject \/ Duplicate \/ Dispatch \/ Refuse \/ Record \/ BatchTimesOut \/ StoreFails
    \/ Reconnect \/ Rewind \/ RewindRaises
    \/ DlqSent \/ DlqFails \/ CommitStored \/ CommitFails
    \/ Stop \/ Close \/ Crash \/ Restart

Spec == Init /\ [][Next]_vars

-----------------------------------------------------------------------------
(* Fairness.                                                               *)

\* Every call the loop makes outside poll returns within a time limit: flush
\* after 10 s, a Cassandra request after 20 s, _connect after 60 attempts. poll
\* itself returns after 1 s, unless it is held by a look-up in Schema Registry.
LoopStep ==
    \/ Reject \/ Duplicate \/ Dispatch \/ Refuse \/ Record \/ BatchTimesOut \/ StoreFails
    \/ Reconnect \/ Rewind \/ RewindRaises
    \/ DlqSent \/ DlqFails \/ CommitStored \/ CommitFails
    \/ Close

LoopSpec == Spec /\ WF_vars(LoopStep)

\* What the environment owes a message: Schema Registry answers or refuses, a call
\* tried for ever succeeds in the end, and the group stops rebalancing (a loop
\* that loses its partitions before every commit gets nowhere).
InHand(p) == cur # NoSlot /\ cur[1] = p

ServedVerdict(p) ==
    /\ InHand(p)
    /\ Reject \/ Duplicate \/ Refuse \/ (Record /\ pc' = "commit")

Served ==
    /\ WF_vars(LoopStep)
    /\ <>[][~LoseAssignment]_vars
    /\ SF_vars(Rejoin)
    /\ SF_vars(Reconnect /\ session' = "open")
    /\ \A p \in Partitions :
          /\ SF_vars(FetchEvent(p) \/ FetchRaises(p) \/ LookUp(p))
          /\ SF_vars(InHand(p) /\ (SchemaArrives \/ LookUpFails))
          /\ SF_vars(InHand(p) /\ Dispatch)
          /\ SF_vars(ServedVerdict(p))
          /\ SF_vars(InHand(p) /\ DlqSent)
          /\ SF_vars(InHand(p) /\ CommitStored)

\* docker-compose.yml gives the consumer no restart policy: a process that
\* dies stays down, unless somebody starts it again.
Attended == Served /\ WF_vars(Restart)
UnattendedSpec == Spec /\ Served

-----------------------------------------------------------------------------
(* Properties.                                                             *)

InLog(s) == s[2] < Len(log[s[1]])

\* The variables keep their types.
TypeOK ==
    /\ log \in [Partitions -> Seq(EventIds)]
    /\ \A p \in Partitions : Len(log[p]) <= MaxLog[p]
    /\ committed \in [Partitions -> Nat]
    /\ recorded \subseteq EventIds
    /\ effects \in [EventIds -> Nat]
    /\ late \in [Slots -> Nat]
    /\ landed \in [EventIds -> Nat]
    /\ dlq \subseteq Slots \union {NoSlot}
    /\ position \in [Partitions -> Nat]
    /\ assigned \in BOOLEAN
    /\ cached \subseteq Schemas
    /\ session \in {"open", "closed"}
    /\ letters \subseteq Slots \union {NoSlot}
    /\ stopping \in BOOLEAN
    /\ pc \in Running \union Stopped
    /\ cur \in Slots \union {NoSlot}

\* An offset is committed only after the outcome of every message below it is
\* durable, in processed_events or in the DLQ: whatever crashes, rebalances
\* and lost answers do, no message is acknowledged and forgotten.
NoLoss ==
    \A p \in Partitions : \A o \in 0 .. committed[p] - 1 : Settled(<<p, o>>)

\* The fetch position never runs ahead of an unsettled message, except for
\* the one in hand: commit of a later message cannot cover a failed one.
NothingSkipped ==
    \A p \in Partitions : \A o \in 0 .. position[p] - 1 :
        Settled(<<p, o>>) \/ cur = <<p, o>>

\* Redelivery after a crash, a failed commit, a rebalance or a lost answer, and
\* copies of an event, change the inventory once at most. What counts it again
\* is only a batch that landed after its call had given up, each once at most.
CountedOnce ==
    \A e \in EventIds : effects[e] <= landed[e] + (IF e \in recorded THEN 1 ELSE 0)

\* What the three need to be inductive: where the offsets stand, what the message
\* in hand is at each point of the loop, that nothing but late batches counted an
\* event since it was looked up, and that neither a letter waiting in the DLQ
\* producer's queue nor a late batch has an unsettled predecessor.
OffsetsInOrder ==
    \A p \in Partitions :
        /\ committed[p] <= position[p]
        /\ position[p] <= Len(log[p])

MessageInHand ==
    /\ pc \in {"poll"} \union Stopped => cur = NoSlot
    /\ pc \in {"decode", "process", "handle", "reconnect"} => cur # NoSlot
    /\ cur # NoSlot => /\ position[cur[1]] = cur[2] + 1
                       /\ committed[cur[1]] <= cur[2]
    /\ pc = "commit" /\ cur # NoSlot => Settled(cur)

NotCountedSince == pc = "handle" => effects[EventAt(cur)] <= landed[EventAt(cur)]

InOrder(s) == InLog(s) /\ \A o \in 0 .. s[2] - 1 : Settled(<<s[1], o>>)

LettersInOrder == \A s \in letters \ {NoSlot} : InOrder(s)

BatchesInOrder == \A s \in Slots : late[s] > 0 => InOrder(s)

IInv ==
    /\ TypeOK
    /\ OffsetsInOrder
    /\ MessageInHand
    /\ NotCountedSince
    /\ LettersInOrder
    /\ BatchesInOrder
    /\ NothingSkipped
    /\ NoLoss
    /\ CountedOnce

\* The loop with its retries keeps the promise of DeliveryContract.
Contract == INSTANCE DeliveryContract
ImplementsContract == Contract!Spec

\* Where services answer in the end and a dead process is started again, every
\* published message is recorded or dead-lettered.
EveryMessageSettles == Attended => \A s \in Slots : InLog(s) ~> InLog(s) /\ Settled(s)

\* SIGTERM ends the process, wherever the loop is: no retry keeps it alive. The one
\* exception is a look-up that Schema Registry never answers.
StopEnds == stopping ~> (pc \in Stopped \/ [](pc = "decode"))

\* What README.md says of the DLQ: the messages in it are invalid events.
OnlyInvalidDeadLettered ==
    \A s \in dlq \ {NoSlot} :
        EventAt(s) \in Undecodable \union Malformed \union Refusable

\* What the loop means to do with a consumer error ("Kafka consumer error", log
\* and continue): it gets back to polling, unless it is stopped.
ConsumerErrorSurvived ==
    (pc = "dlq" /\ cur = NoSlot) ~> (stopping \/ pc = "poll")
=============================================================================
