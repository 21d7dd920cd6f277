-------------------------- MODULE DeliveryContract --------------------------
(***************************************************************************)
(* What the consumer service promises about delivery, without its control  *)
(* loop: messages of a partitioned topic are settled in offset order, a    *)
(* settled message is either recorded in processed_events or dead-lettered *)
(* and an offset is acknowledged only when everything below it is settled. *)
(* ConsumerRunner is shown to implement this module.                       *)
(***************************************************************************)
EXTENDS Integers, Sequences

CONSTANTS
    Partitions,   \* partitions of the topic warehouse-events
    EventIds,     \* events, named by their event_id
    NoSlot,       \* the dead letter of a consumer error, which has no offset
    MaxLog        \* bound: MaxLog[p] messages are published to partition p

VARIABLES
    log,          \* log[p]: the sequence of events published to partition p
    committed,    \* committed[p]: offset stored for the consumer group
    recorded,     \* event_ids with a row in processed_events
    effects,      \* effects[e]: batches that changed the inventory for e
    landed,       \* landed[e]: those that landed after their call had given up
    dlq           \* slots whose dead letter reached warehouse-events-dlq

vars == <<log, committed, recorded, effects, landed, dlq>>

-----------------------------------------------------------------------------
(* Slots: a message is named by its partition and offset (from 0).         *)

Slots == UNION {{p} \X (0 .. MaxLog[p] - 1) : p \in Partitions}

InLog(s) == s[2] < Len(log[s[1]])

EventAt(s) == log[s[1]][s[2] + 1]

\* A message is settled once its outcome is durable somewhere.
Settled(s) == s \in dlq \/ EventAt(s) \in recorded

SettledBelow(p, n) == \A o \in 0 .. n - 1 : Settled(<<p, o>>)

-----------------------------------------------------------------------------
Init ==
    /\ log = [p \in Partitions |-> << >>]
    /\ committed = [p \in Partitions |-> 0]
    /\ recorded = {}
    /\ effects = [e \in EventIds |-> 0]
    /\ landed = [e \in EventIds |-> 0]
    /\ dlq = {}

Publish(p, e) ==
    /\ Len(log[p]) < MaxLog[p]
    /\ log' = [log EXCEPT ![p] = Append(@, e)]
    /\ UNCHANGED <<committed, recorded, effects, landed, dlq>>

\* The event at slot s is recorded, with or without an inventory change, after
\* all its predecessors. Whatever the number of its copies and retries, it is
\* counted once.
Record(s, n) ==
    /\ InLog(s)
    /\ SettledBelow(s[1], s[2])
    /\ effects[EventAt(s)] + n <= landed[EventAt(s)] + 1
    /\ recorded' = recorded \union {EventAt(s)}
    /\ effects' = [effects EXCEPT ![EventAt(s)] = @ + n]
    /\ UNCHANGED <<log, committed, landed, dlq>>

\* Nothing of the kind is promised of a batch whose call gave up, but it too comes
\* after all its predecessors.
RecordLate(s, n) ==
    /\ InLog(s)
    /\ SettledBelow(s[1], s[2])
    /\ recorded' = recorded \union {EventAt(s)}
    /\ effects' = [effects EXCEPT ![EventAt(s)] = @ + n]
    /\ landed' = [landed EXCEPT ![EventAt(s)] = @ + 1]
    /\ UNCHANGED <<log, committed, dlq>>

\* Dead letters become visible, possibly several at a time and late, but
\* never one of a message whose predecessors are not settled.
DeadLetter(letters) ==
    /\ UNCHANGED <<log, committed, recorded, effects, landed>>
    /\ dlq' = dlq \union letters
    /\ \A s \in letters \ {NoSlot} : InLog(s) /\ SettledBelow(s[1], s[2])

\* One acknowledgement may cover several settled messages.
Ack(p, n) ==
    /\ committed[p] < n
    /\ n <= Len(log[p])
    /\ SettledBelow(p, n)
    /\ committed' = [committed EXCEPT ![p] = n]
    /\ UNCHANGED <<log, recorded, effects, landed, dlq>>

Next ==
    \/ \E letters \in SUBSET (Slots \union {NoSlot}) : DeadLetter(letters)
    \/ \E p \in Partitions, e \in EventIds : Publish(p, e)
    \/ \E s \in Slots, n \in {0, 1} : Record(s, n) \/ RecordLate(s, n)
    \/ \E p \in Partitions : \E n \in 1 .. MaxLog[p] : Ack(p, n)

Spec == Init /\ [][Next]_vars
=============================================================================
