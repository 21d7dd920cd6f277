------------------------ MODULE ConsumerRunnerProofs ------------------------
(***************************************************************************)
(* Theorems about ConsumerRunner, for any number of partitions and events  *)
(* and logs of any length: it never loses a message, counts no event twice *)
(* but by late batches, and implements DeliveryContract.                   *)
(***************************************************************************)
EXTENDS ConsumerRunner, TLAPS

\* A slot is a partition and an offset below that partition's bound.
LEMMA SlotStructure ==
    ASSUME NEW s \in Slots
    PROVE  /\ s[1] \in Partitions
           /\ s[2] \in Nat
           /\ s = <<s[1], s[2]>>
           /\ s[2] < MaxLog[s[1]]
<1>1. PICK p \in Partitions : s \in {p} \X (0 .. MaxLog[p] - 1)
  BY DEF Slots
<1>2. MaxLog[p] \in Nat
  BY ConsumerAssumption
<1> QED
  BY <1>1, <1>2

LEMMA SlotIntro ==
    ASSUME NEW p \in Partitions, NEW o \in Nat, o < MaxLog[p]
    PROVE  <<p, o>> \in Slots
<1>1. MaxLog[p] \in Nat
  BY ConsumerAssumption
<1>2. <<p, o>> \in {p} \X (0 .. MaxLog[p] - 1)
  BY <1>1
<1> QED
  BY <1>2 DEF Slots

\* The message in hand is one of the log, whatever the loop does with it.
LEMMA CurInLog ==
    ASSUME IInv, cur # NoSlot
    PROVE  /\ cur \in Slots
           /\ cur[1] \in Partitions
           /\ cur[2] \in Nat
           /\ cur = <<cur[1], cur[2]>>
           /\ InLog(cur)
           /\ EventAt(cur) \in EventIds
<1>1. cur \in Slots
  BY DEF IInv, TypeOK
<1>2. cur[1] \in Partitions /\ cur[2] \in Nat /\ cur = <<cur[1], cur[2]>>
  BY <1>1, SlotStructure
<1>3. cur[2] + 1 <= Len(log[cur[1]])
  BY <1>2 DEF IInv, TypeOK, MessageInHand, OffsetsInOrder
<1>4. log[cur[1]] \in Seq(EventIds)
  BY <1>2 DEF IInv, TypeOK
<1> QED
  BY <1>1, <1>2, <1>3, <1>4 DEF InLog, EventAt

\* So is a message one of whose batches is late.
LEMMA LateInLog ==
    ASSUME IInv, NEW s \in Slots, late[s] > 0
    PROVE  InLog(s) /\ EventAt(s) \in EventIds
<1>1. InLog(s)
  BY DEF IInv, BatchesInOrder, InOrder
<1>2. s[1] \in Partitions /\ s[2] \in Nat
  BY SlotStructure
<1>3. log[s[1]] \in Seq(EventIds)
  BY <1>2 DEF IInv, TypeOK
<1> QED
  BY <1>1, <1>2, <1>3 DEF InLog, EventAt

\* Everything below the message in hand is settled.
LEMMA CurIsNext ==
    ASSUME IInv, cur # NoSlot, NEW o \in 0 .. cur[2] - 1
    PROVE  Settled(<<cur[1], o>>)
<1>1. /\ cur[1] \in Partitions
      /\ cur[2] \in Nat
      /\ position[cur[1]] = cur[2] + 1
  BY CurInLog DEF IInv, MessageInHand
<1>2. o \in 0 .. position[cur[1]] - 1 /\ cur # <<cur[1], o>>
  BY <1>1
<1> QED
  BY <1>1, <1>2 DEF IInv, NothingSkipped

-----------------------------------------------------------------------------
(* What only grows: the logs, processed_events and the DLQ.                *)

LEMMA PublishGrows ==
    ASSUME TypeOK, NEW p \in Partitions, NEW e \in EventIds, Publish(p, e)
    PROVE  /\ log' \in [Partitions -> Seq(EventIds)]
           /\ \A q \in Partitions : /\ Len(log[q]) <= Len(log'[q])
                                    /\ Len(log'[q]) <= MaxLog[q]
                                    /\ \A i \in 1 .. Len(log[q]) : log'[q][i] = log[q][i]
<1>1. log \in [Partitions -> Seq(EventIds)] /\ MaxLog \in [Partitions -> Nat]
  BY ConsumerAssumption DEF TypeOK
<1>2. log' = [log EXCEPT ![p] = Append(@, e)]
  BY DEF Publish
<1>3. Append(log[p], e) \in Seq(EventIds) /\ Len(log[p]) \in Nat
  BY <1>1
<1>4. Len(log[p]) + 1 <= MaxLog[p]
  BY <1>1, <1>3 DEF Publish
<1>5. /\ Len(Append(log[p], e)) = Len(log[p]) + 1
      /\ \A i \in 1 .. Len(log[p]) : Append(log[p], e)[i] = log[p][i]
  BY <1>1, <1>3
<1>6. ASSUME NEW q \in Partitions
      PROVE  /\ Len(log[q]) <= Len(log'[q])
             /\ Len(log'[q]) <= MaxLog[q]
             /\ \A i \in 1 .. Len(log[q]) : log'[q][i] = log[q][i]
  <2>1. CASE q = p
    <3>1. log'[q] = Append(log[p], e)
      BY <1>1, <1>2, <2>1
    <3> QED
      BY <3>1, <2>1, <1>3, <1>4, <1>5
  <2>2. CASE q # p
    <3>1. log'[q] = log[q]
      BY <1>1, <1>2, <2>2
    <3>2. Len(log[q]) \in Nat /\ Len(log[q]) <= MaxLog[q]
      BY <1>1 DEF TypeOK
    <3> QED
      BY <3>1, <3>2
  <2> QED
    BY <2>1, <2>2
<1> QED
  BY <1>1, <1>2, <1>3, <1>6

\* Outside Publish the logs stay; recorded and dlq never shrink.
LEMMA OthersKeepLog ==
    ASSUME [Next]_vars
    PROVE  /\ recorded \subseteq recorded'
           /\ dlq \subseteq dlq'
           /\ \/ log' = log
              \/ \E p \in Partitions, e \in EventIds : Publish(p, e)
BY DEF Next, vars, brokerVars, storeVars, clientVars, Publish, FetchEvent,
       FetchRaises, LookUp, SchemaArrives, LookUpFails, Fetch, LateLetter,
       LetterExpires, LoseAssignment, Rejoin, FetchError, Reject, Duplicate, Refuse,
       Dispatch, Record, Apply, BatchTimesOut, BatchLands, StoreFails, Leave,
       Reconnect, Rewind, RewindRaises, Exit, DlqSent, DlqFails, CommitStored,
       CommitFails, Stop, Close, Crash, Restart

\* A settled message stays settled, in the same place of the log.
LEMMA SettledStays ==
    ASSUME TypeOK, [Next]_vars, NEW s \in Slots, InLog(s)
    PROVE  /\ s[2] < Len(log'[s[1]])
           /\ log'[s[1]][s[2] + 1] = log[s[1]][s[2] + 1]
           /\ Settled(s) => Settled(s)'
<1>1. s[1] \in Partitions /\ s[2] \in Nat /\ s[2] < Len(log[s[1]])
  BY SlotStructure DEF InLog
<1>2. Len(log[s[1]]) \in Nat
  BY <1>1 DEF TypeOK
<1>3. /\ s[2] < Len(log'[s[1]])
      /\ log'[s[1]][s[2] + 1] = log[s[1]][s[2] + 1]
  <2>1. CASE log' = log
    BY <2>1, <1>1
  <2>2. ASSUME NEW p \in Partitions, NEW e \in EventIds, Publish(p, e)
        PROVE  <1>3!1 /\ <1>3!2
    <3>1. Len(log[s[1]]) <= Len(log'[s[1]])
      BY <2>2, <1>1, PublishGrows
    <3>2. log'[s[1]] \in Seq(EventIds)
      BY <2>2, <1>1, PublishGrows
    <3>3. s[2] + 1 \in 1 .. Len(log[s[1]])
      BY <1>1, <1>2
    <3>4. log'[s[1]][s[2] + 1] = log[s[1]][s[2] + 1]
      BY <2>2, <1>1, <3>3, PublishGrows
    <3> QED
      BY <3>1, <3>2, <3>4, <1>1, <1>2
  <2> QED
    BY <2>1, <2>2, OthersKeepLog
<1> QED
  BY <1>3, OthersKeepLog DEF Settled, EventAt

-----------------------------------------------------------------------------
(* Every step preserves the invariant, one lemma per conjunct.             *)

LEMMA FetchInRange ==
    ASSUME IInv, NEW p \in Partitions, Fetch(p)
    PROVE  /\ cur' = <<p, position[p]>>
           /\ cur' \in Slots
           /\ position[p] \in Nat
           /\ position[p] < Len(log[p])
           /\ log[p][position[p] + 1] \in EventIds
           /\ position' = [position EXCEPT ![p] = @ + 1]
           /\ position' \in [Partitions -> Nat]
<1>1. /\ position[p] \in Nat
      /\ log[p] \in Seq(EventIds)
      /\ Len(log[p]) <= MaxLog[p]
      /\ MaxLog[p] \in Nat
  BY ConsumerAssumption DEF IInv, TypeOK
<1>2. position[p] < Len(log[p]) /\ Len(log[p]) \in Nat
  BY <1>1 DEF Fetch
<1>3. <<p, position[p]>> \in Slots
  BY <1>1, <1>2, SlotIntro
<1> QED
  BY <1>1, <1>2, <1>3 DEF Fetch, IInv, TypeOK

LEMMA StepTypeOK == IInv /\ [Next]_vars => TypeOK'
<1> SUFFICES ASSUME IInv, [Next]_vars PROVE TypeOK'
  OBVIOUS
<1>0. TypeOK
  BY DEF IInv
<1> USE DEF TypeOK, brokerVars, storeVars, clientVars
<1>1. ASSUME NEW p \in Partitions, NEW e \in EventIds, Publish(p, e)
      PROVE  TypeOK'
  <2>1. /\ log' \in [Partitions -> Seq(EventIds)]
        /\ \A q \in Partitions : Len(log'[q]) <= MaxLog[q]
    BY <1>0, <1>1, PublishGrows
  <2> QED
    BY <1>0, <1>1, <2>1 DEF Publish
<1>2. ASSUME NEW p \in Partitions, FetchEvent(p) \/ FetchRaises(p) \/ LookUp(p)
      PROVE  TypeOK'
  <2>1. cur' \in Slots /\ position' \in [Partitions -> Nat]
    BY <1>2, FetchInRange DEF FetchEvent, FetchRaises, LookUp
  <2> QED
    BY <1>0, <1>2, <2>1 DEF FetchEvent, FetchRaises, LookUp, Running
<1>3. CASE SchemaArrives \/ LookUpFails
  <2>1. pc = "decode" => SchemaAt(cur) \in Schemas
    BY CurInLog, ConsumerAssumption DEF SchemaAt, IInv, MessageInHand
  <2>2. CASE SchemaArrives
    BY <1>0, <2>1, <2>2 DEF SchemaArrives, Running
  <2>3. CASE LookUpFails
    BY <1>0, <2>3 DEF LookUpFails, Running
  <2> QED
    BY <1>3, <2>2, <2>3
<1>4. ASSUME NEW s \in letters, LateLetter(s) \/ LetterExpires(s) PROVE TypeOK'
  BY <1>0, <1>4 DEF LateLetter, LetterExpires
<1>5. CASE LoseAssignment \/ Rejoin \/ FetchError
  BY <1>0, <1>5 DEF LoseAssignment, Rejoin, FetchError, Running
<1>6. CASE Reject \/ Duplicate \/ Dispatch \/ Refuse \/ StoreFails
  BY <1>0, <1>6 DEF Reject, Duplicate, Dispatch, Refuse, StoreFails, Leave, Running
<1>7. CASE Record \/ BatchTimesOut
  <2>1. cur \in Slots /\ EventAt(cur) \in EventIds
    BY <1>7, CurInLog DEF Record, BatchTimesOut, IInv, MessageInHand
  <2>2. CASE Record
    <3>1. effects' \in [EventIds -> Nat] /\ recorded' \subseteq EventIds
      BY <1>0, <2>1, <2>2 DEF Record, Apply
    <3> QED
      BY <1>0, <2>2, <3>1 DEF Record, Leave, Running
  <2>3. CASE BatchTimesOut
    <3>1. late' \in [Slots -> Nat]
      BY <1>0, <2>1, <2>3 DEF BatchTimesOut
    <3> QED
      BY <1>0, <2>3, <3>1 DEF BatchTimesOut, Leave, Running
  <2> QED
    BY <1>7, <2>2, <2>3
<1>13. ASSUME NEW s \in Slots, BatchLands(s) PROVE TypeOK'
  <2>1. EventAt(s) \in EventIds /\ late[s] - 1 \in Nat
    BY <1>0, <1>13, LateInLog DEF BatchLands
  <2>2. /\ late' \in [Slots -> Nat]
        /\ landed' \in [EventIds -> Nat]
        /\ effects' \in [EventIds -> Nat]
        /\ recorded' \subseteq EventIds
    BY <1>0, <1>13, <2>1 DEF BatchLands, Apply
  <2> QED
    BY <1>0, <1>13, <2>2 DEF BatchLands
<1>8. CASE Rewind
  <2>1. cur[1] \in Partitions /\ cur[2] \in Nat
    BY <1>8, CurInLog DEF Rewind
  <2> QED
    BY <1>0, <1>8, <2>1 DEF Rewind, Running
<1>9. CASE Reconnect \/ RewindRaises \/ Close \/ Crash \/ Stop \/ Restart
  BY <1>0, <1>9 DEF Reconnect, RewindRaises, Close, Crash, Stop, Restart, Exit,
                    Running, Stopped
<1>10. CASE DlqSent \/ DlqFails
  BY <1>0, <1>10 DEF DlqSent, DlqFails, Running
<1>11. CASE CommitStored
  <2>1. cur[1] \in Partitions /\ cur[2] \in Nat
    BY <1>11, CurInLog DEF CommitStored
  <2> QED
    BY <1>0, <1>11, <2>1 DEF CommitStored, Running
<1>12. CASE CommitFails \/ UNCHANGED vars
  BY <1>0, <1>12 DEF CommitFails, Running, vars
<1> QED
  BY <1>1, <1>2, <1>3, <1>4, <1>5, <1>6, <1>7, <1>8, <1>9, <1>10, <1>11, <1>12, <1>13
  DEF Next

LEMMA StepOffsetsInOrder == IInv /\ [Next]_vars => OffsetsInOrder'
<1> SUFFICES ASSUME IInv, [Next]_vars, NEW q \in Partitions
             PROVE  committed'[q] <= position'[q] /\ position'[q] <= Len(log'[q])
  BY DEF OffsetsInOrder
<1>0. /\ committed[q] \in Nat
      /\ position[q] \in Nat
      /\ log[q] \in Seq(EventIds)
      /\ Len(log[q]) \in Nat
      /\ committed[q] <= position[q]
      /\ position[q] <= Len(log[q])
  BY DEF IInv, TypeOK, OffsetsInOrder
<1> USE DEF brokerVars, storeVars, clientVars
<1>1. ASSUME NEW p \in Partitions, NEW e \in EventIds, Publish(p, e)
      PROVE  committed'[q] <= position'[q] /\ position'[q] <= Len(log'[q])
  <2>1. Len(log[q]) <= Len(log'[q]) /\ Len(log'[q]) \in Nat
    BY <1>1, PublishGrows DEF IInv
  <2> QED
    BY <1>0, <1>1, <2>1 DEF Publish
<1>2. ASSUME NEW p \in Partitions, FetchEvent(p) \/ FetchRaises(p) \/ LookUp(p)
      PROVE  committed'[q] <= position'[q] /\ position'[q] <= Len(log'[q])
  <2>1. /\ position[p] < Len(log[p])
        /\ position' = [position EXCEPT ![p] = @ + 1]
    BY <1>2, FetchInRange DEF FetchEvent, FetchRaises, LookUp
  <2>2. log' = log /\ committed' = committed
    BY <1>2 DEF FetchEvent, FetchRaises, LookUp
  <2> QED
    BY <1>0, <2>1, <2>2 DEF IInv, TypeOK
<1>3. CASE Rejoin \/ RewindRaises \/ Close \/ Crash
  BY <1>0, <1>3 DEF Rejoin, RewindRaises, Close, Crash, Exit
<1>4. CASE Rewind
  <2>1. /\ cur[1] \in Partitions
        /\ cur[2] \in Nat
        /\ position[cur[1]] = cur[2] + 1
        /\ committed[cur[1]] <= cur[2]
    BY <1>4, CurInLog DEF Rewind, IInv, MessageInHand
  <2> QED
    BY <1>0, <1>4, <2>1 DEF Rewind, IInv, TypeOK
<1>5. CASE CommitStored
  <2>1. cur[1] \in Partitions /\ cur[2] \in Nat /\ position[cur[1]] = cur[2] + 1
    BY <1>5, CurInLog DEF CommitStored, IInv, MessageInHand
  <2> QED
    BY <1>0, <1>5, <2>1 DEF CommitStored, IInv, TypeOK
<1>6. CASE UNCHANGED <<log, committed, position>>
  BY <1>0, <1>6
<1>7. \/ \E p \in Partitions, e \in EventIds : Publish(p, e)
      \/ \E p \in Partitions : FetchEvent(p) \/ FetchRaises(p) \/ LookUp(p)
      \/ Rejoin \/ RewindRaises \/ Close \/ Crash \/ Rewind \/ CommitStored
      \/ UNCHANGED <<log, committed, position>>
  BY DEF Next, vars, LateLetter, LetterExpires, LoseAssignment, FetchError,
         SchemaArrives, LookUpFails, Reject, Duplicate, Refuse, Dispatch, Record, Apply, BatchTimesOut, BatchLands,
         StoreFails, Leave, Reconnect, DlqSent, DlqFails, CommitFails, Stop, Restart
<1> QED
  BY <1>1, <1>2, <1>3, <1>4, <1>5, <1>6, <1>7

LEMMA StepMessageInHand == IInv /\ [Next]_vars => MessageInHand'
<1> SUFFICES ASSUME IInv, [Next]_vars PROVE MessageInHand'
  OBVIOUS
<1>0. MessageInHand /\ TypeOK
  BY DEF IInv
<1> USE DEF MessageInHand, brokerVars, storeVars, clientVars, Stopped
<1>1. ASSUME NEW p \in Partitions, NEW e \in EventIds, Publish(p, e)
      PROVE  MessageInHand'
  <2>1. cur # NoSlot => (Settled(cur) => Settled(cur)')
    <3>1. ASSUME cur # NoSlot, Settled(cur) PROVE cur \in dlq' \/ log'[cur[1]][cur[2] + 1] \in recorded'
      BY <3>1, <1>0, CurInLog, SettledStays, OthersKeepLog DEF Settled, EventAt
    <3> QED
      BY <3>1, <1>1 DEF Publish, Settled, EventAt
  <2> QED
    BY <1>0, <1>1, <2>1 DEF Publish
<1>2. ASSUME NEW p \in Partitions, FetchEvent(p) \/ FetchRaises(p) \/ LookUp(p)
      PROVE  MessageInHand'
  <2>1. /\ cur' = <<p, position[p]>>
        /\ position[p] \in Nat
        /\ position' = [position EXCEPT ![p] = @ + 1]
        /\ cur' \in Slots
    BY <1>2, FetchInRange DEF FetchEvent, FetchRaises, LookUp
  <2>2. cur' # NoSlot
    BY <2>1, ConsumerAssumption
  <2>3. position'[p] = position[p] + 1 /\ committed[p] <= position[p]
    BY <1>0, <2>1 DEF IInv, OffsetsInOrder, TypeOK
  <2>4. committed' = committed /\ pc' \in {"process", "dlq", "decode"}
    BY <1>2 DEF FetchEvent, FetchRaises, LookUp
  <2> QED
    BY <2>1, <2>2, <2>3, <2>4
<1>3. ASSUME NEW s \in letters, LateLetter(s) \/ LetterExpires(s)
      PROVE  MessageInHand'
  BY <1>0, <1>3 DEF LateLetter, LetterExpires, Settled, EventAt
<1>4. CASE LoseAssignment \/ Rejoin \/ FetchError \/ Stop
  BY <1>0, <1>4 DEF LoseAssignment, Rejoin, FetchError, Polling, Stop, Settled, EventAt
<1>5. CASE SchemaArrives \/ LookUpFails \/ Reject \/ Dispatch \/ Refuse \/ StoreFails
           \/ BatchTimesOut
  BY <1>0, <1>5 DEF SchemaArrives, LookUpFails, Reject, Dispatch, Refuse, Reading,
                    StoreFails, BatchTimesOut, Leave
<1>6. CASE Duplicate
  BY <1>0, <1>6 DEF Duplicate, Reading, Leave, Settled, EventAt
<1>7. CASE Record
  <2>1. EventAt(cur)' = EventAt(cur) /\ EventAt(cur) \in recorded'
    BY <1>7 DEF Record, Apply, Leave, EventAt
  <2> QED
    BY <1>0, <1>7, <2>1 DEF Record, Leave, Settled
<1>13. ASSUME NEW s \in Slots, BatchLands(s) PROVE MessageInHand'
  BY <1>0, <1>13 DEF BatchLands, Apply, Settled, EventAt
<1>8. CASE Reconnect \/ DlqFails
  BY <1>0, <1>8 DEF Reconnect, DlqFails
<1>9. CASE DlqSent
  BY <1>0, <1>9 DEF DlqSent, Settled
<1>10. CASE Rewind \/ CommitStored \/ CommitFails \/ Restart
  BY <1>0, <1>10 DEF Rewind, CommitStored, CommitFails, Restart
<1>11. CASE RewindRaises \/ Close \/ Crash
  BY <1>11 DEF RewindRaises, Close, Crash, Exit
<1>12. CASE UNCHANGED vars
  BY <1>0, <1>12 DEF vars, Settled, EventAt
<1> QED
  BY <1>1, <1>2, <1>3, <1>4, <1>5, <1>6, <1>7, <1>8, <1>9, <1>10, <1>11, <1>12, <1>13
  DEF Next

\* A message all of whose predecessors are settled stays one.
LEMMA InOrderStays ==
    ASSUME IInv, [Next]_vars, NEW s \in Slots, InOrder(s)
    PROVE  InOrder(s)'
<1> USE DEF InOrder
<1>1. /\ s[1] \in Partitions
      /\ s[2] \in Nat
      /\ s[2] < Len(log[s[1]])
      /\ s[2] < MaxLog[s[1]]
      /\ Len(log[s[1]]) \in Nat
      /\ MaxLog[s[1]] \in Nat
  BY SlotStructure, ConsumerAssumption DEF InLog, IInv, TypeOK
<1>2. s[2] < Len(log'[s[1]])
  BY SettledStays DEF IInv
<1>3. ASSUME NEW o \in 0 .. s[2] - 1 PROVE Settled(<<s[1], o>>)'
  <2>1. <<s[1], o>> \in Slots /\ InLog(<<s[1], o>>)
    BY <1>1, SlotIntro DEF InLog
  <2> QED
    BY <2>1, SettledStays DEF IInv
<1> QED
  BY <1>2, <1>3 DEF InLog

LEMMA StepLettersInOrder == IInv /\ [Next]_vars => LettersInOrder'
<1> SUFFICES ASSUME IInv, [Next]_vars, NEW s \in letters', s # NoSlot
             PROVE  InOrder(s)'
  BY DEF LettersInOrder
<1>1. s \in letters \/ (s = cur /\ cur # NoSlot)
  BY DEF Next, vars, clientVars, Publish, FetchEvent, FetchRaises, LookUp,
         SchemaArrives, LookUpFails, LateLetter, LetterExpires, LoseAssignment,
         Rejoin, FetchError, Reject, Duplicate, Refuse, Dispatch, Record, Apply,
         BatchTimesOut, BatchLands, StoreFails, Leave, Reconnect, Rewind,
         RewindRaises, Exit, DlqSent, DlqFails, CommitStored, CommitFails, Stop,
         Close, Crash, Restart
<1>2. s \in Slots /\ InOrder(s)
  <2>1. CASE s \in letters
    BY <2>1 DEF IInv, TypeOK, LettersInOrder
  <2>2. CASE s = cur /\ cur # NoSlot
    BY <2>2, CurInLog, CurIsNext DEF InOrder
  <2> QED
    BY <1>1, <2>1, <2>2
<1> QED
  BY <1>2, InOrderStays

LEMMA StepBatchesInOrder == IInv /\ [Next]_vars => BatchesInOrder'
<1> SUFFICES ASSUME IInv, [Next]_vars, NEW s \in Slots, late'[s] > 0
             PROVE  InOrder(s)'
  BY DEF BatchesInOrder
<1>0. late \in [Slots -> Nat]
  BY DEF IInv, TypeOK
<1>1. CASE BatchTimesOut
  <2>1. late[s] > 0 \/ (s = cur /\ cur # NoSlot)
    BY <1>0, <1>1 DEF BatchTimesOut, IInv, MessageInHand
  <2>2. InOrder(s)
    BY <2>1, CurInLog, CurIsNext DEF IInv, BatchesInOrder, InOrder
  <2> QED
    BY <2>2, InOrderStays
<1>2. ASSUME NEW r \in Slots, BatchLands(r) PROVE InOrder(s)'
  <2>1. late' = [late EXCEPT ![r] = @ - 1]
    BY <1>2 DEF BatchLands
  <2>2. late[s] > 0
    BY <1>0, <2>1
  <2> QED
    BY <2>2, InOrderStays DEF IInv, BatchesInOrder
<1>3. CASE UNCHANGED late
  BY <1>3, InOrderStays DEF IInv, BatchesInOrder
<1>4. BatchTimesOut \/ (\E r \in Slots : BatchLands(r)) \/ UNCHANGED late
  BY DEF Next, vars, storeVars, Publish, FetchEvent, FetchRaises, LookUp,
         SchemaArrives, LookUpFails, LateLetter, LetterExpires, LoseAssignment,
         Rejoin, FetchError, Reject, Duplicate, Refuse, Dispatch, Record, StoreFails,
         Reconnect, Rewind, RewindRaises, Exit, DlqSent, DlqFails, CommitStored,
         CommitFails, Stop, Close, Crash, Restart
<1> QED
  BY <1>1, <1>2, <1>3, <1>4

\* Below the fetch position a slot is one of the log and, unless it is the
\* message in hand, settled for good.
LEMMA BelowPosition ==
    ASSUME IInv, [Next]_vars,
           NEW q \in Partitions, NEW o \in 0 .. position[q] - 1
    PROVE  /\ <<q, o>> \in Slots
           /\ InLog(<<q, o>>)
           /\ cur # <<q, o>> => Settled(<<q, o>>)'
           /\ Settled(<<q, o>>) => Settled(<<q, o>>)'
<1>1. /\ o \in Nat
      /\ o < Len(log[q])
      /\ o < MaxLog[q]
  <2>1. /\ position[q] \in Nat /\ MaxLog[q] \in Nat
        /\ Len(log[q]) \in Nat
        /\ position[q] <= Len(log[q])
        /\ Len(log[q]) <= MaxLog[q]
    BY ConsumerAssumption DEF IInv, TypeOK, OffsetsInOrder
  <2> QED
    BY <2>1
<1>2. <<q, o>> \in Slots /\ InLog(<<q, o>>)
  BY <1>1, SlotIntro DEF InLog
<1>3. Settled(<<q, o>>) => Settled(<<q, o>>)'
  BY <1>2, SettledStays DEF IInv
<1>4. cur # <<q, o>> => Settled(<<q, o>>)
  BY DEF IInv, NothingSkipped
<1> QED
  BY <1>2, <1>3, <1>4

LEMMA BelowCommitted ==
    ASSUME IInv, [Next]_vars,
           NEW q \in Partitions, NEW o \in 0 .. committed[q] - 1
    PROVE  Settled(<<q, o>>)'
<1>1. o \in 0 .. position[q] - 1
  BY DEF IInv, TypeOK, OffsetsInOrder
<1>2. Settled(<<q, o>>)
  BY DEF IInv, NoLoss
<1> QED
  BY <1>1, <1>2, BelowPosition

LEMMA StepNothingSkipped == IInv /\ [Next]_vars => NothingSkipped'
<1> SUFFICES ASSUME IInv, [Next]_vars,
                    NEW q \in Partitions, NEW o \in 0 .. position'[q] - 1
             PROVE  Settled(<<q, o>>)' \/ cur' = <<q, o>>
  BY DEF NothingSkipped
<1>0. position \in [Partitions -> Nat] /\ position[q] \in Nat
  BY DEF IInv, TypeOK
<1>1. CASE position' = position /\ cur' = cur
  BY <1>1, BelowPosition
<1>2. CASE FetchError \/ CommitFails \/ Restart
  <2>1. position' = position
    BY <1>2 DEF FetchError, CommitFails, Restart, clientVars
  <2>2. cur = NoSlot \/ Settled(cur) \/ cur' = cur
    BY <1>2 DEF FetchError, CommitFails, Restart, IInv, MessageInHand
  <2>3. o \in 0 .. position[q] - 1
    BY <2>1
  <2>4. cur = <<q, o>> => cur # NoSlot
    BY <2>3, <1>0, ConsumerAssumption
  <2> QED
    BY <2>2, <2>3, <2>4, BelowPosition
<1>3. ASSUME NEW p \in Partitions, FetchEvent(p) \/ FetchRaises(p) \/ LookUp(p)
      PROVE  Settled(<<q, o>>)' \/ cur' = <<q, o>>
  <2>1. /\ cur' = <<p, position[p]>>
        /\ position' = [position EXCEPT ![p] = @ + 1]
        /\ cur = NoSlot
    BY <1>3, FetchInRange
    DEF FetchEvent, FetchRaises, LookUp, Fetch, Polling, IInv, MessageInHand
  <2>2. CASE p = q /\ o = position[p]
    BY <2>1, <2>2
  <2>3. CASE ~(p = q /\ o = position[p])
    <3>1. o \in 0 .. position[q] - 1
      BY <2>1, <2>3, <1>0
    <3>2. cur # <<q, o>>
      BY <2>1, <3>1, <1>0, ConsumerAssumption
    <3> QED
      BY <3>1, <3>2, BelowPosition
  <2> QED
    BY <2>2, <2>3
<1>4. CASE Rejoin \/ RewindRaises \/ Close \/ Crash
  <2>1. position' = committed
    BY <1>4 DEF Rejoin, RewindRaises, Close, Crash, Exit
  <2> QED
    BY <2>1, BelowCommitted
<1>5. CASE Rewind
  <2>1. /\ cur[1] \in Partitions
        /\ cur[2] \in Nat
        /\ position[cur[1]] = cur[2] + 1
    BY <1>5, CurInLog DEF Rewind, IInv, MessageInHand
  <2>2. position' = [position EXCEPT ![cur[1]] = cur[2]]
    BY <1>5 DEF Rewind
  <2>3. o \in 0 .. position[q] - 1 /\ cur # <<q, o>>
    BY <2>1, <2>2, <1>0
  <2> QED
    BY <2>3, BelowPosition
<1>6. CASE CommitStored
  <2>1. position' = position /\ Settled(cur)
    BY <1>6 DEF CommitStored, clientVars, IInv, MessageInHand
  <2> QED
    BY <2>1, BelowPosition
<1>7. \/ position' = position /\ cur' = cur
      \/ \E p \in Partitions : FetchEvent(p) \/ FetchRaises(p) \/ LookUp(p)
      \/ FetchError \/ CommitFails \/ Restart
      \/ Rejoin \/ RewindRaises \/ Close \/ Crash \/ Rewind \/ CommitStored
  BY DEF Next, vars, clientVars, Publish, LateLetter, LetterExpires, LoseAssignment,
         SchemaArrives, LookUpFails, Reject, Duplicate, Refuse, Dispatch, Record, Apply,
         BatchTimesOut, BatchLands, StoreFails, Leave, Reconnect, DlqSent, DlqFails, Stop
<1> QED
  BY <1>1, <1>2, <1>3, <1>4, <1>5, <1>6, <1>7

LEMMA StepNoLoss == IInv /\ [Next]_vars => NoLoss'
<1> SUFFICES ASSUME IInv, [Next]_vars,
                    NEW q \in Partitions, NEW o \in 0 .. committed'[q] - 1
             PROVE  Settled(<<q, o>>)'
  BY DEF NoLoss
<1>1. CASE committed' = committed
  BY <1>1, BelowCommitted
<1>2. CASE CommitStored
  <2>1. /\ cur[1] \in Partitions
        /\ cur[2] \in Nat
        /\ position[cur[1]] = cur[2] + 1
        /\ Settled(cur)
    BY <1>2, CurInLog DEF CommitStored, IInv, MessageInHand
  <2>2. committed' = [committed EXCEPT ![cur[1]] = cur[2] + 1]
    BY <1>2 DEF CommitStored
  <2>3. committed[q] \in Nat /\ position[q] \in Nat /\ committed[q] <= position[q]
    BY DEF IInv, TypeOK, OffsetsInOrder
  <2>4. o \in 0 .. committed[q] - 1 \/ (q = cur[1] /\ o \in 0 .. position[q] - 1)
    BY <2>1, <2>2, <2>3 DEF IInv, TypeOK
  <2>5. CASE o \in 0 .. committed[q] - 1
    BY <2>5, BelowCommitted
  <2>6. CASE q = cur[1] /\ o \in 0 .. position[q] - 1
    BY <2>1, <2>6, BelowPosition
  <2> QED
    BY <2>4, <2>5, <2>6
<1>3. committed' = committed \/ CommitStored
  BY DEF Next, vars, brokerVars, Publish, FetchEvent, FetchRaises, LookUp,
         SchemaArrives, LookUpFails, LateLetter, LetterExpires, LoseAssignment,
         Rejoin, FetchError, Reject, Duplicate, Refuse, Dispatch, Record, Apply,
         BatchTimesOut, BatchLands, StoreFails, Leave, Reconnect, Rewind,
         RewindRaises, Exit, DlqSent, DlqFails, CommitFails, Stop, Close, Crash,
         Restart
<1> QED
  BY <1>1, <1>2, <1>3

\* What the steps do to the counts of an event: its batch in time, a batch that
\* lands late, or nothing.
LEMMA CountSteps ==
    ASSUME [Next]_vars
    PROVE  \/ Record
           \/ \E s \in Slots : BatchLands(s)
           \/ UNCHANGED <<recorded, effects, landed>>
BY DEF Next, vars, storeVars, Publish, FetchEvent, FetchRaises, LookUp, SchemaArrives,
       LookUpFails, LateLetter, LetterExpires, LoseAssignment, Rejoin, FetchError,
       Reject, Duplicate, Refuse, Dispatch, BatchTimesOut, StoreFails, Reconnect,
       Rewind, RewindRaises, Exit, DlqSent, DlqFails, CommitStored, CommitFails, Stop,
       Close, Crash, Restart

\* A batch that lands late counts its event once, and is counted itself.
LEMMA LandingCounts ==
    ASSUME IInv, NEW s \in Slots, BatchLands(s), NEW e \in EventIds
    PROVE  /\ effects'[e] \in Nat /\ landed'[e] \in Nat
           /\ effects[e] \in Nat /\ landed[e] \in Nat
           /\ effects'[e] - landed'[e] <= effects[e] - landed[e]
           /\ recorded \subseteq recorded'
<1>1. effects \in [EventIds -> Nat] /\ landed \in [EventIds -> Nat]
  BY DEF IInv, TypeOK
<1>2. PICK n \in {0, 1} : effects' = [effects EXCEPT ![EventAt(s)] = @ + n]
  BY DEF BatchLands, Apply
<1>3. landed' = [landed EXCEPT ![EventAt(s)] = @ + 1] /\ recorded \subseteq recorded'
  BY DEF BatchLands, Apply
<1>4. CASE e = EventAt(s)
  BY <1>1, <1>2, <1>3, <1>4
<1>5. CASE e # EventAt(s)
  BY <1>1, <1>2, <1>3, <1>5
<1> QED
  BY <1>4, <1>5

LEMMA StepNotCountedSince == IInv /\ [Next]_vars => NotCountedSince'
<1> SUFFICES ASSUME IInv, [Next]_vars, pc' = "handle"
             PROVE  effects'[EventAt(cur)'] <= landed'[EventAt(cur)']
  BY DEF NotCountedSince
<1>1. CASE Dispatch
  <2>1. EventAt(cur) \in EventIds /\ EventAt(cur) \notin recorded
    BY <1>1, CurInLog DEF Dispatch, Reading, IInv, MessageInHand
  <2>2. effects[EventAt(cur)] <= landed[EventAt(cur)]
    BY <2>1 DEF IInv, TypeOK, CountedOnce
  <2>3. EventAt(cur)' = EventAt(cur) /\ effects' = effects /\ landed' = landed
    BY <1>1 DEF Dispatch, Leave, EventAt, brokerVars, storeVars
  <2> QED
    BY <2>2, <2>3
<1>2. CASE ~Dispatch
  <2>1. pc = "handle" /\ cur' = cur
    BY <1>2 DEF Next, vars, Publish, FetchEvent, FetchRaises, LookUp, SchemaArrives,
         LookUpFails, LateLetter, LetterExpires, LoseAssignment, Rejoin, FetchError,
         Reject, Duplicate, Refuse, Record, BatchTimesOut, BatchLands, StoreFails,
         Leave, Reconnect, Rewind, RewindRaises, Exit, DlqSent, DlqFails,
         CommitStored, CommitFails, Stop, Close, Crash, Restart
  <2>2. cur \in Slots /\ InLog(cur) /\ EventAt(cur) \in EventIds
    BY <2>1, CurInLog DEF IInv, MessageInHand
  <2>3. EventAt(cur)' = EventAt(cur)
    BY <2>1, <2>2, SettledStays DEF IInv, EventAt
  <2>4. effects[EventAt(cur)] <= landed[EventAt(cur)]
    BY <2>1 DEF IInv, NotCountedSince
  <2>5. ~Record
    BY <1>2, <2>1 DEF Record, Leave
  <2>6. ASSUME NEW s \in Slots, BatchLands(s)
        PROVE  effects'[EventAt(cur)] <= landed'[EventAt(cur)]
    BY <2>2, <2>4, <2>6, LandingCounts
  <2>7. effects'[EventAt(cur)] <= landed'[EventAt(cur)]
    BY <2>4, <2>5, <2>6, CountSteps
  <2> QED
    BY <2>3, <2>7
<1> QED
  BY <1>1, <1>2

LEMMA StepCountedOnce == IInv /\ [Next]_vars => CountedOnce'
<1> SUFFICES ASSUME IInv, [Next]_vars, NEW e \in EventIds
             PROVE  effects'[e] <= landed'[e] + (IF e \in recorded' THEN 1 ELSE 0)
  BY DEF CountedOnce
<1>0. /\ effects \in [EventIds -> Nat]
      /\ effects[e] \in Nat /\ landed[e] \in Nat
      /\ effects[e] <= landed[e] + (IF e \in recorded THEN 1 ELSE 0)
  BY DEF IInv, TypeOK, CountedOnce
<1>1. CASE Record
  <2>1. /\ recorded' = recorded \union {EventAt(cur)}
        /\ landed' = landed
        /\ effects[EventAt(cur)] <= landed[EventAt(cur)]
    BY <1>1 DEF Record, Apply, IInv, NotCountedSince
  <2>2. PICK n \in {0, 1} : effects' = [effects EXCEPT ![EventAt(cur)] = @ + n]
    BY <1>1 DEF Record, Apply
  <2>3. CASE e = EventAt(cur)
    BY <1>0, <2>1, <2>2, <2>3
  <2>4. CASE e # EventAt(cur)
    BY <1>0, <2>1, <2>2, <2>4
  <2> QED
    BY <2>3, <2>4
<1>2. ASSUME NEW s \in Slots, BatchLands(s)
      PROVE  effects'[e] <= landed'[e] + (IF e \in recorded' THEN 1 ELSE 0)
  BY <1>0, <1>2, LandingCounts
<1>3. CASE UNCHANGED <<recorded, effects, landed>>
  BY <1>0, <1>3
<1> QED
  BY <1>1, <1>2, <1>3, CountSteps

-----------------------------------------------------------------------------
(* The theorems.                                                           *)

LEMMA InitIInv == Init => IInv
<1> SUFFICES ASSUME Init PROVE IInv
  OBVIOUS
<1>1. /\ log \in [Partitions -> Seq(EventIds)]
      /\ \A p \in Partitions : Len(log[p]) <= MaxLog[p]
  BY ConsumerAssumption DEF Init
<1>2. TypeOK
  BY <1>1 DEF Init, TypeOK, Running
<1>3. OffsetsInOrder
  BY DEF Init, OffsetsInOrder
<1>4. MessageInHand /\ NotCountedSince /\ LettersInOrder /\ BatchesInOrder
  BY DEF Init, MessageInHand, NotCountedSince, LettersInOrder, BatchesInOrder
<1>5. NothingSkipped /\ NoLoss /\ CountedOnce
  BY DEF Init, NothingSkipped, NoLoss, CountedOnce
<1> QED
  BY <1>2, <1>3, <1>4, <1>5 DEF IInv

\* The inductive invariant: what is in hand, what lies below each offset and
\* what waits in the DLQ producer, together.
THEOREM Invariance == Spec => []IInv
<1>1. Init => IInv
  BY InitIInv
<1>2. IInv /\ [Next]_vars => IInv'
  BY StepTypeOK, StepOffsetsInOrder, StepMessageInHand, StepNotCountedSince,
     StepLettersInOrder, StepBatchesInOrder, StepNothingSkipped, StepNoLoss,
     StepCountedOnce DEF IInv
<1> QED
  BY <1>1, <1>2, PTL DEF Spec

\* The variables keep their types.
THEOREM TypeCorrect == Spec => []TypeOK
<1>1. IInv => TypeOK
  BY DEF IInv
<1> QED
  BY <1>1, Invariance, PTL

\* No message is acknowledged and forgotten, whatever fails, and however often.
THEOREM NeverLoses == Spec => []NoLoss
<1>1. IInv => NoLoss
  BY DEF IInv
<1> QED
  BY <1>1, Invariance, PTL

\* The fetch position passes no message that is not settled or in hand.
THEOREM NeverSkips == Spec => []NothingSkipped
<1>1. IInv => NothingSkipped
  BY DEF IInv
<1> QED
  BY <1>1, Invariance, PTL

\* No redelivery, no retry and no copy of an event counts it a second time. Only
\* batches that land after their call had given up do, one count each.
THEOREM CountsOnce == Spec => []CountedOnce
<1>1. IInv => CountedOnce
  BY DEF IInv
<1> QED
  BY <1>1, Invariance, PTL

-----------------------------------------------------------------------------
(* The refinement: a step of the loop is a step of DeliveryContract or     *)
(* leaves the contract's variables alone.                                  *)

LEMMA PublishRefines ==
    ASSUME NEW p \in Partitions, NEW e \in EventIds, Publish(p, e)
    PROVE  Contract!Next
<1>1. Contract!Publish(p, e)
  BY DEF Publish, Contract!Publish, storeVars
<1> QED
  BY <1>1 DEF Contract!Next

LEMMA RecordRefines ==
    ASSUME IInv, Record
    PROVE  Contract!Next
<1>1. cur # NoSlot
  BY DEF Record, IInv, MessageInHand
<1>2. cur \in Slots /\ InLog(cur) /\ EventAt(cur) \in EventIds
  BY <1>1, CurInLog
<1>3. Contract!SettledBelow(cur[1], cur[2])
  BY <1>1, CurIsNext
  DEF Contract!SettledBelow, Contract!Settled, Contract!EventAt, Settled, EventAt
<1>4. PICK n \in {0, 1} : effects' = [effects EXCEPT ![EventAt(cur)] = @ + n]
  BY DEF Record, Apply
<1>5. effects[EventAt(cur)] + n <= landed[EventAt(cur)] + 1
  BY <1>2 DEF Record, IInv, TypeOK, NotCountedSince
<1>6. Contract!Record(cur, n)
  BY <1>2, <1>3, <1>4, <1>5
  DEF Record, Apply, Leave, brokerVars, Contract!Record, Contract!InLog,
      Contract!EventAt, InLog, EventAt
<1> QED
  BY <1>2, <1>6 DEF Contract!Next, Contract!Slots, Slots

LEMMA LandingRefines ==
    ASSUME IInv, NEW s \in Slots, BatchLands(s)
    PROVE  Contract!Next
<1>1. InOrder(s)
  BY DEF BatchLands, IInv, BatchesInOrder
<1>2. Contract!InLog(s) /\ Contract!SettledBelow(s[1], s[2])
  BY <1>1
  DEF InOrder, InLog, Settled, EventAt, Contract!InLog, Contract!SettledBelow,
      Contract!Settled, Contract!EventAt
<1>3. PICK n \in {0, 1} : effects' = [effects EXCEPT ![EventAt(s)] = @ + n]
  BY DEF BatchLands, Apply
<1>4. Contract!RecordLate(s, n)
  BY <1>2, <1>3
  DEF BatchLands, Apply, brokerVars, Contract!RecordLate, Contract!EventAt, EventAt
<1> QED
  BY <1>4 DEF Contract!Next, Contract!Slots, Slots

LEMMA LettersRefine ==
    ASSUME IInv, NEW sent,
           sent \subseteq letters \union {cur},
           dlq' = dlq \union sent,
           UNCHANGED <<log, committed, recorded, effects, landed>>
    PROVE  Contract!Next
<1>1. sent \subseteq Contract!Slots \union {NoSlot}
  BY DEF IInv, TypeOK, Slots, Contract!Slots
<1>2. ASSUME NEW s \in sent, s # NoSlot
      PROVE  Contract!InLog(s) /\ Contract!SettledBelow(s[1], s[2])
  <2>1. CASE s \in letters
    BY <1>2, <2>1
    DEF IInv, LettersInOrder, InOrder, InLog, Settled, EventAt, Contract!InLog,
        Contract!SettledBelow, Contract!Settled, Contract!EventAt
  <2>2. CASE s = cur
    BY <1>2, <2>2, CurInLog, CurIsNext
    DEF InLog, Settled, EventAt, Contract!InLog, Contract!SettledBelow,
        Contract!Settled, Contract!EventAt
  <2> QED
    BY <2>1, <2>2
<1>3. Contract!DeadLetter(sent)
  BY <1>2 DEF Contract!DeadLetter
<1> QED
  BY <1>1, <1>3 DEF Contract!Next

LEMMA CommitRefines ==
    ASSUME IInv, CommitStored
    PROVE  Contract!Next
<1>1. /\ cur[1] \in Partitions
      /\ cur[2] \in Nat
      /\ cur = <<cur[1], cur[2]>>
      /\ InLog(cur)
      /\ Settled(cur)
      /\ committed[cur[1]] <= cur[2]
      /\ cur # NoSlot
  BY CurInLog DEF CommitStored, IInv, MessageInHand
<1> DEFINE n == cur[2] + 1
<1>2. /\ committed[cur[1]] \in Nat
      /\ Len(log[cur[1]]) \in Nat
      /\ Len(log[cur[1]]) <= MaxLog[cur[1]]
      /\ MaxLog[cur[1]] \in Nat
  BY <1>1, ConsumerAssumption DEF IInv, TypeOK
<1>3. /\ n \in 1 .. MaxLog[cur[1]]
      /\ committed[cur[1]] < n
      /\ n <= Len(log[cur[1]])
  BY <1>1, <1>2 DEF InLog
<1>4. ASSUME NEW o \in 0 .. n - 1 PROVE Settled(<<cur[1], o>>)
  <2>1. CASE o = cur[2]
    BY <1>1, <2>1
  <2>2. CASE o # cur[2]
    <3>1. o \in 0 .. cur[2] - 1
      BY <1>1, <2>2
    <3> QED
      BY <1>1, <3>1, CurIsNext
  <2> QED
    BY <2>1, <2>2
<1>5. Contract!SettledBelow(cur[1], n)
  BY <1>4
  DEF Contract!SettledBelow, Contract!Settled, Contract!EventAt, Settled, EventAt
<1>6. Contract!Ack(cur[1], n)
  BY <1>3, <1>5 DEF CommitStored, storeVars, Contract!Ack
<1> QED
  BY <1>1, <1>3, <1>6 DEF Contract!Next

LEMMA StepRefines == IInv /\ [Next]_vars => [Contract!Next]_(Contract!vars)
<1> SUFFICES ASSUME IInv, [Next]_vars PROVE [Contract!Next]_(Contract!vars)
  OBVIOUS
<1>1. CASE UNCHANGED <<log, committed, recorded, effects, landed, dlq>>
  BY <1>1 DEF Contract!vars
<1>2. ASSUME NEW p \in Partitions, NEW e \in EventIds, Publish(p, e)
      PROVE  Contract!Next
  BY <1>2, PublishRefines
<1>3. CASE Record
  BY <1>3, RecordRefines
<1>4. ASSUME NEW s \in letters, LateLetter(s) PROVE Contract!Next
  <2>1. dlq' = dlq \union {s} /\ {s} \subseteq letters \union {cur}
    BY <1>4 DEF LateLetter
  <2> QED
    BY <1>4, <2>1, LettersRefine DEF LateLetter, storeVars
<1>5. CASE DlqSent
  <2>1. PICK arrived \in SUBSET letters : dlq' = dlq \union arrived \union {cur}
    BY <1>5 DEF DlqSent
  <2>2. /\ dlq' = dlq \union (arrived \union {cur})
        /\ arrived \union {cur} \subseteq letters \union {cur}
    BY <2>1
  <2> QED
    BY <1>5, <2>2, LettersRefine DEF DlqSent, storeVars
<1>6. CASE DlqFails
  <2>1. PICK arrived \in SUBSET (letters \union {cur}) : dlq' = dlq \union arrived
    BY <1>6 DEF DlqFails
  <2> QED
    BY <1>6, <2>1, LettersRefine DEF DlqFails, storeVars
<1>7. CASE CommitStored
  BY <1>7, CommitRefines
<1>9. ASSUME NEW s \in Slots, BatchLands(s) PROVE Contract!Next
  BY <1>9, LandingRefines
<1>8. \/ UNCHANGED <<log, committed, recorded, effects, landed, dlq>>
      \/ \E p \in Partitions, e \in EventIds : Publish(p, e)
      \/ \E s \in letters : LateLetter(s)
      \/ \E s \in Slots : BatchLands(s)
      \/ Record \/ DlqSent \/ DlqFails \/ CommitStored
  BY DEF Next, vars, brokerVars, storeVars, FetchEvent, FetchRaises, LookUp,
         SchemaArrives, LookUpFails, LetterExpires, LoseAssignment, Rejoin,
         FetchError, Reject, Duplicate, Dispatch, Refuse, BatchTimesOut, StoreFails,
         Leave, Reconnect, Rewind, RewindRaises, Exit, CommitFails, Stop, Close, Crash,
         Restart
<1> QED
  BY <1>1, <1>2, <1>3, <1>4, <1>5, <1>6, <1>7, <1>8, <1>9

\* The loop, its retries, rewinds and restarts included, implements the promise
\* of DeliveryContract.
THEOREM Refinement == Spec => ImplementsContract
<1>1. Init => Contract!Init
  BY DEF Init, Contract!Init
<1>2. IInv /\ [Next]_vars => [Contract!Next]_(Contract!vars)
  BY StepRefines
<1> QED
  BY <1>1, <1>2, Invariance, PTL DEF Spec, Contract!Spec, ImplementsContract
=============================================================================
