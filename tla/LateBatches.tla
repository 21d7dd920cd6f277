----------------------------- MODULE LateBatches -----------------------------
(***************************************************************************)
(* The state processor when a batch outlives its call. session.execute     *)
(* gives up after its time-out and _execute_batch raises StateWriteError,  *)
(* but the coordinator has the LOGGED batch in its batchlog and may apply  *)
(* it later: while the event is retried, or between other events. Cells    *)
(* carry the time at which the driver sent them, so what was written since *)
(* stays.                                                                  *)
(***************************************************************************)
EXTENDS StateProcessor

VARIABLES
    late,          \* the batch under way, NoBatch if there is none
    lateHistory,   \* the rows of event_history_by_product it holds
    newer          \* rows that were written since it was sent

lateVars == <<late, lateHistory, newer>>
allVars == <<vars, lateVars>>

Tables == {"inventory", "totals", "versions", "processed", "orders", "items"}
NoCells == [r \in {} |-> 0]
NoBatch == [t \in Tables |-> NoCells]

LateInit == Init /\ late = NoBatch /\ lateHistory = {} /\ newer = {}

-----------------------------------------------------------------------------
Planned(S) == IF status = "PROCESSED" THEN S ELSE {}
OrderOf(e) == IF e.type \in OrderTypes THEN {e.order} ELSE {}
OrderStatus == IF ev.type = "ORDER_CREATED" THEN "CREATED" ELSE "COMPLETED"
BookedKeys == {k \in Keys : ev.type = "ORDER_CREATED" /\ booked[k] > 0}

\* What the batch writes, by table and row.
Batch ==
    [inventory |-> [k \in Planned(DOMAIN rows) |-> rows[k]],
     totals |-> [p \in Planned(ChangedProducts) |-> NewTotal(p)],
     versions |-> [k \in Planned(EntitiesOfPlan) |-> Stored(ev.timestamp)],
     processed |-> [r \in {ev.id} |-> status],
     orders |-> [o \in Planned(OrderOf(ev)) |-> OrderStatus],
     items |-> [i \in Planned(OrderOf(ev) \X BookedKeys) |-> booked[i[2]]]]

RowsOf(batch) == UNION {{t} \X DOMAIN batch[t] : t \in Tables}

\* Every step of the processor but its last.
Works == pc # "write" /\ (Step \/ \E e \in Events : Receive(e)) /\ UNCHANGED lateVars

WriteNow ==
    /\ Write
    /\ newer' = IF late = NoBatch THEN {} ELSE newer \union RowsOf(Batch)
    /\ UNCHANGED <<late, lateHistory>>

WriteLost == WriteFails /\ UNCHANGED lateVars

\* The time-out of a batch that the coordinator still has.
WriteTimesOut ==
    /\ pc = "write"
    /\ BatchFits
    /\ late = NoBatch
    /\ late' = Batch
    /\ lateHistory' = HistoryRows
    /\ newer' = {}
    /\ Return("STORE_ERROR")
    /\ UNCHANGED tables

\* mutant: the cells carry the time at which they arrive
Arrived(table, r, current) == IF r \in DOMAIN late[table] THEN late[table][r] ELSE current

\* The last write of a cell wins.
Winner(table, r, current) ==
    IF r \in DOMAIN late[table] /\ <<table, r>> \notin newer THEN late[table][r] ELSE current

\* At "write" it makes no difference whether the batch lands before or after.
Land ==
    /\ late # NoBatch
    /\ pc # "write"
    /\ inventory' = [k \in Keys |-> Winner("inventory", k, inventory[k])]
    /\ byZone' = [k \in Keys |-> Winner("inventory", k, byZone[k])]
    /\ totals' = [p \in Products |-> Winner("totals", p, totals[p])]
    /\ versions' = [k \in EntityKeys |-> Winner("versions", k, versions[k])]
    /\ processed' = [r \in RawIds |-> Winner("processed", r, processed[r])]
    /\ orders' = [o \in Orders |-> Winner("orders", o, orders[o])]
    /\ items' = [o \in Orders |->
                    [k \in Keys |-> Winner("items", <<o, k>>, items[o][k])]]
    /\ history' = history \union
                    {h \in lateHistory : \A g \in history : ~SamePrimaryKey(h, g)}
    /\ late' = NoBatch
    /\ lateHistory' = {}
    /\ newer' = {}
    /\ UNCHANGED <<pc, ev, plan, next, row, remaining, rows, deltas, status, verdict>>

LateNext == Works \/ WriteNow \/ WriteLost \/ WriteTimesOut \/ Land

LateSpec == LateInit /\ [][LateNext]_allVars

-----------------------------------------------------------------------------
(* Properties. StateProcessor's StockNonNegative holds here too.           *)

\* A late batch never reopens an order that was completed since.
OrdersNeverReopen ==
    [][\A o \in Orders : orders[o] = "COMPLETED" => orders'[o] = "COMPLETED"]_allVars

\* What the README says of a duplicate: the inventory is not counted twice. A
\* product never has more than the events recorded PROCESSED received of it.
NothingCountedTwice ==
    \A p \in Products :
        totals[p].available + totals[p].reserved
            <= SumOver({e \in Applied : e.type = "PRODUCT_RECEIVED" /\ e.product = p},
                       LAMBDA e : e.quantity)
=============================================================================
