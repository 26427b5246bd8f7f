----------------------------- MODULE OrderDesk ------------------------------
(***************************************************************************)
(* The order desk: orders, their tables, their delivery and the payment    *)
(* ledger, under every handler of the server that writes them.             *)
(*                                                                         *)
(* The two database routines (create_or_append_order and                  *)
(* apply_order_payment_mutation) run under a lock and are one step each.  *)
(* Every other handler is TypeScript that reads a row, decides, and writes *)
(* it back in later, separate statements: one action per statement, with  *)
(* what was read kept in the handler's request record meanwhile.  A        *)
(* handler can die between any two of its statements.                     *)
(*                                                                         *)
(* Money is counted in units of one item price.                           *)
(***************************************************************************)
EXTENDS OrderRules, FiniteSets

CONSTANTS
  Actors,       \* server-side handlers that may be in flight at once
  Tables,       \* tables of the branch
  NoTable,      \* "no table": a pick-up or delivery order
  Stations,     \* preparation stations
  Keys,         \* idempotency keys the clients use
  NoKey,        \* the key of a request that carries none
  NoReq,        \* an idle actor
  MaxOrders,    \* bound: orders ever created
  MaxRequests,  \* bound: requests ever accepted
  MaxAmount,    \* bound: units per order round and per payment
  Adjustments,  \* service fee minus discount, the values tried
  Handlers      \* handlers enabled in this configuration

Orders == 1..MaxOrders

AllHandlers ==
  {"create", "maintenance", "status", "station", "financials", "sale",
   "refund", "cancel", "qr_cancel", "item", "move", "table", "delivery"}

ASSUME BoundsAssumption ==
  MaxOrders \in Nat \ {0} /\ MaxRequests \in Nat /\ MaxAmount \in Nat
ASSUME NamesAssumption ==
  /\ NoTable \notin Tables
  /\ NoKey \notin Keys
  /\ Adjustments \subseteq Int
  /\ Handlers \subseteq AllHandlers

VARIABLES
  orders,    \* orders[o]: the row of table orders
  tables,    \* tables[t]: the column tables.status
  sales,     \* sales[o]: sum of the 'sale' rows of payments
  refunds,   \* refunds[o]: sum of the 'refund' rows of payments
  rows,      \* rows[o][kind][k]: number of payment rows under key k
  req,       \* req[a]: the request handler a is working on
  started    \* requests accepted so far

vars == <<orders, tables, sales, refunds, rows, req, started>>
ledger == <<sales, refunds, rows>>

-----------------------------------------------------------------------------
(* Types.                                                                  *)

TableStatus == {"empty", "occupied", "reserved"}
Fulfillment == {"not_applicable", "awaiting_dispatch", "out_for_delivery", "completed"}
RowKind     == {"sale", "refund", "cancel_note"}
Place       == Tables \cup {NoTable}
KeyOrNone   == Keys \cup {NoKey}
StationMap  == [Stations -> StationStatus \cup {NoWork}]

Row == [status   : OrderStatus \cup {"absent"},
        table    : Place,
        total    : Nat,         \* total_price
        adjust   : Int,         \* service_fee - discount_amount
        final    : Nat,         \* final_price
        version  : Nat,         \* lock_version
        stations : StationMap,
        delivery : Fulfillment] \* fulfillment_status; an order of another
                               \* channel has "not_applicable"

Steps == {"occupy", "sync.read", "sync.write",
          "status.write", "status.table", "station.write",
          "financials.write", "sale.rpc", "refund.rpc",
          "cancel.check", "cancel.write", "cancel.table", "cancel.note",
          "delivery.write",
          "qr.check", "qr.write", "qr.table", "item.write",
          "move.look", "move.claim", "move.order", "move.release",
          "table.check", "table.write"}

\* seen: the row as the handler read it; want: the row as it means to write it;
\* sold, refunded: history only, the ledger at the moment of that read.
Request == [step     : Steps,
            order    : Orders,
            table    : Place,
            amount   : Nat,     \* 0 when the client names no amount
            key      : KeyOrNone,
            note     : BOOLEAN,
            target   : Place,   \* of a move
            setTo    : TableStatus,
            seen     : Row,
            want     : Row,
            sold     : Nat,
            refunded : Nat]

NoStations == [s \in Stations |-> NoWork]
AbsentRow  == [status |-> "absent", table |-> NoTable, total |-> 0, adjust |-> 0,
               final |-> 0, version |-> 0, stations |-> NoStations,
               delivery |-> "not_applicable"]

TypeOK ==
  /\ orders  \in [Orders -> Row]
  /\ tables  \in [Tables -> TableStatus]
  /\ sales   \in [Orders -> Nat]
  /\ refunds \in [Orders -> Nat]
  /\ rows    \in [Orders -> [RowKind -> [KeyOrNone -> Nat]]]
  /\ req     \in [Actors -> Request \cup {NoReq}]
  /\ started \in Nat

Init ==
  /\ orders  = [o \in Orders |-> AbsentRow]
  /\ tables  = [t \in Tables |-> "empty"]
  /\ sales   = [o \in Orders |-> 0]
  /\ refunds = [o \in Orders |-> 0]
  /\ rows    = [o \in Orders |-> [p \in RowKind |-> [k \in KeyOrNone |-> 0]]]
  /\ req     = [a \in Actors |-> NoReq]
  /\ started = 0

-----------------------------------------------------------------------------
(* Requests.                                                               *)

OpenAt(t) == {o \in Orders : orders[o].table = t /\ orders[o].status \in OpenStatus}
Net(o)    == sales[o] - refunds[o]

\* A request on order o whose handler has just read the row.
Reading(o, step, want) ==
  [step |-> step, order |-> o, table |-> orders[o].table, amount |-> 0,
   key |-> NoKey, note |-> FALSE, target |-> NoTable, setTo |-> "empty",
   seen |-> orders[o], want |-> want, sold |-> sales[o], refunded |-> refunds[o]]

\* Idle actor a accepts request r of a handler that is enabled.
Accept(a, handler, r) ==
  /\ handler \in Handlers
  /\ req[a] = NoReq
  /\ started < MaxRequests
  /\ req' = [req EXCEPT ![a] = r]
  /\ started' = started + 1

At(a, step) == req[a] # NoReq /\ req[a].step = step

Goto(a, step) ==
  /\ req' = [req EXCEPT ![a].step = step]
  /\ UNCHANGED started

Finish(a) ==
  /\ req' = [req EXCEPT ![a] = NoReq]
  /\ UNCHANGED started

\* The handler's process is killed, or a statement fails and it gives up.
Die(a) ==
  /\ req[a] # NoReq
  /\ Finish(a)
  /\ UNCHANGED <<orders, tables, ledger>>

-----------------------------------------------------------------------------
(* Creating an order, or adding a round to the open order of the table.    *)

\* mutant: a partly paid order is not looked for
AppendTargetUnpaid(t) ==
  IF t = NoTable THEN {}
  ELSE {o \in OpenAt(t) : /\ orders[o].status # "partially_paid"
                          /\ \A p \in OpenAt(t) : p <= o}

\* The open order of the table a new round goes to: the latest created.
AppendTarget(t) ==
  IF t = NoTable THEN {}
  ELSE {o \in OpenAt(t) : \A p \in OpenAt(t) : p <= o}

\* Rows get their numbers in the order they are created.
NextOrder == {o \in Orders : /\ orders[o].status = "absent"
                             /\ \A p \in Orders : p < o => orders[p].status # "absent"}

\* An order without a table is picked up or delivered.
NewDelivery(t) == IF t = NoTable /\ "delivery" \in Handlers
                  THEN {"not_applicable", "awaiting_dispatch"} ELSE {"not_applicable"}

NewRow(t, n, d) ==
  [AbsentRow EXCEPT !.status = "pending", !.table = t, !.total = n, !.final = n,
                    !.delivery = d]

\* The append leaves lock_version alone.
WithRound(row, n) ==
  [row EXCEPT !.status = "pending", !.total = @ + n, !.final = @ + n]

\* The routine runs under an advisory lock per table; createOrder then starts
\* the maintenance of that order without waiting for it.
Create(a, t, n, st) ==
  \E o \in IF AppendTarget(t) = {} THEN NextOrder ELSE AppendTarget(t), d \in NewDelivery(t) :
    LET row  == IF AppendTarget(t) = {} THEN NewRow(t, n, d) ELSE WithRound(orders[o], n)
        work == [row EXCEPT !.stations = [s \in Stations |->
                               IF s \in st THEN "pending" ELSE NoWork]]
    IN  /\ orders' = [orders EXCEPT ![o] = row]
        /\ Accept(a, "create",
                  [Reading(o, IF t = NoTable THEN "sync.read" ELSE "occupy", work)
                     EXCEPT !.table = t, !.seen = row])
        /\ UNCHANGED <<tables, ledger>>

MaintainTable(a) ==
  /\ "maintenance" \in Handlers
  /\ At(a, "occupy")
  /\ tables' = [tables EXCEPT ![req[a].table] = "occupied"]
  /\ Goto(a, "sync.read")
  /\ UNCHANGED <<orders, ledger>>

\* The incoming items put their stations back to pending.
MergeStations(current, incoming) ==
  [s \in Stations |-> IF incoming[s] = "pending" THEN "pending" ELSE current[s]]

MaintainRead(a) ==
  /\ "maintenance" \in Handlers
  /\ At(a, "sync.read")
  /\ LET o      == req[a].order
         row    == orders[o]
         merged == MergeStations(row.stations, req[a].want.stations)
         want   == [row EXCEPT !.stations = merged,
                               !.status = AggregateStatus(row.status, merged)]
     IN  /\ row.status \notin {"paid", "cancelled", "refunded"}
         /\ req' = [req EXCEPT ![a] = Reading(o, "sync.write", want)]
         /\ UNCHANGED <<orders, tables, ledger, started>>

MaintainSkip(a) ==
  /\ "maintenance" \in Handlers
  /\ At(a, "sync.read")
  /\ orders[req[a].order].status \in {"paid", "cancelled", "refunded"}
  /\ Finish(a)
  /\ UNCHANGED <<orders, tables, ledger>>

\* Written back without looking at lock_version.
MaintainWrite(a) ==
  /\ At(a, "sync.write")
  /\ orders' = [orders EXCEPT ![req[a].order].status   = req[a].want.status,
                              ![req[a].order].stations = req[a].want.stations]
  /\ Finish(a)
  /\ UNCHANGED <<tables, ledger>>

-----------------------------------------------------------------------------
(* The handlers that write under the optimistic lock.                      *)

\* mutant: the update is not conditional
UnmovedAlways(a) == orders[req[a].order].version >= req[a].seen.version

\* The row's lock_version is still the one the handler read.
Unmoved(a) == orders[req[a].order].version = req[a].seen.version

\* The conditional update found no row: the handler reports a conflict.
LockMiss(a) ==
  /\ \E step \in {"status.write", "station.write", "financials.write"} : At(a, step)
  /\ ~Unmoved(a)
  /\ Finish(a)
  /\ UNCHANGED <<orders, tables, ledger>>

ServeStations(stations) ==
  [s \in Stations |-> IF stations[s] = NoWork THEN NoWork ELSE "served"]

\* Only a promotion writes the station column.
Promotion == {"ready", "served", "partially_paid", "paid"}

StatusRead(a, o, next) ==
  LET row  == orders[o]
      want == [row EXCEPT !.status = next,
                          !.stations = IF next \in Promotion THEN ServeStations(@) ELSE @]
  IN  /\ row.status # "absent" /\ row.status # next
      /\ AllowedTransition(row.status, next)
      /\ Accept(a, "status", Reading(o, "status.write", want))
      /\ UNCHANGED <<orders, tables, ledger>>

StatusWrite(a) ==
  LET r == req[a] IN
  /\ At(a, "status.write")
  /\ Unmoved(a)
  /\ orders' = [orders EXCEPT
        ![r.order].status   = r.want.status,
        ![r.order].stations = IF r.want.status \in Promotion THEN r.want.stations ELSE @,
        ![r.order].version  = r.seen.version + 1]
  /\ IF r.want.status = "paid" /\ r.table # NoTable
       THEN Goto(a, "status.table") ELSE Finish(a)
  /\ UNCHANGED <<tables, ledger>>

StatusTable(a) ==
  /\ At(a, "status.table")
  /\ tables' = [tables EXCEPT ![req[a].table] = "empty"]
  /\ Finish(a)
  /\ UNCHANGED <<orders, ledger>>

StationRead(a, o, s, next) ==
  LET row   == orders[o]
      after == [row.stations EXCEPT ![s] = next]
      want  == [row EXCEPT !.stations = after,
                           !.status = AggregateStatus(row.status, after)]
  IN  /\ row.status \notin {"absent", "paid", "cancelled", "refunded"}
      /\ AllowedTransition(row.status, want.status)
      /\ Accept(a, "station", Reading(o, "station.write", want))
      /\ UNCHANGED <<orders, tables, ledger>>

StationWrite(a) ==
  LET r == req[a] IN
  /\ At(a, "station.write")
  /\ Unmoved(a)
  /\ orders' = [orders EXCEPT ![r.order].status   = r.want.status,
                              ![r.order].stations = r.want.stations,
                              ![r.order].version  = r.seen.version + 1]
  /\ Finish(a)
  /\ UNCHANGED <<tables, ledger>>

\* No status is too late for a discount, a paid order's included.
FinancialsRead(a, o, adj) ==
  LET row  == orders[o]
      want == [row EXCEPT !.adjust = adj, !.final = NonNegative(row.total + adj)]
  IN  /\ row.status # "absent"
      /\ Accept(a, "financials", Reading(o, "financials.write", want))
      /\ UNCHANGED <<orders, tables, ledger>>

FinancialsWrite(a) ==
  LET r == req[a] IN
  /\ At(a, "financials.write")
  /\ Unmoved(a)
  /\ orders' = [orders EXCEPT ![r.order].adjust  = r.want.adjust,
                              ![r.order].final   = r.want.final,
                              ![r.order].version = r.seen.version + 1]
  /\ Finish(a)
  /\ UNCHANGED <<tables, ledger>>

-----------------------------------------------------------------------------
(* The payment routine of the database: one transaction under the row lock. *)

\* A note of a cancellation is a row of amount 0 and of payment type 'sale':
\* its key counts as a sale's key.
RowsUnder(o, type, k) ==
  rows[o][type][k] + (IF type = "sale" THEN rows[o]["cancel_note"][k] ELSE 0)

\* mutant: the lookup forgets to filter on the key's own payment type
KeyKnownAsRefund(o, type, k) == k # NoKey /\ rows[o]["refund"][k] > 0

KeyKnown(o, type, k) == k # NoKey /\ RowsUnder(o, type, k) > 0

\* mutant: lock_version is left alone
SettleUnversioned(o, sold, refunded) ==
  LET next == SettledStatus(orders[o].final, sold, refunded, orders[o].status)
      t    == orders[o].table
  IN  /\ orders' = [orders EXCEPT ![o].status = next]
      /\ tables' = IF next = "paid" /\ t # NoTable
                   THEN [tables EXCEPT ![t] = "empty"] ELSE tables

\* mutant: the status is computed from the sales alone
SettleOnSales(o, sold, refunded) ==
  LET next == SettledStatus(orders[o].final, sold, 0, orders[o].status)
      t    == orders[o].table
  IN  /\ orders' = [orders EXCEPT ![o].status = next, ![o].version = @ + 1]
      /\ tables' = IF next = "paid" /\ t # NoTable
                   THEN [tables EXCEPT ![t] = "empty"] ELSE tables

\* Recompute the status from the ledger; a paid order frees its table.
Settle(o, sold, refunded) ==
  LET next == SettledStatus(orders[o].final, sold, refunded, orders[o].status)
      t    == orders[o].table
  IN  /\ orders' = [orders EXCEPT ![o].status = next, ![o].version = @ + 1]
      /\ tables' = IF next = "paid" /\ t # NoTable
                   THEN [tables EXCEPT ![t] = "empty"] ELSE tables

InsertRow(o, type, k) == rows' = [rows EXCEPT ![o][type][k] = @ + 1]

\* mutant: what was refunded is not subtracted
RemainingOfSales(o) == NonNegative(orders[o].final - sales[o] + 2 * refunds[o])
\* mutant: earlier refunds are forgotten
RefundableSales(o) == NonNegative(sales[o])

Remaining(o)  == NonNegative(orders[o].final - Net(o))
Refundable(o) == NonNegative(Net(o))

\* With no amount named the routine takes all there is.
Effective(amount, limit) == IF amount = 0 THEN limit ELSE amount
Fits(amount, limit)      == Effective(amount, limit) \in 1..limit

PaymentRequest(o, step, k, n) ==
  [Reading(o, step, orders[o]) EXCEPT !.key = k, !.amount = n]

SaleCheck(a, o, k, n) ==
  /\ orders[o].status \notin {"absent", "cancelled", "refunded", "partially_refunded"}
  /\ Accept(a, "sale", PaymentRequest(o, "sale.rpc", k, n))
  /\ UNCHANGED <<orders, tables, ledger>>

TakesSales(o) == orders[o].status \notin {"cancelled", "refunded"}

SaleApply(a) ==
  LET o == req[a].order
      k == req[a].key
      n == Effective(req[a].amount, Remaining(o))
  IN  /\ At(a, "sale.rpc")
      /\ TakesSales(o) /\ ~KeyKnown(o, "sale", k)
      /\ Fits(req[a].amount, Remaining(o))
      /\ sales' = [sales EXCEPT ![o] = @ + n]
      /\ InsertRow(o, "sale", k)
      /\ Settle(o, sales[o] + n, refunds[o])
      /\ Finish(a)
      /\ UNCHANGED refunds

RefundCheck(a, o, k, n) ==
  /\ orders[o].status \notin {"absent", "cancelled"}
  /\ Accept(a, "refund", PaymentRequest(o, "refund.rpc", k, n))
  /\ UNCHANGED <<orders, tables, ledger>>

TakesRefunds(o) == orders[o].status # "cancelled"

RefundApply(a) ==
  LET o == req[a].order
      k == req[a].key
      n == Effective(req[a].amount, Refundable(o))
  IN  /\ At(a, "refund.rpc")
      /\ TakesRefunds(o) /\ ~KeyKnown(o, "refund", k)
      /\ Fits(req[a].amount, Refundable(o))
      /\ refunds' = [refunds EXCEPT ![o] = @ + n]
      /\ InsertRow(o, "refund", k)
      /\ Settle(o, sales[o], refunds[o] + n)
      /\ Finish(a)
      /\ UNCHANGED sales

\* A known key books nothing, but the status is recomputed all the same.
PaymentReplay(a) ==
  LET o == req[a].order IN
  /\ \/ At(a, "sale.rpc")   /\ TakesSales(o)   /\ KeyKnown(o, "sale", req[a].key)
     \/ At(a, "refund.rpc") /\ TakesRefunds(o) /\ KeyKnown(o, "refund", req[a].key)
  /\ Settle(o, sales[o], refunds[o])
  /\ Finish(a)
  /\ UNCHANGED ledger

SaleRefused(o, k, n) ==
  ~TakesSales(o) \/ (~KeyKnown(o, "sale", k) /\ ~Fits(n, Remaining(o)))
RefundRefused(o, k, n) ==
  ~TakesRefunds(o) \/ (~KeyKnown(o, "refund", k) /\ ~Fits(n, Refundable(o)))

PaymentRefused(a) ==
  LET r == req[a] IN
  /\ \/ At(a, "sale.rpc")   /\ SaleRefused(r.order, r.key, r.amount)
     \/ At(a, "refund.rpc") /\ RefundRefused(r.order, r.key, r.amount)
  /\ Finish(a)
  /\ UNCHANGED <<orders, tables, ledger>>

-----------------------------------------------------------------------------
(* Cancelling: checks first, then an unconditional write.                  *)

CancelRead(a, o, k, note) ==
  /\ orders[o].status \notin {"absent", "paid", "partially_paid", "partially_refunded"}
  /\ k = NoKey \/ rows[o]["cancel_note"][k] = 0
  /\ Accept(a, "cancel", [Reading(o, "cancel.check", orders[o])
                            EXCEPT !.key = k, !.note = note])
  /\ UNCHANGED <<orders, tables, ledger>>

\* The sums come from a cache of eight seconds that no payment clears: they may
\* be those of any earlier moment, and every order starts with nothing paid.
CancelCheck(a) ==
  /\ At(a, "cancel.check")
  /\ \/ Goto(a, "cancel.write")
     \/ sales[req[a].order] > 0 /\ Finish(a)
  /\ UNCHANGED <<orders, tables, ledger>>

CancelWrite(a) ==
  LET r == req[a] IN
  /\ At(a, "cancel.write")
  /\ orders' = [orders EXCEPT ![r.order].status = "cancelled"]
  /\ IF r.table # NoTable THEN Goto(a, "cancel.table") ELSE Goto(a, "cancel.note")
  /\ UNCHANGED <<tables, ledger>>

CancelTable(a) ==
  /\ At(a, "cancel.table")
  /\ tables' = [tables EXCEPT ![req[a].table] = "empty"]
  /\ Goto(a, "cancel.note")
  /\ UNCHANGED <<orders, ledger>>

\* The note is a payment row of amount 0; the unique index refuses a second
\* one under the same key, and the handler ignores the refusal.
CancelNote(a) ==
  LET r == req[a] IN
  /\ At(a, "cancel.note")
  /\ rows' = IF r.note /\ ~KeyKnown(r.order, "sale", r.key)
             THEN [rows EXCEPT ![r.order]["cancel_note"][r.key] = @ + 1] ELSE rows
  /\ Finish(a)
  /\ UNCHANGED <<orders, tables, sales, refunds>>

\* The guest's own cancellation, inside the window of the QR confirmation.
QrCancelRead(a, o) ==
  /\ orders[o].status = "pending" /\ orders[o].table # NoTable
  /\ Accept(a, "qr_cancel", Reading(o, "qr.check", orders[o]))
  /\ UNCHANGED <<orders, tables, ledger>>

QrCancelCheck(a) ==
  /\ At(a, "qr.check")
  /\ IF Net(req[a].order) > 0 THEN Finish(a) ELSE Goto(a, "qr.write")
  /\ UNCHANGED <<orders, tables, ledger>>

\* Conditional on the table alone; the table is emptied in any case.
QrCancelWrite(a) ==
  LET r == req[a] IN
  /\ At(a, "qr.write")
  /\ orders' = IF orders[r.order].table = r.table
               THEN [orders EXCEPT ![r.order].status = "cancelled"] ELSE orders
  /\ Goto(a, "qr.table")
  /\ UNCHANGED <<tables, ledger>>

QrCancelTable(a) ==
  /\ At(a, "qr.table")
  /\ tables' = [tables EXCEPT ![req[a].table] = "empty"]
  /\ Finish(a)
  /\ UNCHANGED <<orders, ledger>>

\* mutant: no floor at zero
LessUnfloored(price) == price - 1
Less(price) == NonNegative(price - 1)

\* One unit off the bill, written back without looking at lock_version.
ItemRead(a, o) ==
  LET row == orders[o]
      want == [row EXCEPT !.total = Less(@), !.final = Less(@)]
  IN  /\ row.status \notin {"absent", "paid", "cancelled", "refunded"}
      /\ row.total > 0
      /\ Accept(a, "item", Reading(o, "item.write", want))
      /\ UNCHANGED <<orders, tables, ledger>>

ItemWrite(a) ==
  LET r == req[a] IN
  /\ At(a, "item.write")
  /\ orders' = [orders EXCEPT ![r.order].total = r.want.total,
                              ![r.order].final = r.want.final]
  /\ Finish(a)
  /\ UNCHANGED <<tables, ledger>>

-----------------------------------------------------------------------------
(* Delivery.  Neither write looks at lock_version or moves it.             *)

\* One conditional update; anything else is refused.
CourierAssign(o) ==
  /\ "delivery" \in Handlers
  /\ orders[o].delivery = "awaiting_dispatch"
  /\ orders' = [orders EXCEPT ![o].delivery = "out_for_delivery"]
  /\ UNCHANGED <<tables, ledger, req, started>>

\* Statuses a completed delivery keeps, as they were read.
Immutable == {"paid", "partially_paid", "partially_refunded", "refunded", "cancelled"}

DeliveryRead(a, o) ==
  LET row  == orders[o]
      want == [row EXCEPT !.status = IF @ \in Immutable THEN @ ELSE "served"]
  IN  /\ row.status # "absent" /\ row.delivery \in {"awaiting_dispatch", "out_for_delivery"}
      /\ Accept(a, "delivery", Reading(o, "delivery.write", want))
      /\ UNCHANGED <<orders, tables, ledger>>

DeliveryWrite(a) ==
  LET r == req[a] IN
  /\ At(a, "delivery.write")
  /\ orders' = IF orders[r.order].delivery = "completed" THEN orders
               ELSE [orders EXCEPT ![r.order].status   = r.want.status,
                                   ![r.order].delivery = "completed"]
  /\ Finish(a)
  /\ UNCHANGED <<tables, ledger>>

-----------------------------------------------------------------------------
(* Tables: moving an order, and the status staff set by hand.              *)

MoveRead(a, s, t) ==
  /\ s # t
  /\ \E o \in AppendTarget(s) :
       Accept(a, "move", [Reading(o, "move.look", orders[o]) EXCEPT !.target = t])
  /\ UNCHANGED <<orders, tables, ledger>>

MoveLook(a) ==
  /\ At(a, "move.look")
  /\ IF tables[req[a].target] = "empty" THEN Goto(a, "move.claim") ELSE Finish(a)
  /\ UNCHANGED <<orders, tables, ledger>>

MoveClaim(a) ==
  LET t == req[a].target IN
  /\ At(a, "move.claim")
  /\ IF tables[t] = "empty"
       THEN /\ tables' = [tables EXCEPT ![t] = "occupied"]
            /\ Goto(a, "move.order")
       ELSE Finish(a) /\ UNCHANGED tables
  /\ UNCHANGED <<orders, ledger>>

\* The order follows whatever became of it since it was read.
MoveOrder(a) ==
  LET r == req[a] IN
  /\ At(a, "move.order")
  /\ orders' = [orders EXCEPT ![r.order].table = r.target]
  /\ Goto(a, "move.release")
  /\ UNCHANGED <<tables, ledger>>

\* The write of the order failed: the claim is undone.
MoveOrderFails(a) ==
  /\ At(a, "move.order")
  /\ tables' = [tables EXCEPT ![req[a].target] = "empty"]
  /\ Finish(a)
  /\ UNCHANGED <<orders, ledger>>

MoveRelease(a) ==
  /\ At(a, "move.release")
  /\ tables' = [tables EXCEPT ![req[a].table] = "empty"]
  /\ Finish(a)
  /\ UNCHANGED <<orders, ledger>>

\* Staff set a table empty or reserved: a request on no order (the order
\* fields of the record are filler).
TableSteps == {"table.check", "table.write"}
OnTable(t, step, status) ==
  [step |-> step, order |-> 1, table |-> t, amount |-> 0, key |-> NoKey,
   note |-> FALSE, target |-> NoTable, setTo |-> status, seen |-> AbsentRow,
   want |-> AbsentRow, sold |-> 0, refunded |-> 0]

TableRead(a, t, status) ==
  /\ tables[t] # status
  /\ Accept(a, "table",
            OnTable(t, IF status = "reserved" THEN "table.check" ELSE "table.write", status))
  /\ UNCHANGED <<orders, tables, ledger>>

TableCheck(a) ==
  /\ At(a, "table.check")
  /\ IF OpenAt(req[a].table) = {} THEN Goto(a, "table.write") ELSE Finish(a)
  /\ UNCHANGED <<orders, tables, ledger>>

TableWrite(a) ==
  /\ At(a, "table.write")
  /\ tables' = [tables EXCEPT ![req[a].table] = req[a].setTo]
  /\ Finish(a)
  /\ UNCHANGED <<orders, ledger>>

-----------------------------------------------------------------------------

Amounts == 0..MaxAmount

Arrive(a) ==
  \/ \E t \in Place, n \in 1..MaxAmount, st \in SUBSET Stations \ {{}} : Create(a, t, n, st)
  \/ \E o \in Orders :
       \/ \E next \in OrderStatus : StatusRead(a, o, next)
       \/ \E s \in Stations, next \in StationStatus : StationRead(a, o, s, next)
       \/ \E adj \in Adjustments : FinancialsRead(a, o, adj)
       \/ \E k \in KeyOrNone, n \in Amounts : SaleCheck(a, o, k, n) \/ RefundCheck(a, o, k, n)
       \/ \E k \in KeyOrNone, note \in BOOLEAN : CancelRead(a, o, k, note)
       \/ QrCancelRead(a, o)
       \/ ItemRead(a, o)
       \/ DeliveryRead(a, o)
  \/ \E s \in Tables, t \in Tables : MoveRead(a, s, t)
  \/ \E t \in Tables, status \in {"empty", "reserved"} : TableRead(a, t, status)

Proceed(a) ==
  \/ MaintainTable(a) \/ MaintainRead(a) \/ MaintainSkip(a) \/ MaintainWrite(a)
  \/ LockMiss(a) \/ StatusWrite(a) \/ StatusTable(a)
  \/ StationWrite(a) \/ FinancialsWrite(a)
  \/ SaleApply(a) \/ RefundApply(a) \/ PaymentReplay(a) \/ PaymentRefused(a)
  \/ CancelCheck(a) \/ CancelWrite(a) \/ CancelTable(a) \/ CancelNote(a)
  \/ QrCancelCheck(a) \/ QrCancelWrite(a) \/ QrCancelTable(a)
  \/ ItemWrite(a) \/ DeliveryWrite(a)
  \/ MoveLook(a) \/ MoveClaim(a) \/ MoveOrder(a) \/ MoveOrderFails(a) \/ MoveRelease(a)
  \/ TableCheck(a) \/ TableWrite(a)
  \/ Die(a)

Next == \/ \E a \in Actors : Arrive(a) \/ Proceed(a)
        \/ \E o \in Orders : CourierAssign(o)

Spec == Init /\ [][Next]_vars

-----------------------------------------------------------------------------
(* Properties.                                                             *)

\* What was refunded on an order was taken on it before
\* (scripts/phase3-finance-integrity-check.mjs:77-79, over-refund).
RefundsCovered == \A o \in Orders : refunds[o] <= sales[o]

\* However often a client resends a payment, a refund or a cancellation, and
\* however the resends interleave, one key of one payment type is on one row
\* (scripts/phase3-finance-integrity-check.mjs:65-68, duplicate keys).
KeyAppliedOnce ==
  \A o \in Orders, type \in {"sale", "refund"}, k \in Keys : RowsUnder(o, type, k) <= 1

\* A handler works on an order that exists, read at a lock_version the row has
\* not gone back from; and while lock_version stands where the handler read it,
\* the ledger stands there too: no conditional write can pass over a payment.
OnOrder(r)  == r # NoReq /\ r.step \notin TableSteps
ReadWell(r) ==
  /\ orders[r.order].status # "absent" /\ r.want.status # "absent"
  /\ r.seen.version <= orders[r.order].version
  /\ r.seen.version = orders[r.order].version
       => r.sold = sales[r.order] /\ r.refunded = refunds[r.order]
VersionFreezesLedger == \A a \in Actors : OnOrder(req[a]) => ReadWell(req[a])

\* A bill the guests settled, or that was paid back in part or in full, never
\* returns among the open orders of its table, whatever stale view a station
\* screen or a waiter acts on: only the two unlocked writes of a status reopen
\* one, the station sync that createOrder does not wait for and the completion
\* of a delivery, each with what it read before.  The latter may also set a
\* reopened bill back to paid, behind the back of a handler that read it open
\* with the money already taken and whose lock_version still stands.
SettledOrRefunded(o) ==
  /\ orders[o].status \in {"paid", "partially_refunded", "refunded"}
  /\ sales[o] > 0
  /\ Net(o) >= orders[o].final \/ refunds[o] > 0
UnlockedWrite(o) ==
  \E a \in Actors : /\ At(a, "sync.write") \/ At(a, "delivery.write")
                    /\ req[a].order = o /\ req'[a] = NoReq
ReadReopened(o) ==
  \E a \in Actors : /\ req[a] # NoReq /\ req'[a] # req[a] /\ req[a].order = o
                    /\ req[a].seen.status \in OpenStatus
                    /\ req[a].sold = sales[o] /\ req[a].refunded = refunds[o]
ReopenedOnlyUnlocked ==
  [][\A o \in Orders : SettledOrRefunded(o) /\ orders'[o].status \in OpenStatus
                         => UnlockedWrite(o) \/ ReadReopened(o)]_vars

\* Rounds ordered at one table at once land on one bill
\* (20260513_harden_create_or_append_order_locking.sql:50): a table gets a second
\* open order only when an order is moved there, or when one that was closed
\* comes back.  That takes an unlocked write, a handler that read it open
\* before (cancelling leaves lock_version alone), or a payment of a bill that
\* was closed by hand, or made dearer later, with money still due.
ClosedShort(o) ==
  /\ orders[o].status \in {"paid", "partially_refunded"}
  /\ refunds[o] = 0 /\ sales[o] < orders[o].final
  /\ \E a \in Actors : At(a, "sale.rpc") /\ req[a].order = o
ReadOpen(o) ==
  \E a \in Actors : /\ At(a, "status.write") \/ At(a, "station.write")
                    /\ req[a].order = o /\ req[a].seen.status \in OpenStatus
                    /\ req'[a] # req[a]
CameBack(o) == /\ orders[o].status \notin OpenStatus \cup {"absent"}
               /\ UnlockedWrite(o) \/ ReadOpen(o) \/ ClosedShort(o)
Moved(o, t) == orders[o].status # "absent" /\ orders[o].table # t
SplitOnlyByReturn ==
  [][\A o, p \in Orders : \A t \in Tables :
       o # p /\ {o, p} \subseteq OpenAt(t)' /\ ~({o, p} \subseteq OpenAt(t))
         => \E x \in {o, p} : CameBack(x) \/ Moved(x, t)]_vars

\* The status shown agrees with the ledger, for the statuses
\* scripts/phase5-order-status-consistency-check.mjs:55 compares.
StatusAgreesWithLedger ==
  \A o \in Orders :
    LET row == orders[o] IN
    row.status \in {"ready", "served", "partially_paid", "paid",
                    "partially_refunded", "refunded"}
      => row.status = ExpectedStatus(row.final, sales[o], refunds[o], row.status)

\* No money stays on a cancelled order
\* (scripts/phase3-finance-integrity-check.mjs:80-82).
NoMoneyOnCancelled ==
  \A o \in Orders : orders[o].status = "cancelled" => Net(o) <= 0

\* The ledger behaves as the payment book of the module PaymentBook, whatever
\* the handlers do to the rest of the order.
Book == INSTANCE PaymentBook WITH
  due    <- [o \in Orders |-> orders[o].final],
  closed <- {o \in Orders : orders[o].status \in {"cancelled", "refunded"}},
  taken  <- sales,
  given  <- refunds,
  used   <- [o \in Orders |-> [p \in {"sale", "refund"} |->
                                 {k \in Keys : RowsUnder(o, p, k) > 0}]]
KeepsTheBook == Book!Spec
=============================================================================
