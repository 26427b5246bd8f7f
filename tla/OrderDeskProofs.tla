-------------------------- MODULE OrderDeskProofs ---------------------------
(***************************************************************************)
(* What holds of the order desk for any number of actors, tables, orders,  *)
(* keys and requests, and any set of enabled handlers.                     *)
(***************************************************************************)
EXTENDS OrderDesk, WellFoundedInduction, TLAPS

-----------------------------------------------------------------------------
(* The status rules stay among the statuses.                               *)

\* The payment routine writes a status an order can have.
LEMMA SettledStatusType ==
  ASSUME NEW due \in Int, NEW sold \in Int, NEW refunded \in Int, NEW current
  PROVE  SettledStatus(due, sold, refunded, current) \in OrderStatus
BY DEF SettledStatus, OrderStatus, OpenStatus

\* The stations never make a status up: it is one of theirs or the current one.
LEMMA AggregateStatusType ==
  ASSUME NEW current, NEW stations
  PROVE  AggregateStatus(current, stations) \in {"pending", "preparing", "ready", current}
BY DEF AggregateStatus, DeriveStatus

\* A price is floored at zero.
LEMMA FloorType ==
  ASSUME NEW n \in Int
  PROVE  NonNegative(n) \in Nat /\ (n \in Nat => NonNegative(n) = n)
BY DEF NonNegative

-----------------------------------------------------------------------------
(* Requests are well formed.                                               *)

\* A row not yet inserted is a row.
LEMMA AbsentRowType == AbsentRow \in Row
BY NamesAssumption DEF AbsentRow, Row, NoStations, StationMap, Place, NoWork, StationStatus,
                       Fulfillment

\* The request of a handler that has just read a row.
LEMMA ReadingType ==
  ASSUME TypeOK, NEW o \in Orders, NEW step \in Steps, NEW want \in Row
  PROVE  Reading(o, step, want) \in Request
<1>1. orders[o] \in Row /\ orders[o].table \in Place /\ sales[o] \in Nat /\ refunds[o] \in Nat
  BY DEF TypeOK, Row
<1>2. NoKey \in KeyOrNone /\ NoTable \in Place /\ "empty" \in TableStatus
  BY DEF KeyOrNone, Place, TableStatus
<1> QED BY <1>1, <1>2 DEF Reading, Request

\* Taking a request on keeps the requests well typed.
LEMMA AcceptType ==
  ASSUME TypeOK, NEW a \in Actors, NEW h, NEW r \in Request, Accept(a, h, r)
  PROVE  req' \in [Actors -> Request \cup {NoReq}] /\ started' \in Nat
BY DEF Accept, TypeOK

\* So does moving one to its next step,
LEMMA GotoType ==
  ASSUME TypeOK, NEW a \in Actors, NEW old, At(a, old), NEW step \in Steps, Goto(a, step)
  PROVE  req' \in [Actors -> Request \cup {NoReq}] /\ started' \in Nat
<1>1. req[a] \in Request
  BY DEF TypeOK, At
<1>2. [req[a] EXCEPT !.step = step] \in Request
  BY <1>1 DEF Request
<1> QED BY <1>2 DEF Goto, TypeOK

\* and finishing one.
LEMMA FinishType ==
  ASSUME TypeOK, NEW a \in Actors, Finish(a)
  PROVE  req' \in [Actors -> Request \cup {NoReq}] /\ started' \in Nat
BY DEF Finish, TypeOK

\* The order of a request at work, its rows and its counters are well typed.
LEMMA RequestFields ==
  ASSUME TypeOK, NEW a \in Actors, req[a] # NoReq
  PROVE  /\ req[a] \in Request
         /\ req[a].order \in Orders /\ req[a].table \in Place
         /\ req[a].target \in Place /\ req[a].key \in KeyOrNone
         /\ req[a].amount \in Nat /\ req[a].setTo \in TableStatus
         /\ req[a].seen \in Row /\ req[a].want \in Row
         /\ req[a].sold \in Nat /\ req[a].refunded \in Nat
         /\ orders[req[a].order] \in Row
<1>1. req[a] \in Request
  BY DEF TypeOK
<1> QED BY <1>1 DEF TypeOK, Request

-----------------------------------------------------------------------------
(* Types are kept by every action.                                         *)

\* Each way a request arrives keeps the types: first, an order or a round.
LEMMA CreateType ==
  ASSUME TypeOK, NEW a \in Actors, NEW t \in Place, NEW n \in 1..MaxAmount,
         NEW st \in SUBSET Stations, Create(a, t, n, st)
  PROVE  TypeOK'
<1>1. PICK o \in IF AppendTarget(t) = {} THEN NextOrder ELSE AppendTarget(t), d \in NewDelivery(t) :
        LET row  == IF AppendTarget(t) = {} THEN NewRow(t, n, d) ELSE WithRound(orders[o], n)
            work == [row EXCEPT !.stations = [s \in Stations |->
                                   IF s \in st THEN "pending" ELSE NoWork]]
        IN  /\ orders' = [orders EXCEPT ![o] = row]
            /\ Accept(a, "create",
                      [Reading(o, IF t = NoTable THEN "sync.read" ELSE "occupy", work)
                         EXCEPT !.table = t, !.seen = row])
            /\ UNCHANGED <<tables, ledger>>
  BY DEF Create
<1> DEFINE row  == IF AppendTarget(t) = {} THEN NewRow(t, n, d) ELSE WithRound(orders[o], n)
           work == [row EXCEPT !.stations = [s \in Stations |->
                                   IF s \in st THEN "pending" ELSE NoWork]]
           step == IF t = NoTable THEN "sync.read" ELSE "occupy"
           r    == [Reading(o, step, work) EXCEPT !.table = t, !.seen = row]
<1>2. o \in Orders
  BY <1>1 DEF AppendTarget, OpenAt, NextOrder
<1>3. row \in Row
  <2>1. n \in Nat /\ "pending" \in OrderStatus /\ orders[o] \in Row
    BY <1>2, BoundsAssumption DEF OrderStatus, OpenStatus, TypeOK
  <2>2. NewRow(t, n, d) \in Row
    <3>1. d \in Fulfillment
      BY <1>1 DEF NewDelivery, Fulfillment
    <3> QED BY <2>1, <3>1, AbsentRowType DEF NewRow, Row
  <2>3. orders[o].total + n \in Nat /\ orders[o].final + n \in Nat
    BY <2>1 DEF Row
  <2>4. WithRound(orders[o], n) =
          [orders[o] EXCEPT !.status = "pending", !.total = orders[o].total + n,
                            !.final = orders[o].final + n]
    BY <2>1, Zenon DEF WithRound, Row
  <2>5. WithRound(orders[o], n) \in Row
    BY <2>1, <2>3, <2>4 DEF Row
  <2> QED BY <2>2, <2>5
<1>4. work \in Row
  BY <1>3 DEF Row, StationMap, StationStatus
<1>5. Reading(o, step, work) \in Request
  BY <1>2, <1>4, ReadingType DEF Steps
<1>6. r \in Request
  BY <1>3, <1>5 DEF Request
<1>7. Accept(a, "create", r) /\ orders' = [orders EXCEPT ![o] = row]
  BY <1>1
<1>8. req' \in [Actors -> Request \cup {NoReq}] /\ started' \in Nat
  BY <1>6, <1>7, AcceptType
<1>9. orders' \in [Orders -> Row]
  BY <1>2, <1>3, <1>7 DEF TypeOK
<1> QED BY <1>1, <1>8, <1>9 DEF TypeOK, ledger

\* The handlers' reads: only the request record is new.
LEMMA WantType ==
  ASSUME TypeOK, NEW o \in Orders
  PROVE  /\ orders[o] \in Row
         /\ \A next \in OrderStatus, m \in StationMap :
              [orders[o] EXCEPT !.status = next, !.stations = m] \in Row
         /\ \A next \in OrderStatus, m \in StationMap :
              [orders[o] EXCEPT !.stations = m, !.status = next] \in Row
         /\ \A adj \in Int, fin \in Nat :
              [orders[o] EXCEPT !.adjust = adj, !.final = fin] \in Row
         /\ \A tot \in Nat, fin \in Nat :
              [orders[o] EXCEPT !.total = tot, !.final = fin] \in Row
<1>1. orders[o] \in Row
  BY DEF TypeOK
<1>2. ASSUME NEW next \in OrderStatus, NEW m \in StationMap
      PROVE  /\ [orders[o] EXCEPT !.status = next, !.stations = m] \in Row
             /\ [orders[o] EXCEPT !.stations = m, !.status = next] \in Row
  BY <1>1 DEF Row
<1>3. ASSUME NEW adj \in Int, NEW fin \in Nat
      PROVE  [orders[o] EXCEPT !.adjust = adj, !.final = fin] \in Row
  BY <1>1 DEF Row
<1>4. ASSUME NEW tot \in Nat, NEW fin \in Nat
      PROVE  [orders[o] EXCEPT !.total = tot, !.final = fin] \in Row
  BY <1>1 DEF Row
<1> QED BY <1>1, <1>2, <1>3, <1>4

\* Accepting a request that leaves the database alone.
LEMMA AcceptOnly ==
  ASSUME TypeOK, NEW a \in Actors, NEW h, NEW r \in Request, Accept(a, h, r),
         UNCHANGED <<orders, tables, ledger>>
  PROVE  TypeOK'
<1>1. req' \in [Actors -> Request \cup {NoReq}] /\ started' \in Nat
  BY AcceptType
<1> QED BY <1>1 DEF TypeOK, ledger

\* A status change is prepared.
LEMMA StatusReadType ==
  ASSUME TypeOK, NEW a \in Actors, NEW o \in Orders, NEW next \in OrderStatus,
         StatusRead(a, o, next)
  PROVE  TypeOK'
<1> DEFINE m    == IF next \in Promotion THEN ServeStations(orders[o].stations)
                   ELSE orders[o].stations
           want == [orders[o] EXCEPT !.status = next, !.stations = m]
<1>1. orders[o].stations \in StationMap
  BY DEF TypeOK, Row
<1>2. m \in StationMap
  BY <1>1 DEF ServeStations, StationMap, StationStatus
<1>3. want \in Row
  BY <1>2, WantType
<1>4. Reading(o, "status.write", want) \in Request
  BY <1>3, ReadingType DEF Steps
<1>5. /\ Accept(a, "status", Reading(o, "status.write", want))
      /\ UNCHANGED <<orders, tables, ledger>>
  BY DEF StatusRead
<1> QED BY <1>4, <1>5, AcceptOnly

\* A station's report is prepared.
LEMMA StationReadType ==
  ASSUME TypeOK, NEW a \in Actors, NEW o \in Orders, NEW s \in Stations,
         NEW next \in StationStatus, StationRead(a, o, s, next)
  PROVE  TypeOK'
<1> DEFINE m    == [orders[o].stations EXCEPT ![s] = next]
           agg  == AggregateStatus(orders[o].status, m)
           want == [orders[o] EXCEPT !.stations = m, !.status = agg]
<1>1. orders[o].stations \in StationMap /\ orders[o].status \in OrderStatus
  BY DEF TypeOK, Row, StationRead
<1>2. m \in StationMap
  BY <1>1 DEF StationMap
<1>3. agg \in OrderStatus
  BY <1>1, AggregateStatusType DEF OrderStatus, OpenStatus
<1>4. want \in Row
  BY <1>2, <1>3, WantType
<1>5. Reading(o, "station.write", want) \in Request
  BY <1>4, ReadingType DEF Steps
<1>6. /\ Accept(a, "station", Reading(o, "station.write", want))
      /\ UNCHANGED <<orders, tables, ledger>>
  BY DEF StationRead
<1> QED BY <1>5, <1>6, AcceptOnly

\* A discount or a fee is prepared.
LEMMA FinancialsReadType ==
  ASSUME TypeOK, NEW a \in Actors, NEW o \in Orders, NEW adj \in Adjustments,
         FinancialsRead(a, o, adj)
  PROVE  TypeOK'
<1> DEFINE want == [orders[o] EXCEPT !.adjust = adj,
                                     !.final = NonNegative(orders[o].total + adj)]
<1>1. adj \in Int /\ orders[o].total + adj \in Int
  BY NamesAssumption DEF TypeOK, Row
<1>2. want \in Row
  BY <1>1, FloorType, WantType
<1>3. Reading(o, "financials.write", want) \in Request
  BY <1>2, ReadingType DEF Steps
<1>4. /\ Accept(a, "financials", Reading(o, "financials.write", want))
      /\ UNCHANGED <<orders, tables, ledger>>
  BY DEF FinancialsRead
<1> QED BY <1>3, <1>4, AcceptOnly

\* A payment or a refund is checked before its routine runs.
LEMMA PaymentCheckType ==
  ASSUME TypeOK, NEW a \in Actors, NEW o \in Orders, NEW k \in KeyOrNone,
         NEW n \in Amounts, SaleCheck(a, o, k, n) \/ RefundCheck(a, o, k, n)
  PROVE  TypeOK'
<1>1. orders[o] \in Row /\ n \in Nat
  BY BoundsAssumption DEF TypeOK, Amounts
<1>2. ASSUME NEW step \in Steps
      PROVE  PaymentRequest(o, step, k, n) \in Request
  <2>1. Reading(o, step, orders[o]) \in Request
    BY <1>1, ReadingType
  <2> QED BY <1>1, <2>1 DEF PaymentRequest, Request
<1>3. PaymentRequest(o, "sale.rpc", k, n) \in Request
  BY <1>2 DEF Steps
<1>4. PaymentRequest(o, "refund.rpc", k, n) \in Request
  BY <1>2 DEF Steps
<1>5. CASE SaleCheck(a, o, k, n)
  BY <1>3, <1>5, AcceptOnly DEF SaleCheck
<1>6. CASE RefundCheck(a, o, k, n)
  BY <1>4, <1>6, AcceptOnly DEF RefundCheck
<1> QED BY <1>5, <1>6

\* A cancellation by staff is prepared,
LEMMA CancelReadType ==
  ASSUME TypeOK, NEW a \in Actors, NEW o \in Orders, NEW k \in KeyOrNone,
         NEW note \in BOOLEAN, CancelRead(a, o, k, note)
  PROVE  TypeOK'
<1>1. Reading(o, "cancel.check", orders[o]) \in Request
  BY WantType, ReadingType DEF Steps
<1>2. [Reading(o, "cancel.check", orders[o]) EXCEPT !.key = k, !.note = note] \in Request
  BY <1>1 DEF Request
<1> QED BY <1>2, AcceptOnly DEF CancelRead

\* or by a guest.
LEMMA QrCancelReadType ==
  ASSUME TypeOK, NEW a \in Actors, NEW o \in Orders, QrCancelRead(a, o)
  PROVE  TypeOK'
<1>1. Reading(o, "qr.check", orders[o]) \in Request
  BY WantType, ReadingType DEF Steps
<1> QED BY <1>1, AcceptOnly DEF QrCancelRead

\* An item is about to be voided.
LEMMA ItemReadType ==
  ASSUME TypeOK, NEW a \in Actors, NEW o \in Orders, ItemRead(a, o)
  PROVE  TypeOK'
<1> DEFINE want == [orders[o] EXCEPT !.total = Less(orders[o].total),
                                     !.final = Less(orders[o].final)]
<1>1. orders[o].total \in Nat /\ orders[o].final \in Nat
  BY DEF TypeOK, Row
<1>2. Less(orders[o].total) \in Nat /\ Less(orders[o].final) \in Nat
  BY <1>1 DEF Less, NonNegative
<1>3. want \in Row
  BY <1>2, WantType
<1>4. Reading(o, "item.write", want) \in Request
  BY <1>3, ReadingType DEF Steps
<1> QED BY <1>4, AcceptOnly DEF ItemRead

\* A delivery is about to be completed.
LEMMA DeliveryReadType ==
  ASSUME TypeOK, NEW a \in Actors, NEW o \in Orders, DeliveryRead(a, o)
  PROVE  TypeOK'
<1> DEFINE next == IF orders[o].status \in Immutable THEN orders[o].status ELSE "served"
           want == [orders[o] EXCEPT !.status = next]
<1>1. orders[o] \in Row /\ next \in OrderStatus \cup {"absent"}
  BY DEF TypeOK, Row, OrderStatus, OpenStatus
<1>2. want \in Row
  BY <1>1 DEF Row
<1>3. Reading(o, "delivery.write", want) \in Request
  BY <1>2, ReadingType DEF Steps
<1> QED BY <1>3, AcceptOnly DEF DeliveryRead

\* An order is about to be moved.
LEMMA MoveReadType ==
  ASSUME TypeOK, NEW a \in Actors, NEW s \in Tables, NEW t \in Tables, MoveRead(a, s, t)
  PROVE  TypeOK'
<1>1. PICK o \in AppendTarget(s) :
        Accept(a, "move", [Reading(o, "move.look", orders[o]) EXCEPT !.target = t])
  BY DEF MoveRead
<1>2. o \in Orders
  BY <1>1 DEF AppendTarget, OpenAt
<1>3. Reading(o, "move.look", orders[o]) \in Request
  BY <1>2, WantType, ReadingType DEF Steps
<1>4. [Reading(o, "move.look", orders[o]) EXCEPT !.target = t] \in Request
  BY <1>3 DEF Request, Place
<1> QED BY <1>1, <1>4, AcceptOnly DEF MoveRead

\* A table is about to be set by hand.
LEMMA TableReadType ==
  ASSUME TypeOK, NEW a \in Actors, NEW t \in Tables, NEW status \in TableStatus,
         TableRead(a, t, status)
  PROVE  TypeOK'
<1>1. 1 \in Orders
  BY BoundsAssumption DEF Orders
<1>2. ASSUME NEW step \in Steps
      PROVE  OnTable(t, step, status) \in Request
  BY <1>1, AbsentRowType DEF OnTable, Request, Place, KeyOrNone
<1>3. /\ OnTable(t, "table.check", status) \in Request
      /\ OnTable(t, "table.write", status) \in Request
  BY <1>2 DEF Steps
<1> QED BY <1>3, AcceptOnly DEF TableRead

-----------------------------------------------------------------------------
(* Types, continued: the handlers' later statements.                       *)

\* A statement that writes no row: the request ends or goes on.
LEMMA TableStepType ==
  ASSUME TypeOK, NEW a \in Actors, req[a] # NoReq,
         tables' \in [Tables -> TableStatus], UNCHANGED <<orders, ledger>>,
         Finish(a) \/ (\E step \in Steps : Goto(a, step))
  PROVE  TypeOK'
<1>1. At(a, req[a].step)
  BY DEF At
<1>2. req' \in [Actors -> Request \cup {NoReq}] /\ started' \in Nat
  BY <1>1, GotoType, FinishType
<1> QED BY <1>2 DEF TypeOK, ledger

\* The steps that write nothing but a table, or nothing at all.
LEMMA TableWritesType ==
  ASSUME TypeOK, NEW a \in Actors,
         \/ MaintainTable(a) \/ MaintainSkip(a) \/ LockMiss(a) \/ StatusTable(a)
         \/ PaymentRefused(a) \/ CancelCheck(a) \/ CancelTable(a)
         \/ QrCancelCheck(a) \/ QrCancelTable(a)
         \/ MoveLook(a) \/ MoveClaim(a) \/ MoveOrderFails(a) \/ MoveRelease(a)
         \/ TableCheck(a) \/ TableWrite(a) \/ Die(a)
  PROVE  TypeOK'
<1> DEFINE Set(t, status) == tables' = [tables EXCEPT ![t] = status]
           On == Finish(a) \/ (\E step \in Steps : Goto(a, step))
<1>1. tables \in [Tables -> TableStatus]
  BY DEF TypeOK
<1>2. ASSUME NEW t, NEW status \in TableStatus, Set(t, status)
      PROVE  tables' \in [Tables -> TableStatus]
  BY <1>1, <1>2
<1>3. {"empty", "occupied"} \subseteq TableStatus
  BY DEF TableStatus
<1>4. CASE \/ MaintainSkip(a) \/ LockMiss(a) \/ PaymentRefused(a) \/ CancelCheck(a)
           \/ QrCancelCheck(a) \/ MoveLook(a) \/ TableCheck(a) \/ Die(a)
  <2>1. req[a] # NoReq /\ UNCHANGED <<orders, tables, ledger>>
    BY <1>4 DEF MaintainSkip, LockMiss, PaymentRefused, CancelCheck, QrCancelCheck,
                MoveLook, TableCheck, Die, At
  <2>2. On
    BY <1>4 DEF MaintainSkip, LockMiss, PaymentRefused, CancelCheck, QrCancelCheck,
                MoveLook, TableCheck, Die, Steps
  <2> QED BY <1>1, <2>1, <2>2, TableStepType
<1>5. CASE \/ MaintainTable(a) \/ StatusTable(a) \/ CancelTable(a)
           \/ QrCancelTable(a) \/ MoveOrderFails(a) \/ MoveRelease(a) \/ TableWrite(a)
  <2>1. req[a] # NoReq /\ UNCHANGED <<orders, ledger>>
    BY <1>5 DEF MaintainTable, StatusTable, CancelTable, QrCancelTable,
                MoveOrderFails, MoveRelease, TableWrite, At
  <2>2. On
    BY <1>5 DEF MaintainTable, StatusTable, CancelTable, QrCancelTable,
                MoveOrderFails, MoveRelease, TableWrite, Steps
  <2>3. req[a].setTo \in TableStatus /\ req[a].table \in Place /\ req[a].target \in Place
    BY <2>1, RequestFields
  <2>4. \E t \in Place : \E status \in TableStatus : Set(t, status)
    BY <1>3, <1>5, <2>3 DEF MaintainTable, StatusTable, CancelTable, QrCancelTable,
                            MoveOrderFails, MoveRelease, TableWrite
  <2> QED BY <1>2, <2>1, <2>2, <2>4, TableStepType
<1>6. CASE MoveClaim(a)
  <2>1. req[a] # NoReq /\ UNCHANGED <<orders, ledger>> /\ On
    BY <1>6 DEF MoveClaim, At, Steps
  <2>2. tables' \in [Tables -> TableStatus]
    BY <1>1, <1>2, <1>3, <1>6 DEF MoveClaim
  <2> QED BY <2>1, <2>2, TableStepType
<1> QED BY <1>4, <1>5, <1>6

\* A statement that writes the row of the request's order.
LEMMA RowStepType ==
  ASSUME TypeOK, NEW a \in Actors, req[a] # NoReq, NEW row \in Row,
         orders' = [orders EXCEPT ![req[a].order] = row],
         UNCHANGED <<tables, ledger>>,
         Finish(a) \/ (\E step \in Steps : Goto(a, step))
  PROVE  TypeOK'
<1>1. At(a, req[a].step)
  BY DEF At
<1>2. req' \in [Actors -> Request \cup {NoReq}] /\ started' \in Nat
  BY <1>1, GotoType, FinishType
<1>3. orders' \in [Orders -> Row]
  BY DEF TypeOK
<1> QED BY <1>2, <1>3 DEF TypeOK, ledger

\* Writing columns of a row with values of their types gives a row.
LEMMA VersionedRow ==
  ASSUME NEW row \in Row, NEW version \in Nat
  PROVE  /\ \A status \in OrderStatus \cup {"absent"}, m \in StationMap :
              [row EXCEPT !.status = status, !.stations = m, !.version = version] \in Row
         /\ \A status \in OrderStatus :
              [row EXCEPT !.status = status, !.version = version] \in Row
         /\ \A adj \in Int, fin \in Nat :
              [row EXCEPT !.adjust = adj, !.final = fin, !.version = version] \in Row
<1>1. \A other \in Row : [other EXCEPT !.version = version] \in Row
  BY DEF Row
<1>2. ASSUME NEW status \in OrderStatus \cup {"absent"}, NEW m \in StationMap
      PROVE  [row EXCEPT !.status = status, !.stations = m] \in Row
  BY DEF Row
<1>3. ASSUME NEW status \in OrderStatus
      PROVE  [row EXCEPT !.status = status] \in Row
  BY DEF Row
<1>4. ASSUME NEW adj \in Int, NEW fin \in Nat
      PROVE  [row EXCEPT !.adjust = adj, !.final = fin] \in Row
  BY DEF Row
<1> QED BY <1>1, <1>2, <1>3, <1>4

\* The steps that write the row of an order.
LEMMA RowWritesType ==
  ASSUME TypeOK, NEW a \in Actors,
         \/ MaintainWrite(a) \/ StatusWrite(a) \/ StationWrite(a) \/ FinancialsWrite(a)
         \/ CancelWrite(a) \/ ItemWrite(a) \/ MoveOrder(a) \/ QrCancelWrite(a)
         \/ DeliveryWrite(a)
  PROVE  TypeOK'
<1> DEFINE r   == req[a]
           row == orders[r.order]
           On  == Finish(a) \/ (\E step \in Steps : Goto(a, step))
           Writes(new) == orders' = [orders EXCEPT ![r.order] = new]
<1>1. r # NoReq /\ UNCHANGED <<tables, ledger>> /\ On
  BY DEF MaintainWrite, StatusWrite, StationWrite, FinancialsWrite, CancelWrite,
         ItemWrite, MoveOrder, QrCancelWrite, DeliveryWrite, At, Steps
<1>2. /\ r.order \in Orders /\ r.want \in Row /\ r.seen \in Row
      /\ r.target \in Place /\ row \in Row /\ orders \in [Orders -> Row]
  BY <1>1, RequestFields DEF TypeOK
<1>3. /\ r.want.status \in OrderStatus \cup {"absent"} /\ r.want.stations \in StationMap
      /\ r.want.adjust \in Int /\ r.want.final \in Nat /\ r.seen.version + 1 \in Nat
  BY <1>2 DEF Row
<1>4. \E new \in Row : Writes(new)
  <2>1. CASE MaintainWrite(a)
    <3>1. Writes([row EXCEPT !.status = r.want.status, !.stations = r.want.stations])
      BY <1>2, <2>1 DEF MaintainWrite
    <3>2. [row EXCEPT !.status = r.want.status, !.stations = r.want.stations] \in Row
      BY <1>2 DEF Row
    <3> QED BY <3>1, <3>2
  <2>2. CASE StatusWrite(a)
    <3> DEFINE m == IF r.want.status \in Promotion THEN r.want.stations ELSE row.stations
    <3>1. Writes([row EXCEPT !.status = r.want.status, !.stations = m,
                             !.version = r.seen.version + 1])
      BY <1>2, <2>2 DEF StatusWrite
    <3>2. m \in StationMap
      BY <1>2, <1>3 DEF Row
    <3>3. [row EXCEPT !.status = r.want.status, !.stations = m,
                      !.version = r.seen.version + 1] \in Row
      BY <1>2, <1>3, <3>2, VersionedRow
    <3> QED BY <3>1, <3>3
  <2>3. CASE StationWrite(a)
    <3>1. Writes([row EXCEPT !.status = r.want.status, !.stations = r.want.stations,
                             !.version = r.seen.version + 1])
      BY <1>2, <2>3 DEF StationWrite
    <3>2. [row EXCEPT !.status = r.want.status, !.stations = r.want.stations,
                      !.version = r.seen.version + 1] \in Row
      BY <1>2, <1>3, VersionedRow
    <3> QED BY <3>1, <3>2
  <2>4. CASE FinancialsWrite(a)
    <3>1. Writes([row EXCEPT !.adjust = r.want.adjust, !.final = r.want.final,
                             !.version = r.seen.version + 1])
      BY <1>2, <2>4 DEF FinancialsWrite
    <3>2. [row EXCEPT !.adjust = r.want.adjust, !.final = r.want.final,
                      !.version = r.seen.version + 1] \in Row
      BY <1>2, <1>3, VersionedRow
    <3> QED BY <3>1, <3>2
  <2>5. CASE CancelWrite(a)
    <3>1. Writes([row EXCEPT !.status = "cancelled"])
      BY <1>2, <2>5 DEF CancelWrite
    <3>2. [row EXCEPT !.status = "cancelled"] \in Row
      BY <1>2 DEF Row, OrderStatus
    <3> QED BY <3>1, <3>2
  <2>6. CASE ItemWrite(a)
    <3>1. Writes([row EXCEPT !.total = r.want.total, !.final = r.want.final])
      BY <1>2, <2>6 DEF ItemWrite
    <3>2. [row EXCEPT !.total = r.want.total, !.final = r.want.final] \in Row
      BY <1>2 DEF Row
    <3> QED BY <3>1, <3>2
  <2>7. CASE MoveOrder(a)
    <3>1. Writes([row EXCEPT !.table = r.target])
      BY <1>2, <2>7 DEF MoveOrder
    <3>2. [row EXCEPT !.table = r.target] \in Row
      BY <1>2 DEF Row
    <3> QED BY <3>1, <3>2
  <2>8. CASE QrCancelWrite(a)
    <3>1. Writes(row) \/ Writes([row EXCEPT !.status = "cancelled"])
      BY <1>2, <2>8 DEF QrCancelWrite
    <3>2. [row EXCEPT !.status = "cancelled"] \in Row
      BY <1>2 DEF Row, OrderStatus
    <3> QED BY <1>2, <3>1, <3>2
  <2>9. CASE DeliveryWrite(a)
    <3>1. Writes(row) \/ Writes([row EXCEPT !.status = r.want.status, !.delivery = "completed"])
      BY <1>2, <2>9 DEF DeliveryWrite
    <3>2. [row EXCEPT !.status = r.want.status, !.delivery = "completed"] \in Row
      BY <1>2, <1>3 DEF Row, Fulfillment
    <3> QED BY <1>2, <3>1, <3>2
  <2> QED BY <2>1, <2>2, <2>3, <2>4, <2>5, <2>6, <2>7, <2>8, <2>9
<1> QED BY <1>1, <1>4, RowStepType

\* A payment routine that ran: the row of its order and perhaps of the ledger.
LEMMA SettleType ==
  ASSUME TypeOK, NEW o \in Orders, NEW sold \in Nat, NEW refunded \in Nat,
         Settle(o, sold, refunded)
  PROVE  orders' \in [Orders -> Row] /\ tables' \in [Tables -> TableStatus]
<1> DEFINE next == SettledStatus(orders[o].final, sold, refunded, orders[o].status)
<1>1. orders[o] \in Row /\ orders[o].version + 1 \in Nat /\ orders[o].final \in Nat
  BY DEF TypeOK, Row
<1>2. next \in OrderStatus
  BY <1>1, SettledStatusType
<1>3. [orders[o] EXCEPT !.status = next, !.version = orders[o].version + 1] \in Row
  BY <1>1, <1>2, VersionedRow
<1>4. orders' = [orders EXCEPT ![o] =
         [orders[o] EXCEPT !.status = next, !.version = orders[o].version + 1]]
  BY DEF Settle, TypeOK
<1>5. orders' \in [Orders -> Row]
  BY <1>3, <1>4 DEF TypeOK
<1>6. tables' \in [Tables -> TableStatus]
  BY DEF Settle, TypeOK, TableStatus
<1> QED BY <1>5, <1>6

\* One more payment row.
LEMMA InsertRowType ==
  ASSUME TypeOK, NEW o \in Orders, NEW type \in RowKind, NEW k \in KeyOrNone,
         InsertRow(o, type, k)
  PROVE  rows' \in [Orders -> [RowKind -> [KeyOrNone -> Nat]]]
BY DEF TypeOK, InsertRow

\* An amount that fits is positive and within its limit.
LEMMA FitsType ==
  ASSUME NEW amount \in Nat, NEW limit \in Nat, Fits(amount, limit)
  PROVE  /\ Effective(amount, limit) \in Nat
         /\ Effective(amount, limit) > 0 /\ Effective(amount, limit) <= limit
BY DEF Fits, Effective

\* The payment routine keeps the types, whether it books or only recomputes.
LEMMA PaymentsType ==
  ASSUME TypeOK, NEW a \in Actors, SaleApply(a) \/ RefundApply(a) \/ PaymentReplay(a)
  PROVE  TypeOK'
<1> DEFINE o == req[a].order
<1>1. req[a] # NoReq /\ Finish(a)
  BY DEF SaleApply, RefundApply, PaymentReplay, At
<1>2. o \in Orders /\ req[a].key \in KeyOrNone /\ req[a].amount \in Nat
  BY <1>1, RequestFields
<1>3. req' \in [Actors -> Request \cup {NoReq}] /\ started' \in Nat
  BY <1>1, FinishType
<1>4. /\ sales[o] \in Nat /\ refunds[o] \in Nat /\ orders[o].final \in Nat
      /\ Remaining(o) \in Nat /\ Refundable(o) \in Nat
  BY <1>2 DEF TypeOK, Row, Remaining, Refundable, NonNegative, Net
<1>5. CASE SaleApply(a)
  <2> DEFINE n == Effective(req[a].amount, Remaining(o))
  <2>1. n \in Nat
    BY <1>2, <1>4, <1>5, FitsType DEF SaleApply
  <2>2. orders' \in [Orders -> Row] /\ tables' \in [Tables -> TableStatus]
    BY <1>2, <1>4, <1>5, <2>1, SettleType DEF SaleApply
  <2>3. rows' \in [Orders -> [RowKind -> [KeyOrNone -> Nat]]]
    BY <1>2, <1>5, InsertRowType DEF SaleApply, RowKind
  <2>4. sales' \in [Orders -> Nat] /\ refunds' \in [Orders -> Nat]
    BY <1>2, <1>4, <1>5, <2>1 DEF SaleApply, TypeOK
  <2> QED BY <1>3, <2>2, <2>3, <2>4 DEF TypeOK
<1>6. CASE RefundApply(a)
  <2> DEFINE n == Effective(req[a].amount, Refundable(o))
  <2>1. n \in Nat
    BY <1>2, <1>4, <1>6, FitsType DEF RefundApply
  <2>2. orders' \in [Orders -> Row] /\ tables' \in [Tables -> TableStatus]
    BY <1>2, <1>4, <1>6, <2>1, SettleType DEF RefundApply
  <2>3. rows' \in [Orders -> [RowKind -> [KeyOrNone -> Nat]]]
    BY <1>2, <1>6, InsertRowType DEF RefundApply, RowKind
  <2>4. sales' \in [Orders -> Nat] /\ refunds' \in [Orders -> Nat]
    BY <1>2, <1>4, <1>6, <2>1 DEF RefundApply, TypeOK
  <2> QED BY <1>3, <2>2, <2>3, <2>4 DEF TypeOK
<1>7. CASE PaymentReplay(a)
  <2>1. orders' \in [Orders -> Row] /\ tables' \in [Tables -> TableStatus]
    BY <1>2, <1>4, <1>7, SettleType DEF PaymentReplay
  <2> QED BY <1>3, <1>7, <2>1 DEF PaymentReplay, TypeOK, ledger
<1> QED BY <1>5, <1>6, <1>7

\* The note of a cancellation keeps the types.
LEMMA CancelNoteType ==
  ASSUME TypeOK, NEW a \in Actors, CancelNote(a)
  PROVE  TypeOK'
<1>1. req[a] # NoReq /\ Finish(a)
  BY DEF CancelNote, At
<1>2. req[a].order \in Orders /\ req[a].key \in KeyOrNone
  BY <1>1, RequestFields
<1>3. req' \in [Actors -> Request \cup {NoReq}] /\ started' \in Nat
  BY <1>1, FinishType
<1>4. rows' \in [Orders -> [RowKind -> [KeyOrNone -> Nat]]]
  BY <1>2 DEF CancelNote, TypeOK, RowKind
<1> QED BY <1>3, <1>4 DEF CancelNote, TypeOK

\* The station sync prepares its write.
LEMMA MaintainReadType ==
  ASSUME TypeOK, NEW a \in Actors, MaintainRead(a)
  PROVE  TypeOK'
<1> DEFINE o      == req[a].order
           merged == MergeStations(orders[o].stations, req[a].want.stations)
           agg    == AggregateStatus(orders[o].status, merged)
           want   == [orders[o] EXCEPT !.stations = merged, !.status = agg]
<1>1. o \in Orders /\ orders[o] \in Row
  BY RequestFields DEF MaintainRead, At
<1>2. merged \in StationMap
  BY <1>1 DEF MergeStations, StationMap, StationStatus, Row
<1>3. agg \in {"pending", "preparing", "ready", orders[o].status}
  BY AggregateStatusType
<1>4. agg \in OrderStatus \cup {"absent"}
  BY <1>1, <1>3 DEF Row, OrderStatus, OpenStatus
<1>5. want \in Row
  BY <1>1, <1>2, <1>4 DEF Row
<1>6. Reading(o, "sync.write", want) \in Request
  BY <1>1, <1>5, ReadingType DEF Steps
<1>7. /\ req' = [req EXCEPT ![a] = Reading(o, "sync.write", want)]
      /\ UNCHANGED <<orders, tables, ledger, started>>
  BY DEF MaintainRead
<1> QED BY <1>6, <1>7 DEF TypeOK, ledger

\* A courier is sent.
LEMMA CourierAssignType ==
  ASSUME TypeOK, NEW o \in Orders, CourierAssign(o)
  PROVE  TypeOK'
<1> DEFINE row == [orders[o] EXCEPT !.delivery = "out_for_delivery"]
<1>1. row \in Row
  BY DEF TypeOK, Row, Fulfillment
<1>2. orders' = [orders EXCEPT ![o] = row]
  BY DEF CourierAssign
<1> QED BY <1>1, <1>2 DEF CourierAssign, TypeOK, ledger

-----------------------------------------------------------------------------

\* The type invariant is kept by every step.
LEMMA TypeStep ==
  ASSUME TypeOK, [Next]_vars
  PROVE  TypeOK'
<1>1. ASSUME NEW a \in Actors, Arrive(a)
      PROVE  TypeOK'
  <2>1. CASE \E t \in Place, n \in 1..MaxAmount, st \in SUBSET Stations \ {{}} :
               Create(a, t, n, st)
    BY <2>1, CreateType
  <2>2. ASSUME NEW o \in Orders, NEW next \in OrderStatus, StatusRead(a, o, next)
        PROVE  TypeOK'
    BY <2>2, StatusReadType
  <2>3. ASSUME NEW o \in Orders, NEW s \in Stations, NEW next \in StationStatus,
               StationRead(a, o, s, next)
        PROVE  TypeOK'
    BY <2>3, StationReadType
  <2>4. ASSUME NEW o \in Orders, NEW adj \in Adjustments, FinancialsRead(a, o, adj)
        PROVE  TypeOK'
    BY <2>4, FinancialsReadType
  <2>5. ASSUME NEW o \in Orders, NEW k \in KeyOrNone, NEW n \in Amounts,
               SaleCheck(a, o, k, n) \/ RefundCheck(a, o, k, n)
        PROVE  TypeOK'
    BY <2>5, PaymentCheckType
  <2>6. ASSUME NEW o \in Orders, NEW k \in KeyOrNone, NEW note \in BOOLEAN,
               CancelRead(a, o, k, note)
        PROVE  TypeOK'
    BY <2>6, CancelReadType
  <2>7. ASSUME NEW o \in Orders, QrCancelRead(a, o) \/ ItemRead(a, o) \/ DeliveryRead(a, o)
        PROVE  TypeOK'
    BY <2>7, QrCancelReadType, ItemReadType, DeliveryReadType
  <2>8. ASSUME NEW s \in Tables, NEW t \in Tables, MoveRead(a, s, t)
        PROVE  TypeOK'
    BY <2>8, MoveReadType
  <2>9. ASSUME NEW t \in Tables, NEW status \in {"empty", "reserved"},
               TableRead(a, t, status)
        PROVE  TypeOK'
    BY <2>9, TableReadType DEF TableStatus
  <2> QED BY <1>1, <2>1, <2>2, <2>3, <2>4, <2>5, <2>6, <2>7, <2>8, <2>9 DEF Arrive
<1>2. ASSUME NEW a \in Actors, Proceed(a)
      PROVE  TypeOK'
  <2>1. CASE \/ MaintainTable(a) \/ MaintainSkip(a) \/ LockMiss(a) \/ StatusTable(a)
             \/ PaymentRefused(a) \/ CancelCheck(a) \/ CancelTable(a)
             \/ QrCancelCheck(a) \/ QrCancelTable(a)
             \/ MoveLook(a) \/ MoveClaim(a) \/ MoveOrderFails(a) \/ MoveRelease(a)
             \/ TableCheck(a) \/ TableWrite(a) \/ Die(a)
    BY <2>1, TableWritesType
  <2>2. CASE \/ MaintainWrite(a) \/ StatusWrite(a) \/ StationWrite(a)
             \/ FinancialsWrite(a) \/ CancelWrite(a) \/ ItemWrite(a) \/ MoveOrder(a)
             \/ QrCancelWrite(a) \/ DeliveryWrite(a)
    BY <2>2, RowWritesType
  <2>3. CASE SaleApply(a) \/ RefundApply(a) \/ PaymentReplay(a)
    BY <2>3, PaymentsType
  <2>4. CASE CancelNote(a)
    BY <2>4, CancelNoteType
  <2>5. CASE MaintainRead(a)
    BY <2>5, MaintainReadType
  <2> QED BY <1>2, <2>1, <2>2, <2>3, <2>4, <2>5, Zenon DEF Proceed
<1>3. CASE UNCHANGED vars
  BY <1>3 DEF TypeOK, vars
<1> QED BY <1>1, <1>2, <1>3, CourierAssignType DEF Next

\* The types hold at the start.
LEMMA TypeInit == Init => TypeOK
BY AbsentRowType DEF Init, TypeOK, TableStatus

\* Every variable keeps its type.
THEOREM TypeCorrect == Spec => []TypeOK
<1> QED BY TypeInit, TypeStep, PTL DEF Spec

-----------------------------------------------------------------------------
(* Handlers and the ledger.                                                *)

\* An order stays an order; where its lock_version stands still, so does its
\* ledger, and lock_version never goes back.
RowsAdvance ==
  \A o \in Orders :
    orders[o].status # "absent" =>
      /\ orders'[o].status # "absent"
      /\ \/ /\ orders'[o].version = orders[o].version
            /\ sales'[o] = sales[o] /\ refunds'[o] = refunds[o]
         \/ orders'[o].version > orders[o].version

\* Request s holds what request r holds of its read.
Carries(s, r) ==
  /\ s.order = r.order /\ s.want = r.want /\ s.seen = r.seen
  /\ s.sold = r.sold /\ s.refunded = r.refunded

\* Request s holds a read of the row and the ledger as they are after the step.
FreshlyRead(s) ==
  /\ s.order \in Orders
  /\ orders'[s.order].status # "absent" /\ s.want.status # "absent"
  /\ s.seen.version = orders'[s.order].version
  /\ s.sold = sales'[s.order] /\ s.refunded = refunds'[s.order]

RequestsCarry ==
  \A b \in Actors :
    OnOrder(req'[b]) => \/ OnOrder(req[b]) /\ Carries(req'[b], req[b])
                       \/ FreshlyRead(req'[b])

\* Rows that advance and requests that carry their read keep the invariant.
LEMMA ReadersKept ==
  ASSUME TypeOK, TypeOK', VersionFreezesLedger, RowsAdvance, RequestsCarry
  PROVE  VersionFreezesLedger'
<1> SUFFICES ASSUME NEW b \in Actors, OnOrder(req'[b])
             PROVE  ReadWell(req[b])'
  BY DEF VersionFreezesLedger
<1>1. CASE FreshlyRead(req'[b])
  <2>1. req'[b].order \in Orders /\ orders'[req'[b].order].version \in Nat
    BY <1>1 DEF FreshlyRead, TypeOK, Row
  <2> QED BY <1>1, <2>1 DEF FreshlyRead, ReadWell
<1>2. CASE OnOrder(req[b]) /\ Carries(req'[b], req[b])
  <2>1. ReadWell(req[b])
    BY <1>2 DEF VersionFreezesLedger
  <2>2. req[b].order \in Orders /\ req[b].seen.version \in Nat
    BY <1>2, RequestFields DEF OnOrder, Row
  <2>3. /\ orders[req[b].order].version \in Nat
        /\ orders'[req[b].order].version \in Nat
    BY <2>2 DEF TypeOK, Row
  <2>4. orders[req[b].order].status # "absent"
    BY <2>1 DEF ReadWell
  <2> DEFINE o == req[b].order
  <2>5. /\ orders'[o].status # "absent"
        /\ \/ /\ orders'[o].version = orders[o].version
              /\ sales'[o] = sales[o] /\ refunds'[o] = refunds[o]
           \/ orders'[o].version > orders[o].version
    BY <2>2, <2>4 DEF RowsAdvance
  <2> QED BY <1>2, <2>1, <2>2, <2>3, <2>5 DEF ReadWell, Carries
<1> QED BY <1>1, <1>2 DEF RequestsCarry

\* A finished request leaves the others as they were,
LEMMA FinishCarries ==
  ASSUME TypeOK, NEW a \in Actors, Finish(a)
  PROVE  RequestsCarry
BY DEF Finish, TypeOK, RequestsCarry, OnOrder, Carries

\* a step forward keeps what the request read,
LEMMA GotoCarries ==
  ASSUME TypeOK, NEW a \in Actors, NEW old, At(a, old), NEW step, Goto(a, step),
         old \in TableSteps => step \in TableSteps
  PROVE  RequestsCarry
<1>1. req[a] \in Request /\ req \in [Actors -> Request \cup {NoReq}]
  BY DEF TypeOK, At
<1> SUFFICES ASSUME NEW b \in Actors, OnOrder(req'[b])
             PROVE  OnOrder(req[b]) /\ Carries(req'[b], req[b])
  BY DEF RequestsCarry
<1>2. CASE b # a
  BY <1>1, <1>2 DEF Goto, Carries
<1>3. CASE b = a
  <2>1. req'[a] = [req[a] EXCEPT !.step = step]
    BY <1>1 DEF Goto
  <2>2. req'[a].step = step /\ Carries(req'[a], req[a])
    BY <1>1, <2>1 DEF Request, Carries
  <2> QED BY <1>3, <2>2 DEF OnOrder, At
<1> QED BY <1>2, <1>3

\* and a new request has read the row of this moment.
LEMMA AcceptCarries ==
  ASSUME TypeOK, NEW a \in Actors, NEW r, req' = [req EXCEPT ![a] = r],
         OnOrder(r) => FreshlyRead(r)
  PROVE  RequestsCarry
<1> SUFFICES ASSUME NEW b \in Actors, OnOrder(req'[b])
             PROVE  \/ OnOrder(req[b]) /\ Carries(req'[b], req[b])
                    \/ FreshlyRead(req'[b])
  BY DEF RequestsCarry
<1>1. CASE b # a
  BY <1>1 DEF TypeOK, Carries
<1>2. CASE b = a
  BY <1>2 DEF TypeOK
<1> QED BY <1>1, <1>2

\* A read of an order that exists, in a step that changes no row.
LEMMA ReadingIsFresh ==
  ASSUME TypeOK, NEW o \in Orders, NEW step, NEW want,
         orders[o].status # "absent", want.status # "absent",
         UNCHANGED <<orders, tables, ledger>>
  PROVE  FreshlyRead(Reading(o, step, want))
BY DEF FreshlyRead, Reading, ledger

\* Where no row and no payment is written, rows advance trivially.
LEMMA QuietRows ==
  ASSUME UNCHANGED <<orders, ledger>>
  PROVE  RowsAdvance
BY DEF RowsAdvance, ledger

-----------------------------------------------------------------------------
(* Every action lets rows advance and requests carry their read.           *)

\* A new row and an added round leave a pending order; the round keeps the
\* version.
LEMMA RowsMade ==
  ASSUME NEW t \in Place, NEW n \in Nat, NEW old \in Row
  PROVE  /\ \A d : NewRow(t, n, d).status = "pending"
         /\ WithRound(old, n).status = "pending"
         /\ WithRound(old, n).version = old.version
BY AbsentRowType DEF NewRow, WithRound, Row

\* A creation or an append.
LEMMA CreateCarries ==
  ASSUME TypeOK, TypeOK', NEW a \in Actors, NEW t \in Place, NEW n \in 1..MaxAmount,
         NEW st \in SUBSET Stations, Create(a, t, n, st)
  PROVE  RowsAdvance /\ RequestsCarry
<1> DEFINE Target  == IF AppendTarget(t) = {} THEN NextOrder ELSE AppendTarget(t)
           row(o, d)  == IF AppendTarget(t) = {} THEN NewRow(t, n, d) ELSE WithRound(orders[o], n)
           work(o, d) == [row(o, d) EXCEPT !.stations = [s \in Stations |->
                                        IF s \in st THEN "pending" ELSE NoWork]]
           step    == IF t = NoTable THEN "sync.read" ELSE "occupy"
           r(o, d)    == [Reading(o, step, work(o, d)) EXCEPT !.table = t, !.seen = row(o, d)]
<1>1. PICK o \in Target, d \in NewDelivery(t) :
        /\ orders' = [orders EXCEPT ![o] = row(o, d)]
        /\ Accept(a, "create", r(o, d))
        /\ UNCHANGED <<tables, ledger>>
  BY DEF Create
<1>2. o \in Orders /\ orders[o] \in Row /\ n \in Nat /\ orders \in [Orders -> Row]
  BY <1>1, BoundsAssumption DEF AppendTarget, OpenAt, NextOrder, TypeOK
<1>3. orders'[o] = row(o, d) /\ orders'[o] \in Row
  BY <1>1, <1>2 DEF TypeOK
<1>4. row(o, d).status = "pending"
  BY <1>2, RowsMade
<1>5. work(o, d).status = "pending"
  BY <1>3, <1>4 DEF Row
<1>6. /\ r(o, d).order = o /\ r(o, d).want = work(o, d) /\ r(o, d).seen = row(o, d)
      /\ r(o, d).sold = sales[o] /\ r(o, d).refunded = refunds[o]
  BY DEF Reading
<1>7. FreshlyRead(r(o, d))
  BY <1>1, <1>2, <1>3, <1>4, <1>5, <1>6 DEF FreshlyRead, ledger
<1>8. RequestsCarry
  BY <1>1, <1>7, AcceptCarries DEF Accept
<1>9. ASSUME orders[o].status # "absent"
      PROVE  orders'[o].version = orders[o].version
  <2>1. AppendTarget(t) # {}
    BY <1>1, <1>9 DEF NextOrder
  <2> QED BY <1>2, <1>3, <2>1, RowsMade
<1>10. RowsAdvance
  <2> SUFFICES ASSUME NEW p \in Orders, orders[p].status # "absent"
               PROVE  /\ orders'[p].status # "absent"
                      /\ orders'[p].version = orders[p].version
                      /\ sales'[p] = sales[p] /\ refunds'[p] = refunds[p]
    BY DEF RowsAdvance
  <2>1. sales'[p] = sales[p] /\ refunds'[p] = refunds[p]
    BY <1>1 DEF ledger
  <2>2. CASE p = o
    BY <1>3, <1>4, <1>9, <2>1, <2>2
  <2>3. CASE p # o
    BY <1>1, <1>2, <2>1, <2>3
  <2> QED BY <2>2, <2>3
<1> QED BY <1>8, <1>10

\* The other handlers accept a request on an order they have just read.
LEMMA ArriveCarries ==
  ASSUME TypeOK, TypeOK', NEW a \in Actors, Arrive(a)
  PROVE  RowsAdvance /\ RequestsCarry
<1> DEFINE Goal == RowsAdvance /\ RequestsCarry
<1> HIDE DEF Goal
<1>1. ASSUME NEW t \in Place, NEW n \in 1..MaxAmount, NEW st \in SUBSET Stations,
             Create(a, t, n, st)
      PROVE  Goal
  BY <1>1, CreateCarries DEF Goal
<1>2. ASSUME NEW o \in Orders, NEW next \in OrderStatus, StatusRead(a, o, next)
      PROVE  Goal
  <2> DEFINE want == [orders[o] EXCEPT !.status = next, !.stations =
                        IF next \in Promotion THEN ServeStations(@) ELSE @]
             r    == Reading(o, "status.write", want)
  <2>1. /\ orders[o].status # "absent" /\ Accept(a, "status", r)
        /\ UNCHANGED <<orders, tables, ledger>>
    BY <1>2 DEF StatusRead
  <2>2. orders[o] \in Row
    BY DEF TypeOK
  <2>3. want.status # "absent"
    BY <2>2 DEF Row, OrderStatus, OpenStatus
  <2>4. FreshlyRead(r)
    BY <2>1, <2>3, ReadingIsFresh
  <2> QED BY <2>1, <2>4, AcceptCarries, QuietRows DEF Accept, Goal
<1>3. ASSUME NEW o \in Orders, NEW s \in Stations, NEW next \in StationStatus,
             StationRead(a, o, s, next)
      PROVE  Goal
  <2> DEFINE m    == [orders[o].stations EXCEPT ![s] = next]
             agg  == AggregateStatus(orders[o].status, m)
             want == [orders[o] EXCEPT !.stations = m, !.status = agg]
             r    == Reading(o, "station.write", want)
  <2>1. /\ orders[o].status # "absent" /\ Accept(a, "station", r)
        /\ UNCHANGED <<orders, tables, ledger>>
    BY <1>3 DEF StationRead
  <2>2. orders[o] \in Row
    BY DEF TypeOK
  <2>3. agg # "absent"
    BY <2>1, AggregateStatusType
  <2>4. want.status # "absent"
    BY <2>2, <2>3 DEF Row
  <2>5. FreshlyRead(r)
    BY <2>1, <2>4, ReadingIsFresh
  <2> QED BY <2>1, <2>5, AcceptCarries, QuietRows DEF Accept, Goal
<1>4. ASSUME NEW o \in Orders, NEW adj \in Adjustments, FinancialsRead(a, o, adj)
      PROVE  Goal
  <2> DEFINE want == [orders[o] EXCEPT !.adjust = adj,
                                       !.final = NonNegative(orders[o].total + adj)]
             r    == Reading(o, "financials.write", want)
  <2>1. /\ orders[o].status # "absent" /\ Accept(a, "financials", r)
        /\ UNCHANGED <<orders, tables, ledger>>
    BY <1>4 DEF FinancialsRead
  <2>2. orders[o] \in Row
    BY DEF TypeOK
  <2>3. want.status # "absent"
    BY <2>1, <2>2 DEF Row
  <2>4. FreshlyRead(r)
    BY <2>1, <2>3, ReadingIsFresh
  <2> QED BY <2>1, <2>4, AcceptCarries, QuietRows DEF Accept, Goal
<1>5. ASSUME NEW o \in Orders, NEW step, NEW h, NEW r, orders[o].status # "absent",
             r.order = o, r.seen = orders[o], r.want = orders[o],
             r.sold = sales[o], r.refunded = refunds[o],
             Accept(a, h, r), UNCHANGED <<orders, tables, ledger>>
      PROVE  Goal
  <2>1. FreshlyRead(r)
    BY <1>5 DEF FreshlyRead, ledger
  <2> QED BY <1>5, <2>1, AcceptCarries, QuietRows DEF Accept, Goal
<1>6. ASSUME NEW o \in Orders, NEW k \in KeyOrNone, NEW n \in Amounts,
             SaleCheck(a, o, k, n) \/ RefundCheck(a, o, k, n)
      PROVE  Goal
  BY <1>5, <1>6 DEF SaleCheck, RefundCheck, PaymentRequest, Reading
<1>7. ASSUME NEW o \in Orders, NEW k \in KeyOrNone, NEW note \in BOOLEAN,
             CancelRead(a, o, k, note)
      PROVE  Goal
  BY <1>5, <1>7 DEF CancelRead, Reading
<1>8. ASSUME NEW o \in Orders, QrCancelRead(a, o)
      PROVE  Goal
  BY <1>5, <1>8 DEF QrCancelRead, Reading
<1>9. ASSUME NEW o \in Orders, ItemRead(a, o)
      PROVE  Goal
  <2> DEFINE want == [orders[o] EXCEPT !.total = Less(orders[o].total),
                                       !.final = Less(orders[o].final)]
             r    == Reading(o, "item.write", want)
  <2>1. /\ orders[o].status # "absent" /\ Accept(a, "item", r)
        /\ UNCHANGED <<orders, tables, ledger>>
    BY <1>9 DEF ItemRead
  <2>2. orders[o] \in Row
    BY DEF TypeOK
  <2>3. want.status # "absent"
    BY <2>1, <2>2 DEF Row
  <2>4. FreshlyRead(r)
    BY <2>1, <2>3, ReadingIsFresh
  <2> QED BY <2>1, <2>4, AcceptCarries, QuietRows DEF Accept, Goal
<1>10. ASSUME NEW o \in Orders, DeliveryRead(a, o)
       PROVE  Goal
  <2> DEFINE next == IF orders[o].status \in Immutable THEN orders[o].status ELSE "served"
             want == [orders[o] EXCEPT !.status = next]
             r    == Reading(o, "delivery.write", want)
  <2>1. /\ orders[o].status # "absent" /\ Accept(a, "delivery", r)
        /\ UNCHANGED <<orders, tables, ledger>>
    BY <1>10 DEF DeliveryRead
  <2>2. orders[o] \in Row
    BY DEF TypeOK
  <2>3. want.status # "absent"
    BY <2>1, <2>2 DEF Row
  <2>4. FreshlyRead(r)
    BY <2>1, <2>3, ReadingIsFresh
  <2> QED BY <2>1, <2>4, AcceptCarries, QuietRows DEF Accept, Goal
<1>11. ASSUME NEW s \in Tables, NEW t \in Tables, MoveRead(a, s, t)
       PROVE  Goal
  <2>1. PICK o \in AppendTarget(s) :
          Accept(a, "move", [Reading(o, "move.look", orders[o]) EXCEPT !.target = t])
    BY <1>11 DEF MoveRead
  <2>2. o \in Orders /\ orders[o].status # "absent"
    BY <2>1 DEF AppendTarget, OpenAt, OpenStatus
  <2>3. UNCHANGED <<orders, tables, ledger>>
    BY <1>11 DEF MoveRead
  <2> QED BY <1>5, <2>1, <2>2, <2>3 DEF Reading
<1>12. ASSUME NEW t \in Tables, NEW status \in TableStatus, TableRead(a, t, status)
       PROVE  Goal
  <2>1. \E step \in TableSteps : Accept(a, "table", OnTable(t, step, status))
    BY <1>12 DEF TableRead, TableSteps
  <2>2. \A step \in TableSteps : ~OnOrder(OnTable(t, step, status))
    BY DEF OnOrder, OnTable
  <2> QED BY <1>12, <2>1, <2>2, AcceptCarries, QuietRows DEF Accept, TableRead, Goal
<1> QED
  BY <1>1, <1>2, <1>3, <1>4, <1>6, <1>7, <1>8, <1>9, <1>10, <1>11, <1>12
     DEF Arrive, TableStatus, Goal

\* The statements that write no row of orders and no row of payments.
LEMMA TableWritesCarry ==
  ASSUME TypeOK, NEW a \in Actors,
         \/ MaintainTable(a) \/ MaintainSkip(a) \/ LockMiss(a) \/ StatusTable(a)
         \/ PaymentRefused(a) \/ CancelCheck(a) \/ CancelTable(a)
         \/ QrCancelCheck(a) \/ QrCancelTable(a)
         \/ MoveLook(a) \/ MoveClaim(a) \/ MoveOrderFails(a) \/ MoveRelease(a)
         \/ TableCheck(a) \/ TableWrite(a) \/ Die(a)
  PROVE  RowsAdvance /\ RequestsCarry
<1>1. UNCHANGED <<orders, ledger>>
  BY DEF MaintainTable, MaintainSkip, LockMiss, StatusTable, PaymentRefused, CancelCheck,
         CancelTable, QrCancelCheck, QrCancelTable, MoveLook, MoveClaim, MoveOrderFails,
         MoveRelease, TableCheck, TableWrite, Die
<1>2. \/ Finish(a)
      \/ \E old, step : At(a, old) /\ old \notin TableSteps /\ Goto(a, step)
      \/ \E old : At(a, old) /\ Goto(a, "table.write")
  BY DEF MaintainTable, MaintainSkip, LockMiss, StatusTable, PaymentRefused, CancelCheck,
         CancelTable, QrCancelCheck, QrCancelTable, MoveLook, MoveClaim, MoveOrderFails,
         MoveRelease, TableCheck, TableWrite, Die, TableSteps
<1>3. RequestsCarry
  BY <1>2, FinishCarries, GotoCarries DEF TableSteps
<1> QED BY <1>1, <1>3, QuietRows

\* The statements that write the row of the order: under the lock the version
\* grows by one, elsewhere it is not written.
LEMMA RowWritesCarry ==
  ASSUME TypeOK, VersionFreezesLedger, NEW a \in Actors,
         \/ MaintainWrite(a) \/ StatusWrite(a) \/ StationWrite(a) \/ FinancialsWrite(a)
         \/ CancelWrite(a) \/ ItemWrite(a) \/ MoveOrder(a) \/ QrCancelWrite(a)
         \/ DeliveryWrite(a)
  PROVE  RowsAdvance /\ RequestsCarry
<1> DEFINE r == req[a]
           o == req[a].order
<1>1. /\ r # NoReq /\ r.step \notin TableSteps /\ UNCHANGED <<tables, ledger>>
      /\ \/ Finish(a)
         \/ \E old, step : At(a, old) /\ old \notin TableSteps /\ Goto(a, step)
  BY DEF MaintainWrite, StatusWrite, StationWrite, FinancialsWrite, CancelWrite,
         ItemWrite, MoveOrder, QrCancelWrite, DeliveryWrite, At, TableSteps
<1>2. RequestsCarry
  BY <1>1, FinishCarries, GotoCarries
<1>3. /\ o \in Orders /\ orders \in [Orders -> Row] /\ orders[o] \in Row
      /\ r.want \in Row /\ r.seen \in Row /\ r.want.status # "absent"
  BY <1>1, RequestFields DEF TypeOK, VersionFreezesLedger, OnOrder, ReadWell
<1>4. orders[o].version \in Nat
  BY <1>3 DEF Row
<1>5. \A p \in Orders \ {o} : orders'[p] = orders[p]
  BY <1>3 DEF MaintainWrite, StatusWrite, StationWrite, FinancialsWrite, CancelWrite,
              ItemWrite, MoveOrder, QrCancelWrite, DeliveryWrite
<1>6. /\ orders[o].status # "absent" => orders'[o].status # "absent"
      /\ orders'[o].version >= orders[o].version
  <2>1. CASE MaintainWrite(a)
    BY <1>3, <1>4, <2>1 DEF MaintainWrite, Row
  <2>2. CASE StatusWrite(a)
    BY <1>3, <1>4, <2>2 DEF StatusWrite, Unmoved, Row
  <2>3. CASE StationWrite(a)
    BY <1>3, <1>4, <2>3 DEF StationWrite, Unmoved, Row
  <2>4. CASE FinancialsWrite(a)
    BY <1>3, <1>4, <2>4 DEF FinancialsWrite, Unmoved, Row
  <2>5. CASE CancelWrite(a)
    BY <1>3, <1>4, <2>5 DEF CancelWrite, Row
  <2>6. CASE ItemWrite(a)
    BY <1>3, <1>4, <2>6 DEF ItemWrite, Row
  <2>7. CASE MoveOrder(a)
    BY <1>3, <1>4, <2>7 DEF MoveOrder, Row
  <2>8. CASE QrCancelWrite(a)
    BY <1>3, <1>4, <2>8 DEF QrCancelWrite, Row
  <2>9. CASE DeliveryWrite(a)
    BY <1>3, <1>4, <2>9 DEF DeliveryWrite, Row
  <2> QED BY <2>1, <2>2, <2>3, <2>4, <2>5, <2>6, <2>7, <2>8, <2>9
<1>7. sales' = sales /\ refunds' = refunds
  BY <1>1 DEF ledger
<1>8. orders'[o].version = orders[o].version \/ orders'[o].version > orders[o].version
  <2>1. orders'[o].version \in Int
    <3>1. TypeOK'
      BY RowWritesType
    <3> QED BY <1>3, <3>1 DEF TypeOK, Row
  <2> QED BY <1>4, <1>6, <2>1
<1>9. RowsAdvance
  <2> SUFFICES ASSUME NEW p \in Orders, orders[p].status # "absent"
               PROVE  /\ orders'[p].status # "absent"
                      /\ \/ orders'[p].version = orders[p].version
                         \/ orders'[p].version > orders[p].version
    BY <1>7 DEF RowsAdvance
  <2> QED BY <1>5, <1>6, <1>8
<1> QED BY <1>2, <1>9

\* The payment routine always moves the version on.
LEMMA PaymentsCarry ==
  ASSUME TypeOK, NEW a \in Actors, SaleApply(a) \/ RefundApply(a) \/ PaymentReplay(a)
  PROVE  RowsAdvance /\ RequestsCarry
<1> DEFINE o == req[a].order
<1>1. req[a] # NoReq /\ Finish(a)
  BY DEF SaleApply, RefundApply, PaymentReplay, At
<1>2. o \in Orders /\ orders \in [Orders -> Row] /\ orders[o].version \in Nat
  BY <1>1, RequestFields DEF TypeOK, Row
<1>3. RequestsCarry
  BY <1>1, FinishCarries
<1>4. \E status \in OrderStatus :
        orders' = [orders EXCEPT ![o].status = status, ![o].version = @ + 1]
  <2>1. \E sold, refunded \in Int : Settle(o, sold, refunded)
    <3>1. sales[o] \in Int /\ refunds[o] \in Int /\ Remaining(o) \in Nat /\ Refundable(o) \in Nat
      BY <1>2 DEF TypeOK, Row, Remaining, Refundable, NonNegative, Net
    <3>2. req[a].amount \in Nat
      BY <1>1, RequestFields
    <3>3. /\ Effective(req[a].amount, Remaining(o)) \in Int
          /\ Effective(req[a].amount, Refundable(o)) \in Int
      BY <3>1, <3>2 DEF Effective
    <3> QED BY <3>1, <3>3 DEF SaleApply, RefundApply, PaymentReplay
  <2>2. orders[o].final \in Int
    BY <1>2 DEF Row, TypeOK
  <2> QED BY <2>1, <2>2, SettledStatusType DEF Settle
<1>5. /\ \A p \in Orders \ {o} : orders'[p] = orders[p]
      /\ orders'[o].version > orders[o].version /\ orders'[o].status # "absent"
  BY <1>2, <1>4 DEF Row, OrderStatus, OpenStatus
<1>6. \A p \in Orders \ {o} : sales'[p] = sales[p] /\ refunds'[p] = refunds[p]
  BY <1>2 DEF SaleApply, RefundApply, PaymentReplay, ledger, TypeOK
<1>7. RowsAdvance
  BY <1>5, <1>6 DEF RowsAdvance
<1> QED BY <1>3, <1>7

\* The note of a cancellation adds no money.
LEMMA CancelNoteCarries ==
  ASSUME TypeOK, NEW a \in Actors, CancelNote(a)
  PROVE  RowsAdvance /\ RequestsCarry
<1>1. RequestsCarry
  BY FinishCarries DEF CancelNote
<1>2. RowsAdvance
  BY DEF CancelNote, RowsAdvance
<1> QED BY <1>1, <1>2

\* The station sync reads the row again.
LEMMA MaintainReadCarries ==
  ASSUME TypeOK, VersionFreezesLedger, NEW a \in Actors, MaintainRead(a)
  PROVE  RowsAdvance /\ RequestsCarry
<1> DEFINE o      == req[a].order
           merged == MergeStations(orders[o].stations, req[a].want.stations)
           agg    == AggregateStatus(orders[o].status, merged)
           want   == [orders[o] EXCEPT !.stations = merged, !.status = agg]
           r      == Reading(o, "sync.write", want)
<1>1. /\ req[a] # NoReq /\ req[a].step \notin TableSteps
      /\ req' = [req EXCEPT ![a] = r] /\ UNCHANGED <<orders, tables, ledger>>
  BY DEF MaintainRead, At, TableSteps
<1>2. o \in Orders /\ orders[o] \in Row /\ orders[o].status # "absent"
  BY <1>1, RequestFields DEF VersionFreezesLedger, OnOrder, ReadWell
<1>3. agg # "absent"
  BY <1>2, AggregateStatusType
<1>4. want.status # "absent"
  BY <1>2, <1>3 DEF Row
<1>5. FreshlyRead(r)
  BY <1>1, <1>2, <1>4, ReadingIsFresh
<1> QED BY <1>1, <1>5, AcceptCarries, QuietRows

\* Every step keeps the reads and the ledger together.
LEMMA VersionStep ==
  ASSUME TypeOK, VersionFreezesLedger, [Next]_vars
  PROVE  VersionFreezesLedger'
<1>1. TypeOK'
  BY TypeStep
<1>2. CASE UNCHANGED vars
  BY <1>2 DEF VersionFreezesLedger, ReadWell, vars, ledger
<1>3. ASSUME NEW a \in Actors, Arrive(a)
      PROVE  VersionFreezesLedger'
  BY <1>1, <1>3, ArriveCarries, ReadersKept
<1>4. ASSUME NEW a \in Actors, Proceed(a)
      PROVE  RowsAdvance /\ RequestsCarry
  <2>1. CASE \/ MaintainTable(a) \/ MaintainSkip(a) \/ LockMiss(a) \/ StatusTable(a)
             \/ PaymentRefused(a) \/ CancelCheck(a) \/ CancelTable(a)
             \/ QrCancelCheck(a) \/ QrCancelTable(a)
             \/ MoveLook(a) \/ MoveClaim(a) \/ MoveOrderFails(a) \/ MoveRelease(a)
             \/ TableCheck(a) \/ TableWrite(a) \/ Die(a)
    BY <2>1, TableWritesCarry
  <2>2. CASE \/ MaintainWrite(a) \/ StatusWrite(a) \/ StationWrite(a)
             \/ FinancialsWrite(a) \/ CancelWrite(a) \/ ItemWrite(a) \/ MoveOrder(a)
             \/ QrCancelWrite(a) \/ DeliveryWrite(a)
    BY <2>2, RowWritesCarry
  <2>3. CASE SaleApply(a) \/ RefundApply(a) \/ PaymentReplay(a)
    BY <2>3, PaymentsCarry
  <2>4. CASE CancelNote(a)
    BY <2>4, CancelNoteCarries
  <2>5. CASE MaintainRead(a)
    BY <2>5, MaintainReadCarries
  <2> QED BY <1>4, <2>1, <2>2, <2>3, <2>4, <2>5, Zenon DEF Proceed
<1>5. ASSUME NEW a \in Actors, Proceed(a)
      PROVE  VersionFreezesLedger'
  BY <1>1, <1>4, <1>5, ReadersKept
<1>6. ASSUME NEW o \in Orders, CourierAssign(o)
      PROVE  VersionFreezesLedger'
  <2>1. \A p \in Orders : /\ orders'[p].status = orders[p].status
                          /\ orders'[p].version = orders[p].version
    BY <1>6 DEF CourierAssign, TypeOK, Row
  <2>2. RowsAdvance
    BY <1>6, <2>1 DEF CourierAssign, RowsAdvance, ledger
  <2>3. RequestsCarry
    BY <1>6 DEF CourierAssign, RequestsCarry, Carries
  <2> QED BY <1>1, <2>2, <2>3, ReadersKept
<1> QED BY <1>2, <1>3, <1>5, <1>6 DEF Next

\* Nobody has read anything at the start.
LEMMA VersionInit == Init => VersionFreezesLedger
BY DEF Init, VersionFreezesLedger, OnOrder

\* A conditional write never passes over a payment: while the version a handler
\* read still stands, so does the ledger it read beside it.
THEOREM LockGuardsLedger == Spec => []VersionFreezesLedger
<1>1. TypeOK /\ VersionFreezesLedger /\ [Next]_vars => (TypeOK /\ VersionFreezesLedger)'
  BY TypeStep, VersionStep
<1> QED BY <1>1, TypeInit, VersionInit, PTL DEF Spec

-----------------------------------------------------------------------------
(* Money and keys: only two routines and the cancellation's note touch     *)
(* the ledger.                                                             *)

\* Only three actions write the ledger.
LEMMA LedgerWriters ==
  ASSUME TypeOK, [Next]_vars
  PROVE  UNCHANGED ledger \/ \E a \in Actors : SaleApply(a) \/ RefundApply(a) \/ CancelNote(a)
<1>1. ASSUME NEW a \in Actors, Arrive(a)
      PROVE  UNCHANGED ledger
  BY <1>1 DEF Arrive, Create, StatusRead, StationRead, FinancialsRead, SaleCheck, RefundCheck,
              CancelRead, QrCancelRead, ItemRead, DeliveryRead, MoveRead, TableRead
<1>2. ASSUME NEW a \in Actors, Proceed(a), ~SaleApply(a), ~RefundApply(a), ~CancelNote(a)
      PROVE  UNCHANGED ledger
  <2>1. CASE \/ MaintainTable(a) \/ MaintainSkip(a) \/ LockMiss(a) \/ StatusTable(a)
             \/ PaymentRefused(a) \/ CancelCheck(a) \/ CancelTable(a)
             \/ QrCancelCheck(a) \/ QrCancelTable(a)
             \/ MoveLook(a) \/ MoveClaim(a) \/ MoveOrderFails(a) \/ MoveRelease(a)
             \/ TableCheck(a) \/ TableWrite(a) \/ Die(a)
    BY <2>1 DEF MaintainTable, MaintainSkip, LockMiss, StatusTable, PaymentRefused,
                CancelCheck, CancelTable, QrCancelCheck, QrCancelTable, MoveLook, MoveClaim,
                MoveOrderFails, MoveRelease, TableCheck, TableWrite, Die
  <2>2. CASE \/ MaintainWrite(a) \/ StatusWrite(a) \/ StationWrite(a)
             \/ FinancialsWrite(a) \/ CancelWrite(a) \/ ItemWrite(a) \/ MoveOrder(a)
             \/ QrCancelWrite(a) \/ DeliveryWrite(a)
    BY <2>2 DEF MaintainWrite, StatusWrite, StationWrite, FinancialsWrite, CancelWrite,
                ItemWrite, MoveOrder, QrCancelWrite, DeliveryWrite
  <2>3. CASE PaymentReplay(a) \/ MaintainRead(a)
    BY <2>3 DEF PaymentReplay, MaintainRead
  <2> QED BY <1>2, <2>1, <2>2, <2>3, Zenon DEF Proceed
<1>3. CASE UNCHANGED vars
  BY <1>3 DEF vars, ledger
<1> QED BY <1>1, <1>2, <1>3 DEF Next, CourierAssign

\* The amounts a payment and a refund move, and between which bounds.
LEMMA SaleAmount ==
  ASSUME TypeOK, RefundsCovered, NEW a \in Actors, SaleApply(a)
  PROVE  \E o \in Orders, n \in Nat :
           /\ o = req[a].order /\ n = Effective(req[a].amount, Remaining(o))
           /\ n \in 1..orders[o].final /\ sales[o] + n - refunds[o] <= orders[o].final
           /\ sales' = [sales EXCEPT ![o] = @ + n]
<1> DEFINE o == req[a].order
           n == Effective(req[a].amount, Remaining(o))
<1>1. o \in Orders /\ req[a].amount \in Nat
  BY RequestFields DEF SaleApply, At
<1>2. /\ sales[o] \in Nat /\ refunds[o] \in Nat /\ orders[o].final \in Nat
      /\ refunds[o] <= sales[o]
  BY <1>1 DEF TypeOK, Row, RefundsCovered
<1>3. Remaining(o) \in Nat /\ n \in Nat /\ n > 0 /\ n <= Remaining(o)
  BY <1>1, <1>2, FitsType DEF SaleApply, Remaining, NonNegative, Net
<1>4. Remaining(o) = orders[o].final - (sales[o] - refunds[o])
  BY <1>2, <1>3 DEF Remaining, NonNegative, Net
<1>5. n \in 1..orders[o].final /\ sales[o] + n - refunds[o] <= orders[o].final
  BY <1>2, <1>3, <1>4
<1> QED BY <1>1, <1>3, <1>5 DEF SaleApply

\* What a refund adds is within what was taken.
LEMMA RefundAmount ==
  ASSUME TypeOK, NEW a \in Actors, RefundApply(a)
  PROVE  \E o \in Orders, n \in Nat :
           /\ o = req[a].order /\ n = Effective(req[a].amount, Refundable(o))
           /\ n \in 1..sales[o] /\ refunds[o] + n <= sales[o]
           /\ refunds' = [refunds EXCEPT ![o] = @ + n]
<1> DEFINE o == req[a].order
           n == Effective(req[a].amount, Refundable(o))
<1>1. o \in Orders /\ req[a].amount \in Nat
  BY RequestFields DEF RefundApply, At
<1>2. sales[o] \in Nat /\ refunds[o] \in Nat
  BY <1>1 DEF TypeOK
<1>3. Refundable(o) \in Nat /\ n \in Nat /\ n > 0 /\ n <= Refundable(o)
  BY <1>1, <1>2, FitsType DEF RefundApply, Refundable, NonNegative, Net
<1>4. Refundable(o) = sales[o] - refunds[o]
  BY <1>2, <1>3 DEF Refundable, NonNegative, Net
<1>5. n \in 1..sales[o] /\ refunds[o] + n <= sales[o]
  BY <1>2, <1>3, <1>4
<1> QED BY <1>1, <1>3, <1>5 DEF RefundApply

\* Every step keeps refunds covered.
LEMMA RefundsStep ==
  ASSUME TypeOK, RefundsCovered, [Next]_vars
  PROVE  RefundsCovered'
<1>1. /\ sales \in [Orders -> Nat] /\ refunds \in [Orders -> Nat]
      /\ \A o \in Orders : refunds[o] <= sales[o]
  BY DEF TypeOK, RefundsCovered
<1>2. CASE UNCHANGED ledger
  BY <1>1, <1>2 DEF ledger, RefundsCovered
<1>3. ASSUME NEW a \in Actors, SaleApply(a)
      PROVE  RefundsCovered'
  <2>1. UNCHANGED refunds
    BY <1>3 DEF SaleApply
  <2> QED BY <1>1, <1>3, <2>1, SaleAmount DEF RefundsCovered
<1>4. ASSUME NEW a \in Actors, RefundApply(a)
      PROVE  RefundsCovered'
  <2>1. UNCHANGED sales
    BY <1>4 DEF RefundApply
  <2> QED BY <1>1, <1>4, <2>1, RefundAmount DEF RefundsCovered
<1>5. ASSUME NEW a \in Actors, CancelNote(a)
      PROVE  RefundsCovered'
  BY <1>1, <1>5 DEF CancelNote, RefundsCovered
<1> QED BY <1>2, <1>3, <1>4, <1>5, LedgerWriters

\* No interleaving of refunds, resends included, gives back more than was taken.
THEOREM NoOverRefund == Spec => []RefundsCovered
<1>1. Init => RefundsCovered
  BY DEF Init, RefundsCovered
<1>2. TypeOK /\ RefundsCovered /\ [Next]_vars => (TypeOK /\ RefundsCovered)'
  BY TypeStep, RefundsStep
<1> QED BY <1>1, <1>2, TypeInit, PTL DEF Spec

\* Inserting a row under a key that is not known keeps every key on one row.
LEMMA InsertOnce ==
  ASSUME TypeOK, KeyAppliedOnce, NEW o \in Orders, NEW k \in KeyOrNone,
         \/ ~KeyKnown(o, "sale", k) /\ (InsertRow(o, "sale", k) \/ InsertRow(o, "cancel_note", k))
         \/ ~KeyKnown(o, "refund", k) /\ InsertRow(o, "refund", k)
  PROVE  KeyAppliedOnce'
<1>1. rows \in [Orders -> [RowKind -> [KeyOrNone -> Nat]]]
  BY DEF TypeOK
<1> SUFFICES ASSUME NEW p \in Orders, NEW type \in {"sale", "refund"}, NEW j \in Keys
             PROVE  RowsUnder(p, type, j)' <= 1
  BY DEF KeyAppliedOnce
<1>2. j \in KeyOrNone /\ j # NoKey /\ {"sale", "refund", "cancel_note"} = RowKind
  BY NamesAssumption DEF KeyOrNone, RowKind
<1>3. RowsUnder(p, type, j) <= 1
  BY DEF KeyAppliedOnce
<1>4. CASE p # o \/ j # k
  <2>1. PICK kind \in RowKind : rows' = [rows EXCEPT ![o][kind][k] = @ + 1]
    BY <1>2 DEF InsertRow
  <2>2. \A any \in RowKind : rows'[p][any][j] = rows[p][any][j]
    BY <1>1, <1>2, <1>4, <2>1
  <2> QED BY <1>2, <1>3, <2>2 DEF RowsUnder
<1>5. CASE p = o /\ j = k
  <2>1. CASE ~KeyKnown(o, "sale", k) /\ InsertRow(o, "sale", k)
    BY <1>1, <1>2, <1>3, <1>5, <2>1 DEF RowsUnder, InsertRow, KeyKnown
  <2>2. CASE ~KeyKnown(o, "sale", k) /\ InsertRow(o, "cancel_note", k)
    BY <1>1, <1>2, <1>3, <1>5, <2>2 DEF RowsUnder, InsertRow, KeyKnown
  <2>3. CASE ~KeyKnown(o, "refund", k) /\ InsertRow(o, "refund", k)
    BY <1>1, <1>2, <1>3, <1>5, <2>3 DEF RowsUnder, InsertRow, KeyKnown
  <2> QED BY <2>1, <2>2, <2>3
<1> QED BY <1>4, <1>5

\* Every step keeps a key on one row.
LEMMA KeyStep ==
  ASSUME TypeOK, KeyAppliedOnce, [Next]_vars
  PROVE  KeyAppliedOnce'
<1>1. CASE UNCHANGED rows
  BY <1>1 DEF KeyAppliedOnce, RowsUnder
<1>2. ASSUME NEW a \in Actors, SaleApply(a) \/ RefundApply(a)
      PROVE  KeyAppliedOnce'
  BY <1>2, RequestFields, InsertOnce DEF SaleApply, RefundApply, At
<1>3. ASSUME NEW a \in Actors, CancelNote(a)
      PROVE  KeyAppliedOnce'
  BY <1>1, <1>3, RequestFields, InsertOnce DEF CancelNote, At, InsertRow
<1> QED BY <1>1, <1>2, <1>3, LedgerWriters DEF ledger

\* However payments, refunds and cancellations are resent and interleaved, an
\* idempotency key stands on one row of its payment type.
THEOREM OneRowPerKey == Spec => []KeyAppliedOnce
<1>1. Init => KeyAppliedOnce
  BY DEF Init, KeyAppliedOnce, RowsUnder, RowKind, KeyOrNone
<1>2. TypeOK /\ KeyAppliedOnce /\ [Next]_vars => (TypeOK /\ KeyAppliedOnce)'
  BY TypeStep, KeyStep
<1> QED BY <1>1, <1>2, TypeInit, PTL DEF Spec

-----------------------------------------------------------------------------
(* The desk implements the payment book.                                   *)

Closed == {o \in Orders : orders[o].status \in {"cancelled", "refunded"}}
Due    == [o \in Orders |-> orders[o].final]
Used   == [o \in Orders |-> [p \in {"sale", "refund"} |->
                               {k \in Keys : RowsUnder(o, p, k) > 0}]]

\* A row inserted under a key that is not known marks that key, and no other.
LEMMA InsertMarks ==
  ASSUME TypeOK, NEW o \in Orders, NEW k \in KeyOrNone, NEW p \in {"sale", "refund"},
         ~KeyKnown(o, p, k),
         InsertRow(o, p, k) \/ (p = "sale" /\ InsertRow(o, "cancel_note", k))
  PROVE  /\ k \notin Used[o][p]
         /\ Used' = [Used EXCEPT ![o][p] = @ \cup ({k} \ {NoKey})]
<1>1. rows \in [Orders -> [RowKind -> [KeyOrNone -> Nat]]]
  BY DEF TypeOK
<1>2. k \notin Used[o][p]
  BY NamesAssumption DEF Used, KeyKnown
<1>3. PICK kind \in RowKind : /\ rows' = [rows EXCEPT ![o][kind][k] = @ + 1]
                              /\ kind = p \/ (p = "sale" /\ kind = "cancel_note")
  BY DEF InsertRow, RowKind
<1>4. ASSUME NEW q \in Orders, NEW t \in {"sale", "refund"}, NEW j \in Keys
      PROVE  RowsUnder(q, t, j)' =
               IF q = o /\ t = p /\ j = k THEN RowsUnder(q, t, j) + 1 ELSE RowsUnder(q, t, j)
  <2>1. j \in KeyOrNone /\ {"sale", "refund", "cancel_note"} = RowKind
    BY DEF KeyOrNone, RowKind
  <2>2. \A any \in RowKind :
          /\ rows[q][any][j] \in Nat
          /\ rows'[q][any][j] = IF q = o /\ any = kind /\ j = k THEN rows[q][any][j] + 1
                                ELSE rows[q][any][j]
    BY <1>1, <1>3, <2>1
  <2> QED BY <1>3, <2>1, <2>2 DEF RowsUnder
<1>5. ASSUME NEW q \in Orders, NEW t \in {"sale", "refund"}, NEW j \in Keys
      PROVE  RowsUnder(q, t, j) \in Nat
  BY <1>1, <1>5 DEF RowsUnder, KeyOrNone, RowKind
<1>6. ASSUME NEW q \in Orders, NEW t \in {"sale", "refund"}
      PROVE  {j \in Keys : RowsUnder(q, t, j)' > 0} =
               IF q = o /\ t = p THEN Used[o][p] \cup ({k} \ {NoKey})
               ELSE {j \in Keys : RowsUnder(q, t, j) > 0}
  <2>1. {k} \ {NoKey} = {j \in Keys : j = k}
    BY NamesAssumption DEF KeyOrNone
  <2>2. Used[o][p] = {j \in Keys : RowsUnder(o, p, j) > 0}
    BY DEF Used
  <2> QED BY <1>4, <1>5, <2>1, <2>2
<1>7. Used' = [q \in Orders |-> [t \in {"sale", "refund"} |->
                                   {j \in Keys : RowsUnder(q, t, j)' > 0}]]
  BY DEF Used
<1>8. [Used EXCEPT ![o][p] = @ \cup ({k} \ {NoKey})] =
        [q \in Orders |-> [t \in {"sale", "refund"} |->
           IF q = o /\ t = p THEN Used[o][p] \cup ({k} \ {NoKey})
           ELSE {j \in Keys : RowsUnder(q, t, j) > 0}]]
  BY DEF Used
<1>9. Used' = [q \in Orders |-> [t \in {"sale", "refund"} |->
                 IF q = o /\ t = p THEN Used[o][p] \cup ({k} \ {NoKey})
                 ELSE {j \in Keys : RowsUnder(q, t, j) > 0}]]
  BY <1>6, <1>7
<1> QED BY <1>2, <1>8, <1>9

\* What the payment routine does to the price and to the closed orders.
LEMMA SettleCloses ==
  ASSUME TypeOK, NEW o \in Orders, NEW sold \in Nat, NEW refunded \in Nat,
         Settle(o, sold, refunded)
  PROVE  /\ Due' = Due
         /\ Closed' \in {Closed, Closed \cup {o}, Closed \ {o}}
         /\ sold > refunded /\ o \notin Closed => Closed' = Closed
<1> DEFINE next == SettledStatus(orders[o].final, sold, refunded, orders[o].status)
<1>1. orders \in [Orders -> Row] /\ orders[o].final \in Nat
  BY DEF TypeOK, Row
<1>2. orders' = [orders EXCEPT ![o].status = next, ![o].version = @ + 1]
  BY DEF Settle
<1>3. Due' = Due
  BY <1>1, <1>2 DEF Due, Row
<1>4. \A p \in Orders : p # o => orders'[p] = orders[p]
  BY <1>1, <1>2
<1>5. orders'[o].status = next
  BY <1>1, <1>2 DEF Row
<1>6. Closed' \in {Closed, Closed \cup {o}, Closed \ {o}}
  BY <1>4 DEF Closed
<1>7. ASSUME sold > refunded, o \notin Closed
      PROVE  Closed' = Closed
  <2>1. next \notin {"cancelled", "refunded"}
    BY <1>1, <1>7 DEF SettledStatus
  <2> QED BY <1>4, <1>5, <1>7, <2>1 DEF Closed
<1> QED BY <1>3, <1>6, <1>7

\* A booked sale is a Take of the book,
LEMMA SaleIsTake ==
  ASSUME TypeOK, RefundsCovered, NEW a \in Actors, SaleApply(a)
  PROVE  Book!Next
<1> DEFINE k == req[a].key
<1>1. PICK o \in Orders, n \in Nat :
        /\ o = req[a].order /\ n = Effective(req[a].amount, Remaining(o))
        /\ n \in 1..orders[o].final /\ sales[o] + n - refunds[o] <= orders[o].final
        /\ sales' = [sales EXCEPT ![o] = @ + n]
  BY SaleAmount
<1>2. k \in KeyOrNone /\ sales[o] \in Nat /\ refunds[o] \in Nat /\ refunds[o] <= sales[o]
  BY <1>1, RequestFields DEF SaleApply, At, TypeOK, RefundsCovered
<1>3. o \notin Closed
  BY <1>1 DEF SaleApply, TakesSales, Closed
<1>4. Settle(o, sales[o] + n, refunds[o]) /\ UNCHANGED refunds
  BY <1>1 DEF SaleApply
<1>5. Due' = Due /\ Closed' = Closed
  <2>1. sales[o] + n \in Nat /\ sales[o] + n > refunds[o]
    BY <1>1, <1>2
  <2> QED BY <1>2, <1>3, <1>4, <2>1, SettleCloses
<1>6. k \notin Used[o]["sale"] /\ Used' = [Used EXCEPT ![o]["sale"] = @ \cup ({k} \ {NoKey})]
  BY <1>1, <1>2, InsertMarks DEF SaleApply
<1>7. Due[o] = orders[o].final
  BY DEF Due
<1>8. Book!Take(o, k, n)
  BY <1>1, <1>3, <1>4, <1>5, <1>6, <1>7 DEF Book!Take, Book!Mark, Due, Closed, Used
<1> QED BY <1>1, <1>2, <1>7, <1>8 DEF Book!Next, KeyOrNone, Due

\* a booked refund is a Give,
LEMMA RefundIsGive ==
  ASSUME TypeOK, RefundsCovered, NEW a \in Actors, RefundApply(a)
  PROVE  Book!Next
<1> DEFINE k == req[a].key
<1>1. PICK o \in Orders, n \in Nat :
        /\ o = req[a].order /\ n = Effective(req[a].amount, Refundable(o))
        /\ n \in 1..sales[o] /\ refunds[o] + n <= sales[o]
        /\ refunds' = [refunds EXCEPT ![o] = @ + n]
  BY RefundAmount
<1>2. k \in KeyOrNone /\ sales[o] \in Nat /\ refunds[o] \in Nat
  BY <1>1, RequestFields DEF RefundApply, At, TypeOK
<1>3. Settle(o, sales[o], refunds[o] + n) /\ UNCHANGED sales
  BY <1>1 DEF RefundApply
<1>4. Due' = Due /\ Closed' \in {Closed, Closed \cup {o}, Closed \ {o}}
  BY <1>1, <1>2, <1>3, SettleCloses
<1>5. k \notin Used[o]["refund"]
      /\ Used' = [Used EXCEPT ![o]["refund"] = @ \cup ({k} \ {NoKey})]
  BY <1>1, <1>2, InsertMarks DEF RefundApply
<1>6. Book!Give(o, k, n)
  BY <1>1, <1>3, <1>4, <1>5 DEF Book!Give, Book!Mark, Due, Closed, Used
<1> QED BY <1>1, <1>2, <1>6 DEF Book!Next, KeyOrNone

\* A step that leaves the ledger alone may only revise prices and statuses.
LEMMA RestIsRevise ==
  ASSUME TypeOK, TypeOK', UNCHANGED ledger
  PROVE  Book!Next
<1>1. Due' \in [Orders -> Nat] /\ Closed' \in SUBSET Orders
  BY DEF TypeOK, Row, Due, Closed
<1>2. UNCHANGED <<sales, refunds, Used>>
  BY DEF ledger, Used, RowsUnder
<1> QED BY <1>1, <1>2 DEF Book!Next, Book!Revise, Book!book, Due, Closed, Used

\* and the note of a cancellation a Note.
LEMMA NoteIsNote ==
  ASSUME TypeOK, TypeOK', NEW a \in Actors, CancelNote(a)
  PROVE  Book!Next
<1> DEFINE o == req[a].order
           k == req[a].key
<1>1. o \in Orders /\ k \in KeyOrNone /\ UNCHANGED <<orders, sales, refunds>>
  BY RequestFields DEF CancelNote, At
<1>2. CASE UNCHANGED rows
  BY <1>1, <1>2, RestIsRevise DEF ledger
<1>3. CASE ~KeyKnown(o, "sale", k) /\ InsertRow(o, "cancel_note", k)
  <2>1. k \notin Used[o]["sale"] /\ Used' = [Used EXCEPT ![o]["sale"] = @ \cup ({k} \ {NoKey})]
    BY <1>1, <1>3, InsertMarks
  <2>2. UNCHANGED <<Due, Closed, sales, refunds>>
    BY <1>1 DEF Due, Closed
  <2>3. Book!Note(o, k)
    BY <2>1, <2>2 DEF Book!Note, Book!Mark, Due, Closed, Used
  <2> QED BY <1>1, <2>3 DEF Book!Next, KeyOrNone
<1> QED BY <1>2, <1>3 DEF CancelNote, InsertRow

\* Every step of the desk is a step of the book.
LEMMA BookStep ==
  ASSUME TypeOK, RefundsCovered, [Next]_vars
  PROVE  Book!Next
BY TypeStep, LedgerWriters, RestIsRevise, SaleIsTake, RefundIsGive, NoteIsNote

\* The empty desk is the empty book.
LEMMA BookInit == Init => Book!Init
BY DEF Init, Book!Init, AbsentRow, RowsUnder, RowKind, KeyOrNone

\* Whatever the handlers do to rows, tables and prices, the ledger is a payment
\* book: each entry once, under its key, within the price due at that moment.
THEOREM DeskKeepsTheBook == Spec => KeepsTheBook
<1>1. TypeOK /\ RefundsCovered /\ [Next]_vars => Book!Next
  BY BookStep
<1> QED BY <1>1, BookInit, TypeCorrect, NoOverRefund, PTL DEF Spec, KeepsTheBook, Book!Spec

-----------------------------------------------------------------------------
(* How a closed order comes back, and how a table gets a second open one.  *)

\* A write of a status under the lock that reopens an order has read it open:
\* no rule of the transition table leads from a closed status to an open one.
ReopensRead(r) == r.want.status \in OpenStatus => r.seen.status \in OpenStatus
WritesReadOpen ==
  \A a \in Actors : At(a, "status.write") \/ At(a, "station.write") => ReopensRead(req[a])

\* A key on a refund stands for money given back.
RefundRowsCount ==
  \A o \in Orders, k \in KeyOrNone : rows[o]["refund"][k] > 0 => refunds[o] > 0

LockSteps == {"status.write", "station.write"}

\* A step that finishes a request, moves it on or accepts one without such a
\* write keeps the invariant.
LEMMA OtherRequests ==
  ASSUME TypeOK, WritesReadOpen, NEW a \in Actors, NEW r,
         req' = [req EXCEPT ![a] = r],
         r # NoReq /\ r.step \in LockSteps => ReopensRead(r)
  PROVE  WritesReadOpen'
<1> SUFFICES ASSUME NEW b \in Actors, req'[b] # NoReq, req'[b].step \in LockSteps
             PROVE  ReopensRead(req'[b])
  BY DEF WritesReadOpen, At, LockSteps, ReopensRead
<1>1. req \in [Actors -> Request \cup {NoReq}]
  BY DEF TypeOK
<1>2. CASE b = a
  BY <1>1, <1>2
<1>3. CASE b # a
  BY <1>1, <1>3 DEF WritesReadOpen, At, LockSteps
<1> QED BY <1>2, <1>3

LEMMA GotoOther ==
  ASSUME TypeOK, WritesReadOpen, NEW a \in Actors, req[a] # NoReq, NEW step,
         step \notin LockSteps, Goto(a, step)
  PROVE  WritesReadOpen'
<1>1. req[a] \in Request
  BY DEF TypeOK
<1>2. [req[a] EXCEPT !.step = step].step = step
  BY <1>1 DEF Request
<1>3. req' = [req EXCEPT ![a] = [req[a] EXCEPT !.step = step]]
  BY DEF Goto
<1> QED BY <1>2, <1>3, OtherRequests

LEMMA FinishOther ==
  ASSUME TypeOK, WritesReadOpen, NEW a \in Actors, Finish(a)
  PROVE  WritesReadOpen'
BY OtherRequests DEF Finish

\* The record of a handler that has just read a row.
LEMMA ReadingFields ==
  ASSUME NEW o, NEW step, NEW want
  PROVE  /\ Reading(o, step, want).step = step
         /\ Reading(o, step, want).seen = orders[o]
         /\ Reading(o, step, want).want = want
BY DEF Reading

\* The two reads that prepare such a write follow the transition table.
LEMMA StatusReadOpens ==
  ASSUME TypeOK, NEW a \in Actors, NEW o \in Orders, NEW next \in OrderStatus,
         StatusRead(a, o, next), WritesReadOpen
  PROVE  WritesReadOpen'
<1> DEFINE want == [orders[o] EXCEPT !.status = next,
                          !.stations = IF next \in Promotion THEN ServeStations(@) ELSE @]
           r == Reading(o, "status.write", want)
<1>1. orders[o] \in Row /\ req' = [req EXCEPT ![a] = r]
  BY DEF StatusRead, Accept, TypeOK
<1>2. want.status = next
  BY <1>1 DEF Row
<1>3. next \in OpenStatus => orders[o].status \in OpenStatus
  <2>1. /\ orders[o].status \in OrderStatus
        /\ orders[o].status # next /\ next \in Transitions[orders[o].status]
    BY <1>1 DEF StatusRead, AllowedTransition, Row
  <2>2. /\ Transitions["paid"] = {"partially_refunded", "refunded"}
        /\ Transitions["partially_refunded"] = {"partially_refunded", "refunded"}
        /\ Transitions["cancelled"] = {} /\ Transitions["refunded"] = {}
    BY DEF Transitions
  <2>3. Transitions[orders[o].status] \cap OpenStatus # {} => orders[o].status \in OpenStatus
    BY <2>1, <2>2 DEF OrderStatus, OpenStatus
  <2> QED BY <2>1, <2>3
<1> HIDE DEF want
<1>4. r.seen = orders[o] /\ r.want = want
  BY ReadingFields
<1> HIDE DEF r
<1>5. ReopensRead(r)
  BY <1>2, <1>3, <1>4 DEF ReopensRead
<1> QED BY <1>1, <1>5, OtherRequests

LEMMA StationReadOpens ==
  ASSUME TypeOK, NEW a \in Actors, NEW o \in Orders, NEW s, NEW next,
         StationRead(a, o, s, next), WritesReadOpen
  PROVE  WritesReadOpen'
<1> DEFINE after == [orders[o].stations EXCEPT ![s] = next]
           want  == [orders[o] EXCEPT !.stations = after,
                           !.status = AggregateStatus(orders[o].status, after)]
           r == Reading(o, "station.write", want)
<1>1. orders[o] \in Row /\ req' = [req EXCEPT ![a] = r]
  BY DEF StationRead, Accept, TypeOK
<1>2. want.status = AggregateStatus(orders[o].status, after)
  BY <1>1 DEF Row
<1>3. want.status \in OpenStatus => orders[o].status \in OpenStatus
  <2>1. orders[o].status \in OpenStatus \cup {"partially_refunded"}
    BY <1>1 DEF StationRead, Row, OrderStatus
  <2>2. orders[o].status = "partially_refunded" => want.status = "partially_refunded"
    BY <1>2 DEF AggregateStatus
  <2> HIDE DEF want
  <2>3. "partially_refunded" \notin OpenStatus
    BY DEF OpenStatus
  <2> QED BY <2>1, <2>2, <2>3
<1> HIDE DEF want
<1>4. r.seen = orders[o] /\ r.want = want
  BY ReadingFields
<1> HIDE DEF r
<1>5. ReopensRead(r)
  BY <1>3, <1>4 DEF ReopensRead
<1> QED BY <1>1, <1>5, OtherRequests

\* The other arrivals prepare no such write.
LEMMA AcceptOther ==
  ASSUME TypeOK, WritesReadOpen, NEW a \in Actors, NEW h, NEW r, Accept(a, h, r),
         r.step \notin LockSteps
  PROVE  WritesReadOpen'
BY OtherRequests DEF Accept

LEMMA ArriveOpens ==
  ASSUME TypeOK, WritesReadOpen, NEW a \in Actors, Arrive(a)
  PROVE  WritesReadOpen'
<1>1. ASSUME NEW t \in Place, NEW n \in 1..MaxAmount, NEW st \in SUBSET Stations \ {{}},
             Create(a, t, n, st)
      PROVE  WritesReadOpen'
  <2> DEFINE new   == AppendTarget(t) = {}
             Made(o, d)  == IF new THEN NewRow(t, n, d) ELSE WithRound(orders[o], n)
             Work(o, d) == [Made(o, d) EXCEPT !.stations = [s \in Stations |->
                               IF s \in st THEN "pending" ELSE NoWork]]
             step  == IF t = NoTable THEN "sync.read" ELSE "occupy"
  <2>0. \E o, d : Accept(a, "create", [Reading(o, step, Work(o, d)) EXCEPT !.table = t, !.seen = Made(o, d)])
    BY <1>1 DEF Create
  <2>1. PICK o, work, row :
          Accept(a, "create", [Reading(o, step, work) EXCEPT !.table = t, !.seen = row])
    <3> HIDE DEF Made, Work, step
    <3> QED BY <2>0
  <2> DEFINE r == [Reading(o, step, work) EXCEPT !.table = t, !.seen = row]
  <2>2. r.step \notin LockSteps
    BY DEF Reading, LockSteps
  <2> HIDE DEF r
  <2> QED BY <2>1, <2>2, AcceptOther DEF r
<1>2. ASSUME NEW o \in Orders, NEW adj \in Adjustments, FinancialsRead(a, o, adj)
      PROVE  WritesReadOpen'
  <2>1. PICK r : Accept(a, "financials", r) /\ r.step = "financials.write"
    BY <1>2 DEF FinancialsRead, Reading
  <2> QED BY <2>1, AcceptOther DEF LockSteps
<1>3. ASSUME NEW o \in Orders, NEW k \in KeyOrNone, NEW n \in Amounts,
             SaleCheck(a, o, k, n) \/ RefundCheck(a, o, k, n)
      PROVE  WritesReadOpen'
  <2>1. PICK h \in {"sale", "refund"}, step \in {"sale.rpc", "refund.rpc"} :
          Accept(a, h, PaymentRequest(o, step, k, n))
    <3>1. CASE SaleCheck(a, o, k, n)
      BY <3>1 DEF SaleCheck
    <3>2. CASE RefundCheck(a, o, k, n)
      BY <3>2 DEF RefundCheck
    <3> QED BY <1>3, <3>1, <3>2
  <2>2. PaymentRequest(o, step, k, n).step \notin LockSteps
    BY DEF PaymentRequest, Reading, LockSteps
  <2> QED BY <2>1, <2>2, AcceptOther
<1>4. ASSUME NEW o \in Orders, NEW k \in KeyOrNone, NEW note \in BOOLEAN,
             CancelRead(a, o, k, note)
      PROVE  WritesReadOpen'
  <2> DEFINE r == [Reading(o, "cancel.check", orders[o]) EXCEPT !.key = k, !.note = note]
  <2>1. Accept(a, "cancel", r)
    BY <1>4 DEF CancelRead
  <2>2. r.step \notin LockSteps
    BY DEF Reading, LockSteps
  <2> HIDE DEF r
  <2> QED BY <2>1, <2>2, AcceptOther
<1>5. ASSUME NEW o \in Orders, QrCancelRead(a, o) \/ ItemRead(a, o) \/ DeliveryRead(a, o)
      PROVE  WritesReadOpen'
  <2>1. PICK h, r : Accept(a, h, r) /\ r.step \in {"qr.check", "item.write", "delivery.write"}
    BY <1>5 DEF QrCancelRead, ItemRead, DeliveryRead, Reading
  <2> QED BY <2>1, AcceptOther DEF LockSteps
<1>6. ASSUME NEW s \in Tables, NEW t \in Tables, MoveRead(a, s, t)
      PROVE  WritesReadOpen'
  <2>1. PICK r : Accept(a, "move", r) /\ r.step = "move.look"
    BY <1>6 DEF MoveRead, Reading
  <2> QED BY <2>1, AcceptOther DEF LockSteps
<1>7. ASSUME NEW t \in Tables, NEW status \in {"empty", "reserved"}, TableRead(a, t, status)
      PROVE  WritesReadOpen'
  <2>1. PICK r : Accept(a, "table", r) /\ r.step \in TableSteps
    BY <1>7 DEF TableRead, OnTable, TableSteps
  <2> QED BY <2>1, AcceptOther DEF LockSteps, TableSteps
<1> QED BY <1>1, <1>2, <1>3, <1>4, <1>5, <1>6, <1>7, StatusReadOpens, StationReadOpens DEF Arrive

\* Nor does a handler that goes on.
LEMMA ProceedOpens ==
  ASSUME TypeOK, WritesReadOpen, NEW a \in Actors, Proceed(a)
  PROVE  WritesReadOpen'
<1>1. CASE MaintainRead(a)
  <2>1. PICK want : req' = [req EXCEPT ![a] = Reading(req[a].order, "sync.write", want)]
    BY <1>1 DEF MaintainRead
  <2>2. Reading(req[a].order, "sync.write", want).step \notin LockSteps
    BY ReadingFields DEF LockSteps
  <2> QED BY <2>1, <2>2, OtherRequests
<1>2. CASE ~MaintainRead(a)
  <2>1. req[a] # NoReq /\ (Finish(a) \/ \E step : step \notin LockSteps /\ Goto(a, step))
    <3>1. CASE \/ MaintainTable(a) \/ MaintainSkip(a) \/ LockMiss(a) \/ StatusTable(a)
               \/ PaymentRefused(a) \/ CancelCheck(a) \/ CancelTable(a)
               \/ QrCancelCheck(a) \/ QrCancelTable(a)
               \/ MoveLook(a) \/ MoveClaim(a) \/ MoveOrderFails(a) \/ MoveRelease(a)
               \/ TableCheck(a) \/ TableWrite(a) \/ Die(a)
      BY <3>1 DEF MaintainTable, MaintainSkip, LockMiss, StatusTable, PaymentRefused,
                  CancelCheck, CancelTable, QrCancelCheck, QrCancelTable, MoveLook, MoveClaim,
                  MoveOrderFails, MoveRelease, TableCheck, TableWrite, Die, At, LockSteps
    <3>2. CASE \/ MaintainWrite(a) \/ StatusWrite(a) \/ StationWrite(a)
               \/ FinancialsWrite(a) \/ CancelWrite(a) \/ ItemWrite(a) \/ MoveOrder(a)
               \/ QrCancelWrite(a) \/ DeliveryWrite(a)
      BY <3>2 DEF MaintainWrite, StatusWrite, StationWrite, FinancialsWrite, CancelWrite,
                  ItemWrite, MoveOrder, QrCancelWrite, DeliveryWrite, At, LockSteps
    <3>3. CASE SaleApply(a) \/ RefundApply(a) \/ PaymentReplay(a) \/ CancelNote(a)
      BY <3>3 DEF SaleApply, RefundApply, PaymentReplay, CancelNote, At
    <3> QED BY <1>2, <3>1, <3>2, <3>3, Zenon DEF Proceed
  <2> QED BY <2>1, FinishOther, GotoOther
<1> QED BY <1>1, <1>2

LEMMA OpensStep ==
  ASSUME TypeOK, WritesReadOpen, [Next]_vars
  PROVE  WritesReadOpen'
<1>1. CASE UNCHANGED vars
  BY <1>1 DEF vars, WritesReadOpen, At, ReopensRead
<1>2. ASSUME NEW o \in Orders, CourierAssign(o)
      PROVE  WritesReadOpen'
  BY <1>2 DEF CourierAssign, WritesReadOpen, At, ReopensRead
<1> QED BY <1>1, <1>2, ArriveOpens, ProceedOpens DEF Next

\* A refund's key comes with its money.
LEMMA RefundRowsStep ==
  ASSUME TypeOK, RefundRowsCount, [Next]_vars
  PROVE  RefundRowsCount'
<1>0. /\ refunds \in [Orders -> Nat]
      /\ rows \in [Orders -> [RowKind -> [KeyOrNone -> Nat]]]
  BY DEF TypeOK
<1>1. CASE UNCHANGED ledger
  BY <1>1 DEF ledger, RefundRowsCount
<1>2. ASSUME NEW a \in Actors, NEW kind \in {"sale", "cancel_note"}, NEW o \in Orders,
             NEW k \in KeyOrNone, UNCHANGED refunds,
             rows' = [rows EXCEPT ![o][kind][k] = @ + 1] \/ UNCHANGED rows
      PROVE  RefundRowsCount'
  <2>1. \A p \in Orders : rows'[p]["refund"] = rows[p]["refund"]
    BY <1>0, <1>2 DEF RowKind
  <2> QED BY <1>2, <2>1 DEF RefundRowsCount
<1>3. ASSUME NEW a \in Actors, SaleApply(a)
      PROVE  RefundRowsCount'
  <2>1. req[a].order \in Orders /\ req[a].key \in KeyOrNone
    BY <1>3, RequestFields DEF SaleApply, At
  <2>2. UNCHANGED refunds /\ InsertRow(req[a].order, "sale", req[a].key)
    BY <1>3 DEF SaleApply
  <2> QED BY <1>2, <2>1, <2>2 DEF InsertRow
<1>4. ASSUME NEW a \in Actors, CancelNote(a)
      PROVE  RefundRowsCount'
  <2>1. req[a].order \in Orders /\ req[a].key \in KeyOrNone
    BY <1>4, RequestFields DEF CancelNote, At
  <2>2. /\ UNCHANGED refunds
        /\ \/ rows' = [rows EXCEPT ![req[a].order]["cancel_note"][req[a].key] = @ + 1]
           \/ UNCHANGED rows
    BY <1>4 DEF CancelNote
  <2> QED BY <1>2, <2>1, <2>2
<1>5. ASSUME NEW a \in Actors, RefundApply(a)
      PROVE  RefundRowsCount'
  <2>1. PICK o \in Orders, n \in Nat :
          /\ o = req[a].order /\ n \in 1..sales[o]
          /\ refunds' = [refunds EXCEPT ![o] = @ + n]
    BY <1>5, RefundAmount
  <2>2. rows' = [rows EXCEPT ![o]["refund"][req[a].key] = @ + 1]
    BY <1>5, <2>1 DEF RefundApply, InsertRow
  <2>3. refunds'[o] > 0
    BY <1>0, <2>1
  <2>4. \A p \in Orders : p # o => rows'[p] = rows[p] /\ refunds'[p] = refunds[p]
    BY <1>0, <2>1, <2>2
  <2> QED BY <2>3, <2>4 DEF RefundRowsCount
<1> QED BY <1>1, <1>3, <1>4, <1>5, LedgerWriters

\* The routine opens a bill only where nothing was refunded and money is due.
LEMMA SettledOpen ==
  ASSUME NEW due \in Nat, NEW sold \in Nat, NEW refunded \in Nat, NEW current,
         current \in {"paid", "partially_refunded", "refunded"},
         SettledStatus(due, sold, refunded, current) \in OpenStatus
  PROVE  refunded = 0 /\ sold < due
BY DEF SettledStatus, OpenStatus

\* What a payment does to the status of its order.
LEMMA SettleStatus ==
  ASSUME TypeOK, NEW o \in Orders, NEW sold, NEW refunded, Settle(o, sold, refunded)
  PROVE  /\ orders'[o].status = SettledStatus(orders[o].final, sold, refunded, orders[o].status)
         /\ orders'[o].table = orders[o].table
         /\ \A p \in Orders : p # o => orders'[p] = orders[p]
<1>1. orders' = [orders EXCEPT ![o].status = SettledStatus(orders[o].final, sold, refunded,
                                                           orders[o].status),
                               ![o].version = @ + 1]
  BY DEF Settle
<1> QED BY <1>1 DEF TypeOK, Row

\* A payment reopens only a bill that was closed with money due.
LEMMA PaymentReopens ==
  ASSUME TypeOK, RefundsCovered, RefundRowsCount, NEW a \in Actors,
         SaleApply(a) \/ RefundApply(a) \/ PaymentReplay(a),
         NEW o \in Orders, orders[o].status \notin OpenStatus \cup {"absent"},
         orders'[o].status \in OpenStatus
  PROVE  ClosedShort(o)
<1> DEFINE q == req[a].order
           s == orders[q].status
<1>1. q \in Orders /\ req[a] # NoReq /\ req[a].key \in KeyOrNone /\ orders[q] \in Row
  BY RequestFields DEF SaleApply, RefundApply, PaymentReplay, At
<1>2. orders[q].final \in Nat /\ sales[q] \in Nat /\ refunds[q] \in Nat
  BY <1>1 DEF Row, TypeOK
<1>3. CASE SaleApply(a)
  <2>1. PICK n \in Nat : Settle(q, sales[q] + n, refunds[q])
    BY <1>3, SaleAmount DEF SaleApply
  <2>2. q = o /\ SettledStatus(orders[o].final, sales[o] + n, refunds[o], s) \in OpenStatus
    BY <1>1, <2>1, SettleStatus
  <2>3. s \in {"paid", "partially_refunded"} /\ At(a, "sale.rpc")
    BY <1>1, <1>3, <2>2 DEF SaleApply, TakesSales, Row, OrderStatus
  <2>4. refunds[o] = 0 /\ sales[o] + n < orders[o].final
    <3>1. sales[o] + n \in Nat /\ refunds[o] \in Nat /\ orders[o].final \in Nat
      BY <1>2, <2>2
    <3>2. s \in {"paid", "partially_refunded", "refunded"}
      BY <2>3
    <3> HIDE DEF s
    <3> QED BY <2>2, <3>1, <3>2, SettledOpen
  <2> QED BY <1>2, <2>2, <2>3, <2>4 DEF ClosedShort
<1>4. CASE RefundApply(a)
  <2>1. PICK n \in Nat : n > 0 /\ Settle(q, sales[q], refunds[q] + n)
    <3>1. PICK n \in Nat : n \in 1..sales[q] /\ n = Effective(req[a].amount, Refundable(q))
      BY <1>4, RefundAmount
    <3> QED BY <1>4, <3>1 DEF RefundApply
  <2>2. q = o /\ SettledStatus(orders[o].final, sales[o], refunds[o] + n, s) \in OpenStatus
    BY <1>1, <2>1, SettleStatus
  <2>3. s \in {"paid", "partially_refunded", "refunded"}
    BY <1>1, <1>4, <2>2 DEF RefundApply, TakesRefunds, Row, OrderStatus
  <2> QED BY <1>2, <2>1, <2>2, <2>3, SettledOpen
<1>5. CASE PaymentReplay(a)
  <2>1. Settle(q, sales[q], refunds[q])
    BY <1>5 DEF PaymentReplay
  <2>2. q = o /\ SettledStatus(orders[o].final, sales[o], refunds[o], s) \in OpenStatus
    BY <1>1, <2>1, SettleStatus
  <2>3. s \in {"paid", "partially_refunded", "refunded"}
    BY <1>1, <1>5, <2>2 DEF PaymentReplay, TakesSales, TakesRefunds, Row, OrderStatus
  <2>4. refunds[o] = 0 /\ sales[o] < orders[o].final
    BY <1>2, <2>2, <2>3, SettledOpen
  <2>5. ~(At(a, "refund.rpc") /\ KeyKnown(q, "refund", req[a].key))
    <3>1. rows[o]["refund"][req[a].key] \in Nat
      BY <1>1, <2>2 DEF TypeOK, RowKind
    <3>2. ~(rows[o]["refund"][req[a].key] > 0)
      BY <1>1, <1>2, <2>2, <2>4 DEF RefundRowsCount
    <3>3. RowsUnder(o, "refund", req[a].key) = rows[o]["refund"][req[a].key]
      BY <3>1 DEF RowsUnder
    <3> QED BY <2>2, <3>2, <3>3 DEF KeyKnown
  <2>6. At(a, "sale.rpc") /\ TakesSales(q)
    BY <1>5, <2>5 DEF PaymentReplay
  <2> QED BY <2>2, <2>3, <2>4, <2>6 DEF ClosedShort, TakesSales
<1> QED BY <1>3, <1>4, <1>5

\* A closed order comes back through an unlocked write, through a write under
\* the lock that read it open, or through a payment of a bill closed short.
ReadOpenUnmoved(o) ==
  \E a \in Actors : /\ At(a, "status.write") \/ At(a, "station.write")
                    /\ req[a].order = o /\ req[a].seen.status \in OpenStatus
                    /\ req'[a] # req[a] /\ Unmoved(a)

LEMMA LockedReopens ==
  ASSUME TypeOK, WritesReadOpen, NEW a \in Actors, StatusWrite(a) \/ StationWrite(a),
         NEW o \in Orders, orders[o].status \notin OpenStatus,
         orders'[o].status \in OpenStatus
  PROVE  ReadOpenUnmoved(o)
<1>1. /\ At(a, "status.write") \/ At(a, "station.write")
      /\ req[a] \in Request /\ req[a] # NoReq /\ Unmoved(a)
      /\ req \in [Actors -> Request \cup {NoReq}]
  BY RequestFields DEF StatusWrite, StationWrite, At, TypeOK
<1>2. req[a].order = o /\ req[a].want.status \in OpenStatus
  BY <1>1, RequestFields DEF StatusWrite, StationWrite, TypeOK, Row
<1>3. req[a].seen.status \in OpenStatus
  BY <1>1, <1>2 DEF WritesReadOpen, ReopensRead
<1>4. req'[a] # req[a]
  <2>1. CASE Finish(a)
    BY <1>1, <2>1 DEF Finish
  <2>2. CASE At(a, "status.write") /\ Goto(a, "status.table")
    <3>1. req'[a] = [req[a] EXCEPT !.step = "status.table"]
      BY <1>1, <2>2 DEF Goto
    <3>2. req'[a].step = "status.table"
      BY <1>1, <3>1 DEF Request
    <3> QED BY <2>2, <3>2 DEF At
  <2> QED BY <2>1, <2>2 DEF StatusWrite, StationWrite
<1> QED BY <1>1, <1>2, <1>3, <1>4 DEF ReadOpenUnmoved

LEMMA ClosedComesBack ==
  ASSUME TypeOK, RefundsCovered, RefundRowsCount, WritesReadOpen, [Next]_vars,
         NEW o \in Orders, orders[o].status \notin OpenStatus \cup {"absent"},
         orders'[o].status \in OpenStatus
  PROVE  UnlockedWrite(o) \/ ReadOpenUnmoved(o) \/ ClosedShort(o)
<1>0. orders \in [Orders -> Row] /\ orders' # orders
  BY DEF TypeOK
<1>1. ASSUME NEW a \in Actors, Arrive(a)
      PROVE  FALSE
  <2>1. PICK t \in Place, n \in 1..MaxAmount, st \in SUBSET Stations \ {{}} :
          Create(a, t, n, st)
    BY <1>0, <1>1 DEF Arrive, StatusRead, StationRead, FinancialsRead, SaleCheck, RefundCheck,
              CancelRead, QrCancelRead, ItemRead, DeliveryRead, MoveRead, TableRead
  <2>2. PICK q, row : /\ orders[q].status \in OpenStatus \cup {"absent"}
                      /\ orders' = [orders EXCEPT ![q] = row]
    BY <2>1 DEF Create, AppendTarget, OpenAt, NextOrder
  <2> QED BY <1>0, <2>2
<1>2. ASSUME NEW a \in Actors, Proceed(a)
      PROVE  UnlockedWrite(o) \/ ReadOpenUnmoved(o) \/ ClosedShort(o)
  <2>1. CASE \/ MaintainTable(a) \/ MaintainSkip(a) \/ LockMiss(a) \/ StatusTable(a)
             \/ PaymentRefused(a) \/ CancelCheck(a) \/ CancelTable(a)
             \/ QrCancelCheck(a) \/ QrCancelTable(a)
             \/ MoveLook(a) \/ MoveClaim(a) \/ MoveOrderFails(a) \/ MoveRelease(a)
             \/ TableCheck(a) \/ TableWrite(a) \/ Die(a)
    BY <1>0, <2>1 DEF MaintainTable, MaintainSkip, LockMiss, StatusTable, PaymentRefused,
                CancelCheck, CancelTable, QrCancelCheck, QrCancelTable, MoveLook, MoveClaim,
                MoveOrderFails, MoveRelease, TableCheck, TableWrite, Die
  <2>2. CASE CancelNote(a) \/ MaintainRead(a)
    BY <1>0, <2>2 DEF CancelNote, MaintainRead
  <2>3. CASE MaintainWrite(a) \/ DeliveryWrite(a)
    <3>1. req[a].order = o /\ (At(a, "sync.write") \/ At(a, "delivery.write"))
      BY <1>0, <2>3 DEF MaintainWrite, DeliveryWrite
    <3>2. req'[a] = NoReq
      BY <2>3 DEF MaintainWrite, DeliveryWrite, Finish, TypeOK
    <3> QED BY <3>1, <3>2 DEF UnlockedWrite
  <2>4. CASE StatusWrite(a) \/ StationWrite(a)
    BY <2>4, LockedReopens
  <2>5. CASE FinancialsWrite(a) \/ ItemWrite(a) \/ MoveOrder(a)
    <3>1. orders'[o].status = orders[o].status
      BY <1>0, <2>5 DEF FinancialsWrite, ItemWrite, MoveOrder, Row
    <3> QED BY <3>1
  <2>6. CASE CancelWrite(a) \/ QrCancelWrite(a)
    <3>1. orders'[o].status \in {orders[o].status, "cancelled"}
      BY <1>0, <2>6 DEF CancelWrite, QrCancelWrite, Row
    <3> QED BY <3>1 DEF OpenStatus
  <2>7. CASE SaleApply(a) \/ RefundApply(a) \/ PaymentReplay(a)
    BY <2>7, PaymentReopens
  <2> QED BY <1>2, <2>1, <2>2, <2>3, <2>4, <2>5, <2>6, <2>7, Zenon DEF Proceed
<1>3. ASSUME NEW q \in Orders, CourierAssign(q)
      PROVE  FALSE
  <2>1. orders'[o].status = orders[o].status
    BY <1>0, <1>3 DEF CourierAssign, Row
  <2> QED BY <2>1
<1> QED BY <1>0, <1>1, <1>2, <1>3 DEF Next, vars

\* Everything the two theorems below rest on.
DeskInv == /\ TypeOK /\ VersionFreezesLedger /\ RefundsCovered
           /\ RefundRowsCount /\ WritesReadOpen

LEMMA DeskInvInit == Init => DeskInv
<1> SUFFICES ASSUME Init
             PROVE  DeskInv
  OBVIOUS
<1>1. RefundsCovered /\ RefundRowsCount
  BY DEF Init, RefundsCovered, RefundRowsCount, RowKind
<1>2. WritesReadOpen
  BY DEF Init, WritesReadOpen, At
<1> QED BY <1>1, <1>2, TypeInit, VersionInit DEF DeskInv

LEMMA DeskInvStep ==
  ASSUME DeskInv, [Next]_vars
  PROVE  DeskInv'
BY TypeStep, VersionStep, RefundsStep, RefundRowsStep, OpensStep DEF DeskInv

\* A settled bill that comes back was written by an unlocked write, or by a
\* handler that read it open with the ledger it still has.
LEMMA SettledComesBack ==
  ASSUME DeskInv, [Next]_vars, NEW o \in Orders, SettledOrRefunded(o),
         orders'[o].status \in OpenStatus
  PROVE  UnlockedWrite(o) \/ ReadReopened(o)
<1>1. orders[o].status \notin OpenStatus \cup {"absent"}
  BY DEF SettledOrRefunded, OpenStatus
<1>2. ~ClosedShort(o)
  <2>1. /\ sales[o] \in Nat /\ refunds[o] \in Nat /\ orders[o].final \in Nat
    BY DEF DeskInv, TypeOK, Row
  <2> QED BY <2>1 DEF SettledOrRefunded, ClosedShort, Net
<1>3. CASE ReadOpenUnmoved(o)
  <2>1. PICK a \in Actors : /\ At(a, "status.write") \/ At(a, "station.write")
                            /\ req[a].order = o /\ req[a].seen.status \in OpenStatus
                            /\ req'[a] # req[a] /\ Unmoved(a)
    BY <1>3 DEF ReadOpenUnmoved
  <2>2. req[a] # NoReq /\ ReadWell(req[a])
    BY <2>1 DEF DeskInv, VersionFreezesLedger, OnOrder, At, TableSteps
  <2>3. req[a].sold = sales[o] /\ req[a].refunded = refunds[o]
    BY <2>1, <2>2 DEF ReadWell, Unmoved
  <2> QED BY <2>1, <2>2, <2>3 DEF ReadReopened
<1> QED BY <1>1, <1>2, <1>3, ClosedComesBack DEF DeskInv

\* A bill that was settled or paid back returns among the open ones only through
\* the two unlocked writes of a status, or through a handler that read it open
\* with the money already taken.
THEOREM SettledStaysClosed == Spec => ReopenedOnlyUnlocked
<1>1. DeskInv /\ [Next]_vars =>
        [\A o \in Orders : SettledOrRefunded(o) /\ orders'[o].status \in OpenStatus
                             => UnlockedWrite(o) \/ ReadReopened(o)]_vars
  BY SettledComesBack
<1> QED BY <1>1, DeskInvInit, DeskInvStep, PTL DEF Spec, ReopenedOnlyUnlocked

\* A table with open orders has a newest one.
LEMMA NewestOpen ==
  ASSUME NEW t \in Tables, OpenAt(t) # {}
  PROVE  AppendTarget(t) # {}
<1> DEFINE S == OpenAt(t)
           T == {MaxOrders - x : x \in S}
           R == OpToRel(<, Nat)
<1>0. MaxOrders \in Nat /\ S \subseteq 1..MaxOrders /\ S # {}
  BY BoundsAssumption DEF OpenAt, Orders
<1> HIDE DEF S
<1>1. T \in SUBSET Nat /\ T # {}
  <2>1. \A x \in S : MaxOrders - x \in Nat
    BY <1>0
  <2>2. PICK x \in S : TRUE
    BY <1>0
  <2>3. MaxOrders - x \in T
    BY <2>2
  <2> QED BY <2>1, <2>3
<1>2. PICK u \in T : \A v \in T : <<v, u>> \notin R
  BY <1>1, NatLessThanWellFounded, WFMin, Zenon
<1>3. \A v \in T : ~(v < u)
  BY <1>1, <1>2 DEF OpToRel
<1>4. PICK x \in S : u = MaxOrders - x
  OBVIOUS
<1>5. \A y \in S : y <= x
  <2> TAKE y \in S
  <2>1. ~(MaxOrders - y < MaxOrders - x)
    BY <1>3, <1>4
  <2>2. x \in Int /\ y \in Int
    BY <1>0
  <2> QED BY <1>0, <2>1, <2>2
<1>6. t # NoTable
  BY NamesAssumption
<1> QED BY <1>4, <1>5, <1>6 DEF AppendTarget, S

\* An order comes into being on a table without open orders only.
LEMMA OnlyCreateMakes ==
  ASSUME DeskInv, [Next]_vars, NEW o \in Orders,
         orders[o].status = "absent", orders'[o].status # "absent"
  PROVE  \E t \in Place : /\ AppendTarget(t) = {} /\ orders'[o].table = t
                          /\ \A p \in Orders : p # o => orders'[p] = orders[p]
<1>0. orders \in [Orders -> Row] /\ orders' # orders
  BY DEF DeskInv, TypeOK
<1>1. ASSUME NEW a \in Actors, Arrive(a)
      PROVE  \E t \in Place : /\ AppendTarget(t) = {} /\ orders'[o].table = t
                              /\ \A p \in Orders : p # o => orders'[p] = orders[p]
  <2>1. PICK t \in Place, n \in 1..MaxAmount, st \in SUBSET Stations \ {{}} :
          Create(a, t, n, st)
    BY <1>0, <1>1 DEF Arrive, StatusRead, StationRead, FinancialsRead, SaleCheck, RefundCheck,
              CancelRead, QrCancelRead, ItemRead, DeliveryRead, MoveRead, TableRead
  <2>2. PICK q \in IF AppendTarget(t) = {} THEN NextOrder ELSE AppendTarget(t), d \in NewDelivery(t) :
          orders' = [orders EXCEPT ![q] = IF AppendTarget(t) = {} THEN NewRow(t, n, d)
                                          ELSE WithRound(orders[q], n)]
    BY <2>1 DEF Create
  <2>3. q = o
    BY <1>0, <2>2
  <2>4. AppendTarget(t) = {}
    BY <2>2, <2>3 DEF AppendTarget, OpenAt, OpenStatus
  <2>5. orders'[o] = NewRow(t, n, d)
    BY <1>0, <2>2, <2>3, <2>4
  <2>6. NewRow(t, n, d).table = t
    BY AbsentRowType DEF NewRow, Row
  <2> QED BY <1>0, <2>2, <2>3, <2>4, <2>5, <2>6
<1>2. ASSUME NEW a \in Actors, Proceed(a)
      PROVE  FALSE
  <2>1. CASE \/ MaintainTable(a) \/ MaintainSkip(a) \/ LockMiss(a) \/ StatusTable(a)
             \/ PaymentRefused(a) \/ CancelCheck(a) \/ CancelTable(a)
             \/ QrCancelCheck(a) \/ QrCancelTable(a)
             \/ MoveLook(a) \/ MoveClaim(a) \/ MoveOrderFails(a) \/ MoveRelease(a)
             \/ TableCheck(a) \/ TableWrite(a) \/ Die(a)
    BY <1>0, <2>1 DEF MaintainTable, MaintainSkip, LockMiss, StatusTable, PaymentRefused,
                CancelCheck, CancelTable, QrCancelCheck, QrCancelTable, MoveLook, MoveClaim,
                MoveOrderFails, MoveRelease, TableCheck, TableWrite, Die
  <2>2. CASE CancelNote(a) \/ MaintainRead(a)
    BY <1>0, <2>2 DEF CancelNote, MaintainRead
  <2>3. ASSUME OnOrder(req[a])
        PROVE  req[a].order # o
    BY <2>3 DEF DeskInv, VersionFreezesLedger, ReadWell
  <2>4. CASE \/ MaintainWrite(a) \/ StatusWrite(a) \/ StationWrite(a)
             \/ FinancialsWrite(a) \/ CancelWrite(a) \/ ItemWrite(a) \/ MoveOrder(a)
             \/ QrCancelWrite(a) \/ DeliveryWrite(a)
    <3>1. OnOrder(req[a])
      BY <2>4 DEF MaintainWrite, StatusWrite, StationWrite, FinancialsWrite, CancelWrite,
                  ItemWrite, MoveOrder, QrCancelWrite, DeliveryWrite, OnOrder, At, TableSteps
    <3>2. orders'[o] = orders[o]
      BY <1>0, <2>3, <2>4, <3>1 DEF MaintainWrite, StatusWrite, StationWrite, FinancialsWrite,
                  CancelWrite, ItemWrite, MoveOrder, QrCancelWrite, DeliveryWrite
    <3> QED BY <3>2
  <2>5. CASE SaleApply(a) \/ RefundApply(a) \/ PaymentReplay(a)
    <3>1. OnOrder(req[a])
      BY <2>5 DEF SaleApply, RefundApply, PaymentReplay, OnOrder, At, TableSteps
    <3>2. orders'[o] = orders[o]
      BY <1>0, <2>3, <2>5, <3>1 DEF SaleApply, RefundApply, PaymentReplay, Settle
    <3> QED BY <3>2
  <2> QED BY <1>2, <2>1, <2>2, <2>4, <2>5, Zenon DEF Proceed
<1>3. ASSUME NEW q \in Orders, CourierAssign(q)
      PROVE  FALSE
  <2>1. orders'[o].status = orders[o].status
    BY <1>0, <1>3 DEF CourierAssign, Row
  <2> QED BY <2>1
<1> QED BY <1>0, <1>1, <1>2, <1>3 DEF Next, vars

\* Two orders are open at a table after a step and were not before: one of
\* them came back or was moved there.
LEMMA SplitStep ==
  ASSUME DeskInv, [Next]_vars, NEW o \in Orders, NEW p \in Orders, NEW t \in Tables,
         o # p, {o, p} \subseteq OpenAt(t)', ~({o, p} \subseteq OpenAt(t))
  PROVE  \E x \in {o, p} : CameBack(x) \/ Moved(x, t)
<1>1. \A x \in {o, p} : /\ x \in Orders /\ orders'[x].table = t
                        /\ orders'[x].status \in OpenStatus
  BY DEF OpenAt
<1>2. PICK x \in {o, p} : x \notin OpenAt(t)
  OBVIOUS
<1>3. CASE orders[x].status # "absent" /\ orders[x].table # t
  BY <1>3 DEF Moved
<1>4. CASE orders[x].status # "absent" /\ orders[x].table = t
  <2>1. orders[x].status \notin OpenStatus \cup {"absent"}
    BY <1>1, <1>2, <1>4 DEF OpenAt
  <2>2. UnlockedWrite(x) \/ ReadOpenUnmoved(x) \/ ClosedShort(x)
    BY <1>1, <2>1, ClosedComesBack DEF DeskInv
  <2>3. ReadOpenUnmoved(x) => ReadOpen(x)
    BY DEF ReadOpenUnmoved, ReadOpen
  <2> QED BY <2>1, <2>2, <2>3 DEF CameBack
<1>5. CASE orders[x].status = "absent"
  <2>1. orders'[x].status # "absent"
    BY <1>1 DEF OpenStatus
  <2>2. PICK u \in Place : /\ AppendTarget(u) = {} /\ orders'[x].table = u
                           /\ \A q \in Orders : q # x => orders'[q] = orders[q]
    BY <1>1, <1>5, <2>1, OnlyCreateMakes
  <2>3. u = t /\ OpenAt(t) = {}
    BY <1>1, <2>2, NewestOpen
  <2>4. PICK y \in {o, p} : y # x
    OBVIOUS
  <2>5. orders'[y] = orders[y]
    BY <1>1, <2>2, <2>4
  <2>6. y \in OpenAt(t)
    BY <1>1, <2>5 DEF OpenAt
  <2> QED BY <2>3, <2>6
<1> QED BY <1>3, <1>4, <1>5

\* Rounds ordered at one table at once land on one bill: a table gets a second
\* open order only when a closed one comes back or one is moved there.
THEOREM OneBillUnlessOneReturns == Spec => SplitOnlyByReturn
<1>1. DeskInv /\ [Next]_vars =>
        [\A o, p \in Orders : \A t \in Tables :
           o # p /\ {o, p} \subseteq OpenAt(t)' /\ ~({o, p} \subseteq OpenAt(t))
             => \E x \in {o, p} : CameBack(x) \/ Moved(x, t)]_vars
  BY SplitStep
<1> QED BY <1>1, DeskInvInit, DeskInvStep, PTL DEF Spec, SplitOnlyByReturn

-----------------------------------------------------------------------------
(* The status and the ledger, where only the payment routine, creations,    *)
(* cancellations, moves and table flags write.                             *)

LedgerDesk   == {"create", "sale", "refund", "cancel", "qr_cancel", "move", "table"}
WritingSteps == {"sync.write", "status.write", "station.write", "financials.write",
                 "item.write", "delivery.write"}
NoWriter     == \A a \in Actors : req[a] # NoReq => req[a].step \notin WritingSteps

\* A request that is replaced keeps away from the steps of the other handlers.
LEMMA NoWriterKept ==
  ASSUME TypeOK, NoWriter, NEW a \in Actors, NEW r, req' = [req EXCEPT ![a] = r],
         r # NoReq => r.step \notin WritingSteps
  PROVE  NoWriter'
BY DEF TypeOK, NoWriter

LEMMA GotoNoWriter ==
  ASSUME TypeOK, NoWriter, NEW a \in Actors, req[a] # NoReq, NEW step,
         step \notin WritingSteps, Goto(a, step)
  PROVE  NoWriter'
<1>1. req[a] \in Request
  BY DEF TypeOK
<1>2. [req[a] EXCEPT !.step = step].step = step
  BY <1>1 DEF Request
<1>3. req' = [req EXCEPT ![a] = [req[a] EXCEPT !.step = step]]
  BY DEF Goto
<1> QED BY <1>2, <1>3, NoWriterKept

LEMMA AcceptNoWriter ==
  ASSUME TypeOK, NoWriter, NEW a \in Actors, NEW h, NEW r, Accept(a, h, r),
         r.step \notin WritingSteps
  PROVE  NoWriter'
BY NoWriterKept DEF Accept

\* Requests of the enabled handlers keep away from them.
LEMMA ArriveNoWriter ==
  ASSUME TypeOK, NoWriter, Handlers \subseteq LedgerDesk, NEW a \in Actors, Arrive(a)
  PROVE  NoWriter'
<1>1. ASSUME NEW t \in Place, NEW n \in 1..MaxAmount, NEW st \in SUBSET Stations \ {{}},
             Create(a, t, n, st)
      PROVE  NoWriter'
  <2> DEFINE Made(o, d) == IF AppendTarget(t) = {} THEN NewRow(t, n, d)
                           ELSE WithRound(orders[o], n)
             Work(o, d) == [Made(o, d) EXCEPT !.stations = [s \in Stations |->
                               IF s \in st THEN "pending" ELSE NoWork]]
             step == IF t = NoTable THEN "sync.read" ELSE "occupy"
  <2>1. \E o, d : Accept(a, "create", [Reading(o, step, Work(o, d))
                                         EXCEPT !.table = t, !.seen = Made(o, d)])
    BY <1>1 DEF Create
  <2>2. PICK o, work, row :
          Accept(a, "create", [Reading(o, step, work) EXCEPT !.table = t, !.seen = row])
    <3> HIDE DEF Made, Work, step
    <3> QED BY <2>1
  <2> DEFINE r == [Reading(o, step, work) EXCEPT !.table = t, !.seen = row]
  <2>3. r.step \notin WritingSteps
    BY DEF Reading, WritingSteps
  <2> HIDE DEF r
  <2> QED BY <2>2, <2>3, AcceptNoWriter DEF r
<1>2. ASSUME NEW o \in Orders, NEW k \in KeyOrNone, NEW n \in Amounts,
             SaleCheck(a, o, k, n) \/ RefundCheck(a, o, k, n)
      PROVE  NoWriter'
  <2>1. PICK h \in {"sale", "refund"}, step \in {"sale.rpc", "refund.rpc"} :
          Accept(a, h, PaymentRequest(o, step, k, n))
    <3>1. CASE SaleCheck(a, o, k, n)
      BY <3>1 DEF SaleCheck
    <3>2. CASE RefundCheck(a, o, k, n)
      BY <3>2 DEF RefundCheck
    <3> QED BY <1>2, <3>1, <3>2
  <2>2. PaymentRequest(o, step, k, n).step \notin WritingSteps
    BY DEF PaymentRequest, Reading, WritingSteps
  <2> QED BY <2>1, <2>2, AcceptNoWriter
<1>3. ASSUME NEW o \in Orders, NEW k \in KeyOrNone, NEW note \in BOOLEAN,
             CancelRead(a, o, k, note)
      PROVE  NoWriter'
  <2> DEFINE r == [Reading(o, "cancel.check", orders[o]) EXCEPT !.key = k, !.note = note]
  <2>1. Accept(a, "cancel", r)
    BY <1>3 DEF CancelRead
  <2>2. r.step \notin WritingSteps
    BY DEF Reading, WritingSteps
  <2> HIDE DEF r
  <2> QED BY <2>1, <2>2, AcceptNoWriter
<1>4. ASSUME NEW o \in Orders, QrCancelRead(a, o)
      PROVE  NoWriter'
  <2>1. PICK r : Accept(a, "qr_cancel", r) /\ r.step = "qr.check"
    BY <1>4 DEF QrCancelRead, Reading
  <2> QED BY <2>1, AcceptNoWriter DEF WritingSteps
<1>5. ASSUME NEW s \in Tables, NEW t \in Tables, MoveRead(a, s, t)
      PROVE  NoWriter'
  <2>1. PICK r : Accept(a, "move", r) /\ r.step = "move.look"
    BY <1>5 DEF MoveRead, Reading
  <2> QED BY <2>1, AcceptNoWriter DEF WritingSteps
<1>6. ASSUME NEW t \in Tables, NEW status \in {"empty", "reserved"}, TableRead(a, t, status)
      PROVE  NoWriter'
  <2>1. PICK r : Accept(a, "table", r) /\ r.step \in TableSteps
    BY <1>6 DEF TableRead, OnTable, TableSteps
  <2> QED BY <2>1, AcceptNoWriter DEF WritingSteps, TableSteps
<1>7. \A o, next, s, adj : /\ ~StatusRead(a, o, next) /\ ~StationRead(a, o, s, next)
                           /\ ~FinancialsRead(a, o, adj) /\ ~ItemRead(a, o) /\ ~DeliveryRead(a, o)
  BY DEF StatusRead, StationRead, FinancialsRead, ItemRead, DeliveryRead, Accept, LedgerDesk
<1> QED BY <1>1, <1>2, <1>3, <1>4, <1>5, <1>6, <1>7 DEF Arrive

\* Handlers that go on do too.
LEMMA ProceedNoWriter ==
  ASSUME TypeOK, NoWriter, Handlers \subseteq LedgerDesk, NEW a \in Actors, Proceed(a)
  PROVE  NoWriter'
<1>1. /\ ~MaintainTable(a) /\ ~MaintainRead(a) /\ ~MaintainSkip(a) /\ ~MaintainWrite(a)
      /\ ~StatusWrite(a) /\ ~StationWrite(a) /\ ~FinancialsWrite(a)
      /\ ~ItemWrite(a) /\ ~DeliveryWrite(a)
  BY DEF MaintainTable, MaintainRead, MaintainSkip, MaintainWrite, StatusWrite, StationWrite,
         FinancialsWrite, ItemWrite, DeliveryWrite, At, NoWriter, WritingSteps, LedgerDesk
<1>2. req[a] # NoReq /\ (Finish(a) \/ \E step : step \notin WritingSteps /\ Goto(a, step))
  <2>1. CASE \/ LockMiss(a) \/ StatusTable(a) \/ PaymentRefused(a) \/ CancelCheck(a)
             \/ CancelTable(a) \/ QrCancelCheck(a) \/ QrCancelTable(a)
             \/ MoveLook(a) \/ MoveClaim(a) \/ MoveOrderFails(a) \/ MoveRelease(a)
             \/ TableCheck(a) \/ TableWrite(a) \/ Die(a)
    BY <2>1 DEF LockMiss, StatusTable, PaymentRefused, CancelCheck, CancelTable,
                QrCancelCheck, QrCancelTable, MoveLook, MoveClaim, MoveOrderFails,
                MoveRelease, TableCheck, TableWrite, Die, At, WritingSteps
  <2>2. CASE CancelWrite(a) \/ MoveOrder(a) \/ QrCancelWrite(a)
    BY <2>2 DEF CancelWrite, MoveOrder, QrCancelWrite, At, WritingSteps
  <2>3. CASE SaleApply(a) \/ RefundApply(a) \/ PaymentReplay(a) \/ CancelNote(a)
    BY <2>3 DEF SaleApply, RefundApply, PaymentReplay, CancelNote, At
  <2> QED BY <1>1, <2>1, <2>2, <2>3, Zenon DEF Proceed
<1>3. ASSUME Finish(a)
      PROVE  NoWriter'
  BY <1>3, NoWriterKept DEF Finish
<1> QED BY <1>2, <1>3, GotoNoWriter

LEMMA NoWriterStep ==
  ASSUME TypeOK, NoWriter, Handlers \subseteq LedgerDesk, [Next]_vars
  PROVE  NoWriter'
<1>1. CASE UNCHANGED vars
  BY <1>1 DEF vars, NoWriter
<1>2. ASSUME NEW o \in Orders, CourierAssign(o)
      PROVE  NoWriter'
  BY <1>2 DEF CourierAssign, NoWriter
<1> QED BY <1>1, <1>2, ArriveNoWriter, ProceedNoWriter DEF Next

\* The statuses the consistency script compares.
Compared == {"ready", "served", "partially_paid", "paid", "partially_refunded", "refunded"}

\* What the routine writes is what the consistency script expects.
LEMMA SettledAgrees ==
  ASSUME NEW due \in Nat, NEW sold \in Nat, NEW refunded \in Nat, NEW current,
         SettledStatus(due, sold, refunded, current) \in Compared
  PROVE  SettledStatus(due, sold, refunded, current) =
           ExpectedStatus(due, sold, refunded, SettledStatus(due, sold, refunded, current))
BY DEF SettledStatus, ExpectedStatus, Compared

\* A payment leaves the status its ledger implies, and other orders alone.
LEMMA SettleAgrees ==
  ASSUME TypeOK, TypeOK', StatusAgreesWithLedger, NEW o \in Orders,
         Settle(o, sales'[o], refunds'[o]),
         \A p \in Orders : p # o => sales'[p] = sales[p] /\ refunds'[p] = refunds[p]
  PROVE  StatusAgreesWithLedger'
<1>1. /\ orders'[o].status = SettledStatus(orders[o].final, sales'[o], refunds'[o], orders[o].status)
      /\ orders'[o].final = orders[o].final
      /\ \A p \in Orders : p # o => orders'[p] = orders[p]
  BY SMTT(60) DEF Settle, TypeOK, Row
<1>2. orders[o].final \in Nat /\ sales'[o] \in Nat /\ refunds'[o] \in Nat
  BY DEF TypeOK, Row
<1>3. orders'[o].status \in Compared =>
        orders'[o].status = ExpectedStatus(orders'[o].final, sales'[o], refunds'[o], orders'[o].status)
  BY <1>1, <1>2, SettledAgrees
<1> SUFFICES ASSUME NEW p \in Orders
             PROVE  orders'[p].status \in Compared =>
                      orders'[p].status = ExpectedStatus(orders'[p].final, sales'[p], refunds'[p], orders'[p].status)
  BY DEF StatusAgreesWithLedger, Compared
<1>4. CASE p # o
  <2>1. orders'[p] = orders[p] /\ sales'[p] = sales[p] /\ refunds'[p] = refunds[p]
    BY <1>1, <1>4
  <2> QED BY <2>1 DEF StatusAgreesWithLedger, Compared
<1> QED BY <1>3, <1>4

\* A step that moves no money and changes a row at most to a status that is not
\* compared keeps the agreement.
LEMMA RowsAgree ==
  ASSUME StatusAgreesWithLedger, UNCHANGED <<sales, refunds>>,
         \A p \in Orders : \/ orders'[p].status \notin Compared
                           \/ /\ orders'[p].status = orders[p].status
                              /\ orders'[p].final = orders[p].final
  PROVE  StatusAgreesWithLedger'
BY DEF StatusAgreesWithLedger, Compared

LEMMA AgreeStep ==
  ASSUME TypeOK, TypeOK', NoWriter, Handlers \subseteq LedgerDesk, StatusAgreesWithLedger,
         [Next]_vars
  PROVE  StatusAgreesWithLedger'
<1>0. orders \in [Orders -> Row] /\ sales \in [Orders -> Nat] /\ refunds \in [Orders -> Nat]
  BY DEF TypeOK
<1>1. ASSUME NEW a \in Actors, Arrive(a)
      PROVE  StatusAgreesWithLedger'
  <2>1. UNCHANGED <<sales, refunds>>
    BY <1>1 DEF Arrive, Create, StatusRead, StationRead, FinancialsRead, SaleCheck, RefundCheck,
              CancelRead, QrCancelRead, ItemRead, DeliveryRead, MoveRead, TableRead, ledger
  <2>2. CASE UNCHANGED orders
    BY <2>1, <2>2, RowsAgree
  <2>3. CASE \E t \in Place, n \in 1..MaxAmount, st \in SUBSET Stations \ {{}} : Create(a, t, n, st)
    <3>1. PICK t \in Place, n \in 1..MaxAmount, st \in SUBSET Stations \ {{}} : Create(a, t, n, st)
      BY <2>3
    <3>2. PICK q \in IF AppendTarget(t) = {} THEN NextOrder ELSE AppendTarget(t), d \in NewDelivery(t) :
            orders' = [orders EXCEPT ![q] = IF AppendTarget(t) = {} THEN NewRow(t, n, d)
                                            ELSE WithRound(orders[q], n)]
      BY <3>1 DEF Create
    <3>3. q \in Orders /\ orders[q] \in Row /\ n \in Nat
      BY <1>0, <3>2, BoundsAssumption DEF AppendTarget, OpenAt, NextOrder
    <3>4. orders'[q].status = "pending"
      BY <1>0, <3>2, <3>3, RowsMade
    <3>5. \A p \in Orders : p # q => orders'[p] = orders[p]
      BY <1>0, <3>2
    <3> QED BY <2>1, <3>4, <3>5, RowsAgree DEF Compared
  <2> QED BY <1>1, <2>2, <2>3 DEF Arrive, StatusRead, StationRead, FinancialsRead, SaleCheck,
              RefundCheck, CancelRead, QrCancelRead, ItemRead, DeliveryRead, MoveRead, TableRead
<1>2. ASSUME NEW a \in Actors, Proceed(a)
      PROVE  StatusAgreesWithLedger'
  <2>0. /\ ~MaintainWrite(a) /\ ~StatusWrite(a) /\ ~StationWrite(a) /\ ~FinancialsWrite(a)
        /\ ~ItemWrite(a) /\ ~DeliveryWrite(a)
    BY DEF MaintainWrite, StatusWrite, StationWrite,
           FinancialsWrite, ItemWrite, DeliveryWrite, At, NoWriter, WritingSteps
  <2>1. CASE \/ MaintainTable(a) \/ MaintainSkip(a) \/ LockMiss(a) \/ StatusTable(a)
             \/ PaymentRefused(a) \/ CancelCheck(a) \/ CancelTable(a)
             \/ QrCancelCheck(a) \/ QrCancelTable(a)
             \/ MoveLook(a) \/ MoveClaim(a) \/ MoveOrderFails(a) \/ MoveRelease(a)
             \/ TableCheck(a) \/ TableWrite(a) \/ Die(a) \/ CancelNote(a) \/ MaintainRead(a)
    <3>1. UNCHANGED <<orders, sales, refunds>>
      BY <2>1 DEF MaintainTable, MaintainSkip, LockMiss, StatusTable, PaymentRefused,
                CancelCheck, CancelTable, QrCancelCheck, QrCancelTable, MoveLook, MoveClaim,
                MoveOrderFails, MoveRelease, TableCheck, TableWrite, Die, CancelNote,
                MaintainRead, ledger
    <3> QED BY <3>1, RowsAgree
  <2>2. CASE CancelWrite(a) \/ QrCancelWrite(a) \/ MoveOrder(a)
    <3>1. \A p \in Orders : \/ orders'[p].status = "cancelled"
                            \/ /\ orders'[p].status = orders[p].status
                               /\ orders'[p].final = orders[p].final
      BY <1>0, <2>2 DEF CancelWrite, QrCancelWrite, MoveOrder, Row
    <3>2. UNCHANGED <<sales, refunds>>
      BY <2>2 DEF CancelWrite, QrCancelWrite, MoveOrder, ledger
    <3> QED BY <3>1, <3>2, RowsAgree DEF Compared
  <2>3. CASE SaleApply(a)
    <3>1. PICK o \in Orders, n \in Nat : /\ sales' = [sales EXCEPT ![o] = @ + n]
                                         /\ Settle(o, sales[o] + n, refunds[o]) /\ UNCHANGED refunds
      <4> DEFINE o == req[a].order
                 n == Effective(req[a].amount, Remaining(o))
      <4>1. o \in Orders /\ req[a].amount \in Nat
        BY <2>3, RequestFields DEF SaleApply, At
      <4>2. Remaining(o) \in Nat
        BY <1>0, <4>1 DEF Remaining, NonNegative, Net, Row
      <4>3. n \in Nat
        BY <4>1, <4>2 DEF Effective
      <4> QED BY <2>3, <4>1, <4>3 DEF SaleApply
    <3>2. sales'[o] = sales[o] + n /\ refunds'[o] = refunds[o]
      BY <1>0, <3>1
    <3> QED BY <1>0, <3>1, <3>2, SettleAgrees
  <2>4. CASE RefundApply(a)
    <3>1. PICK o \in Orders, n \in Nat : /\ refunds' = [refunds EXCEPT ![o] = @ + n]
                                         /\ Settle(o, sales[o], refunds[o] + n) /\ UNCHANGED sales
      BY <2>4, RefundAmount DEF RefundApply
    <3>2. sales'[o] = sales[o] /\ refunds'[o] = refunds[o] + n
      BY <1>0, <3>1
    <3> QED BY <1>0, <3>1, <3>2, SettleAgrees
  <2>5. CASE PaymentReplay(a)
    <3>1. req[a].order \in Orders
      BY <2>5, RequestFields DEF PaymentReplay, At
    <3>2. /\ UNCHANGED <<sales, refunds>>
          /\ Settle(req[a].order, sales[req[a].order], refunds[req[a].order])
      BY <2>5 DEF PaymentReplay, ledger
    <3> QED BY <3>1, <3>2, SettleAgrees
  <2> QED BY <1>2, <2>0, <2>1, <2>2, <2>3, <2>4, <2>5, Zenon DEF Proceed
<1>3. ASSUME NEW q \in Orders, CourierAssign(q)
      PROVE  StatusAgreesWithLedger'
  BY <1>3 DEF CourierAssign, LedgerDesk
<1>4. CASE UNCHANGED vars
  BY <1>4, RowsAgree DEF vars
<1> QED BY <1>1, <1>2, <1>3, <1>4 DEF Next

\* With those handlers the status of every order is the one its ledger implies,
\* for any number of orders, tables, payments and keys.
THEOREM LedgerSetsTheStatus ==
  ASSUME Handlers \subseteq LedgerDesk
  PROVE  Spec => []StatusAgreesWithLedger
<1>1. Init => TypeOK /\ NoWriter /\ StatusAgreesWithLedger
  BY TypeInit, AbsentRowType DEF Init, NoWriter, StatusAgreesWithLedger, AbsentRow
<1>2. TypeOK /\ NoWriter /\ StatusAgreesWithLedger /\ [Next]_vars
        => (TypeOK /\ NoWriter /\ StatusAgreesWithLedger)'
  BY TypeStep, NoWriterStep, AgreeStep
<1> QED BY <1>1, <1>2, PTL DEF Spec
=============================================================================
