----------------------------- MODULE StockBook ------------------------------
(***************************************************************************)
(* What a sale does to the stock of an ingredient, and what keeps the book  *)
(* of that ingredient near the shelf: createOrder and writeFrozenConsumption *)
(* (lib/data.ts) where the database has no create_or_append_order routine,  *)
(* purchases (record_ingredient_purchase) and counts (saveIngredientCount). *)
(*                                                                         *)
(* One ingredient, one branch, one table.  A sale is one request for one    *)
(* line; its `use` is the consumption the client froze when it was sold.    *)
(* Every statement sent to the database is an action; statements inside a   *)
(* database function are one action unless a row lock stands between them.  *)
(*                                                                         *)
(* A trigger carries each movement into ingredient_stock in the same        *)
(* transaction, so movements and quantity are one variable: the balances.   *)
(***************************************************************************)
EXTENDS Integers, Sequences, FiniteSets

CONSTANTS
  Sales,       \* requests that make or extend an order
  Counts,      \* stock counts
  Purchases,   \* purchases
  None,        \* no purchase holds the stock row
  Uses,        \* frozen consumption of a sale
  Bought,      \* quantities bought
  Prices,      \* unit costs
  MaxSkew,     \* bound: movements the clock of a client is off by
  MaxMishaps   \* bound: failed statements, dead requests, losses

ASSUME StockAssumption ==
  /\ None \notin Purchases
  /\ Uses \subseteq Nat /\ Bought \subseteq Nat \ {0} /\ Prices \subseteq Nat
  /\ MaxSkew \in Nat /\ MaxMishaps \in Nat

VARIABLES
  routine,   \* the database has create_or_append_order
  orders,    \* the orders of the table, in the order they were made
  lines,     \* sales with a row in order_items
  sale,      \* sale[s]: request s
  balance,   \* ingredient_stock after each of ingredient_movements
  row,       \* ingredient_stock has a row
  cost,      \* ingredients.cost
  lock,      \* the purchase that holds the stock row
  purchase,  \* purchase[p]
  count,     \* count[c]
  booked,    \* sales with a sale_consumption movement
  shelf,     \* what is really there
  mishaps

orderVars == <<orders, lines>>
stockVars == <<balance, row>>
priceVars == <<cost, lock, purchase>>
vars == <<routine, orderVars, sale, stockVars, priceVars, count, booked, shelf, mishaps>>

Order == [live : BOOLEAN, bill : SUBSET Sales, stamp : Nat, flagged : BOOLEAN]
Sale  == [at : {"new", "merge", "insert", "items", "modifiers", "undo", "rows", "moves", "flag",
                "accepted", "refused", "dead"},
          order : Nat, created : BOOLEAN, seen : SUBSET Sales, stamp : Nat,
          use : Nat,
          used : BOOLEAN,    \* history: the kitchen took it from the shelf
          blind : BOOLEAN]   \* history: the flag was to be written and was not
Purchase == [at : {"new", "locked", "done", "failed"}, found : BOOLEAN, qty : Int]
Count    == [done : SUBSET {"stamp", "look", "stock", "moves", "write"},
             stamp : Nat, counted : Int, looked : Nat,
             drift : Int, owed : Nat,   \* history: Drift and Owed when it looked
             qty : Int, qtyAt : Nat, since : Int, sinceAt : Nat]

NewOrder(bill) == [live |-> TRUE, bill |-> bill, stamp |-> 0, flagged |-> FALSE]

TypeOK ==
  /\ routine \in BOOLEAN
  /\ orders \in Seq(Order) /\ lines \subseteq Sales
  /\ sale \in [Sales -> Sale]
  /\ balance \in Seq(Int) /\ balance # <<>> /\ row \in BOOLEAN
  /\ cost \in Int /\ lock \in Purchases \cup {None}
  /\ purchase \in [Purchases -> Purchase]
  /\ count \in [Counts -> Count]
  /\ booked \subseteq Sales /\ shelf \in Int
  /\ mishaps \in 0..MaxMishaps

Init ==
  /\ routine \in BOOLEAN
  /\ orders \in {<<>>, <<NewOrder({})>>} /\ lines = {}
  /\ sale \in [Sales -> {[at |-> "new", order |-> 0, created |-> FALSE, seen |-> {},
                          stamp |-> 0, use |-> u, used |-> FALSE, blind |-> FALSE] : u \in Uses}]
  /\ balance = <<0>> /\ row = FALSE
  /\ cost = 0 /\ lock = None
  /\ purchase = [p \in Purchases |-> [at |-> "new", found |-> FALSE, qty |-> 0]]
  /\ count = [c \in Counts |-> [done |-> {}, stamp |-> 0, counted |-> 0, looked |-> 0,
                                drift |-> 0, owed |-> 0, qty |-> 0, qtyAt |-> 0,
                                since |-> 0, sinceAt |-> 0]]
  /\ booked = {} /\ shelf = 0 /\ mishaps = 0

-----------------------------------------------------------------------------
(* State formulae. *)

Quantity == balance[Len(balance)]
Since(n) == IF n < Len(balance) THEN Quantity - balance[n] ELSE 0

Open     == {o \in DOMAIN orders : orders[o].live}
Newest   == CHOOSE o \in Open : \A x \in Open : x <= o
Standing(s) == s \in lines /\ orders[sale[s].order].live

\* The kitchen has the line and its movement is still to be written.
InFlight == {s \in Sales : sale[s].at \in {"rows", "moves"}}
\* What they still owe the book, unit by unit.
Units(s) == {s} \X (1..sale[s].use)
Owed     == Cardinality(UNION {Units(s) : s \in InFlight})
\* How far the book is above the shelf, but for the sales still being written.
Drift    == Quantity - shelf - Owed

Mishap == mishaps < MaxMishaps /\ mishaps' = mishaps + 1
Smooth == UNCHANGED mishaps

-----------------------------------------------------------------------------
(* Movements: the trigger adds the change to the row, or makes the row; it   *)
(* waits for a purchase that holds the row.                                  *)

\* mutant: a sale does not wait for the row lock of a purchase
UnlockedAlways(p) == TRUE
Unlocked(p) == lock \in {None, p}
Move(change) == /\ balance' = Append(balance, Quantity + change)
                /\ row' = TRUE

-----------------------------------------------------------------------------
(* createOrder without the routine. *)

At(s, step)   == sale[s].at = step
Goto(s, step) == sale' = [sale EXCEPT ![s].at = step]
Place(s)      == sale[s].order
Here(s)       == Place(s) \in Open

\* Every update of an order moves its updated_at.
\* mutant: the stamp runs backwards
UpdateBack(o, bill) == orders' = [orders EXCEPT ![o].bill = bill, ![o].stamp = @ - 1]
Update(o, bill) == orders' = [orders EXCEPT ![o].bill = bill, ![o].stamp = @ + 1]

\* A read that fails counts as no open order.
FindOrder(s) ==
  /\ ~routine /\ At(s, "new")
  /\ \/ Mishap /\ Goto(s, "insert")
     \/ Smooth /\ Open = {} /\ Goto(s, "insert")
     \/ /\ Smooth /\ Open # {}
        /\ sale' = [sale EXCEPT ![s].at = "merge", ![s].order = Newest,
                     ![s].seen = orders[Newest].bill, ![s].stamp = orders[Newest].stamp]
  /\ UNCHANGED <<routine, orderVars, stockVars, priceVars, count, booked, shelf>>

\* The update carries the updated_at and lock_version that were read.
\* mutant: the update does not carry the stamp that was read
UnmovedIfHere(s) == Here(s)
Unmoved(s) == Here(s) /\ orders[Place(s)].stamp = sale[s].stamp

Merge(s) ==
  /\ At(s, "merge")
  /\ IF Unmoved(s)
     THEN Goto(s, "items") /\ Update(Place(s), sale[s].seen \cup {s})
     ELSE Goto(s, "refused") /\ UNCHANGED orders
  /\ UNCHANGED <<routine, lines, stockVars, priceVars, count, booked, shelf, mishaps>>

InsertOrder(s) ==
  /\ At(s, "insert")
  /\ orders' = Append(orders, NewOrder({s}))
  /\ sale' = [sale EXCEPT ![s].at = "items", ![s].order = Len(orders) + 1, ![s].created = TRUE]
  /\ UNCHANGED <<routine, lines, stockVars, priceVars, count, booked, shelf, mishaps>>

OrderFails(s) ==
  /\ sale[s].at \in {"merge", "insert"} /\ Mishap
  /\ Goto(s, "refused")
  /\ UNCHANGED <<routine, orderVars, stockVars, priceVars, count, booked, shelf>>

\* order_items refer to the order, which another request may have deleted.
InsertItems(s) ==
  /\ At(s, "items")
  /\ \/ Here(s) /\ Smooth /\ lines' = lines \cup {s} /\ Goto(s, "modifiers")
     \/ ~Here(s) /\ Smooth /\ Goto(s, "undo") /\ UNCHANGED lines
     \/ /\ Mishap /\ Goto(s, "undo")      \* of an insert whose answer is lost
        /\ UNCHANGED lines \/ (Here(s) /\ lines' = lines \cup {s})
  /\ UNCHANGED <<routine, orders, stockVars, priceVars, count, booked, shelf>>

\* From here the order stands and the kitchen will use the ingredient.
InsertModifiers(s) ==
  /\ At(s, "modifiers")
  /\ \/ /\ Here(s) /\ Smooth
        /\ sale' = [sale EXCEPT ![s].at = IF sale[s].use > 0 THEN "rows" ELSE "accepted",
                                ![s].used = TRUE]
        /\ shelf' = shelf - sale[s].use
     \/ ~Here(s) /\ Smooth /\ Goto(s, "undo") /\ UNCHANGED shelf
     \/ Mishap /\ Goto(s, "undo") /\ UNCHANGED shelf
  /\ UNCHANGED <<routine, orderVars, stockVars, priceVars, count, booked>>

\* A new order is deleted with every line on it; an old one gets back the
\* bill that was read, whatever it is by now, and keeps the line.
UndoOrder(s) ==
  IF sale[s].created
  THEN /\ orders' = [orders EXCEPT ![Place(s)].live = FALSE]
       /\ lines' = {t \in lines : Place(t) # Place(s)}
  ELSE Update(Place(s), sale[s].seen) /\ UNCHANGED lines

Undo(s) ==
  /\ At(s, "undo") /\ Goto(s, "refused")
  /\ \/ Smooth /\ UndoOrder(s)
     \/ Mishap /\ UNCHANGED orderVars     \* its result is not looked at
  /\ UNCHANGED <<routine, stockVars, priceVars, count, booked, shelf>>

\* writeFrozenConsumption: the breakdown, then the movement; when either
\* fails the order is flagged and the sale goes on.
\* mutant: a failed breakdown leaves no flag
ConsumptionRowsQuiet(s) ==
  /\ At(s, "rows")
  /\ \/ s \in lines /\ Smooth /\ Goto(s, "moves")
     \/ s \notin lines /\ Smooth /\ Goto(s, "accepted")
     \/ Mishap /\ Goto(s, "accepted")
  /\ UNCHANGED <<routine, orderVars, stockVars, priceVars, count, booked, shelf>>
ConsumptionRows(s) ==
  /\ At(s, "rows")
  /\ \/ s \in lines /\ Smooth /\ Goto(s, "moves")
     \/ s \notin lines /\ Smooth /\ Goto(s, "flag")
     \/ Mishap /\ Goto(s, "flag")
  /\ UNCHANGED <<routine, orderVars, stockVars, priceVars, count, booked, shelf>>

ConsumptionMovement(s) ==
  /\ At(s, "moves") /\ Unlocked(None)
  /\ \/ /\ s \in lines /\ Smooth /\ Goto(s, "accepted")
        /\ Move(-sale[s].use) /\ booked' = booked \cup {s}
     \/ /\ s \notin lines /\ Smooth /\ Goto(s, "flag") /\ UNCHANGED <<stockVars, booked>>
     \/ /\ Mishap /\ Goto(s, "flag") /\ UNCHANGED <<stockVars, booked>>
     \/ /\ s \in lines /\ Mishap /\ Goto(s, "flag")     \* its answer is lost
        /\ Move(-sale[s].use) /\ booked' = booked \cup {s}
  /\ UNCHANGED <<routine, orderVars, priceVars, count, shelf>>

FlagOrder(s) ==
  /\ At(s, "flag")
  /\ \/ /\ Here(s) /\ Smooth /\ Goto(s, "accepted")
        /\ orders' = [orders EXCEPT ![Place(s)].flagged = TRUE, ![Place(s)].stamp = @ + 1]
     \/ /\ ~Here(s) /\ Smooth /\ Goto(s, "accepted") /\ UNCHANGED orders
     \/ /\ Mishap /\ sale' = [sale EXCEPT ![s].at = "accepted", ![s].blind = TRUE]
        /\ UNCHANGED orders               \* its result is not looked at
  /\ UNCHANGED <<routine, lines, stockVars, priceVars, count, booked, shelf>>

Die(s) ==
  /\ sale[s].at \notin {"new", "accepted", "refused", "dead"} /\ Mishap
  /\ Goto(s, "dead")
  /\ UNCHANGED <<routine, orderVars, stockVars, priceVars, count, booked, shelf>>

\* With the routine the order is written in one transaction, and createOrder
\* returns before the frozen consumption is looked at.
RoutineSale(s) ==
  /\ routine /\ At(s, "new")
  /\ LET o == IF Open = {} THEN Len(orders) + 1 ELSE Newest
     IN  /\ sale' = [sale EXCEPT ![s].at = "accepted", ![s].order = o, ![s].used = TRUE]
         /\ IF Open = {}
            THEN orders' = Append(orders, NewOrder({s}))
            ELSE Update(o, orders[o].bill \cup {s})
  /\ lines' = lines \cup {s}
  /\ shelf' = shelf - sale[s].use
  /\ UNCHANGED <<routine, stockVars, priceVars, count, booked, mishaps>>

-----------------------------------------------------------------------------
(* record_ingredient_purchase: the stock row is read with a row lock, if it  *)
(* is there, then the ingredient; both are written before the commit.        *)

PurchaseRead(p) ==
  /\ purchase[p].at = "new" /\ lock = None
  /\ purchase' = [purchase EXCEPT ![p] = [at |-> "locked", found |-> row, qty |-> Quantity]]
  /\ lock' = IF row THEN p ELSE None
  /\ UNCHANGED <<routine, orderVars, sale, stockVars, cost, count, booked, shelf, mishaps>>

\* round(n / d) for d > 0, halves away from zero.
Rounded(n, d) == IF n >= 0 THEN (2 * n + d) \div (2 * d) ELSE -((d - 2 * n) \div (2 * d))
\* The moving average of `have` at the present cost and `got` at `price`.
Average(have, got, price) ==
  IF have + got > 0 THEN Rounded(have * cost + got * price, have + got) ELSE price

PurchaseWrite(p) ==
  /\ purchase[p].at = "locked" /\ Unlocked(p)
  /\ \E got \in Bought, price \in Prices :
       /\ cost' = Average(purchase[p].qty, got, price)
       /\ Move(got) /\ shelf' = shelf + got
  /\ purchase' = [purchase EXCEPT ![p].at = "done"]
  /\ lock' = None
  /\ UNCHANGED <<routine, orderVars, sale, count, booked, mishaps>>

PurchaseFails(p) ==
  /\ purchase[p].at = "locked" /\ Mishap
  /\ purchase' = [purchase EXCEPT ![p].at = "failed"]
  /\ lock' = IF lock = p THEN None ELSE lock
  /\ UNCHANGED <<routine, orderVars, sale, stockVars, cost, count, booked, shelf>>

\* updateIngredient.
EditCost ==
  /\ cost' \in Prices
  /\ UNCHANGED <<routine, orderVars, sale, stockVars, lock, purchase, count, booked, shelf, mishaps>>

-----------------------------------------------------------------------------
(* saveIngredientCount.  The browser stamps the time when the first number   *)
(* is typed; a shelf is looked at before (the first) or after (the others).  *)

Did(c, step)  == step \in count[c].done
Note(c, step, rest) == count' = [count EXCEPT ![c] = [rest EXCEPT !.done = @ \cup {step}]]

Stamp(c) ==
  /\ ~Did(c, "stamp")
  /\ \E n \in 1..(Len(balance) + MaxSkew) :
       /\ n >= Len(balance) - MaxSkew
       /\ Note(c, "stamp", [count[c] EXCEPT !.stamp = n])
  /\ UNCHANGED <<routine, orderVars, sale, stockVars, priceVars, booked, shelf, mishaps>>

LookAtShelf(c) ==
  /\ ~Did(c, "look")
  /\ Note(c, "look", [count[c] EXCEPT !.counted = shelf, !.looked = Len(balance),
                        !.drift = Drift, !.owed = Owed])
  /\ UNCHANGED <<routine, orderVars, sale, stockVars, priceVars, booked, shelf, mishaps>>

\* The two reads are sent together and answered in any order.
Saving(c) == Did(c, "stamp") /\ Did(c, "look") /\ ~Did(c, "write")

ReadStock(c) ==
  /\ Saving(c) /\ ~Did(c, "stock")
  /\ Note(c, "stock", [count[c] EXCEPT !.qty = Quantity, !.qtyAt = Len(balance)])
  /\ UNCHANGED <<routine, orderVars, sale, stockVars, priceVars, booked, shelf, mishaps>>

ReadMovements(c) ==
  /\ Saving(c) /\ ~Did(c, "moves")
  /\ Note(c, "moves", [count[c] EXCEPT !.since = Since(count[c].stamp), !.sinceAt = Len(balance)])
  /\ UNCHANGED <<routine, orderVars, sale, stockVars, priceVars, booked, shelf, mishaps>>

\* mutant: movements since the stamp are not set off
DeltaPlain(c) == count[c].counted - count[c].qty
Delta(c) == count[c].counted - (count[c].qty - count[c].since)

CountWrite(c) ==
  /\ Saving(c) /\ Did(c, "stock") /\ Did(c, "moves")
  /\ IF Delta(c) # 0 THEN Unlocked(None) /\ Move(Delta(c)) ELSE UNCHANGED stockVars
  /\ Note(c, "write", count[c])
  /\ UNCHANGED <<routine, orderVars, sale, priceVars, booked, shelf, mishaps>>

\* The numbers stay in the form and can be saved again, under their old stamp:
\* after a failure, and after a save that took effect while its answer was lost.
CountFails(c) ==
  /\ Did(c, "stock") /\ Did(c, "moves") /\ Mishap
  /\ count' = [count EXCEPT ![c].done = @ \ {"stock", "moves", "write"}]
  /\ UNCHANGED <<routine, orderVars, sale, stockVars, priceVars, booked, shelf>>

\* Spoiled, spilt or given away without a record.
Lose ==
  /\ Mishap /\ shelf' = shelf - 1
  /\ UNCHANGED <<routine, orderVars, sale, stockVars, priceVars, count, booked>>

-----------------------------------------------------------------------------
SaleStep(s) ==
  \/ FindOrder(s) \/ Merge(s) \/ InsertOrder(s) \/ OrderFails(s)
  \/ InsertItems(s) \/ InsertModifiers(s) \/ Undo(s)
  \/ ConsumptionRows(s) \/ ConsumptionMovement(s) \/ FlagOrder(s)
  \/ Die(s) \/ RoutineSale(s)
PurchaseStep(p) == PurchaseRead(p) \/ PurchaseWrite(p) \/ PurchaseFails(p)
CountStep(c) ==
  \/ Stamp(c) \/ LookAtShelf(c) \/ ReadStock(c) \/ ReadMovements(c)
  \/ CountWrite(c) \/ CountFails(c)

Next ==
  \/ \E s \in Sales : SaleStep(s)
  \/ \E p \in Purchases : PurchaseStep(p)
  \/ \E c \in Counts : CountStep(c)
  \/ EditCost \/ Lose

Spec == Init /\ [][Next]_vars

-----------------------------------------------------------------------------
(* Properties. *)

\* What the kitchen took from the shelf is booked, on its way to the book, or
\* its order is flagged, so no consumption is lost unseen (data.ts:3692,
\* migration 20260809 part 7b), with four exceptions, each of that one sale: the
\* order was made by the routine, after which nothing writes the consumption
\* (data.ts:3449); the request died before the movement or the flag; the flag
\* itself was not written (data.ts:3258, 3277); the order was deleted under the
\* sale by the request that had made it and failed (data.ts:3640, 3671).
Deleted(s) == /\ ~Here(s)
              /\ \E t \in Sales \ {s} :
                   sale[t].created /\ Place(t) = Place(s) /\ At(t, "refused")
BookedOrFlagged ==
  \A s \in Sales : sale[s].used /\ sale[s].use > 0 =>
    \/ s \in booked
    \/ sale[s].at \in {"rows", "moves", "flag"}
    \/ Here(s) /\ orders[Place(s)].flagged
    \/ routine \/ At(s, "dead") \/ sale[s].blind \/ Deleted(s)

\* What was sold stays on the bill and on the order unless another request
\* that failed undoes the order it shares: no two rounds overwrite each other.
OnBill(s) == Standing(s) /\ s \in orders[Place(s)].bill
LostOnlyByUndo ==
  [][\A s \in Sales : OnBill(s) /\ sale[s].at # "undo" /\ ~OnBill(s)' =>
        \E t \in Sales \ {s} : At(t, "undo") /\ At(t, "refused")']_vars

\* A purchase averages over the stock there is when it commits, whatever is
\* sold, counted or bought meanwhile, if the stock row existed (20260810:10).
AverageSeesStock ==
  [][\A p \in Purchases :
        purchase[p].at = "locked" /\ purchase'[p].at = "done" /\ purchase[p].found =>
          \E got \in Bought, price \in Prices :
            /\ Quantity' = Quantity + got
            /\ cost' = Average(Quantity, got, price)]_vars

\* Each time a count is saved it takes out of the book the error it found on
\* the shelf, and sales made meanwhile are not counted twice (data.ts:7929).
\* It is off by what sales half written at the look still owed, by what was
\* booked between the stamp and the look, and by what was booked between its two
\* reads, and by nothing else; a form that is saved again after its answer was
\* lost takes the same error out again.
Misjudged(c) ==
  LET w == count[c]
      Booked(from, to) == balance[to] - balance[from]
      stamped == IF w.stamp < w.sinceAt THEN w.stamp ELSE w.sinceAt
  IN Booked(stamped, w.looked) + Booked(w.qtyAt, w.sinceAt) - w.owed
CountTakesOutError ==
  [][\A c \in Counts :
        ~Did(c, "write") /\ "write" \in count'[c].done =>
          Drift' = Drift - count[c].drift + Misjudged(c)]_vars
=============================================================================
