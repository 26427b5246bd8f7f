--------------------------- MODULE StockBookProofs ---------------------------
(***************************************************************************)
(* What holds of the orders of a table and of the stock of an ingredient    *)
(* for any number of sales, purchases and counts, any quantities and any    *)
(* number of failures.                                                     *)
(***************************************************************************)
EXTENDS StockBook, SequenceTheorems, FiniteSetTheorems, WellFoundedInduction, TLAPS

-----------------------------------------------------------------------------
(* The order a sale joins. *)

Ordered == orders \in Seq(Order) /\ lines \subseteq Sales /\ sale \in [Sales -> Sale]

\* A set of numbers that is not empty and has a bound has a greatest one.
LEMMA NewestIsOpen ==
  ASSUME Ordered, Open # {}
  PROVE  Newest \in Open
<1> DEFINE m == Len(orders)
           T == {m - x : x \in Open}
           R == OpToRel(<, Nat)
<1>0. m \in Nat /\ Open \subseteq 0..m
  BY LenProperties DEF Ordered, Open
<1> HIDE DEF m
<1>1. T \in SUBSET Nat /\ T # {}
  <2>1. \A x \in Open : m - x \in Nat
    BY <1>0
  <2>2. PICK x \in Open : TRUE
    OBVIOUS
  <2>3. m - x \in T
    BY <2>2
  <2> QED BY <2>1, <2>3
<1>2. PICK t \in T : \A u \in T : <<u, t>> \notin R
  BY <1>1, NatLessThanWellFounded, WFMin, Zenon
<1>3. \A u \in T : ~(u < t)
  BY <1>1, <1>2 DEF OpToRel
<1>4. PICK x \in Open : t = m - x
  OBVIOUS
<1>5. \A y \in Open : y <= x
  <2> TAKE y \in Open
  <2>1. ~(m - y < m - x)
    BY <1>3, <1>4
  <2>2. m \in Int /\ x \in Int /\ y \in Int
    BY <1>0
  <2> QED BY <2>1, <2>2
<1> QED BY <1>5, Zenon DEF Newest

LEMMA OrdersType ==
  ASSUME Ordered
  PROVE  /\ DOMAIN orders = 1..Len(orders) /\ Len(orders) \in Nat
         /\ \A o \in DOMAIN orders : orders[o] \in Order
BY LenProperties, ElementOfSeq DEF Ordered

-----------------------------------------------------------------------------
(* Orders never forget: a change that touches the bill moves the stamp. *)

\* A sale has a line only once its order is known, orders are never removed
\* from the list, and the copy a sale means to merge is the order's bill as
\* long as the stamp stands.
Follows(s) ==
  /\ sale[s].at \in {"new", "merge", "insert", "items"} => s \notin lines
  /\ s \in lines \/ sale[s].at \notin {"new", "insert", "refused", "dead"} => Place(s) \in DOMAIN orders
  /\ sale[s].at = "merge" =>
       /\ sale[s].stamp <= orders[Place(s)].stamp
       /\ sale[s].stamp = orders[Place(s)].stamp => sale[s].seen = orders[Place(s)].bill
  /\ sale[s].used => sale[s].at \in {"rows", "moves", "flag", "accepted", "dead"}
  /\ routine \/ sale[s].at # "accepted" \/ sale[s].use = 0 \/ s \in booked \/ sale[s].blind
     \/ ~Here(s) \/ orders[Place(s)].flagged

SalesFollow == \A s \in Sales : Follows(s)

OrderInv == Ordered /\ SalesFollow

OrdersAdvance ==
  /\ orders' \in Seq(Order)
  /\ DOMAIN orders \subseteq DOMAIN orders'
  /\ \A o \in DOMAIN orders :
       /\ orders[o].stamp <= orders'[o].stamp
       /\ orders'[o].stamp = orders[o].stamp => orders'[o].bill = orders[o].bill
       /\ orders'[o].live => orders[o].live
       /\ orders[o].flagged => orders'[o].flagged

LEMMA AdvanceStays ==
  ASSUME Ordered, UNCHANGED orders
  PROVE  OrdersAdvance
BY OrdersType DEF OrdersAdvance, Ordered, Order

LEMMA AdvanceAppend ==
  ASSUME Ordered, NEW e \in Order, orders' = Append(orders, e)
  PROVE  /\ OrdersAdvance
         /\ DOMAIN orders' = 1..(Len(orders) + 1)
         /\ orders'[Len(orders) + 1] = e
         /\ \A o \in DOMAIN orders : orders'[o] = orders[o]
<1>1. /\ orders' \in Seq(Order) /\ Len(orders') = Len(orders) + 1
      /\ \A o \in 1..Len(orders) : orders'[o] = orders[o]
      /\ orders'[Len(orders) + 1] = e
  BY AppendProperties DEF Ordered
<1>2. DOMAIN orders' = 1..(Len(orders) + 1)
  BY <1>1, LenProperties
<1> QED BY <1>1, <1>2, OrdersType DEF OrdersAdvance, Order

LEMMA AdvanceExcept ==
  ASSUME Ordered, NEW o \in DOMAIN orders, NEW e \in Order, orders' = [orders EXCEPT ![o] = e],
         orders[o].stamp <= e.stamp,
         e.stamp = orders[o].stamp => e.bill = orders[o].bill,
         e.live => orders[o].live,
         orders[o].flagged => e.flagged
  PROVE  /\ OrdersAdvance /\ DOMAIN orders' = DOMAIN orders /\ orders'[o] = e
         /\ \A x \in DOMAIN orders : x # o => orders'[x] = orders[x]
<1>1. /\ orders' \in Seq(Order) /\ DOMAIN orders' = DOMAIN orders /\ orders'[o] = e
      /\ \A x \in DOMAIN orders : x # o => orders'[x] = orders[x]
  BY OrdersType, ExceptSeq DEF Ordered
<1> QED BY <1>1, OrdersType DEF OrdersAdvance, Order

\* Update writes a bill and moves the stamp on.
LEMMA AdvanceUpdate ==
  ASSUME Ordered, NEW o \in DOMAIN orders, NEW bill \in SUBSET Sales, Update(o, bill)
  PROVE  /\ OrdersAdvance /\ DOMAIN orders' = DOMAIN orders
         /\ orders'[o].bill = bill /\ orders'[o].live = orders[o].live
         /\ \A x \in DOMAIN orders : x # o => orders'[x] = orders[x]
<1> DEFINE e == [orders[o] EXCEPT !.bill = bill, !.stamp = @ + 1]
<1>1. orders[o] \in Order /\ orders[o].stamp \in Nat
  BY OrdersType DEF Order
<1>2. /\ e \in Order /\ e.bill = bill /\ e.live = orders[o].live /\ e.stamp = orders[o].stamp + 1
      /\ e.flagged = orders[o].flagged
  <2> DEFINE was == orders[o]
             n == was.stamp + 1
  <2>1. was \in Order /\ n \in Nat
    BY <1>1
  <2>2. e = [was EXCEPT !.bill = bill, !.stamp = n]
    OBVIOUS
  <2> HIDE DEF was, n, e
  <2>3. e \in Order /\ e.bill = bill /\ e.live = was.live /\ e.stamp = n /\ e.flagged = was.flagged
    BY <2>1, <2>2 DEF Order
  <2> QED BY <2>3 DEF was, n
<1>3. orders' = [orders EXCEPT ![o] = e]
  BY DEF Update
<1> HIDE DEF e
<1>4. orders[o].stamp <= e.stamp /\ e.stamp # orders[o].stamp
  BY <1>1, <1>2
<1> QED BY <1>2, <1>3, <1>4, AdvanceExcept

\* The step of one sale keeps the invariant if its own record does.
LEMMA SaleGoesOn ==
  ASSUME OrderInv, OrdersAdvance, UNCHANGED routine, NEW s \in Sales, NEW w \in Sale,
         sale' = [sale EXCEPT ![s] = w],
         lines' \subseteq lines \cup {s}, booked \subseteq booked',
         Follows(s)'
  PROVE  OrderInv'
<1>1. sale'[s] = w /\ \A t \in Sales : t # s => sale'[t] = sale[t]
  BY DEF OrderInv, Ordered
<1>2. Ordered'
  BY DEF OrderInv, Ordered, OrdersAdvance
<1>3. ASSUME NEW t \in Sales, t # s
      PROVE  Follows(t)'
  <2>1. Follows(t) /\ sale'[t] = sale[t] /\ Place(t)' = Place(t)
    BY <1>1, <1>3 DEF OrderInv, SalesFollow, Place
  <2>2. t \in lines' => t \in lines
    BY <1>3
  <2>3. /\ sale[t].at \in {"new", "merge", "insert", "items"} => t \notin lines'
        /\ t \in lines' \/ sale[t].at \notin {"new", "insert", "refused", "dead"} => Place(t) \in DOMAIN orders'
    BY <2>1, <2>2 DEF Follows, OrdersAdvance
  <2>4. sale[t].at = "merge" =>
          /\ sale[t].stamp <= orders'[Place(t)].stamp
          /\ sale[t].stamp = orders'[Place(t)].stamp => sale[t].seen = orders'[Place(t)].bill
    <3>1. HAVE sale[t].at = "merge"
    <3>2. Place(t) \in DOMAIN orders
      BY <2>1, <3>1 DEF Follows
    <3>3. sale[t].stamp \in Nat /\ orders[Place(t)].stamp \in Nat /\ orders'[Place(t)].stamp \in Nat
      <4>1. sale[t] \in Sale /\ orders[Place(t)] \in Order
        BY <3>2, OrdersType DEF OrderInv, Ordered
      <4>2. orders'[Place(t)] \in Order
        BY <3>2, LenProperties, ElementOfSeq DEF OrdersAdvance
      <4> QED BY <4>1, <4>2 DEF Sale, Order
    <3>4. orders[Place(t)].stamp <= orders'[Place(t)].stamp
      BY <3>2 DEF OrdersAdvance
    <3>5. sale[t].stamp <= orders[Place(t)].stamp
      BY <2>1, <3>1 DEF Follows
    <3>6. sale[t].stamp = orders'[Place(t)].stamp => orders'[Place(t)].stamp = orders[Place(t)].stamp
      BY <3>3, <3>4, <3>5
    <3>7. sale[t].stamp <= orders'[Place(t)].stamp
      BY <3>3, <3>4, <3>5
    <3> QED BY <2>1, <3>1, <3>2, <3>6, <3>7 DEF Follows, OrdersAdvance
  <2>5. routine \/ sale[t].at # "accepted" \/ sale[t].use = 0 \/ t \in booked' \/ sale[t].blind
        \/ ~(Place(t) \in DOMAIN orders' /\ orders'[Place(t)].live) \/ orders'[Place(t)].flagged
    BY <2>1 DEF Follows, OrdersAdvance, Here, Open
  <2>6. sale[t].used => sale[t].at \in {"rows", "moves", "flag", "accepted", "dead"}
    BY <2>1 DEF Follows
  <2> QED BY <2>1, <2>3, <2>4, <2>5, <2>6 DEF Follows, Here, Open, Place
<1> QED BY <1>2, <1>3 DEF OrderInv, SalesFollow

-----------------------------------------------------------------------------
(* The steps of a sale. *)

SaleSteps == {"new", "merge", "insert", "items", "modifiers", "undo", "rows", "moves", "flag",
              "accepted", "refused", "dead"}
To(s, step) == [sale[s] EXCEPT !.at = step]

LEMMA Moves ==
  ASSUME OrderInv, NEW s \in Sales, NEW step \in SaleSteps
  PROVE  /\ To(s, step) \in Sale /\ To(s, step).at = step /\ To(s, step).order = sale[s].order
         /\ To(s, step).seen = sale[s].seen /\ To(s, step).stamp = sale[s].stamp
         /\ To(s, step).use = sale[s].use /\ To(s, step).blind = sale[s].blind
         /\ To(s, step).used = sale[s].used
         /\ To(s, step).created = sale[s].created
         /\ Goto(s, step) => sale' = [sale EXCEPT ![s] = To(s, step)]
<1>1. sale[s] \in Sale
  BY DEF OrderInv, Ordered
<1>2. Goto(s, step) => sale' = [sale EXCEPT ![s] = To(s, step)]
  BY DEF Goto, To
<1> QED BY <1>1, <1>2 DEF To, Sale, SaleSteps

\* A step that leaves the orders alone.
LEMMA SaleWaits ==
  ASSUME OrderInv, UNCHANGED <<routine, orders, lines>>, booked \subseteq booked',
         NEW s \in Sales, NEW w \in Sale, sale' = [sale EXCEPT ![s] = w],
         w.order = Place(s), w.at # "merge",
         w.at \in {"new", "insert", "items"} => s \notin lines,
         w.at \notin {"new", "insert", "refused", "dead"} => Place(s) \in DOMAIN orders,
         w.used => w.at \in {"rows", "moves", "flag", "accepted", "dead"},
         w.at = "accepted" => \/ routine \/ w.use = 0 \/ s \in booked' \/ w.blind
                              \/ ~Here(s) \/ orders[Place(s)].flagged
  PROVE  OrderInv'
<1>1. sale'[s] = w /\ Follows(s)
  BY DEF OrderInv, Ordered, SalesFollow
<1>2. Place(s)' = Place(s) /\ Here(s)' = Here(s)
  BY <1>1 DEF Place, Here, Open
<1>3. Follows(s)'
  BY <1>1, <1>2 DEF Follows
<1> QED BY <1>3, AdvanceStays, SaleGoesOn DEF OrderInv

LEMMA FindOrderStep ==
  ASSUME OrderInv, NEW s \in Sales, FindOrder(s)
  PROVE  OrderInv'
<1>1. sale[s] \in Sale /\ sale[s].at = "new" /\ Follows(s) /\ s \notin lines /\ ~sale[s].used
  BY DEF OrderInv, Ordered, SalesFollow, Follows, FindOrder, At
<1>2. UNCHANGED <<routine, orders, lines, booked>>
  BY DEF FindOrder, orderVars
<1>3. CASE Goto(s, "insert")
  <2>1. sale' = [sale EXCEPT ![s] = To(s, "insert")]
    BY <1>3, Moves DEF SaleSteps
  <2>2. /\ To(s, "insert") \in Sale /\ To(s, "insert").at = "insert" /\ To(s, "insert").order = sale[s].order
        /\ To(s, "insert").used = sale[s].used
    BY Moves DEF SaleSteps
  <2> QED BY <1>1, <1>2, <2>1, <2>2, SaleWaits DEF Place
<1>4. CASE /\ Open # {}
           /\ sale' = [sale EXCEPT ![s].at = "merge", ![s].order = Newest,
                        ![s].seen = orders[Newest].bill, ![s].stamp = orders[Newest].stamp]
  <2>1. Newest \in DOMAIN orders /\ Newest \in Nat /\ orders[Newest] \in Order
    BY <1>4, NewestIsOpen, OrdersType DEF OrderInv, Open
  <2> DEFINE o == Newest
             w == [sale[s] EXCEPT !.at = "merge", !.order = o, !.seen = orders[o].bill, !.stamp = orders[o].stamp]
  <2>2. sale' = [sale EXCEPT ![s] = w]
    BY <1>4
  <2>3. orders[o].bill \in SUBSET Sales /\ orders[o].stamp \in Nat
    BY <2>1 DEF Order
  <2> HIDE DEF o
  <2>4. /\ w \in Sale /\ w.at = "merge" /\ w.order = o /\ w.seen = orders[o].bill /\ w.stamp = orders[o].stamp
        /\ ~w.used
    BY <1>1, <2>1, <2>3 DEF Sale, o
  <2> HIDE DEF w
  <2>5. sale'[s] = w
    BY <2>2 DEF OrderInv, Ordered
  <2>6. Follows(s)'
    BY <1>1, <1>2, <2>1, <2>3, <2>4, <2>5 DEF Follows, Place, o
  <2> QED BY <1>2, <2>2, <2>4, <2>6, AdvanceStays, SaleGoesOn DEF OrderInv
<1> QED BY <1>3, <1>4 DEF FindOrder

LEMMA MergeStep ==
  ASSUME OrderInv, NEW s \in Sales, Merge(s)
  PROVE  OrderInv'
<1>1. /\ sale[s] \in Sale /\ sale[s].at = "merge" /\ Follows(s) /\ s \notin lines /\ Place(s) \in DOMAIN orders
      /\ ~sale[s].used
  BY DEF OrderInv, Ordered, SalesFollow, Follows, Merge, At
<1>2. UNCHANGED <<routine, lines, booked>>
  BY DEF Merge
<1>3. CASE Unmoved(s)
  <2>1. sale' = [sale EXCEPT ![s] = To(s, "items")] /\ Update(Place(s), sale[s].seen \cup {s})
    BY <1>3, Moves DEF Merge, SaleSteps
  <2>2. sale[s].seen \cup {s} \in SUBSET Sales
    BY <1>1 DEF Sale
  <2>3. OrdersAdvance /\ DOMAIN orders' = DOMAIN orders
    BY <1>1, <2>1, <2>2, AdvanceUpdate DEF OrderInv
  <2>4. sale'[s] = To(s, "items")
    BY <2>1 DEF OrderInv, Ordered
  <2>5. Follows(s)'
    BY <1>1, <1>2, <2>3, <2>4, Moves DEF Follows, Place, SaleSteps
  <2> QED BY <1>2, <2>1, <2>3, <2>5, Moves, SaleGoesOn DEF SaleSteps
<1>4. CASE ~Unmoved(s)
  <2>1. sale' = [sale EXCEPT ![s] = To(s, "refused")] /\ UNCHANGED orders
    BY <1>4, Moves DEF Merge, SaleSteps
  <2>2. /\ To(s, "refused") \in Sale /\ To(s, "refused").at = "refused" /\ To(s, "refused").order = sale[s].order
        /\ To(s, "refused").used = sale[s].used
    BY Moves DEF SaleSteps
  <2> QED BY <1>1, <1>2, <2>1, <2>2, SaleWaits DEF Place
<1> QED BY <1>3, <1>4

LEMMA InsertOrderStep ==
  ASSUME OrderInv, NEW s \in Sales, InsertOrder(s)
  PROVE  OrderInv'
<1>1. sale[s] \in Sale /\ sale[s].at = "insert" /\ s \notin lines /\ ~sale[s].used
  BY DEF OrderInv, Ordered, SalesFollow, Follows, InsertOrder, At
<1>2. UNCHANGED <<routine, lines, booked>>
  BY DEF InsertOrder
<1>3. NewOrder({s}) \in Order
  BY DEF NewOrder, Order
<1>4. orders' = Append(orders, NewOrder({s}))
  BY DEF InsertOrder
<1>5. OrdersAdvance /\ DOMAIN orders' = 1..(Len(orders) + 1) /\ Len(orders) \in Nat
  BY <1>3, <1>4, AdvanceAppend, OrdersType DEF OrderInv
<1> DEFINE n == Len(orders) + 1
           w == [sale[s] EXCEPT !.at = "items", !.order = n, !.created = TRUE]
<1>6. sale' = [sale EXCEPT ![s] = w]
  BY DEF InsertOrder
<1>7. n \in Nat /\ n \in DOMAIN orders'
  BY <1>5
<1> HIDE DEF n
<1>8. w \in Sale /\ w.at = "items" /\ w.order = n /\ ~w.used
  BY <1>1, <1>7 DEF Sale
<1> HIDE DEF w
<1>9. sale'[s] = w
  BY <1>6 DEF OrderInv, Ordered
<1>10. Follows(s)'
  BY <1>1, <1>2, <1>7, <1>8, <1>9 DEF Follows, Place
<1> QED BY <1>2, <1>5, <1>6, <1>8, <1>10, SaleGoesOn

\* Lines are written, the kitchen gets them, or something fails.
LEMMA LinesStep ==
  ASSUME OrderInv, NEW s \in Sales, OrderFails(s) \/ InsertItems(s) \/ InsertModifiers(s) \/ Die(s)
  PROVE  OrderInv'
<1>1. sale[s] \in Sale /\ Follows(s)
  BY DEF OrderInv, Ordered, SalesFollow
<1>2. UNCHANGED <<routine, orders, booked>>
  BY DEF OrderFails, InsertItems, InsertModifiers, Die, orderVars
<1>3. CASE OrderFails(s) \/ Die(s)
  <2>1. UNCHANGED lines
    BY <1>3 DEF OrderFails, Die, orderVars
  <2>2. PICK step \in SaleSteps \cap {"refused", "dead"} :
          sale' = [sale EXCEPT ![s] = To(s, step)] /\ (step = "refused" => ~sale[s].used)
    <3>1. CASE OrderFails(s)
      <4>1. ~sale[s].used
        BY <1>1, <3>1 DEF OrderFails, Follows
      <4> QED BY <3>1, <4>1, Moves DEF OrderFails, SaleSteps
    <3>2. CASE Die(s)
      BY <3>2, Moves DEF Die, SaleSteps
    <3> QED BY <1>3, <3>1, <3>2
  <2>3. To(s, step) \in Sale /\ To(s, step).at = step /\ To(s, step).order = sale[s].order /\ To(s, step).used = sale[s].used
    BY <2>2, Moves
  <2> QED BY <1>1, <1>2, <2>1, <2>2, <2>3, SaleWaits DEF Place
<1>4. CASE InsertItems(s)
  <2>1. PICK step \in SaleSteps \cap {"modifiers", "undo"} : sale' = [sale EXCEPT ![s] = To(s, step)]
    BY <1>4, Moves DEF InsertItems, SaleSteps
  <2>2. sale'[s] = To(s, step) /\ lines' \subseteq lines \cup {s}
    BY <1>4, <2>1 DEF OrderInv, Ordered, InsertItems
  <2>3. Place(s) \in DOMAIN orders /\ ~sale[s].used
    BY <1>1, <1>4 DEF Follows, InsertItems, At
  <2>4. /\ To(s, step) \in Sale /\ To(s, step).at = step /\ To(s, step).order = sale[s].order
        /\ To(s, step).used = sale[s].used
    BY <2>1, Moves
  <2>5. step \notin {"new", "merge", "insert", "items", "accepted"}
    BY <2>1
  <2>6. Follows(s)'
    BY <1>2, <2>2, <2>3, <2>4, <2>5 DEF Follows, Place
  <2> QED BY <1>2, <2>1, <2>2, <2>4, <2>6, AdvanceStays, SaleGoesOn DEF OrderInv
<1>5. CASE InsertModifiers(s)
  <2>1. sale[s].use \in Nat
    BY <1>1 DEF Sale
  <2>2. Place(s) \in DOMAIN orders /\ UNCHANGED lines /\ ~sale[s].used
    BY <1>1, <1>5 DEF Follows, InsertModifiers, At, orderVars
  <2>3. CASE Goto(s, "undo")
    <3>1. sale' = [sale EXCEPT ![s] = To(s, "undo")]
      BY <2>3, Moves DEF SaleSteps
    <3>2. /\ To(s, "undo") \in Sale /\ To(s, "undo").at = "undo" /\ To(s, "undo").order = sale[s].order
          /\ To(s, "undo").used = sale[s].used
      BY Moves DEF SaleSteps
    <3> QED BY <1>1, <1>2, <2>2, <3>1, <3>2, SaleWaits DEF Place
  <2>4. CASE sale' = [sale EXCEPT ![s].at = IF sale[s].use > 0 THEN "rows" ELSE "accepted", ![s].used = TRUE]
    <3> DEFINE step == IF sale[s].use > 0 THEN "rows" ELSE "accepted"
               w == [sale[s] EXCEPT !.at = step, !.used = TRUE]
    <3>1. sale' = [sale EXCEPT ![s] = w]
      BY <2>4
    <3>2. step \in {"rows", "accepted"} /\ (step = "accepted" => sale[s].use = 0)
      BY <2>1
    <3> HIDE DEF step
    <3>3. w \in Sale /\ w.at = step /\ w.order = sale[s].order /\ w.use = sale[s].use
      BY <1>1, <3>2 DEF Sale
    <3> HIDE DEF w
    <3> QED BY <1>1, <1>2, <2>2, <3>1, <3>2, <3>3, SaleWaits DEF Place
  <2> QED BY <1>5, <2>3, <2>4 DEF InsertModifiers
<1> QED BY <1>3, <1>4, <1>5

\* An undo kills an order or puts back a bill, under a new stamp.
LEMMA UndoStep ==
  ASSUME OrderInv, NEW s \in Sales, Undo(s)
  PROVE  OrderInv'
<1>1. /\ sale[s] \in Sale /\ sale[s].at = "undo" /\ Follows(s) /\ Place(s) \in DOMAIN orders
      /\ ~sale[s].used
  BY DEF OrderInv, Ordered, SalesFollow, Follows, Undo, At
<1>2. UNCHANGED <<routine, booked>> /\ sale' = [sale EXCEPT ![s] = To(s, "refused")]
  BY Moves DEF Undo, SaleSteps
<1>3. /\ To(s, "refused") \in Sale /\ To(s, "refused").at = "refused" /\ To(s, "refused").order = sale[s].order
      /\ To(s, "refused").used = sale[s].used
  BY Moves DEF SaleSteps
<1>4. OrdersAdvance /\ lines' \subseteq lines
  <2>1. CASE UNCHANGED orderVars
    BY <2>1, AdvanceStays DEF orderVars, OrderInv
  <2>2. CASE UndoOrder(s) /\ sale[s].created
    <3> DEFINE e == [orders[Place(s)] EXCEPT !.live = FALSE]
    <3>1. orders[Place(s)] \in Order
      BY <1>1, OrdersType DEF OrderInv
    <3>2. /\ e \in Order /\ e.live = FALSE /\ e.stamp = orders[Place(s)].stamp /\ e.bill = orders[Place(s)].bill
          /\ e.flagged = orders[Place(s)].flagged /\ e.stamp \in Nat
      BY <3>1 DEF Order
    <3>3. orders' = [orders EXCEPT ![Place(s)] = e] /\ lines' \subseteq lines
      BY <2>2 DEF UndoOrder
    <3> HIDE DEF e
    <3>4. orders[Place(s)].stamp <= e.stamp
      BY <3>2
    <3> QED BY <1>1, <3>2, <3>3, <3>4, AdvanceExcept DEF OrderInv
  <2>3. CASE UndoOrder(s) /\ ~sale[s].created
    <3>1. Update(Place(s), sale[s].seen) /\ UNCHANGED lines
      BY <2>3 DEF UndoOrder
    <3>2. sale[s].seen \in SUBSET Sales
      BY <1>1 DEF Sale
    <3> QED BY <1>1, <3>1, <3>2, AdvanceUpdate DEF OrderInv
  <2> QED BY <2>1, <2>2, <2>3 DEF Undo
<1>5. sale'[s] = To(s, "refused")
  BY <1>2 DEF OrderInv, Ordered
<1>6. Follows(s)'
  BY <1>1, <1>3, <1>4, <1>5 DEF Follows, Place, OrdersAdvance
<1> QED BY <1>2, <1>3, <1>4, <1>6, SaleGoesOn

\* A sale is through once its movement is written.
LEMMA ConsumptionStep ==
  ASSUME OrderInv, NEW s \in Sales, ConsumptionRows(s) \/ ConsumptionMovement(s)
  PROVE  OrderInv'
<1>1. sale[s] \in Sale /\ sale[s].at \in {"rows", "moves"} /\ Follows(s) /\ Place(s) \in DOMAIN orders
  BY DEF OrderInv, Ordered, SalesFollow, Follows, ConsumptionRows, ConsumptionMovement, At
<1>2. UNCHANGED <<routine, orders, lines>> /\ booked \subseteq booked'
  BY DEF ConsumptionRows, ConsumptionMovement, orderVars
<1>3. PICK step \in SaleSteps \cap {"moves", "flag", "accepted"} :
        /\ sale' = [sale EXCEPT ![s] = To(s, step)]
        /\ step = "accepted" => s \in booked'
  BY Moves DEF ConsumptionRows, ConsumptionMovement, SaleSteps
<1>4. To(s, step) \in Sale /\ To(s, step).at = step /\ To(s, step).order = sale[s].order
  BY <1>3, Moves
<1>5. step \notin {"new", "merge", "insert", "items"}
  BY <1>3
<1> QED BY <1>1, <1>2, <1>3, <1>4, <1>5, SaleWaits DEF Place

\* Or once its order carries the flag, or the flag was tried in vain.
LEMMA FlagStep ==
  ASSUME OrderInv, NEW s \in Sales, FlagOrder(s)
  PROVE  OrderInv'
<1>1. sale[s] \in Sale /\ sale[s].at = "flag" /\ Follows(s) /\ Place(s) \in DOMAIN orders
  BY DEF OrderInv, Ordered, SalesFollow, Follows, FlagOrder, At
<1>2. UNCHANGED <<routine, lines, booked>>
  BY DEF FlagOrder
<1>3. CASE /\ Here(s) /\ Goto(s, "accepted")
           /\ orders' = [orders EXCEPT ![Place(s)].flagged = TRUE, ![Place(s)].stamp = @ + 1]
  <2>1. sale' = [sale EXCEPT ![s] = To(s, "accepted")]
    BY <1>3, Moves DEF SaleSteps
  <2> DEFINE o == orders[Place(s)]
             n == o.stamp + 1
             e == [o EXCEPT !.flagged = TRUE, !.stamp = n]
  <2>2. o \in Order
    BY <1>1, OrdersType DEF OrderInv
  <2>3. o.stamp \in Nat /\ n \in Nat
    BY <2>2 DEF Order
  <2>4. orders' = [orders EXCEPT ![Place(s)] = e]
    BY <1>3
  <2>5. o.stamp <= n /\ n # o.stamp
    BY <2>3
  <2> HIDE DEF n
  <2>6. e \in Order /\ e.flagged = TRUE /\ e.stamp = n /\ e.live = o.live
    BY <2>2, <2>3 DEF Order
  <2> HIDE DEF e
  <2>7. OrdersAdvance /\ DOMAIN orders' = DOMAIN orders /\ orders'[Place(s)] = e
    BY <1>1, <2>4, <2>5, <2>6, AdvanceExcept DEF OrderInv
  <2>8. sale'[s] = To(s, "accepted")
    BY <2>1 DEF OrderInv, Ordered
  <2>9. /\ To(s, "accepted") \in Sale /\ To(s, "accepted").at = "accepted"
        /\ To(s, "accepted").order = sale[s].order
    BY Moves DEF SaleSteps
  <2>10. Follows(s)'
    BY <1>1, <2>6, <2>7, <2>8, <2>9 DEF Follows, Place
  <2> QED BY <1>2, <2>1, <2>7, <2>9, <2>10, SaleGoesOn
<1>4. CASE ~Here(s) /\ Goto(s, "accepted") /\ UNCHANGED orders
  <2>1. sale' = [sale EXCEPT ![s] = To(s, "accepted")]
    BY <1>4, Moves DEF SaleSteps
  <2>2. /\ To(s, "accepted") \in Sale /\ To(s, "accepted").at = "accepted"
        /\ To(s, "accepted").order = sale[s].order
    BY Moves DEF SaleSteps
  <2> QED BY <1>1, <1>2, <1>4, <2>1, <2>2, SaleWaits DEF Place
<1>5. CASE sale' = [sale EXCEPT ![s].at = "accepted", ![s].blind = TRUE] /\ UNCHANGED orders
  <2> DEFINE w == [sale[s] EXCEPT !.at = "accepted", !.blind = TRUE]
  <2>1. sale' = [sale EXCEPT ![s] = w]
    BY <1>5
  <2>2. w \in Sale /\ w.at = "accepted" /\ w.blind = TRUE /\ w.order = sale[s].order
    BY <1>1 DEF Sale
  <2> HIDE DEF w
  <2> QED BY <1>1, <1>2, <1>5, <2>1, <2>2, SaleWaits DEF Place
<1> QED BY <1>3, <1>4, <1>5 DEF FlagOrder

LEMMA RoutineStep ==
  ASSUME OrderInv, NEW s \in Sales, RoutineSale(s)
  PROVE  OrderInv'
<1>1. sale[s] \in Sale /\ sale[s].at = "new" /\ s \notin lines /\ routine = TRUE
  BY DEF OrderInv, Ordered, SalesFollow, Follows, RoutineSale, At
<1>2. UNCHANGED <<routine, booked>> /\ lines' = lines \cup {s}
  BY DEF RoutineSale
<1> DEFINE o == IF Open = {} THEN Len(orders) + 1 ELSE Newest
           w == [sale[s] EXCEPT !.at = "accepted", !.order = o, !.used = TRUE]
<1>3. sale' = [sale EXCEPT ![s] = w]
  BY DEF RoutineSale
<1>4. o \in Nat /\ o \in DOMAIN orders' /\ OrdersAdvance
  <2>1. CASE Open = {}
    <3>1. NewOrder({s}) \in Order
      BY DEF NewOrder, Order
    <3>2. orders' = Append(orders, NewOrder({s}))
      BY <2>1 DEF RoutineSale
    <3>3. OrdersAdvance /\ DOMAIN orders' = 1..(Len(orders) + 1) /\ Len(orders) \in Nat
      BY <3>1, <3>2, AdvanceAppend, OrdersType DEF OrderInv
    <3>4. o = Len(orders) + 1
      BY <2>1
    <3> QED BY <3>3, <3>4
  <2>2. CASE Open # {}
    <3>1. o = Newest /\ o \in DOMAIN orders /\ o \in Nat /\ orders[o] \in Order
      BY <2>2, NewestIsOpen, OrdersType DEF OrderInv, Open
    <3>2. Update(o, orders[o].bill \cup {s})
      BY <2>2, <3>1 DEF RoutineSale
    <3>3. orders[o].bill \cup {s} \in SUBSET Sales
      BY <3>1 DEF Order
    <3> HIDE DEF o
    <3> QED BY <3>1, <3>2, <3>3, AdvanceUpdate DEF OrderInv
  <2> QED BY <2>1, <2>2
<1> HIDE DEF o
<1>5. w \in Sale /\ w.at = "accepted" /\ w.order = o
  BY <1>1, <1>4 DEF Sale
<1> HIDE DEF w
<1>6. sale'[s] = w
  BY <1>3 DEF OrderInv, Ordered
<1>7. Follows(s)'
  BY <1>1, <1>2, <1>4, <1>5, <1>6 DEF Follows, Place
<1> QED BY <1>2, <1>3, <1>4, <1>5, <1>7, SaleGoesOn

LEMMA SalesStep ==
  ASSUME OrderInv, NEW s \in Sales, SaleStep(s)
  PROVE  OrderInv'
BY FindOrderStep, MergeStep, InsertOrderStep, LinesStep, UndoStep, ConsumptionStep, FlagStep, RoutineStep
   DEF SaleStep

\* Purchases, counts, prices and losses touch no order.
LEMMA NoOrderTouched ==
  ASSUME (\E p \in Purchases : PurchaseStep(p)) \/ (\E c \in Counts : CountStep(c)) \/ EditCost \/ Lose
  PROVE  UNCHANGED <<routine, orders, lines, sale, booked>>
<1>1. ASSUME NEW p \in Purchases, PurchaseStep(p)
      PROVE  UNCHANGED <<routine, orders, lines, sale, booked>>
  BY <1>1 DEF PurchaseStep, PurchaseRead, PurchaseWrite, PurchaseFails, orderVars
<1>2. ASSUME NEW c \in Counts, CountStep(c)
      PROVE  UNCHANGED <<routine, orders, lines, sale, booked>>
  BY <1>2 DEF CountStep, Stamp, LookAtShelf, ReadStock, ReadMovements, CountWrite, CountFails, orderVars
<1> QED BY <1>1, <1>2 DEF EditCost, Lose, orderVars

LEMMA OrderInvStays ==
  ASSUME OrderInv, UNCHANGED <<routine, orders, lines, sale, booked>>
  PROVE  OrderInv'
BY DEF OrderInv, Ordered, SalesFollow, Follows, Here, Open, Place

LEMMA OrderInductive == Spec => []OrderInv
<1>1. Init => OrderInv
  <2> SUFFICES ASSUME Init PROVE OrderInv
    OBVIOUS
  <2>1. Uses \subseteq Nat /\ lines = {} /\ NewOrder({}) \in Order
    BY StockAssumption DEF Init, NewOrder, Order
  <2>2. <<>> \in Seq(Order) /\ <<NewOrder({})>> \in Seq(Order)
    BY <2>1
  <2>3. sale \in [Sales -> Sale] /\ \A s \in Sales : sale[s].at = "new" /\ ~sale[s].used
    <3> DEFINE New == {[at |-> "new", order |-> 0, created |-> FALSE, seen |-> {},
                        stamp |-> 0, use |-> u, used |-> FALSE, blind |-> FALSE] : u \in Uses}
    <3>1. \A w \in New : w \in Sale /\ w.at = "new" /\ ~w.used
      <4> TAKE w \in New
      <4>1. PICK u \in Uses : w = [at |-> "new", order |-> 0, created |-> FALSE, seen |-> {},
                                   stamp |-> 0, use |-> u, used |-> FALSE, blind |-> FALSE]
        OBVIOUS
      <4> QED BY <2>1, <4>1 DEF Sale
    <3>2. sale \in [Sales -> New]
      BY DEF Init
    <3> HIDE DEF New
    <3> QED BY <3>1, <3>2
  <2> QED BY <2>1, <2>2, <2>3 DEF Init, OrderInv, Ordered, SalesFollow, Follows
<1>2. OrderInv /\ [Next]_vars => OrderInv'
  <2>1. OrderInv /\ Next => OrderInv'
    BY SalesStep, NoOrderTouched, OrderInvStays DEF Next
  <2>2. OrderInv /\ UNCHANGED vars => OrderInv'
    BY OrderInvStays DEF vars, orderVars
  <2> QED BY <2>1, <2>2
<1> QED BY <1>1, <1>2, PTL DEF Spec

\* The request of one sale changes its own record only.
LEMMA OneSaleAtATime ==
  ASSUME Ordered, NEW s \in Sales, SaleStep(s), NEW t \in Sales, t # s
  PROVE  sale'[t] = sale[t]
<1>1. CASE FindOrder(s) \/ Merge(s) \/ InsertOrder(s) \/ OrderFails(s)
  BY <1>1 DEF Ordered, FindOrder, Merge, InsertOrder, OrderFails, Goto
<1>2. CASE InsertItems(s) \/ InsertModifiers(s) \/ Undo(s) \/ ConsumptionRows(s)
  BY <1>2 DEF Ordered, InsertItems, InsertModifiers, Undo, ConsumptionRows, Goto
<1>3. CASE ConsumptionMovement(s) \/ FlagOrder(s) \/ Die(s) \/ RoutineSale(s)
  BY <1>3 DEF Ordered, ConsumptionMovement, FlagOrder, Die, RoutineSale, Goto
<1> QED BY <1>1, <1>2, <1>3 DEF SaleStep

\* An order is gone only if the request that made it failed and undid it.
Deletions ==
  \A o \in DOMAIN orders : ~orders[o].live =>
    \E t \in Sales : sale[t].created /\ sale[t].order = o /\ sale[t].at = "refused"

LEMMA DeletionsStay ==
  ASSUME Ordered, Deletions, NEW s \in Sales, sale[s].at # "refused",
         \A t \in Sales : t # s => sale'[t] = sale[t],
         \A o \in DOMAIN orders' : ~orders'[o].live => o \in DOMAIN orders /\ ~orders[o].live
  PROVE  Deletions'
BY DEF Deletions

LEMMA SaleDeletes ==
  ASSUME OrderInv, Deletions, NEW s \in Sales, SaleStep(s)
  PROVE  Deletions'
<1>1. \A t \in Sales : t # s => sale'[t] = sale[t]
  BY OneSaleAtATime DEF OrderInv
<1>2. sale[s].at # "refused" /\ Ordered /\ sale[s] \in Sale /\ DOMAIN sale = Sales
  BY DEF OrderInv, Ordered, SaleStep, At, FindOrder, Merge, InsertOrder, OrderFails, InsertItems, InsertModifiers,
         Undo, ConsumptionRows, ConsumptionMovement, FlagOrder, Die, RoutineSale
<1>3. CASE UNCHANGED orders
  BY <1>1, <1>2, <1>3, DeletionsStay
<1>4. ASSUME NEW x \in DOMAIN orders, NEW bill \in SUBSET Sales, Update(x, bill)
      PROVE  Deletions'
  <2>1. /\ DOMAIN orders' = DOMAIN orders /\ orders'[x].live = orders[x].live
        /\ \A y \in DOMAIN orders : y # x => orders'[y] = orders[y]
    BY <1>2, <1>4, AdvanceUpdate
  <2> QED BY <1>1, <1>2, <2>1, DeletionsStay
<1>5. ASSUME orders' = Append(orders, NewOrder({s}))
      PROVE  Deletions'
  <2>1. NewOrder({s}) \in Order /\ NewOrder({s}).live
    BY DEF NewOrder, Order
  <2>2. /\ DOMAIN orders' = 1..(Len(orders) + 1) /\ orders'[Len(orders) + 1] = NewOrder({s})
        /\ \A o \in DOMAIN orders : orders'[o] = orders[o]
    BY <1>2, <1>5, <2>1, AdvanceAppend
  <2>3. DOMAIN orders = 1..Len(orders) /\ Len(orders) \in Nat
    BY <1>2, OrdersType
  <2>4. \A o \in DOMAIN orders' : o \in DOMAIN orders \/ o = Len(orders) + 1
    BY <2>2, <2>3
  <2>5. \A o \in DOMAIN orders' : ~orders'[o].live => o \in DOMAIN orders /\ ~orders[o].live
    BY <2>1, <2>2, <2>4
  <2> QED BY <1>1, <1>2, <2>5, DeletionsStay
<1>6. CASE Merge(s)
  <2>1. sale[s].seen \cup {s} \in SUBSET Sales /\ (Unmoved(s) => Place(s) \in DOMAIN orders)
    BY <1>2 DEF Sale, Unmoved, Here, Open
  <2> QED BY <1>3, <1>4, <1>6, <2>1 DEF Merge
<1>7. CASE FlagOrder(s) /\ ~UNCHANGED orders
  <2>1. Here(s) /\ orders' = [orders EXCEPT ![Place(s)].flagged = TRUE, ![Place(s)].stamp = @ + 1]
    BY <1>7 DEF FlagOrder
  <2>2. orders[Place(s)] \in Order /\ Place(s) \in DOMAIN orders
    BY <1>2, <2>1, OrdersType DEF Here, Open
  <2>3. /\ DOMAIN orders' = DOMAIN orders /\ orders'[Place(s)].live = orders[Place(s)].live
        /\ \A y \in DOMAIN orders : y # Place(s) => orders'[y] = orders[y]
    BY <2>1, <2>2 DEF Order
  <2> QED BY <1>1, <1>2, <2>3, DeletionsStay
<1>8. CASE InsertOrder(s)
  BY <1>5, <1>8 DEF InsertOrder
<1>9. CASE RoutineSale(s)
  <2>1. CASE Open = {}
    BY <1>5, <1>9, <2>1 DEF RoutineSale
  <2>2. CASE Open # {}
    <3>1. Newest \in DOMAIN orders /\ orders[Newest] \in Order
      BY <1>2, <2>2, NewestIsOpen, OrdersType DEF Open
    <3>2. orders[Newest].bill \cup {s} \in SUBSET Sales
      BY <3>1 DEF Order
    <3> QED BY <1>4, <1>9, <2>2, <3>1, <3>2 DEF RoutineSale
  <2> QED BY <2>1, <2>2
<1>10. CASE Undo(s) /\ ~UNCHANGED orders
  <2>1. UndoOrder(s) /\ Place(s) \in DOMAIN orders /\ sale' = [sale EXCEPT ![s] = To(s, "refused")]
    <3>1. Follows(s) /\ sale[s].at = "undo"
      BY <1>10 DEF OrderInv, SalesFollow, Undo, At
    <3>2. Place(s) \in DOMAIN orders
      BY <3>1 DEF Follows
    <3> QED BY <1>10, <3>2, Moves DEF Undo, orderVars, SaleSteps
  <2>2. CASE ~sale[s].created
    <3>1. sale[s].seen \in SUBSET Sales
      BY <1>2 DEF Sale
    <3> QED BY <1>4, <2>1, <2>2, <3>1 DEF UndoOrder
  <2>3. CASE sale[s].created
    <3>1. orders' = [orders EXCEPT ![Place(s)].live = FALSE]
      BY <2>1, <2>3 DEF UndoOrder
    <3>2. DOMAIN orders' = DOMAIN orders /\ \A o \in DOMAIN orders : o # Place(s) => orders'[o] = orders[o]
      BY <3>1
    <3>3. sale'[s].created /\ sale'[s].order = Place(s) /\ sale'[s].at = "refused"
      <4>1. sale'[s] = To(s, "refused")
        BY <1>2, <2>1
      <4> QED BY <2>3, <4>1, Moves DEF Place, SaleSteps
    <3> SUFFICES ASSUME NEW o \in DOMAIN orders', ~orders'[o].live
                 PROVE  \E t \in Sales : sale'[t].created /\ sale'[t].order = o /\ sale'[t].at = "refused"
      BY DEF Deletions
    <3>4. CASE o = Place(s)
      BY <3>3, <3>4
    <3>5. CASE o # Place(s)
      <4>1. PICK t \in Sales : sale[t].created /\ sale[t].order = o /\ sale[t].at = "refused"
        BY <3>2, <3>5 DEF Deletions
      <4> QED BY <1>1, <1>2, <4>1
    <3> QED BY <3>4, <3>5
  <2> QED BY <2>2, <2>3
<1>11. UNCHANGED orders \/ Merge(s) \/ FlagOrder(s) \/ InsertOrder(s) \/ RoutineSale(s) \/ Undo(s)
  BY DEF SaleStep, FindOrder, OrderFails, InsertItems, InsertModifiers, ConsumptionRows, ConsumptionMovement,
         Die, orderVars
<1> QED BY <1>3, <1>6, <1>7, <1>8, <1>9, <1>10, <1>11

LEMMA DeletionsInductive == Spec => [](OrderInv /\ Deletions)
<1>1. Init => Deletions
  <2> SUFFICES ASSUME Init, NEW o \in DOMAIN orders PROVE orders[o].live
    BY DEF Deletions
  <2>1. NewOrder({}).live
    BY DEF NewOrder
  <2>2. orders = <<>> \/ orders = <<NewOrder({})>>
    BY DEF Init
  <2> QED BY <2>1, <2>2
<1>2. OrderInv /\ Deletions /\ [Next]_vars => Deletions'
  <2>1. ASSUME Deletions, UNCHANGED <<orders, sale>>
        PROVE  Deletions'
    BY <2>1 DEF Deletions
  <2> QED BY <2>1, SaleDeletes, NoOrderTouched DEF Next, vars, orderVars
<1> QED BY <1>1, <1>2, OrderInductive, PTL DEF Spec

\* However many sales are under way and wherever they fail, what the kitchen
\* used is booked, on its way to the book, or its order is flagged, with the
\* exceptions BookedOrFlagged names for that sale: the routine made the order,
\* the request died, the flag was not written, or the request that made the
\* order deleted it (createOrder and writeFrozenConsumption of data.ts).
THEOREM SalesBookedOrFlagged == Spec => []BookedOrFlagged
<1>1. OrderInv /\ Deletions => BookedOrFlagged
  <2> SUFFICES ASSUME OrderInv, Deletions, NEW s \in Sales, sale[s].used, sale[s].use > 0,
                      s \notin booked, sale[s].at \notin {"rows", "moves", "flag", "dead"},
                      ~routine, ~sale[s].blind, ~(Here(s) /\ orders[Place(s)].flagged)
               PROVE  Deleted(s)
    BY DEF BookedOrFlagged, At
  <2>1. /\ Follows(s) /\ sale[s].use # 0 /\ sale[s].at = "accepted"
        /\ Place(s) \in DOMAIN orders
    BY DEF OrderInv, SalesFollow, Follows
  <2>2. ~Here(s)
    BY <2>1 DEF Follows
  <2>3. PICK t \in Sales : sale[t].created /\ sale[t].order = Place(s) /\ sale[t].at = "refused"
    BY <2>1, <2>2 DEF Deletions, Here, Open
  <2>4. t # s
    BY <2>1, <2>3
  <2> QED BY <2>2, <2>3, <2>4 DEF Deleted, Place, At
<1> QED BY <1>1, DeletionsInductive, PTL

-----------------------------------------------------------------------------
(* Rounds that share an order. *)

\* Sales whose own record stands in the way of losing a round.
LEMMA OnBillKept ==
  ASSUME OrderInv, NEW s \in Sales, OnBill(s), NEW o, o = Place(s),
         s \in lines', Place(s)' = o, orders'[o].live = orders[o].live,
         orders[o].bill \subseteq orders'[o].bill
  PROVE  OnBill(s)'
BY DEF OnBill, Standing, Place

LEMMA RoundsKept ==
  ASSUME OrderInv, NEW s \in Sales, OnBill(s), NEW t \in Sales, SaleStep(t), ~Undo(t)
  PROVE  OnBill(s)'
<1>1. /\ s \in lines /\ Place(s) \in DOMAIN orders /\ orders[Place(s)] \in Order
      /\ sale[s].at \notin {"new", "merge", "insert", "items"}
  <2>1. s \in lines /\ Follows(s)
    BY DEF OnBill, Standing, OrderInv, SalesFollow
  <2> QED BY <2>1, OrdersType DEF Follows, OrderInv
<1>2. Place(s)' = Place(s)
  <2>1. CASE FindOrder(t) \/ InsertOrder(t) \/ RoutineSale(t)
    <3>1. sale[t].at \in {"new", "insert"}
      BY <2>1 DEF FindOrder, InsertOrder, RoutineSale, At
    <3>2. t # s
      BY <1>1, <3>1
    <3>3. sale'[s] = sale[s]
      BY <2>1, <3>2 DEF FindOrder, InsertOrder, RoutineSale, Goto, OrderInv, Ordered
    <3> QED BY <3>3 DEF Place
  <2>2. ASSUME NEW step, Goto(t, step)
        PROVE  Place(s)' = Place(s)
    <3>1. sale' = [sale EXCEPT ![t] = [sale[t] EXCEPT !.at = step]]
      BY <2>2 DEF Goto
    <3>2. sale[t] \in Sale /\ DOMAIN sale = Sales
      BY DEF OrderInv, Ordered
    <3> DEFINE w == [sale[t] EXCEPT !.at = step]
    <3>3. w.order = sale[t].order
      BY <3>2 DEF Sale
    <3>4. sale' = [sale EXCEPT ![t] = w]
      BY <3>1
    <3> HIDE DEF w
    <3> QED BY <3>2, <3>3, <3>4 DEF Place
  <2>3. CASE sale' = [sale EXCEPT ![t].at = "accepted", ![t].blind = TRUE]
    <3> DEFINE w == [sale[t] EXCEPT !.at = "accepted", !.blind = TRUE]
    <3>1. sale[t] \in Sale /\ DOMAIN sale = Sales
      BY DEF OrderInv, Ordered
    <3>2. w.order = sale[t].order
      BY <3>1 DEF Sale
    <3>3. sale' = [sale EXCEPT ![t] = w]
      BY <2>3
    <3> HIDE DEF w
    <3> QED BY <3>1, <3>2, <3>3 DEF Place
  <2>4. CASE sale' = [sale EXCEPT ![t].at = IF sale[t].use > 0 THEN "rows" ELSE "accepted", ![t].used = TRUE]
    <3> DEFINE step == IF sale[t].use > 0 THEN "rows" ELSE "accepted"
    <3>1. sale[t] \in Sale /\ DOMAIN sale = Sales
      BY DEF OrderInv, Ordered
    <3> HIDE DEF step
    <3> DEFINE w == [sale[t] EXCEPT !.at = step, !.used = TRUE]
    <3>2. w.order = sale[t].order
      BY <3>1 DEF Sale
    <3>3. sale' = [sale EXCEPT ![t] = w]
      BY <2>4 DEF step
    <3> HIDE DEF w
    <3> QED BY <3>1, <3>2, <3>3 DEF Place
  <2>5. \/ FindOrder(t) \/ InsertOrder(t) \/ RoutineSale(t)
        \/ \E step \in SaleSteps : Goto(t, step)
        \/ sale' = [sale EXCEPT ![t].at = "accepted", ![t].blind = TRUE]
        \/ sale' = [sale EXCEPT ![t].at = IF sale[t].use > 0 THEN "rows" ELSE "accepted", ![t].used = TRUE]
    BY DEF SaleStep, Merge, OrderFails, InsertItems, InsertModifiers, ConsumptionRows, ConsumptionMovement,
           FlagOrder, Die, SaleSteps
  <2> QED BY <2>1, <2>2, <2>3, <2>4, <2>5
<1>3. s \in lines'
  BY <1>1 DEF SaleStep, FindOrder, Merge, InsertOrder, OrderFails, InsertItems, InsertModifiers,
              ConsumptionRows, ConsumptionMovement, FlagOrder, Die, RoutineSale, orderVars
<1>4. orders'[Place(s)].live = orders[Place(s)].live /\ orders[Place(s)].bill \subseteq orders'[Place(s)].bill
  <2> DEFINE o == Place(s)
  <2>0. o \in DOMAIN orders /\ orders[o] \in Order
    BY <1>1
  <2>1. CASE UNCHANGED orders
    BY <2>1
  <2>2. ASSUME NEW x \in DOMAIN orders, NEW bill \in SUBSET Sales, Update(x, bill), orders[x].bill \subseteq bill
        PROVE  orders'[o].live = orders[o].live /\ orders[o].bill \subseteq orders'[o].bill
    <3>1. /\ orders'[x].bill = bill /\ orders'[x].live = orders[x].live
          /\ \A y \in DOMAIN orders : y # x => orders'[y] = orders[y]
      BY <2>2, AdvanceUpdate DEF OrderInv
    <3> QED BY <2>0, <2>2, <3>1
  <2>3. ASSUME NEW e \in Order, orders' = Append(orders, e)
        PROVE  orders'[o].live = orders[o].live /\ orders[o].bill \subseteq orders'[o].bill
    <3>1. \A y \in DOMAIN orders : orders'[y] = orders[y]
      BY <2>3, AdvanceAppend DEF OrderInv
    <3> QED BY <2>0, <3>1
  <2>4. CASE Merge(t)
    <3>1. CASE Unmoved(t)
      <4>1. Follows(t) /\ sale[t].at = "merge" /\ sale[t] \in Sale
        BY <2>4 DEF OrderInv, Ordered, SalesFollow, Merge, At
      <4>2. Place(t) \in DOMAIN orders /\ sale[t].seen = orders[Place(t)].bill
        BY <3>1, <4>1 DEF Follows, Unmoved
      <4>3. Update(Place(t), sale[t].seen \cup {t}) /\ sale[t].seen \cup {t} \in SUBSET Sales
        BY <2>4, <3>1, <4>1 DEF Merge, Sale
      <4> QED BY <2>2, <4>2, <4>3
    <3>2. CASE ~Unmoved(t)
      BY <2>1, <2>4, <3>2 DEF Merge
    <3> QED BY <3>1, <3>2
  <2>5. CASE FlagOrder(t)
    <3>1. CASE orders' = [orders EXCEPT ![Place(t)].flagged = TRUE, ![Place(t)].stamp = @ + 1]
      BY <2>0, <3>1 DEF Order
    <3> QED BY <2>1, <2>5, <3>1 DEF FlagOrder
  <2>6. CASE InsertOrder(t) \/ RoutineSale(t)
    <3>1. NewOrder({t}) \in Order
      BY DEF NewOrder, Order
    <3>2. CASE orders' = Append(orders, NewOrder({t}))
      BY <2>3, <3>1, <3>2
    <3>3. CASE Open # {} /\ RoutineSale(t)
      <4>1. Newest \in DOMAIN orders /\ orders[Newest] \in Order
        BY <3>3, NewestIsOpen, OrdersType DEF OrderInv, Open
      <4>2. Update(Newest, orders[Newest].bill \cup {t}) /\ orders[Newest].bill \cup {t} \in SUBSET Sales
        BY <3>3, <4>1 DEF RoutineSale, Order
      <4> QED BY <2>2, <4>1, <4>2
    <3> QED BY <2>6, <3>2, <3>3 DEF InsertOrder, RoutineSale
  <2>7. UNCHANGED orders \/ Merge(t) \/ FlagOrder(t) \/ InsertOrder(t) \/ RoutineSale(t)
    BY DEF SaleStep, FindOrder, OrderFails, InsertItems, InsertModifiers, ConsumptionRows, ConsumptionMovement,
           Die, orderVars
  <2> QED BY <2>1, <2>4, <2>5, <2>6, <2>7
<1> QED BY <1>2, <1>3, <1>4, OnBillKept

\* No two of any number of rounds overwrite each other: the update that merges
\* a round carries the stamp of the bill it read (createOrder of data.ts).
\* Only the undo of a request that failed takes a round of another off the order.
THEOREM RoundsLostOnlyByUndo == Spec => LostOnlyByUndo
<1>1. ASSUME OrderInv, [Next]_vars, NEW s \in Sales, OnBill(s), sale[s].at # "undo", ~OnBill(s)'
      PROVE  \E t \in Sales \ {s} : At(t, "undo") /\ At(t, "refused")'
  <2>1. ~UNCHANGED <<routine, orders, lines, sale, booked>>
    BY <1>1 DEF OnBill, Standing, Place
  <2>2. PICK t \in Sales : SaleStep(t)
    BY <1>1, <2>1, NoOrderTouched DEF Next, vars, orderVars
  <2>3. Undo(t)
    BY <1>1, <2>2, RoundsKept
  <2>4. At(t, "undo") /\ sale' = [sale EXCEPT ![t] = To(t, "refused")] /\ To(t, "refused").at = "refused"
    BY <1>1, <2>3, Moves DEF Undo, SaleSteps
  <2>5. At(t, "refused")'
    BY <1>1, <2>4 DEF OrderInv, Ordered, At
  <2> QED BY <1>1, <2>4, <2>5 DEF At
<1>2. OrderInv /\ [Next]_vars =>
        [\A s \in Sales : OnBill(s) /\ sale[s].at # "undo" /\ ~OnBill(s)' =>
           \E t \in Sales \ {s} : At(t, "undo") /\ At(t, "refused")']_vars
  BY <1>1
<1> QED BY <1>2, OrderInductive, PTL DEF Spec, LostOnlyByUndo

-----------------------------------------------------------------------------
(* The book of the ingredient. *)

\* What a count notes; drift and debt are sums over sets of sales and left open.
CountRow(w) ==
  [done : SUBSET {"stamp", "look", "stock", "moves", "write"},
   stamp : Nat, counted : Int, looked : Nat, drift : {w.drift}, owed : {w.owed},
   qty : Int, qtyAt : Nat, since : Int, sinceAt : Nat]

CountsType ==
  /\ DOMAIN count = Counts /\ count = [c \in Counts |-> count[c]]
  /\ \A c \in Counts : /\ count[c] \in CountRow(count[c])
                       /\ Did(c, "stamp") => count[c].stamp # 0

\* A purchase that found the stock row holds its lock and knows the quantity.
Held == \A p \in Purchases :
          purchase[p].at = "locked" /\ purchase[p].found => lock = p /\ purchase[p].qty = Quantity

BookInv ==
  /\ balance \in Seq(Int) /\ balance # <<>> /\ shelf \in Int /\ row \in BOOLEAN
  /\ purchase \in [Purchases -> Purchase]
  /\ CountsType /\ Held

LEMMA BalanceType ==
  ASSUME BookInv
  PROVE  /\ Quantity \in Int /\ Len(balance) \in Nat \ {0}
         /\ \A n \in Nat \ {0} : Since(n) \in Int
<1>1. Len(balance) \in Nat \ {0}
  BY EmptySeq DEF BookInv
<1>2. \A n \in 1..Len(balance) : balance[n] \in Int
  BY ElementOfSeq DEF BookInv
<1>3. Quantity \in Int
  BY <1>1, <1>2 DEF Quantity
<1>4. ASSUME NEW n \in Nat \ {0}
      PROVE  Since(n) \in Int
  <2>1. CASE n < Len(balance)
    <3>1. balance[n] \in Int
      BY <1>1, <1>2, <2>1
    <3> QED BY <1>3, <2>1, <3>1 DEF Since
  <2>2. CASE ~(n < Len(balance))
    BY <2>2 DEF Since
  <2> QED BY <2>1, <2>2
<1> QED BY <1>1, <1>3, <1>4

\* A movement is added at the end of the book.
LEMMA Moved ==
  ASSUME BookInv, NEW change \in Int, Move(change)
  PROVE  balance' \in Seq(Int) /\ balance' # <<>> /\ row' \in BOOLEAN /\ Quantity' = Quantity + change
<1>1. Quantity + change \in Int
  BY BalanceType
<1>2. balance' = Append(balance, Quantity + change) /\ row' = TRUE
  BY DEF Move
<1>3. /\ balance' \in Seq(Int) /\ balance' # <<>> /\ Len(balance') = Len(balance) + 1
      /\ balance'[Len(balance) + 1] = Quantity + change
  BY <1>1, <1>2, AppendProperties DEF BookInv
<1> QED BY <1>2, <1>3 DEF Quantity

\* A movement of anyone but a purchase waits for the row.
LEMMA NobodyHolds ==
  ASSUME BookInv, lock = None, UNCHANGED purchase
  PROVE  Held'
<1>1. \A p \in Purchases : lock # p
  BY StockAssumption
<1> QED BY <1>1 DEF BookInv, Held

LEMMA SalesBook ==
  ASSUME OrderInv, BookInv, NEW s \in Sales, SaleStep(s)
  PROVE  BookInv'
<1>1. sale[s].use \in Nat
  BY DEF OrderInv, Ordered, Sale
<1>2. UNCHANGED <<lock, purchase, count>>
  BY DEF SaleStep, FindOrder, Merge, InsertOrder, OrderFails, InsertItems, InsertModifiers, Undo,
         ConsumptionRows, ConsumptionMovement, FlagOrder, Die, RoutineSale, priceVars
<1>3. shelf' \in Int
  <2>1. shelf \in Int /\ shelf - sale[s].use \in Int
    BY <1>1 DEF BookInv
  <2> QED BY <2>1 DEF SaleStep, FindOrder, Merge, InsertOrder, OrderFails, InsertItems, InsertModifiers, Undo,
         ConsumptionRows, ConsumptionMovement, FlagOrder, Die, RoutineSale
<1>4. UNCHANGED <<balance, row>> \/ (lock = None /\ Move(-sale[s].use))
  <2>1. lock \in {None, None} => lock = None
    OBVIOUS
  <2> QED BY <2>1 DEF SaleStep, FindOrder, Merge, InsertOrder, OrderFails, InsertItems, InsertModifiers, Undo,
         ConsumptionRows, ConsumptionMovement, FlagOrder, Die, RoutineSale, stockVars, Unlocked
<1>5. CountsType'
  BY <1>2 DEF BookInv, CountsType, Did
<1>6. CASE UNCHANGED <<balance, row>>
  BY <1>2, <1>3, <1>5, <1>6 DEF BookInv, Held, Quantity
<1>7. CASE lock = None /\ Move(-sale[s].use)
  <2>1. -sale[s].use \in Int
    BY <1>1
  <2> QED BY <1>2, <1>3, <1>5, <1>7, <2>1, Moved, NobodyHolds DEF BookInv
<1> QED BY <1>4, <1>6, <1>7

\* The lock of the row stands from the read of a purchase to its end.
LEMMA PurchaseReads ==
  ASSUME BookInv, NEW p \in Purchases, PurchaseRead(p) \/ PurchaseFails(p)
  PROVE  BookInv'
<1>1. UNCHANGED <<balance, row, count, shelf>>
  BY DEF PurchaseRead, PurchaseFails, stockVars
<1>2. purchase[p] \in Purchase /\ Quantity \in Int /\ row \in BOOLEAN /\ Quantity' = Quantity
  BY <1>1, BalanceType DEF BookInv, Quantity
<1>3. CASE PurchaseRead(p)
  <2> DEFINE w == [at |-> "locked", found |-> row, qty |-> Quantity]
  <2>1. w \in Purchase /\ w.found = row /\ w.qty = Quantity
    BY <1>2 DEF Purchase
  <2>2. purchase' = [purchase EXCEPT ![p] = w] /\ lock = None /\ lock' = IF row THEN p ELSE None
    BY <1>3 DEF PurchaseRead
  <2> HIDE DEF w
  <2>3. /\ purchase' \in [Purchases -> Purchase] /\ purchase'[p] = w
        /\ \A q \in Purchases : q # p => purchase'[q] = purchase[q]
    BY <2>1, <2>2 DEF BookInv
  <2>4. ASSUME NEW q \in Purchases, purchase'[q].at = "locked", purchase'[q].found
        PROVE  lock' = q /\ purchase'[q].qty = Quantity'
    <3>1. CASE q = p
      BY <1>2, <2>1, <2>2, <2>3, <2>4, <3>1
    <3>2. CASE q # p
      <4>1. lock = q
        BY <2>3, <2>4, <3>2 DEF BookInv, Held
      <4> QED BY <2>2, <4>1, StockAssumption
    <3> QED BY <3>1, <3>2
  <2> QED BY <1>1, <2>3, <2>4 DEF BookInv, Held, CountsType, Did
<1>4. CASE PurchaseFails(p)
  <2> DEFINE w == [purchase[p] EXCEPT !.at = "failed"]
  <2>1. w \in Purchase /\ w.at = "failed"
    BY <1>2 DEF Purchase
  <2>2. purchase' = [purchase EXCEPT ![p] = w] /\ lock' = IF lock = p THEN None ELSE lock
    BY <1>4 DEF PurchaseFails
  <2> HIDE DEF w
  <2>3. /\ purchase' \in [Purchases -> Purchase] /\ purchase'[p] = w
        /\ \A q \in Purchases : q # p => purchase'[q] = purchase[q]
    BY <2>1, <2>2 DEF BookInv
  <2>4. ASSUME NEW q \in Purchases, purchase'[q].at = "locked", purchase'[q].found
        PROVE  lock' = q /\ purchase'[q].qty = Quantity'
    <3>1. q # p
      BY <2>1, <2>3, <2>4
    <3>2. lock = q /\ purchase[q].qty = Quantity
      BY <2>3, <2>4, <3>1 DEF BookInv, Held
    <3> QED BY <1>2, <2>2, <2>3, <3>1, <3>2
  <2> QED BY <1>1, <2>3, <2>4 DEF BookInv, Held, CountsType, Did
<1> QED BY <1>3, <1>4

LEMMA PurchaseWrites ==
  ASSUME BookInv, NEW p \in Purchases, PurchaseWrite(p)
  PROVE  BookInv'
<1>1. PICK got \in Bought : Move(got) /\ shelf' = shelf + got
  BY DEF PurchaseWrite
<1>2. got \in Int /\ shelf' \in Int
  BY <1>1, StockAssumption DEF BookInv
<1> DEFINE w == [purchase[p] EXCEPT !.at = "done"]
<1>3. w \in Purchase /\ w.at = "done"
  BY DEF BookInv, Purchase
<1>4. purchase' = [purchase EXCEPT ![p] = w] /\ lock \in {None, p} /\ UNCHANGED count
  BY DEF PurchaseWrite, Unlocked
<1> HIDE DEF w
<1>5. /\ purchase' \in [Purchases -> Purchase] /\ purchase'[p] = w
      /\ \A q \in Purchases : q # p => purchase'[q] = purchase[q]
  BY <1>3, <1>4 DEF BookInv
<1>6. ASSUME NEW q \in Purchases, purchase'[q].at = "locked", purchase'[q].found
      PROVE  FALSE
  <2>1. q # p
    BY <1>3, <1>5, <1>6
  <2>2. lock = q
    BY <1>5, <1>6, <2>1 DEF BookInv, Held
  <2> QED BY <1>4, <2>1, <2>2, StockAssumption
<1>7. CountsType'
  BY <1>4 DEF BookInv, CountsType, Did
<1> QED BY <1>1, <1>2, <1>5, <1>6, <1>7, Moved DEF BookInv, Held

\* A count writes its own record, and a movement when nobody holds the row.
LEMMA CountWrites ==
  ASSUME BookInv, NEW c \in Counts, NEW w, w \in CountRow(w), "stamp" \in w.done => w.stamp # 0,
         count' = [count EXCEPT ![c] = w], UNCHANGED <<lock, purchase, shelf>>,
         UNCHANGED <<balance, row>> \/ (lock = None /\ \E change \in Int : Move(change))
  PROVE  BookInv'
<1>1. CountsType'
  <2>1. /\ DOMAIN count' = Counts /\ count' = [d \in Counts |-> count'[d]]
        /\ count'[c] = w /\ \A d \in Counts : d # c => count'[d] = count[d]
    BY DEF BookInv, CountsType
  <2>2. ASSUME NEW d \in Counts
        PROVE  count'[d] \in CountRow(count'[d]) /\ ("stamp" \in count'[d].done => count'[d].stamp # 0)
    <3>1. CASE d = c
      BY <2>1, <3>1
    <3>2. CASE d # c
      BY <2>1, <3>2 DEF BookInv, CountsType, Did
    <3> QED BY <3>1, <3>2
  <2> QED BY <2>1, <2>2 DEF CountsType, Did
<1>2. CASE UNCHANGED <<balance, row>>
  BY <1>1, <1>2 DEF BookInv, Held, Quantity
<1>3. ASSUME lock = None, NEW change \in Int, Move(change)
      PROVE  BookInv'
  BY <1>1, <1>3, Moved, NobodyHolds DEF BookInv
<1> QED BY <1>2, <1>3

LEMMA CountsStep ==
  ASSUME BookInv, NEW c \in Counts, CountStep(c)
  PROVE  BookInv'
<1> DEFINE k == count[c]
<1>1. k \in CountRow(k) /\ ("stamp" \in k.done => k.stamp # 0) /\ DOMAIN count = Counts
  BY DEF BookInv, CountsType, Did
<1>2. Quantity \in Int /\ Len(balance) \in Nat /\ shelf \in Int
  BY BalanceType DEF BookInv
<1>3. UNCHANGED <<lock, purchase, shelf>>
  BY DEF CountStep, Stamp, LookAtShelf, ReadStock, ReadMovements, CountWrite, CountFails, priceVars
<1>4. CASE Stamp(c)
  <2>1. PICK n \in 1..(Len(balance) + MaxSkew) : Note(c, "stamp", [count[c] EXCEPT !.stamp = n])
    BY <1>4 DEF Stamp
  <2>2. n \in Nat /\ n # 0
    BY <1>2, <2>1, StockAssumption
  <2> DEFINE w == [[k EXCEPT !.stamp = n] EXCEPT !.done = @ \cup {"stamp"}]
  <2>3. count' = [count EXCEPT ![c] = w]
    BY <2>1 DEF Note
  <2>4. w \in CountRow(w) /\ w.stamp = n
    BY <1>1, <2>2 DEF CountRow
  <2>5. UNCHANGED <<balance, row>>
    BY <1>4 DEF Stamp, stockVars
  <2> HIDE DEF w, k
  <2> QED BY <1>3, <2>2, <2>3, <2>4, <2>5, CountWrites
<1>5. CASE LookAtShelf(c)
  <2> DEFINE w == [[k EXCEPT !.counted = shelf, !.looked = Len(balance), !.drift = Drift, !.owed = Owed]
                     EXCEPT !.done = @ \cup {"look"}]
  <2>1. count' = [count EXCEPT ![c] = w]
    BY <1>5 DEF LookAtShelf, Note
  <2>3. w \in CountRow(w) /\ ("stamp" \in w.done => w.stamp # 0)
    BY <1>1, <1>2 DEF CountRow
  <2>4. UNCHANGED <<balance, row>>
    BY <1>5 DEF LookAtShelf, stockVars
  <2> HIDE DEF w, k
  <2> QED BY <1>3, <2>1, <2>3, <2>4, CountWrites
<1>6. CASE ReadStock(c)
  <2> DEFINE w == [[k EXCEPT !.qty = Quantity, !.qtyAt = Len(balance)] EXCEPT !.done = @ \cup {"stock"}]
  <2>1. count' = [count EXCEPT ![c] = w]
    BY <1>6 DEF ReadStock, Note
  <2>2. w \in CountRow(w) /\ ("stamp" \in w.done => w.stamp # 0)
    BY <1>1, <1>2 DEF CountRow
  <2>3. UNCHANGED <<balance, row>>
    BY <1>6 DEF ReadStock, stockVars
  <2> HIDE DEF w, k
  <2> QED BY <1>3, <2>1, <2>2, <2>3, CountWrites
<1>7. CASE ReadMovements(c)
  <2> DEFINE n == Since(k.stamp)
             w == [[k EXCEPT !.since = n, !.sinceAt = Len(balance)] EXCEPT !.done = @ \cup {"moves"}]
  <2>1. count' = [count EXCEPT ![c] = w]
    BY <1>7 DEF ReadMovements, Note
  <2>2. n \in Int
    <3>1. k.stamp \in Nat \ {0}
      BY <1>1, <1>7 DEF ReadMovements, Saving, Did, CountRow
    <3> HIDE DEF k
    <3> QED BY <3>1, BalanceType
  <2> HIDE DEF n
  <2>3. w \in CountRow(w) /\ ("stamp" \in w.done => w.stamp # 0)
    BY <1>1, <1>2, <2>2 DEF CountRow
  <2>4. UNCHANGED <<balance, row>>
    BY <1>7 DEF ReadMovements, stockVars
  <2> HIDE DEF w, k
  <2> QED BY <1>3, <2>1, <2>3, <2>4, CountWrites
<1>8. CASE CountWrite(c)
  <2> DEFINE w == [k EXCEPT !.done = @ \cup {"write"}]
  <2>1. count' = [count EXCEPT ![c] = w]
    BY <1>8 DEF CountWrite, Note
  <2>2. w \in CountRow(w) /\ ("stamp" \in w.done => w.stamp # 0)
    BY <1>1 DEF CountRow
  <2>3. Delta(c) \in Int
    <3>1. k.counted \in Int /\ k.qty \in Int /\ k.since \in Int
      BY <1>1 DEF CountRow
    <3> HIDE DEF k
    <3>2. k.counted - (k.qty - k.since) \in Int
      BY <3>1
    <3> QED BY <3>2 DEF Delta, k
  <2>4. UNCHANGED <<balance, row>> \/ (lock = None /\ Move(Delta(c)))
    BY <1>8 DEF CountWrite, stockVars, Unlocked
  <2> HIDE DEF w, k
  <2> QED BY <1>3, <2>1, <2>2, <2>3, <2>4, CountWrites
<1>9. CASE CountFails(c)
  <2> DEFINE w == [k EXCEPT !.done = @ \ {"stock", "moves", "write"}]
  <2>1. count' = [count EXCEPT ![c] = w]
    BY <1>9 DEF CountFails
  <2>2. w \in CountRow(w) /\ ("stamp" \in w.done => w.stamp # 0)
    BY <1>1 DEF CountRow
  <2>3. UNCHANGED <<balance, row>>
    BY <1>9 DEF CountFails, stockVars
  <2> HIDE DEF w, k
  <2> QED BY <1>3, <2>1, <2>2, <2>3, CountWrites
<1> QED BY <1>4, <1>5, <1>6, <1>7, <1>8, <1>9 DEF CountStep

LEMMA BookInductive == Spec => [](OrderInv /\ BookInv)
<1>1. Init => BookInv
  <2> SUFFICES ASSUME Init PROVE BookInv
    OBVIOUS
  <2>1. <<0>> \in Seq(Int) /\ <<0>> # <<>>
    OBVIOUS
  <2>2. purchase \in [Purchases -> Purchase] /\ \A p \in Purchases : purchase[p].at = "new"
    BY DEF Init, Purchase
  <2>3. CountsType
    BY DEF Init, CountsType, CountRow, Did
  <2>4. balance \in Seq(Int) /\ balance # <<>> /\ row \in BOOLEAN /\ shelf \in Int
    <3>1. balance = <<0>> /\ row = FALSE /\ shelf = 0
      BY DEF Init
    <3>2. balance \in Seq(Int)
      BY <2>1, <3>1, Zenon
    <3>3. balance # <<>>
      BY <2>1, <3>1, Zenon
    <3>4. row \in BOOLEAN
      BY <3>1, Zenon
    <3>5. shelf \in Int
      BY <3>1
    <3> QED BY <3>2, <3>3, <3>4, <3>5
  <2>5. Held
    BY <2>2 DEF Held
  <2> QED BY <2>2, <2>3, <2>4, <2>5 DEF BookInv
<1>2. OrderInv /\ BookInv /\ [Next]_vars => BookInv'
  <2>1. ASSUME OrderInv, BookInv, EditCost \/ Lose
        PROVE  BookInv'
    <3>1. shelf' \in Int /\ UNCHANGED <<balance, row, lock, purchase, count>>
      <4>1. shelf \in Int /\ shelf - 1 \in Int
        BY <2>1 DEF BookInv
      <4> QED BY <2>1, <4>1 DEF EditCost, Lose, stockVars, priceVars
    <3>2. CountsType' /\ Held'
      BY <2>1, <3>1 DEF BookInv, Held, Quantity, CountsType, Did
    <3> QED BY <2>1, <3>1, <3>2 DEF BookInv
  <2>2. BookInv /\ UNCHANGED vars => BookInv'
    BY DEF vars, stockVars, priceVars, BookInv, Held, Quantity, CountsType, Did
  <2> QED BY <2>1, <2>2, SalesBook, PurchaseReads, PurchaseWrites, CountsStep DEF Next, PurchaseStep
<1> QED BY <1>1, <1>2, OrderInductive, PTL DEF Spec

\* A purchase that found the stock row averages over the stock at its commit,
\* whatever any number of sales, counts and purchases did since it read:
\* record_ingredient_purchase holds the row, and their movements wait for it.
THEOREM PurchaseSeesStock == Spec => AverageSeesStock
<1>1. ASSUME BookInv, [Next]_vars, NEW p \in Purchases, purchase[p].at = "locked",
             purchase'[p].at = "done", purchase[p].found
      PROVE  \E got \in Bought, price \in Prices :
               Quantity' = Quantity + got /\ cost' = Average(Quantity, got, price)
  <2>1. PurchaseWrite(p)
    <3>1. \E q \in Purchases : PurchaseStep(q)
      BY <1>1 DEF Next, SaleStep, FindOrder, Merge, InsertOrder, OrderFails, InsertItems, InsertModifiers, Undo,
                  ConsumptionRows, ConsumptionMovement, FlagOrder, Die, RoutineSale, CountStep, Stamp, LookAtShelf,
                  ReadStock, ReadMovements, CountWrite, CountFails, EditCost, Lose, priceVars, vars
    <3>2. PICK q \in Purchases : PurchaseStep(q)
      BY <3>1
    <3>3. CASE PurchaseRead(q)
      BY <1>1, <3>3 DEF PurchaseRead, BookInv
    <3>4. CASE PurchaseFails(q)
      <4> DEFINE w == [purchase[q] EXCEPT !.at = "failed"]
      <4>1. purchase' = [purchase EXCEPT ![q] = w]
        BY <3>4 DEF PurchaseFails
      <4>2. w.at = "failed"
        BY <1>1 DEF BookInv, Purchase
      <4> HIDE DEF w
      <4>3. purchase'[q] = w /\ (q # p => purchase'[p] = purchase[p])
        BY <1>1, <4>1 DEF BookInv
      <4> QED BY <1>1, <4>2, <4>3
    <3>5. CASE PurchaseWrite(q)
      <4>1. q # p => purchase'[p] = purchase[p]
        BY <3>5 DEF PurchaseWrite, BookInv
      <4> QED BY <1>1, <3>5, <4>1
    <3> QED BY <3>2, <3>3, <3>4, <3>5 DEF PurchaseStep
  <2>2. PICK got \in Bought, price \in Prices : cost' = Average(purchase[p].qty, got, price) /\ Move(got)
    BY <2>1 DEF PurchaseWrite
  <2>3. Quantity' = Quantity + got
    BY <1>1, <2>2, Moved, StockAssumption
  <2>4. purchase[p].qty = Quantity
    BY <1>1 DEF BookInv, Held
  <2> QED BY <2>2, <2>3, <2>4
<1>2. BookInv /\ [Next]_vars =>
        [\A p \in Purchases :
           purchase[p].at = "locked" /\ purchase'[p].at = "done" /\ purchase[p].found =>
             \E got \in Bought, price \in Prices :
               /\ Quantity' = Quantity + got
               /\ cost' = Average(Quantity, got, price)]_vars
  BY <1>1
<1> QED BY <1>2, BookInductive, PTL DEF Spec, AverageSeesStock

-----------------------------------------------------------------------------
(* The sales on the way to the book are finitely many, though the sales may  *)
(* not be: each is a request, and requests come one at a time.               *)

LEMMA OwedType ==
  ASSUME IsFiniteSet(InFlight), Ordered
  PROVE  Owed \in Nat
<1> DEFINE T == {Units(s) : s \in InFlight}
           f == [s \in InFlight |-> Units(s)]
<1>1. f \in Surjection(InFlight, T)
  BY DEF Surjection
<1>2. IsFiniteSet(T)
  BY <1>1, FS_Surjection, Zenon
<1>3. ASSUME NEW s \in InFlight
      PROVE  IsFiniteSet(Units(s))
  <2>1. sale[s].use \in Nat
    BY DEF Ordered, Sale, InFlight
  <2>2. IsFiniteSet(1..sale[s].use)
    <3>1. 1 \in Int /\ sale[s].use \in Int
      BY <2>1
    <3> QED BY <3>1, FS_Interval, Zenon
  <2> QED BY <2>2, FS_Singleton, FS_Product, Zenon DEF Units
<1>4. IsFiniteSet(UNION T)
  <2>1. \A U \in T : IsFiniteSet(U)
    BY <1>3
  <2> QED BY <1>2, <2>1, FS_UNION, Zenon
<1>5. Owed = Cardinality(UNION T)
  BY DEF Owed
<1> QED BY <1>4, <1>5, FS_CardinalityType, Zenon

LEMMA DriftType ==
  ASSUME OrderInv, BookInv, IsFiniteSet(InFlight)
  PROVE  Drift \in Int /\ Owed \in Nat /\ Drift = (Quantity - shelf) - Owed
<1>1. Owed \in Nat
  BY OwedType DEF OrderInv
<1>2. Quantity \in Int /\ shelf \in Int
  BY BalanceType DEF BookInv
<1> QED BY <1>1, <1>2 DEF Drift

LEMMA FlightStays ==
  ASSUME Ordered, IsFiniteSet(InFlight), [Next]_vars
  PROVE  IsFiniteSet(InFlight')
<1>1. CASE UNCHANGED sale
  BY <1>1 DEF InFlight
<1>2. ASSUME NEW s \in Sales, SaleStep(s)
      PROVE  IsFiniteSet(InFlight')
  <2>1. InFlight' \subseteq InFlight \cup {s}
    BY <1>2, OneSaleAtATime DEF InFlight
  <2>2. IsFiniteSet(InFlight \cup {s})
    BY FS_AddElement, Zenon
  <2> QED BY <2>1, <2>2, FS_Subset, Zenon
<1>3. (\E s \in Sales : SaleStep(s)) \/ UNCHANGED sale
  BY DEF Next, vars, PurchaseStep, PurchaseRead, PurchaseWrite, PurchaseFails, CountStep, Stamp, LookAtShelf,
         ReadStock, ReadMovements, CountWrite, CountFails, EditCost, Lose
<1> QED BY <1>1, <1>2, <1>3

-----------------------------------------------------------------------------
(* The moving average of record_ingredient_purchase. *)

LEMMA RoundedType ==
  ASSUME NEW n \in Int, NEW d \in Int, d > 0
  PROVE  Rounded(n, d) \in Int
<1>1. 2 * n + d \in Int /\ d - 2 * n \in Int /\ 2 * d \in Int /\ 2 * d > 0
  OBVIOUS
<1>2. \A x \in Int, y \in Int : y > 0 => x \div y \in Int
  OBVIOUS
<1>3. (2 * n + d) \div (2 * d) \in Int /\ (d - 2 * n) \div (2 * d) \in Int
  BY <1>1, <1>2
<1> DEFINE a == (2 * n + d) \div (2 * d)
           b == (d - 2 * n) \div (2 * d)
<1> HIDE DEF a, b
<1>4. a \in Int /\ -b \in Int
  BY <1>3 DEF a, b
<1> QED BY <1>4, Zenon DEF Rounded, a, b

LEMMA AverageType ==
  ASSUME cost \in Int, NEW have \in Int, NEW got \in Nat, NEW price \in Nat
  PROVE  Average(have, got, price) \in Int
<1>1. have * cost + got * price \in Int /\ have + got \in Int /\ price \in Int
  <2>1. have * cost \in Int /\ got * price \in Int
    OBVIOUS
  <2> QED BY <2>1
<1>2. CASE have + got > 0
  BY <1>1, <1>2, RoundedType DEF Average
<1>3. CASE ~(have + got > 0)
  BY <1>1, <1>3 DEF Average
<1> QED BY <1>2, <1>3

-----------------------------------------------------------------------------
(* What a count noted, and the book it noted it from. *)

\* The book is only ever added to, so what a count read of it stays true: the
\* error it found, the quantity, and the movements since its stamp.
Notes(k, book) ==
  /\ k.drift \in Int /\ k.owed \in Nat
  /\ "look" \in k.done =>
       /\ k.looked \in 1..Len(book) /\ k.counted \in Int
       /\ k.drift = (book[k.looked] - k.counted) - k.owed
  /\ "stock" \in k.done =>
       /\ "look" \in k.done
       /\ k.qtyAt \in 1..Len(book) /\ k.qty = book[k.qtyAt]
  /\ "moves" \in k.done =>
       /\ k.stamp \in Nat \ {0} /\ "stamp" \in k.done /\ k.sinceAt \in 1..Len(book)
       /\ k.since = IF k.stamp < k.sinceAt THEN book[k.sinceAt] - book[k.stamp] ELSE 0

NotesInv == \A c \in Counts : Notes(count[c], balance)

ClerkInv ==
  /\ routine \in BOOLEAN /\ cost \in Int /\ lock \in Purchases \cup {None}
  /\ booked \subseteq Sales /\ mishaps \in 0..MaxMishaps
  /\ IsFiniteSet(InFlight)

LEMMA NotesStay ==
  ASSUME NEW book \in Seq(Int), NEW n \in Int, NEW k, Notes(k, book)
  PROVE  Notes(k, Append(book, n))
<1> DEFINE longer == Append(book, n)
<1>1. /\ Len(book) \in Nat /\ Len(longer) = Len(book) + 1
      /\ \A i \in 1..Len(book) : longer[i] = book[i]
  BY AppendProperties, LenProperties
<1> HIDE DEF longer
<1>2. \A i \in 1..Len(book) : i \in 1..Len(longer) /\ longer[i] = book[i]
  BY <1>1
<1>3. "moves" \in k.done =>
       /\ k.stamp \in Nat \ {0} /\ "stamp" \in k.done /\ k.sinceAt \in 1..Len(longer)
       /\ k.since = IF k.stamp < k.sinceAt THEN longer[k.sinceAt] - longer[k.stamp] ELSE 0
  <2>1. HAVE "moves" \in k.done
  <2>2. k.stamp \in Nat \ {0} /\ k.sinceAt \in 1..Len(book)
    BY <2>1 DEF Notes
  <2>3. k.stamp < k.sinceAt => k.stamp \in 1..Len(book)
    BY <1>1, <2>2
  <2> QED BY <1>2, <2>1, <2>2, <2>3 DEF Notes
<1>4. "look" \in k.done =>
       /\ k.looked \in 1..Len(longer)
       /\ k.owed \in Nat /\ k.counted \in Int
       /\ k.drift = (longer[k.looked] - k.counted) - k.owed
  BY <1>2 DEF Notes
<1>5. "stock" \in k.done =>
       /\ "look" \in k.done
       /\ k.qtyAt \in 1..Len(longer) /\ k.qty = longer[k.qtyAt]
  BY <1>2 DEF Notes
<1>6. k.drift \in Int
  BY DEF Notes
<1>7. Notes(k, longer)
  BY <1>3, <1>4, <1>5, <1>6 DEF Notes
<1> QED BY <1>7 DEF longer

\* Every step leaves the book alone or adds one movement.
LEMMA BookGrows ==
  ASSUME OrderInv, BookInv, [Next]_vars
  PROVE  balance' = balance \/ \E n \in Int : balance' = Append(balance, n)
<1>1. ASSUME NEW change \in Int, Move(change)
      PROVE  \E n \in Int : balance' = Append(balance, n)
  <2>1. Quantity + change \in Int
    BY BalanceType
  <2> QED BY <1>1, <2>1 DEF Move
<1>2. ASSUME NEW s \in Sales, SaleStep(s)
      PROVE  balance' = balance \/ \E change \in Int : Move(change)
  <2>1. -sale[s].use \in Int
    BY DEF OrderInv, Ordered, Sale
  <2> QED BY <1>2, <2>1 DEF SaleStep, FindOrder, Merge, InsertOrder, OrderFails, InsertItems, InsertModifiers, Undo,
         ConsumptionRows, ConsumptionMovement, FlagOrder, Die, RoutineSale, stockVars
<1>3. ASSUME NEW p \in Purchases, PurchaseStep(p)
      PROVE  balance' = balance \/ \E change \in Int : Move(change)
  BY <1>3, StockAssumption DEF PurchaseStep, PurchaseRead, PurchaseWrite, PurchaseFails, stockVars
<1>4. ASSUME NEW c \in Counts, CountStep(c)
      PROVE  balance' = balance \/ \E change \in Int : Move(change)
  <2>1. Delta(c) \in Int
    <3>1. count[c] \in CountRow(count[c])
      BY DEF BookInv, CountsType
    <3>2. PICK k : k = count[c]
      OBVIOUS
    <3>3. k.counted \in Int /\ k.qty \in Int /\ k.since \in Int
      BY <3>1, <3>2 DEF CountRow
    <3>4. k.counted - (k.qty - k.since) \in Int
      BY <3>3
    <3> QED BY <3>2, <3>4 DEF Delta
  <2> QED BY <1>4, <2>1 DEF CountStep, Stamp, LookAtShelf, ReadStock, ReadMovements, CountWrite, CountFails, stockVars
<1>5. CASE EditCost \/ Lose \/ UNCHANGED vars
  BY <1>5 DEF EditCost, Lose, vars, stockVars
<1> QED BY <1>1, <1>2, <1>3, <1>4, <1>5 DEF Next

LEMMA ClerkStays ==
  ASSUME OrderInv, BookInv, ClerkInv, [Next]_vars
  PROVE  ClerkInv'
<1>1. IsFiniteSet(InFlight')
  BY FlightStays DEF OrderInv, ClerkInv
<1>2. mishaps' = mishaps \/ Mishap
  BY DEF Next, vars, SaleStep, FindOrder, Merge, InsertOrder, OrderFails, InsertItems, InsertModifiers, Undo,
         ConsumptionRows, ConsumptionMovement, FlagOrder, Die, RoutineSale, Smooth, PurchaseStep, PurchaseRead,
         PurchaseWrite, PurchaseFails, CountStep, Stamp, LookAtShelf, ReadStock, ReadMovements, CountWrite,
         CountFails, EditCost, Lose
<1>3. mishaps' \in 0..MaxMishaps
  BY <1>2, StockAssumption DEF ClerkInv, Mishap
<1>4. ASSUME NEW s \in Sales, SaleStep(s)
      PROVE  routine' = routine /\ cost' = cost /\ lock' = lock /\ booked' \subseteq booked \cup {s}
  BY <1>4 DEF SaleStep, FindOrder, Merge, InsertOrder, OrderFails, InsertItems, InsertModifiers, Undo,
         ConsumptionRows, ConsumptionMovement, FlagOrder, Die, RoutineSale, priceVars
<1>5. ASSUME NEW p \in Purchases, PurchaseStep(p)
      PROVE  routine' = routine /\ cost' \in Int /\ lock' \in {lock, p, None} /\ booked' = booked
  <2>1. CASE PurchaseRead(p) \/ PurchaseFails(p)
    BY <2>1 DEF PurchaseRead, PurchaseFails, ClerkInv
  <2>2. CASE PurchaseWrite(p)
    <3>1. PICK got \in Bought, price \in Prices : cost' = Average(purchase[p].qty, got, price)
      BY <2>2 DEF PurchaseWrite
    <3>2. got \in Nat /\ price \in Nat /\ purchase[p].qty \in Int /\ cost \in Int
      BY StockAssumption DEF BookInv, Purchase, ClerkInv
    <3> QED BY <2>2, <3>1, <3>2, AverageType DEF PurchaseWrite
  <2> QED BY <1>5, <2>1, <2>2 DEF PurchaseStep
<1>6. ASSUME NEW c \in Counts, CountStep(c)
      PROVE  UNCHANGED <<routine, cost, lock, booked>>
  BY <1>6 DEF CountStep, Stamp, LookAtShelf, ReadStock, ReadMovements, CountWrite, CountFails, priceVars
<1>7. CASE EditCost \/ Lose \/ UNCHANGED vars
  <2>1. cost \in Int /\ Prices \subseteq Int
    BY StockAssumption DEF ClerkInv
  <2>2. UNCHANGED <<routine, lock, booked>> /\ (UNCHANGED cost \/ cost' \in Prices)
    BY <1>7 DEF EditCost, Lose, vars, priceVars
  <2> QED BY <1>1, <1>3, <2>1, <2>2 DEF ClerkInv
<1> QED BY <1>1, <1>3, <1>4, <1>5, <1>6, <1>7 DEF Next, ClerkInv

\* A step of a count keeps what the count noted.
LEMMA NotesStep ==
  ASSUME OrderInv, BookInv, ClerkInv, NotesInv, NEW c \in Counts, CountStep(c)
  PROVE  /\ Notes(count'[c], balance')
         /\ \A d \in Counts : d # c => count'[d] = count[d]
<1> DEFINE k == count[c]
           n == Len(balance)
<1>1. k \in CountRow(k) /\ ("stamp" \in k.done => k.stamp # 0) /\ DOMAIN count = Counts
  BY DEF BookInv, CountsType, Did
<1>2. Quantity \in Int /\ n \in Nat \ {0} /\ n \in 1..n /\ Quantity = balance[n] /\ shelf \in Int
  BY BalanceType DEF BookInv, Quantity
<1>3. Notes(k, balance)
  BY DEF NotesInv
<1>4. Drift \in Int /\ Owed \in Nat /\ Drift = (balance[n] - shelf) - Owed
  BY <1>2, DriftType DEF ClerkInv
<1>5. ASSUME NEW w, count' = [count EXCEPT ![c] = w], Notes(w, balance')
      PROVE  /\ Notes(count'[c], balance')
             /\ \A d \in Counts : d # c => count'[d] = count[d]
  BY <1>1, <1>5
<1>6. CASE Stamp(c)
  <2>1. PICK m : Note(c, "stamp", [count[c] EXCEPT !.stamp = m])
    BY <1>6 DEF Stamp
  <2> DEFINE w == [[k EXCEPT !.stamp = m] EXCEPT !.done = @ \cup {"stamp"}]
  <2>2. count' = [count EXCEPT ![c] = w] /\ balance' = balance
    BY <1>6, <2>1 DEF Note, Stamp, stockVars
  <2>3. "stamp" \notin k.done
    BY <1>6 DEF Stamp, Did
  <2> HIDE DEF k
  <2>4. /\ w.done = k.done \cup {"stamp"} /\ w.counted = k.counted /\ w.looked = k.looked /\ w.owed = k.owed
        /\ w.drift = k.drift /\ w.qty = k.qty /\ w.qtyAt = k.qtyAt
    BY <1>1 DEF CountRow
  <2> HIDE DEF w
  <2>5. "moves" \notin w.done
    BY <1>3, <2>3, <2>4 DEF Notes
  <2>6. Notes(w, balance)
    BY <1>3, <2>4, <2>5 DEF Notes
  <2>7. Notes(w, balance')
    BY <2>2, <2>6
  <2> QED BY <1>5, <2>2, <2>7
<1>7. CASE LookAtShelf(c)
  <2> DEFINE w == [[k EXCEPT !.counted = shelf, !.looked = Len(balance), !.drift = Drift, !.owed = Owed]
                     EXCEPT !.done = @ \cup {"look"}]
  <2>1. count' = [count EXCEPT ![c] = w] /\ balance' = balance
    BY <1>7 DEF LookAtShelf, Note, stockVars
  <2>2. "look" \notin k.done
    BY <1>7 DEF LookAtShelf, Did
  <2> HIDE DEF k
  <2>3. /\ w.done = k.done \cup {"look"} /\ w.counted = shelf /\ w.looked = n /\ w.owed = Owed
        /\ w.drift = Drift /\ w.stamp = k.stamp /\ w.since = k.since /\ w.sinceAt = k.sinceAt
    BY <1>1 DEF CountRow
  <2> HIDE DEF w, n
  <2>4. "stock" \notin w.done
    BY <1>3, <2>2, <2>3 DEF Notes
  <2>5. w.owed \in Nat /\ w.counted \in Int /\ w.drift = (balance[w.looked] - w.counted) - w.owed
    BY <1>2, <1>4, <2>3
  <2>6. Notes(w, balance)
    BY <1>2, <1>3, <1>4, <2>3, <2>4, <2>5 DEF Notes, n
  <2>7. Notes(w, balance')
    BY <2>1, <2>6
  <2> QED BY <1>5, <2>1, <2>7
<1>8. CASE ReadStock(c)
  <2> DEFINE w == [[k EXCEPT !.qty = Quantity, !.qtyAt = Len(balance)] EXCEPT !.done = @ \cup {"stock"}]
  <2>1. count' = [count EXCEPT ![c] = w] /\ balance' = balance
    BY <1>8 DEF ReadStock, Note, stockVars
  <2>2. "look" \in k.done
    BY <1>8 DEF ReadStock, Saving, Did
  <2> HIDE DEF k
  <2>3. /\ w.done = k.done \cup {"stock"} /\ w.counted = k.counted /\ w.looked = k.looked /\ w.owed = k.owed
        /\ w.drift = k.drift /\ w.stamp = k.stamp /\ w.since = k.since /\ w.sinceAt = k.sinceAt
        /\ w.qty = Quantity /\ w.qtyAt = n
    BY <1>1 DEF CountRow
  <2> HIDE DEF w, n
  <2>5. Notes(w, balance)
    BY <1>2, <1>3, <2>2, <2>3 DEF Notes, n
  <2>6. Notes(w, balance')
    BY <2>1, <2>5
  <2> QED BY <1>5, <2>1, <2>6
<1>9. CASE ReadMovements(c)
  <2> DEFINE m == Since(k.stamp)
             w == [[k EXCEPT !.since = m, !.sinceAt = Len(balance)] EXCEPT !.done = @ \cup {"moves"}]
  <2>1. count' = [count EXCEPT ![c] = w] /\ balance' = balance
    BY <1>9 DEF ReadMovements, Note, stockVars
  <2>2. "stamp" \in k.done
    BY <1>9 DEF ReadMovements, Saving, Did
  <2> HIDE DEF k
  <2>3. m = IF k.stamp < n THEN balance[n] - balance[k.stamp] ELSE 0
    BY <1>2 DEF Since
  <2> HIDE DEF m
  <2>4. /\ w.done = k.done \cup {"moves"} /\ w.counted = k.counted /\ w.looked = k.looked /\ w.owed = k.owed
        /\ w.drift = k.drift /\ w.stamp = k.stamp /\ w.qty = k.qty /\ w.qtyAt = k.qtyAt
        /\ w.since = m /\ w.sinceAt = n /\ k.stamp \in Nat
    BY <1>1 DEF CountRow
  <2> HIDE DEF w, n
  <2>5. w.stamp \in Nat \ {0} /\ "stamp" \in w.done
    BY <1>1, <2>2, <2>4
  <2>6. w.since = IF w.stamp < w.sinceAt THEN balance[w.sinceAt] - balance[w.stamp] ELSE 0
    BY <2>3, <2>4
  <2>7. Notes(w, balance)
    BY <1>2, <1>3, <2>4, <2>5, <2>6 DEF Notes, n
  <2>8. Notes(w, balance')
    BY <2>1, <2>7
  <2> QED BY <1>5, <2>1, <2>8
<1>10. CASE CountWrite(c)
  <2> DEFINE w == [k EXCEPT !.done = @ \cup {"write"}]
  <2>1. count' = [count EXCEPT ![c] = w]
    BY <1>10 DEF CountWrite, Note
  <2> HIDE DEF k
  <2>2. /\ w.done = k.done \cup {"write"} /\ w.counted = k.counted /\ w.looked = k.looked /\ w.owed = k.owed
        /\ w.drift = k.drift /\ w.stamp = k.stamp /\ w.since = k.since /\ w.sinceAt = k.sinceAt
        /\ w.qty = k.qty /\ w.qtyAt = k.qtyAt
    BY <1>1 DEF CountRow
  <2> HIDE DEF w, n
  <2>3. Notes(w, balance)
    BY <1>3, <2>2 DEF Notes
  <2>4. balance' = balance \/ \E x \in Int : balance' = Append(balance, x)
    BY <1>10, BookGrows DEF Next, CountStep
  <2>5. Notes(w, balance')
    BY <2>3, <2>4, NotesStay DEF BookInv
  <2> QED BY <1>5, <2>1, <2>5
<1>11. CASE CountFails(c)
  <2> DEFINE w == [k EXCEPT !.done = @ \ {"stock", "moves", "write"}]
  <2>1. count' = [count EXCEPT ![c] = w] /\ balance' = balance
    BY <1>11 DEF CountFails, stockVars
  <2> HIDE DEF k
  <2>2. /\ w.done = k.done \ {"stock", "moves", "write"} /\ w.counted = k.counted /\ w.looked = k.looked
        /\ w.owed = k.owed /\ w.drift = k.drift
    BY <1>1 DEF CountRow
  <2> HIDE DEF w, n
  <2>3. Notes(w, balance)
    BY <1>3, <2>2 DEF Notes
  <2>4. Notes(w, balance')
    BY <2>1, <2>3
  <2> QED BY <1>5, <2>1, <2>4
<1> QED BY <1>6, <1>7, <1>8, <1>9, <1>10, <1>11 DEF CountStep

LEMMA NotesStand ==
  ASSUME OrderInv, BookInv, ClerkInv, NotesInv, [Next]_vars
  PROVE  NotesInv'
<1>1. ASSUME NEW d \in Counts, count'[d] = count[d]
      PROVE  Notes(count'[d], balance')
  <2>1. Notes(count[d], balance)
    BY DEF NotesInv
  <2> QED BY <1>1, <2>1, BookGrows, NotesStay DEF BookInv
<1>2. ASSUME NEW c \in Counts, CountStep(c)
      PROVE  \A d \in Counts : Notes(count'[d], balance')
  BY <1>1, <1>2, NotesStep
<1>3. (\E c \in Counts : CountStep(c)) \/ UNCHANGED count
  BY DEF Next, vars, SaleStep, FindOrder, Merge, InsertOrder, OrderFails, InsertItems, InsertModifiers, Undo,
         ConsumptionRows, ConsumptionMovement, FlagOrder, Die, RoutineSale, PurchaseStep, PurchaseRead,
         PurchaseWrite, PurchaseFails, EditCost, Lose
<1> QED BY <1>1, <1>2, <1>3 DEF NotesInv

LEMMA StockInductive == Spec => [](OrderInv /\ BookInv /\ ClerkInv /\ NotesInv)
<1>1. Init => ClerkInv /\ NotesInv
  <2> SUFFICES ASSUME Init PROVE ClerkInv /\ NotesInv
    OBVIOUS
  <2>1. NotesInv
    BY DEF Init, NotesInv, Notes
  <2>2. InFlight = {}
    <3>1. \A s \in Sales : sale[s].at = "new"
      BY DEF Init
    <3> QED BY <3>1 DEF InFlight
  <2>3. IsFiniteSet(InFlight)
    BY <2>2, FS_EmptySet
  <2>4. routine \in BOOLEAN /\ cost \in Int /\ lock \in Purchases \cup {None} /\ booked \subseteq Sales
        /\ mishaps \in 0..MaxMishaps
    BY StockAssumption DEF Init
  <2> QED BY <2>1, <2>3, <2>4 DEF ClerkInv
<1>2. OrderInv /\ BookInv /\ ClerkInv /\ NotesInv /\ [Next]_vars => ClerkInv' /\ NotesInv'
  BY ClerkStays, NotesStand
<1> QED BY <1>1, <1>2, BookInductive, PTL DEF Spec

\* The tables of the order desk and of the stock keep their types for any
\* number of requests, quantities and failures: an order a request refers to
\* is there, a moving average is a number, a stamp only grows.
THEOREM StockTypes == Spec => []TypeOK
<1>1. OrderInv /\ BookInv /\ ClerkInv /\ NotesInv => TypeOK
  <2> SUFFICES ASSUME OrderInv, BookInv, ClerkInv, NotesInv PROVE TypeOK
    OBVIOUS
  <2>1. ASSUME NEW c \in Counts
        PROVE  count[c] \in Count
    <3>1. count[c].drift \in Int /\ count[c].owed \in Nat /\ count[c] \in CountRow(count[c])
      BY DEF NotesInv, Notes, BookInv, CountsType
    <3> QED BY <3>1 DEF CountRow, Count
  <2>2. count \in [Counts -> Count]
    <3>1. DOMAIN count = Counts /\ count = [c \in Counts |-> count[c]]
      BY DEF BookInv, CountsType
    <3> QED BY <2>1, <3>1
  <2> QED BY <2>2 DEF TypeOK, OrderInv, Ordered, BookInv, ClerkInv
<1> QED BY <1>1, StockInductive, PTL

\* A save of a count takes out of the book the error it found on the shelf, and
\* is off by exactly what Misjudged names, whatever any number of sales,
\* purchases, losses and other counts do between its stamp, its look, its two
\* reads and its write, and however often the form is saved again
\* (saveIngredientCount sets off the movements since the stamp).
THEOREM CountsTakeOutError == Spec => CountTakesOutError
<1>1. ASSUME OrderInv, BookInv, ClerkInv, NotesInv, [Next]_vars, NEW c \in Counts,
             ~Did(c, "write"), "write" \in count'[c].done
      PROVE  Drift' = Drift - count[c].drift + Misjudged(c)
  <2>1. CountWrite(c)
    <3>1. PICK d \in Counts : CountStep(d)
      BY <1>1 DEF Next, vars, Did, SaleStep, FindOrder, Merge, InsertOrder, OrderFails, InsertItems, InsertModifiers,
         Undo, ConsumptionRows, ConsumptionMovement, FlagOrder, Die, RoutineSale, PurchaseStep, PurchaseRead,
         PurchaseWrite, PurchaseFails, EditCost, Lose
    <3>2. d = c
      BY <1>1, <3>1, NotesStep DEF Did
    <3> DEFINE k == count[c]
    <3>3. k \in CountRow(k) /\ DOMAIN count = Counts /\ "write" \notin k.done
      BY <1>1 DEF BookInv, CountsType, Did
    <3>4. ASSUME NEW step \in {"stamp", "look", "stock", "moves"}, NEW rest, rest.done = k.done,
                 rest \in CountRow(rest), Note(c, step, rest)
          PROVE  FALSE
      <4> DEFINE w == [rest EXCEPT !.done = @ \cup {step}]
      <4>1. w.done = k.done \cup {step}
        BY <3>4 DEF CountRow
      <4>2. count' = [count EXCEPT ![c] = w]
        BY <3>4 DEF Note
      <4> HIDE DEF w, k
      <4>3. count'[c] = w
        BY <3>3, <4>2
      <4> QED BY <1>1, <3>3, <4>1, <4>3
    <3>5. ~CountFails(c)
      <4>1. SUFFICES ASSUME CountFails(c) PROVE FALSE
        OBVIOUS
      <4> DEFINE w == [k EXCEPT !.done = @ \ {"stock", "moves", "write"}]
      <4>2. w.done = k.done \ {"stock", "moves", "write"} /\ count' = [count EXCEPT ![c] = w]
        BY <3>3, <4>1 DEF CountFails, CountRow
      <4> HIDE DEF w, k
      <4>3. count'[c] = w
        BY <3>3, <4>2
      <4> QED BY <1>1, <3>3, <4>2, <4>3
    <3>6. Quantity \in Int /\ Len(balance) \in Nat /\ shelf \in Int
      BY <1>1, BalanceType DEF BookInv
    <3>7. ~Stamp(c)
      <4>1. SUFFICES ASSUME Stamp(c) PROVE FALSE
        OBVIOUS
      <4>2. PICK n \in 1..(Len(balance) + MaxSkew) : Note(c, "stamp", [count[c] EXCEPT !.stamp = n])
        BY <4>1 DEF Stamp
      <4> DEFINE rest == [k EXCEPT !.stamp = n]
      <4>3. rest.done = k.done /\ rest \in CountRow(rest)
        <5>1. n \in Nat
          BY <3>6, <4>2, StockAssumption
        <5> QED BY <3>3, <5>1 DEF CountRow
      <4> HIDE DEF rest
      <4>4. rest = [count[c] EXCEPT !.stamp = n]
        BY DEF rest
      <4> QED BY <3>4, <4>2, <4>3, <4>4
    <3>8. ~LookAtShelf(c)
      <4>1. SUFFICES ASSUME LookAtShelf(c) PROVE FALSE
        OBVIOUS
      <4> DEFINE rest == [k EXCEPT !.counted = shelf, !.looked = Len(balance), !.drift = Drift, !.owed = Owed]
      <4>2. Note(c, "look", rest)
        BY <4>1 DEF LookAtShelf
      <4>3. rest.done = k.done /\ rest \in CountRow(rest)
        BY <3>3, <3>6, <4>2 DEF CountRow
      <4> HIDE DEF rest
      <4> QED BY <3>4, <4>2, <4>3
    <3>9. ~ReadStock(c)
      <4>1. SUFFICES ASSUME ReadStock(c) PROVE FALSE
        OBVIOUS
      <4> DEFINE rest == [k EXCEPT !.qty = Quantity, !.qtyAt = Len(balance)]
      <4>2. Note(c, "stock", rest)
        BY <4>1 DEF ReadStock
      <4>3. rest.done = k.done /\ rest \in CountRow(rest)
        BY <3>3, <3>6 DEF CountRow
      <4> HIDE DEF rest
      <4> QED BY <3>4, <4>2, <4>3
    <3>10. ~ReadMovements(c)
      <4>1. SUFFICES ASSUME ReadMovements(c) PROVE FALSE
        OBVIOUS
      <4> DEFINE m == Since(k.stamp)
                 rest == [k EXCEPT !.since = m, !.sinceAt = Len(balance)]
      <4>2. Note(c, "moves", rest) /\ "stamp" \in k.done
        BY <4>1 DEF ReadMovements, Saving, Did
      <4>3. k.stamp \in Nat \ {0}
        BY <1>1, <3>3, <4>2 DEF CountRow, BookInv, CountsType, Did
      <4>4. m \in Int
        BY <1>1, <4>3, BalanceType
      <4> HIDE DEF m
      <4>5. rest.done = k.done /\ rest \in CountRow(rest)
        BY <3>3, <3>6, <4>4 DEF CountRow
      <4> HIDE DEF rest
      <4> QED BY <3>4, <4>2, <4>5
    <3> QED BY <3>1, <3>2, <3>5, <3>7, <3>8, <3>9, <3>10 DEF CountStep
  <2>2. UNCHANGED <<sale, shelf>>
    BY <2>1 DEF CountWrite
  <2>3. Owed' = Owed /\ Owed \in Int
    <3>1. Owed' = Owed
      BY <2>2 DEF Owed, InFlight, Units
    <3>2. Owed \in Nat
      BY <1>1, OwedType DEF OrderInv, ClerkInv
    <3> QED BY <3>1, <3>2
  <2>4. PICK k : k = count[c]
    OBVIOUS
  <2>5. {"stamp", "look", "stock", "moves"} \subseteq k.done
    BY <2>1, <2>4 DEF CountWrite, Saving, Did
  <2>6. /\ k.looked \in 1..Len(balance) /\ k.qtyAt \in 1..Len(balance) /\ k.sinceAt \in 1..Len(balance)
        /\ k.owed \in Nat /\ k.counted \in Int /\ k.stamp \in Nat \ {0}
        /\ k.drift = (balance[k.looked] - k.counted) - k.owed
        /\ k.qty = balance[k.qtyAt]
        /\ k.since = IF k.stamp < k.sinceAt THEN balance[k.sinceAt] - balance[k.stamp] ELSE 0
    BY <1>1, <2>4, <2>5 DEF NotesInv, Notes
  <2> DEFINE stamped == IF k.stamp < k.sinceAt THEN k.stamp ELSE k.sinceAt
  <2>7. Len(balance) \in Nat /\ stamped \in 1..Len(balance) /\ k.since = balance[k.sinceAt] - balance[stamped]
    <3>1. Len(balance) \in Nat /\ \A i \in 1..Len(balance) : balance[i] \in Int
      BY <1>1, BalanceType, ElementOfSeq DEF BookInv
    <3>2. CASE k.stamp < k.sinceAt
      BY <2>6, <3>1, <3>2
    <3>3. CASE ~(k.stamp < k.sinceAt)
      BY <2>6, <3>1, <3>3
    <3> QED BY <3>2, <3>3
  <2>8. PICK looked, quantity, since, stamp \in Int :
          /\ looked = balance[k.looked] /\ quantity = balance[k.qtyAt]
          /\ since = balance[k.sinceAt] /\ stamp = balance[stamped]
    BY <1>1, <2>6, <2>7, ElementOfSeq DEF BookInv
  <2>9. Misjudged(c) = (looked - stamp) + (since - quantity) - k.owed
    <3>1. Misjudged(c) = (balance[k.looked] - balance[stamped]) + (balance[k.sinceAt] - balance[k.qtyAt]) - k.owed
      BY <2>4, Zenon DEF Misjudged
    <3> HIDE DEF stamped
    <3> QED BY <2>8, <3>1
  <2>10. PICK off \in Int :
           off = -k.drift + Misjudged(c) /\ Delta(c) = off /\ k.drift \in Int /\ Misjudged(c) \in Int
    <3>1. Delta(c) = k.counted - (quantity - (since - stamp))
      BY <2>4, <2>6, <2>7, <2>8 DEF Delta
    <3>2. k.drift = (looked - k.counted) - k.owed
      BY <2>6, <2>8
    <3>3. PICK m : m = Misjudged(c)
      OBVIOUS
    <3>4. m = (looked - stamp) + (since - quantity) - k.owed
      BY <2>9, <3>3
    <3> HIDE DEF stamped
    <3>5. PICK d, e, o, h : d = Delta(c) /\ e = k.drift /\ o = k.owed /\ h = k.counted
      OBVIOUS
    <3>6. o \in Int /\ h \in Int
      BY <2>6, <3>5
    <3>7. /\ d = h - (quantity - (since - stamp)) /\ e = (looked - h) - o
          /\ m = (looked - stamp) + (since - quantity) - o
      BY <3>1, <3>2, <3>4, <3>5, Zenon
    <3>8. d = -e + m /\ -e + m \in Int /\ e \in Int /\ m \in Int
      BY <3>6, <3>7
    <3> QED BY <3>3, <3>5, <3>8
  <2>11. Quantity \in Int /\ shelf \in Int
    BY <1>1, BalanceType DEF BookInv
  <2>12. Quantity' = Quantity + off
    <3>1. CASE Delta(c) # 0
      <4>1. Move(Delta(c)) /\ Delta(c) \in Int
        BY <2>1, <2>10, <3>1 DEF CountWrite
      <4>2. Quantity' = Quantity + Delta(c)
        BY <1>1, <4>1, Moved
      <4> QED BY <2>10, <4>2
    <3>2. CASE Delta(c) = 0
      <4>1. balance' = balance
        BY <2>1, <3>2 DEF CountWrite, stockVars
      <4>2. Quantity' = Quantity /\ off = 0
        BY <2>10, <3>2, <4>1 DEF Quantity
      <4> QED BY <2>11, <4>2
    <3> QED BY <3>1, <3>2
  <2>13. PICK q, h, o, m : q = Quantity /\ h = shelf /\ o = Owed /\ m = Misjudged(c)
    OBVIOUS
  <2>14. Drift = q - h - o /\ Drift' = (q + off) - h - o
    BY <2>2, <2>3, <2>12, <2>13 DEF Drift
  <2>15. (q + off) - h - o = (q - h - o) - k.drift + m
    BY <2>3, <2>10, <2>11, <2>13
  <2> QED BY <2>4, <2>13, <2>14, <2>15
<1>2. OrderInv /\ BookInv /\ ClerkInv /\ NotesInv /\ [Next]_vars =>
        [\A c \in Counts :
           ~Did(c, "write") /\ "write" \in count'[c].done =>
             Drift' = Drift - count[c].drift + Misjudged(c)]_vars
  BY <1>1
<1> QED BY <1>2, StockInductive, PTL DEF Spec, CountTakesOutError
=============================================================================
