----------------------------- MODULE OrderRules -----------------------------
(***************************************************************************)
(* The status rules every order handler consults: the transition table,   *)
(* the status derived from the preparation stations, and the status the   *)
(* payment routine of the database computes from the ledger.              *)
(* Pure operators, no state.                                              *)
(***************************************************************************)
EXTENDS Integers

\* Statuses an order is open in: a new round on its table is appended to it.
OpenStatus == {"pending", "preparing", "ready", "served", "partially_paid"}

OrderStatus ==
  OpenStatus \cup {"paid", "partially_refunded", "cancelled", "refunded"}

\* What each preparation station (kitchen, bar, dessert) reports;
\* "none" when the order has nothing for that station.
StationStatus == {"pending", "preparing", "served"}
NoWork        == "none"

Transitions ==
  [pending            |-> {"preparing", "ready", "served", "cancelled"},
   preparing          |-> {"pending", "ready", "served", "cancelled"},
   ready              |-> {"preparing", "served", "partially_paid", "paid",
                           "cancelled"},
   served             |-> {"ready", "partially_paid", "paid", "cancelled"},
   partially_paid     |-> {"partially_paid", "paid", "partially_refunded",
                           "refunded"},
   paid               |-> {"partially_refunded", "refunded"},
   partially_refunded |-> {"partially_refunded", "refunded"},
   cancelled          |-> {},
   refunded           |-> {}]

AllowedTransition(current, next) ==
  next = current \/ next \in Transitions[current]

\* The slowest station decides.
DeriveStatus(stations, fallback) ==
  LET reported == {stations[s] : s \in DOMAIN stations} \ {NoWork}
  IN  IF reported = {}               THEN fallback
      ELSE IF "pending" \in reported   THEN "pending"
      ELSE IF "preparing" \in reported THEN "preparing"
      ELSE "ready"

\* A partly settled order keeps its settlement status whatever the kitchen does.
AggregateStatus(current, stations) ==
  IF current \in {"partially_paid", "partially_refunded"}
  THEN current
  ELSE DeriveStatus(stations, current)

NonNegative(n) == IF n > 0 THEN n ELSE 0

\* The status apply_order_payment_mutation writes, from the amount due, the
\* sums of the ledger and the status before.
SettledStatus(due, sold, refunded, current) ==
  LET net == sold - refunded
  IN  IF net >= due                      THEN "paid"
      ELSE IF refunded > 0 /\ net <= 0   THEN "refunded"
      ELSE IF refunded > 0               THEN "partially_refunded"
      ELSE IF net > 0                    THEN "partially_paid"
      ELSE IF current \in {"pending", "preparing"} THEN "ready"
      ELSE IF current = "cancelled"      THEN "cancelled"
      ELSE "served"

\* What the nightly consistency script expects instead: a ready order nobody
\* paid for may still be ready.
ExpectedStatus(due, sold, refunded, current) ==
  LET next == SettledStatus(due, sold, refunded, current)
  IN  IF next = "served" /\ current = "ready" THEN "ready" ELSE next
=============================================================================
