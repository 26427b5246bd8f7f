---------------------------- MODULE PaymentBook -----------------------------
(***************************************************************************)
(* What the order desk promises about money, and nothing else: payments    *)
(* are booked one at a time, each under a key that was not used for the    *)
(* same purpose before, never beyond the amount due and never on a closed  *)
(* order; refunds never beyond what was taken.  Prices and the set of      *)
(* closed orders may change at any moment, only not in the same step in    *)
(* which money moves in.                                                   *)
(***************************************************************************)
EXTENDS Integers

CONSTANTS Orders, Keys, NoKey

VARIABLES
  due,     \* due[o]: the price of order o now
  closed,  \* orders that take no payments
  taken,   \* taken[o]: money taken
  given,   \* given[o]: money given back
  used     \* used[o][p]: the keys on the entries of order o made for purpose p

book == <<taken, given, used>>

Init ==
  /\ due    = [o \in Orders |-> 0]
  /\ closed = {}
  /\ taken  = [o \in Orders |-> 0]
  /\ given  = [o \in Orders |-> 0]
  /\ used   = [o \in Orders |-> [p \in {"sale", "refund"} |-> {}]]

\* The entry for this purpose is made under key k, unless k is on one already.
Mark(o, purpose, k) ==
  /\ k \notin used[o][purpose]
  /\ used' = [used EXCEPT ![o][purpose] = @ \cup ({k} \ {NoKey})]

Take(o, k, n) ==
  /\ o \notin closed
  /\ taken[o] + n - given[o] <= due[o]
  /\ Mark(o, "sale", k)
  /\ taken' = [taken EXCEPT ![o] = @ + n]
  /\ UNCHANGED <<due, closed, given>>

\* Giving everything back closes the order, as part of the same step.
Give(o, k, n) ==
  /\ given[o] + n <= taken[o]
  /\ Mark(o, "refund", k)
  /\ given' = [given EXCEPT ![o] = @ + n]
  /\ closed' \in {closed, closed \cup {o}, closed \ {o}}
  /\ UNCHANGED <<due, taken>>

\* An entry without money: the note of a cancellation.
Note(o, k) ==
  /\ Mark(o, "sale", k)
  /\ UNCHANGED <<due, closed, taken, given>>

\* Rounds, discounts, voids, cancellations: the book is not touched.
Revise ==
  /\ UNCHANGED book
  /\ due' \in [Orders -> Nat]
  /\ closed' \in SUBSET Orders

Next ==
  \/ Revise
  \/ \E o \in Orders, k \in Keys \cup {NoKey} :
       \/ \E n \in 1..due[o] : Take(o, k, n)
       \/ \E n \in 1..taken[o] : Give(o, k, n)
       \/ Note(o, k)

Spec == Init /\ [][Next]_<<due, closed, taken, given, used>>
=============================================================================
