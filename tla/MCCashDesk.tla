----------------------------- MODULE MCCashDesk -----------------------------
(* Values of the constants of CashDesk for model checking. *)
EXTENDS CashDesk

CONSTANTS b1, b2, h1, c1

MCScopes    == {b1, All}
MCBranches  == {b1, b2}
MCHands     == {h1}
MCTicks     == {c1}
=============================================================================
