--------------------------- MODULE MCOfflineQueue ---------------------------
(* Values of the constants of OfflineQueue for model checking. *)
EXTENDS OfflineQueue

CONSTANTS w1, w2, s1, s2, b1

MCOneTab   == {w1}
MCTwoTabs  == {w1, w2}
MCOneSale  == {s1}
MCNoBill   == {}
MCOneBill  == {b1}
=============================================================================
