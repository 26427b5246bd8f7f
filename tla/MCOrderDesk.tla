---------------------------- MODULE MCOrderDesk ----------------------------
(* Values of the constants of OrderDesk for model checking. *)
EXTENDS OrderDesk, TLC

CONSTANTS a1, a2, t1, t2, k1, k2, kitchen, bar

MCTwoActors   == {a1, a2}
MCSymmetry    == Permutations(MCTwoActors)
MCOneTable    == {t1}
MCTwoTables   == {t1, t2}
MCOneKey      == {k1}
MCNoKeys      == {}
MCOneStation  == {kitchen}

MCNoAdjustment == {}
MCDiscount     == {-1}

MCAll           == AllHandlers \ {"move", "table"}
MCOneBill       == {"create", "status", "sale", "cancel"}
MCLedger        == {"create", "sale", "refund", "cancel", "qr_cancel", "move", "table"}
MCCancels       == {"create", "sale", "cancel"}
=============================================================================
