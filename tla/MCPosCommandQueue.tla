-------------------------- MODULE MCPosCommandQueue --------------------------
(* Values of the constants of PosCommandQueue for model checking. *)
EXTENDS PosCommandQueue

CONSTANTS p1, p2, o1, t1

Cmd(kind, on, no, full) == [kind |-> kind, on |-> on, no |-> no, full |-> full]

MCOnePage  == {p1}
MCOrders   == {o1}
MCTables   == {t1}

MCMixed == {Cmd("ORDER_FINANCIALS_SET", o1, 1, FALSE), Cmd("PAYMENT_SALE_CASH", o1, 1, TRUE),
            Cmd("TABLE_STATUS_SET", t1, 1, FALSE)}
MCPayments == {Cmd("PAYMENT_SALE_CASH", o1, 1, FALSE), Cmd("PAYMENT_SALE_CASH", o1, 2, FALSE)}
=============================================================================
