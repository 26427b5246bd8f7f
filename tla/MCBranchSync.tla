---------------------------- MODULE MCBranchSync ----------------------------
(* Values of the constants of BranchSync for model checking. *)
EXTENDS BranchSync

CONSTANTS d1, d2, r1, r2, x1, x2

MCDevices  == {d1, d2}
MCReaders  == {d2}
MCRequests == {r1, r2}
MCEntities == {x1, x2}
=============================================================================
