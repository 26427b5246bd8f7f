----------------------------- MODULE MCAccounts -----------------------------
(* Values of the constants of Accounts for model checking. *)
EXTENDS Accounts

CONSTANTS h1, h2, boss, chef, cafe, bistro

MCHands      == {h1, h2}
MCEmails     == {boss, chef}
MCBusinesses == {cafe, bistro}
=============================================================================
