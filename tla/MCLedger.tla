------------------------------ MODULE MCLedger ------------------------------
(* Small instances of Ledger for TLC.                                      *)
EXTENDS LedgerFacts

CONSTANTS bank, card, stock, cny, usd

INSTANCE LedgerForms
=============================================================================
