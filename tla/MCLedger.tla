------------------------------ MODULE MCLedger ------------------------------
(* Ledger over two days, with small amounts. *)
EXTENDS Ledger

MCDays == 1 .. 2
=============================================================================
