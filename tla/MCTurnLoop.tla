----------------------------- MODULE MCTurnLoop -----------------------------
(* TurnLoop with its bounds given in the .cfg files.                       *)
EXTENDS TurnLoop
=============================================================================
