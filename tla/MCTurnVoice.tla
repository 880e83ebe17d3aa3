---------------------------- MODULE MCTurnVoice ----------------------------
(* TurnVoice with its bound given in the .cfg files.                       *)
EXTENDS TurnVoice
=============================================================================
