-------------------------- MODULE MCNavigatorMode --------------------------
(* NavigatorMode with its bounds given in the .cfg file.                   *)
EXTENDS NavigatorMode
=============================================================================
