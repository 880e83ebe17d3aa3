---------------------------- MODULE MCActivation ----------------------------
(* Activation with its bounds given in the .cfg files.                     *)
EXTENDS Activation
=============================================================================
