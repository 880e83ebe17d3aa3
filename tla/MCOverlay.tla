----------------------------- MODULE MCOverlay -----------------------------
(* Overlay for TLC. *)
EXTENDS Overlay
=============================================================================
