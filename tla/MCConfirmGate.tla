--------------------------- MODULE MCConfirmGate ---------------------------
(* ConfirmGate with the tools the composition root mounts: docs__open      *)
(* (the precondition), web__search (turn-granted) and web__fetch (per      *)
(* call); two argument sets for each of the two gated tools.               *)
EXTENDS ConfirmGate

CONSTANTS open, search1, search2, fetch1, fetch2

MCCalls  == {open, search1, search2, fetch1, fetch2}
MCTools  == {"docs__open", "web__search", "web__fetch"}
MCToolOf == [c \in MCCalls |->
               CASE c = open -> "docs__open"
                 [] c \in {search1, search2} -> "web__search"
                 [] c \in {fetch1, fetch2} -> "web__fetch"]
MCHighImpact   == {"web__search", "web__fetch"}
MCTainting     == MCTools
MCTurnGranted  == {"web__search"}
MCPrecondition == {"docs__open"}
=============================================================================
