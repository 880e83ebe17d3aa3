------------------------------ MODULE Approval ------------------------------
(***************************************************************************)
(* What the two-turn confirmation PROMISES, without the pass loop, the     *)
(* look, the spoken hand-over or the cancellation points that implement it *)
(* (src/muthis/trust/confirm_gate.py).                                     *)
(*                                                                         *)
(* A tainted session may send a high-impact call out only under a licence. *)
(* A licence comes from the user's answer to the one call being asked      *)
(* about; it covers that call once, or every call of its tool when the     *)
(* tool is turn-granted, and it never outlives the turn of the answer.     *)
(***************************************************************************)
CONSTANTS Calls,        \* a call: a tool with one canonical argument set
          NoCall,       \* "no call"
          ToolOf,       \* Calls -> tool name
          TurnGranted   \* the tools whose approval covers the whole turn

VARIABLES asked,        \* the one call the user is being asked about
          licence,      \* the calls that may go out now
          egress        \* the gated call executing now

vars == <<asked, licence, egress>>

\* What one approval of call c licenses.
Scope(c) == IF ToolOf[c] \in TurnGranted
            THEN {d \in Calls : ToolOf[d] = ToolOf[c]}
            ELSE {c}

\* The part of a set of licences that every use or rebinding leaves alone.
Standing(L) == {c \in L : ToolOf[c] \in TurnGranted}

Init == asked = NoCall /\ licence = {} /\ egress = NoCall

\* An unlicensed call is refused: it becomes THE call asked about, and an
\* approval given for another call is gone.
Ask(c) == /\ c \notin licence
          /\ asked' = c
          /\ licence' = Standing(licence)
          /\ UNCHANGED egress

\* The user's word for the call asked about.
Approve == /\ asked # NoCall
           /\ licence' = Scope(asked)
           /\ asked' = NoCall
           /\ UNCHANGED egress

\* Any other word: nothing is asked any more.
Dismiss == /\ asked # NoCall
           /\ asked' = NoCall
           /\ UNCHANGED <<licence, egress>>

\* A licensed call goes out; a per-call licence is spent by it.
Send(c) == /\ c \in licence
           /\ egress = NoCall
           /\ egress' = c
           /\ licence' = Standing(licence)
           /\ UNCHANGED asked

Arrive == /\ egress # NoCall
          /\ egress' = NoCall
          /\ UNCHANGED <<asked, licence>>

\* The turn is over: no licence survives it. A per-call approval that was
\* never used may go back to being a question, never to being a licence.
EndTurn == /\ licence' = {}
           /\ egress' = NoCall
           /\ asked' \in {asked} \cup (licence \ Standing(licence))

Next == \/ \E c \in Calls : Ask(c) \/ Send(c)
        \/ Approve
        \/ Dismiss
        \/ Arrive
        \/ EndTurn

Spec == Init /\ [][Next]_vars
=============================================================================
