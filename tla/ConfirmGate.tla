---------------------------- MODULE ConfirmGate ----------------------------
(***************************************************************************)
(* The two-turn confirmation of a high-impact call in a tainted session:   *)
(* the gate's memory (trust/confirm_gate_state.py), its policy             *)
(* (trust/confirm_gate.py), the router's chokepoint that consults it       *)
(* (kernel/tool_router.py), the session taint, and the part of the agentic *)
(* turn that drives them (kernel/turn_pass.py, kernel/pass_servicing.py,   *)
(* kernel/orchestrator.py): one look per turn, one precondition and one    *)
(* read call per pass, the sandbox run between a refusal and its spoken    *)
(* request, and cancellation (barge-in or the 90 s bound) at every await.  *)
(*                                                                         *)
(* A call is a tool with one canonical argument set: two calls are equal   *)
(* exactly when their fingerprints are.                                    *)
(***************************************************************************)
EXTENDS Naturals

CONSTANTS
  Calls,          \* the router-serviced calls the model may emit
  NoCall,         \* None: no call in a slot, nothing pending, nothing to say
  Tools,          \* the mounted router tools
  NoTool,         \* None: no grant
  ToolOf,         \* Calls -> Tools
  HighImpact,     \* tools whose route is high-impact (RouteImpact.high_impact)
  Tainting,       \* tools mounted with taint=True
  TurnGranted,    \* TURN_GRANTED_TOOLS
  Precondition,   \* PRECONDITION_TOOLS
  MaxPasses       \* MAX_AGENTIC_ITERATIONS

ASSUME CallsAssumption ==
  /\ NoCall \notin Calls
  /\ NoTool \notin Tools
  /\ ToolOf \in [Calls -> Tools]

\* docs__open only reads a local file: it is not high-impact.
ASSUME ToolsAssumption ==
  /\ HighImpact \subseteq Tools
  /\ Precondition \subseteq Tools \ HighImpact

ASSUME MaxPassesAssumption == MaxPasses \in Nat \ {0}

VARIABLES
  (* GateState *)
  pending,        \* [call, approved]: the ONE call awaiting the user's word
  observed,       \* observed_this_turn: the turn's one look is spent
  missed,         \* the last observed utterance was neither answer
  spoken,         \* the request built and not yet handed to the voice
  grant,          \* the tool granted for this turn
  (* SessionTaint *)
  tainted,
  (* the turn in flight *)
  pc,             \* where the turn's coroutine is
  pass,           \* result.passes_serviced
  utterance,      \* what the detector makes of this turn's transcript
  choice,         \* this pass's tool_choice
  preCall,        \* this pass's precondition_call
  readCall,       \* this pass's read_call
  wantsRun,       \* this pass carries a run_code call and a sandbox is mounted
  (* history, read by the properties only *)
  answered,       \* the call this turn's approval answered
  openAtStart,    \* a call was pending when this turn began
  refusals,       \* calls the gate refused in this turn
  releases,       \* per-call approvals spent in this turn
  requests,       \* requests handed to the voice in this turn
  egress,         \* the gated call that is executing
  question        \* what became of the pending call's spoken request

gateVars  == <<pending, observed, missed, spoken, grant>>
turnVars  == <<pc, pass, utterance, choice, preCall, readCall, wantsRun>>
histVars  == <<answered, openAtStart, refusals, releases, requests, egress,
               question>>
vars      == <<gateVars, tainted, turnVars, histVars>>

Utterances == {"approve", "refuse", "other"}
NoPending  == [call |-> NoCall, approved |-> FALSE]

\* A request is built and held, handed to the voice, and then asked aloud or
\* lost with the voice.
Questions == {"none", "held", "handed", "asked", "lost"}

\* The coroutine's positions; at those in AwaitPoints it is suspended.
Positions  == {"idle", "capture", "stream", "precondition", "runningPre",
               "read", "runningRead", "sandbox", "handover", "speaking",
               "passEnd"}
AwaitPoints == {"capture", "stream", "runningPre", "runningRead", "sandbox",
                "speaking"}

FlagsOK ==
  /\ observed \in BOOLEAN /\ missed \in BOOLEAN /\ tainted \in BOOLEAN
  /\ wantsRun \in BOOLEAN
  /\ openAtStart \in BOOLEAN

DataOK ==
  /\ pending \in [call : Calls \cup {NoCall}, approved : BOOLEAN]
  /\ spoken \in Calls \cup {NoCall}
  /\ grant \in Tools \cup {NoTool}
  /\ pc \in Positions
  /\ pass \in 0 .. MaxPasses - 1
  /\ utterance \in Utterances /\ question \in Questions
  /\ choice \in {"auto", "none"}
  /\ preCall \in Calls \cup {NoCall} /\ readCall \in Calls \cup {NoCall}
  /\ answered \in Calls \cup {NoCall} /\ egress \in Calls \cup {NoCall}
  /\ refusals \in Nat /\ releases \in Nat /\ requests \in Nat

TypeOK == FlagsOK /\ DataOK

Init ==
  /\ pending = NoPending /\ observed = TRUE /\ missed = FALSE
  /\ spoken = NoCall /\ grant = NoTool
  /\ tainted = FALSE
  /\ pc = "idle" /\ pass = 0 /\ utterance = "other" /\ choice = "auto"
  /\ preCall = NoCall /\ readCall = NoCall /\ wantsRun = FALSE
  /\ answered = NoCall /\ openAtStart = FALSE
  /\ refusals = 0 /\ releases = 0 /\ requests = 0
  /\ egress = NoCall /\ question = "none"

-----------------------------------------------------------------------------
(* The gate's own operations *)

\* GateState.awaiting_approval: a refused call still waits for the word.
AwaitingApproval == pending.call # NoCall /\ ~pending.approved

\* Mutated form: a waiting refusal no longer makes the pass toolless.
ToolChoiceWithoutBrake ==
  IF pass >= MaxPasses - 1 THEN {"none"} ELSE {"auto", "none"}

\* loop_tool_choice: the last pass and a waiting refusal are toolless; so is
\* a pass after a drawing, which is not modelled here and may hold or not.
LoopToolChoice ==
  IF pass >= MaxPasses - 1 \/ AwaitingApproval THEN {"none"} ELSE {"auto", "none"}

\* Mutated form: the grant is not ended at the turn boundary.
ArmKeepingGrant == observed' = FALSE /\ UNCHANGED grant

\* GateState.arm, from TurnPass.new_turn_voice.
Arm == observed' = FALSE /\ grant' = NoTool

\* The approval branch of observe: a turn-granted tool gets the grant and its
\* request is answered; any other pending is marked and left in place.
HearApproval ==
  /\ missed' = FALSE
  /\ answered' = pending.call
  /\ IF ToolOf[pending.call] \in TurnGranted
     THEN /\ grant' = ToolOf[pending.call]
          /\ pending' = NoPending
          /\ spoken' = NoCall
     ELSE /\ pending' = [call |-> pending.call, approved |-> TRUE]
          /\ UNCHANGED <<grant, spoken>>

\* A refusal and an utterance that is neither both clear the pending; only
\* the second is a miss.
HearNoApproval ==
  /\ missed' = (utterance = "other")
  /\ pending' = NoPending
  /\ UNCHANGED <<grant, spoken, answered>>

\* ConfirmGate.observe: called at the head of every pass, effective once.
Observe ==
  IF observed
  THEN UNCHANGED <<gateVars, answered>>
  ELSE /\ observed' = TRUE
       /\ \/ /\ pending.call = NoCall
             /\ missed' = FALSE
             /\ UNCHANGED <<pending, spoken, grant, answered>>
          \/ pending.call # NoCall /\ utterance = "approve" /\ HearApproval
          \/ pending.call # NoCall /\ utterance # "approve" /\ HearNoApproval

Gated(c)      == ToolOf[c] \in HighImpact /\ tainted
Covers(c)     == grant # NoTool /\ ToolOf[c] = grant

\* Mutated form: the approval matches the tool and not its arguments.
ReleasedByTool(c) == /\ pending.approved
                     /\ ToolOf[pending.call] = ToolOf[c]

\* GateState.released_by: the fingerprints are equal.
ReleasedBy(c) == pending.call = c /\ pending.approved

\* GateState.consume
Consume ==
  /\ pending' = NoPending
  /\ missed' = FALSE
  /\ spoken' = NoCall
  /\ UNCHANGED <<observed, grant>>

\* GateState.place and the spoken request built beside it.
Place(c) ==
  /\ pending' = [call |-> c, approved |-> FALSE]
  /\ spoken' = c
  /\ UNCHANGED <<observed, missed, grant>>

-----------------------------------------------------------------------------
(* The turn *)

\* Mutated form: a new turn drops the request of the turn before.
NewTurnDroppingTheRequest(u) ==
  /\ pc = "idle"
  /\ Arm
  /\ pc' = "capture" /\ pass' = 0 /\ utterance' = u /\ choice' = "auto"
  /\ answered' = NoCall /\ refusals' = 0 /\ releases' = 0 /\ requests' = 0
  /\ openAtStart' = (pending.call # NoCall)
  /\ spoken' = NoCall
  /\ UNCHANGED <<pending, missed, tainted, preCall, readCall, wantsRun, egress,
                 question>>

\* run_turn starts: new_turn_voice arms the gate.
NewTurn(u) ==
  /\ pc = "idle"
  /\ Arm
  /\ pc' = "capture" /\ pass' = 0 /\ utterance' = u /\ choice' = "auto"
  /\ answered' = NoCall /\ refusals' = 0 /\ releases' = 0 /\ requests' = 0
  /\ openAtStart' = (pending.call # NoCall)
  /\ UNCHANGED <<pending, missed, spoken, tainted, preCall, readCall, wantsRun,
                 egress, question>>

\* The turn's coroutine is over, by its own return or by cancellation: at the
\* await of the voice, with the request unsaid.
StopTurn ==
  /\ pc' = "idle"
  /\ preCall' = NoCall /\ readCall' = NoCall /\ wantsRun' = FALSE
  /\ egress' = NoCall
  /\ question' = IF pc = "speaking" /\ question = "handed" THEN "lost" ELSE question
  /\ UNCHANGED <<gateVars, tainted, pass, utterance, choice, answered,
                 openAtStart, refusals, releases, requests>>

\* can_afford() is false: the pass never reaches the gate.
RefuseForBudget == pc = "capture" /\ StopTurn

\* can_afford() is true: consume() looks, then picks the tool choice.
BeginPass ==
  /\ pc = "capture"
  /\ Observe
  /\ pc' = "stream"
  /\ UNCHANGED <<tainted, pass, utterance, preCall, readCall, wantsRun,
                 openAtStart, refusals, releases, requests, egress, question>>
  /\ choice' \in LoopToolChoice'

\* The provider's stream ends with no TurnComplete: the pass is abandoned.
StreamEndsEarly == pc = "stream" /\ StopTurn

\* The stream completes: first precondition call, first other router call
\* and first run call are kept. A toolless pass emits none.
StreamCompletes(p, r, w) ==
  /\ pc = "stream"
  /\ choice = "none" => p = NoCall /\ r = NoCall /\ ~w
  /\ p # NoCall => ToolOf[p] \in Precondition
  /\ r # NoCall => ToolOf[r] \notin Precondition
  /\ preCall' = p /\ readCall' = r /\ wantsRun' = w
  /\ pc' = "precondition"
  /\ UNCHANGED <<gateVars, tainted, pass, utterance, choice, histVars>>

\* ToolRouter.service up to its await, for the call c of one of the two slots;
\* running is the await of the plugin, next the position after the slot.
Execute(c, running) ==
  /\ pc' = running
  /\ egress' = IF Gated(c) THEN c ELSE NoCall
  /\ UNCHANGED <<refusals, question>>

\* The slot is empty.
SkipSlot(c, next) ==
  /\ c = NoCall
  /\ pc' = next
  /\ UNCHANGED <<gateVars, refusals, releases, egress, question>>

\* refusal_for lets it through: not gated, or covered by the turn's grant.
PassCall(c, running) ==
  /\ c # NoCall
  /\ ~Gated(c) \/ Covers(c)
  /\ Execute(c, running)
  /\ UNCHANGED <<gateVars, releases>>

\* refusal_for spends the approval of exactly this call.
ReleaseCall(c, running) ==
  /\ c # NoCall
  /\ Gated(c) /\ ~Covers(c) /\ ReleasedBy(c)
  /\ Consume
  /\ Execute(c, running)
  /\ releases' = releases + 1

\* refusal_for refuses and (re)places the pending: the call does not run.
RefuseCall(c, next) ==
  /\ c # NoCall
  /\ Gated(c) /\ ~Covers(c) /\ ~ReleasedBy(c)
  /\ Place(c)
  /\ pc' = next
  /\ refusals' = refusals + 1
  /\ question' = "held"
  /\ UNCHANGED <<releases, egress>>

Service(c, running, next) ==
  /\ \/ SkipSlot(c, next)
     \/ PassCall(c, running)
     \/ ReleaseCall(c, running)
     \/ RefuseCall(c, next)
  /\ UNCHANGED <<tainted, pass, utterance, choice, preCall, readCall, wantsRun,
                 answered, openAtStart, requests>>

\* The plugin's result (or its failure note) comes back through _outcome_for,
\* which raises the session taint of a tainting route.
Return(c, running, next) ==
  /\ pc = running
  /\ pc' = next
  /\ tainted' = (tainted \/ ToolOf[c] \in Tainting)
  /\ egress' = NoCall
  /\ UNCHANGED <<gateVars, pass, utterance, choice, preCall, readCall, wantsRun,
                 answered, openAtStart, refusals, releases, requests, question>>

AfterRead == IF wantsRun THEN "sandbox" ELSE "handover"

ServicePrecondition == pc = "precondition" /\ Service(preCall, "runningPre", "read")
ReturnPrecondition  == Return(preCall, "runningPre", "read")
ServiceRead         == pc = "read" /\ Service(readCall, "runningRead", AfterRead)
ReturnRead          == Return(readCall, "runningRead", AfterRead)

\* sandbox.run comes back.
SandboxReturns ==
  /\ pc = "sandbox"
  /\ pc' = "handover"
  /\ UNCHANGED <<gateVars, tainted, pass, utterance, choice, preCall, readCall,
                 wantsRun, histVars>>

\* take_spoken_request: handed over ONCE, to the voice.
HandOver ==
  /\ pc = "handover"
  /\ spoken' = NoCall
  /\ IF spoken = NoCall
     THEN pc' = "passEnd" /\ UNCHANGED <<requests, question>>
     ELSE /\ pc' = "speaking"
          /\ requests' = requests + 1
          /\ question' = IF spoken = pending.call THEN "handed" ELSE question
  /\ UNCHANGED <<pending, observed, missed, grant, tainted, pass, utterance,
                 choice, preCall, readCall, wantsRun, answered, openAtStart,
                 refusals, releases, egress>>

\* speak_or_feed returns: the request is said, or a voice that a barge-in has
\* closed swallows it.
Spoke ==
  /\ pc = "speaking"
  /\ pc' = "passEnd"
  /\ question' \in IF question = "handed" THEN {"asked", "lost"} ELSE {question}
  /\ UNCHANGED <<gateVars, tainted, pass, utterance, choice, preCall, readCall,
                 wantsRun, answered, openAtStart, refusals, releases, requests,
                 egress>>

\* stop_reason is tool_use and a pass is left.
NextPass ==
  /\ pc = "passEnd" /\ choice = "auto" /\ pass < MaxPasses - 1
  /\ pc' = "capture" /\ pass' = pass + 1
  /\ preCall' = NoCall /\ readCall' = NoCall /\ wantsRun' = FALSE
  /\ UNCHANGED <<gateVars, tainted, utterance, choice, histVars>>

EndTurn == pc = "passEnd" /\ StopTurn

\* A barge-in or the session bound cancels the coroutine where it waits.
Cancel == pc \in AwaitPoints /\ StopTurn

Next ==
  \/ \E u \in Utterances : NewTurn(u)
  \/ RefuseForBudget
  \/ BeginPass
  \/ StreamEndsEarly
  \/ \E p, r \in Calls \cup {NoCall}, w \in BOOLEAN : StreamCompletes(p, r, w)
  \/ ServicePrecondition \/ ReturnPrecondition
  \/ ServiceRead \/ ReturnRead
  \/ SandboxReturns
  \/ HandOver \/ Spoke
  \/ NextPass \/ EndTurn
  \/ Cancel

Spec == Init /\ [][Next]_vars

-----------------------------------------------------------------------------
(* Safety *)

\* No high-impact call executes in a tainted session unless THIS turn's own
\* utterance approved it: exactly that call, or its tool when the tool is
\* turn-granted (confirm_gate.py, the binding). The approval answers a call
\* refused in an EARLIER turn: the model never authorises itself.
EgressHasItsAnswer ==
  egress # NoCall =>
    /\ utterance = "approve" /\ openAtStart
    /\ answered # NoCall
    /\ \/ egress = answered
       \/ /\ ToolOf[egress] = ToolOf[answered]
          /\ ToolOf[egress] \in TurnGranted

\* One approval releases at most one call: an approval kept per call is spent
\* by its first use, and a second release in the turn never happens
\* (GateState.consume, "SINGLE-USE").
ApprovalIsSingleUse == releases <= 1

\* Together: an egress has an approval of its own, and no approval has two.
EgressIsApproved == EgressHasItsAnswer /\ ApprovalIsSingleUse

\* The gate loses no question and asks none twice: of a call that waits for its
\* answer, the gate holds the request (a turn cut between the refusal and the
\* hand-over) exactly as long as it was never handed over, and a request handed
\* over is on the voice's lips, was asked, or was lost BY THE VOICE, cut or closed
\* while it spoke.  The last is not excluded: the call stays approvable then
\* though the user did not hear the question (take_spoken_request clears its slot
\* before the await that speaks).
QuestionIsNotLost ==
  pending.call # NoCall =>
    /\ question # "none"
    /\ question = "held" <=> spoken = pending.call
    /\ question = "handed" => pc = "speaking"

\* Once a call is refused the turn is toolless (DEC-131): no other routed call
\* runs in it, and the user is asked about one call per turn, not one a pass.
RefusalBrakesTheTurn ==
  /\ refusals <= 1
  /\ refusals = 1 => pc \notin {"runningPre", "runningRead"}

\* An approval is not gagged by the brake it answers (DEC-131's warning): the
\* pass that must re-issue the approved call may carry tools.
ApprovalLiftsTheBrake ==
  answered # NoCall /\ refusals = 0 => ~AwaitingApproval

\* The retry note is chosen only in a turn whose own utterance answered a
\* pending question with neither word (DEC-136 ruling 3, DEC-147): a miss of
\* an earlier turn never colours a later refusal.
MissIsThisTurns ==
  missed /\ observed /\ pc # "idle" => utterance = "other" /\ openAtStart

\* Together: the turn is braked exactly while a question is open that it did not
\* answer, and the question is asked in the words this turn's utterance earned.
BrakeFollowsTheQuestion ==
  RefusalBrakesTheTurn /\ ApprovalLiftsTheBrake /\ MissIsThisTurns

-----------------------------------------------------------------------------
(* Refinement *)

\* The approval is in force from the turn's look to the end of the turn.
InForce == pc # "idle" /\ observed

AskedNow   == IF InForce /\ pending.approved THEN NoCall ELSE pending.call
LicenceNow == IF InForce THEN {c \in Calls : ReleasedBy(c) \/ Covers(c)} ELSE {}

Abstract == INSTANCE Approval WITH asked <- AskedNow, licence <- LicenceNow

\* The gate, driven by the real turn, grants no more than the abstract
\* approval protocol does.
ImplementsApproval == Abstract!Spec
=============================================================================
