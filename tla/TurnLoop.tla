------------------------------ MODULE TurnLoop ------------------------------
(***************************************************************************)
(* One user turn as an agentic loop: Orchestrator.run_turn and its         *)
(* pipeline (kernel/orchestrator.py), the pass (kernel/turn_pass.py,       *)
(* kernel/pass_servicing.py), the draw circuit breaker                     *)
(* (kernel/highlight_gate.py, kernel/draw_dispatch.py), the pairing of     *)
(* tool results and the image strip (kernel/tool_result_pairing.py,        *)
(* kernel/history_hygiene.py), the frame capture (kernel/frame_capture.py),*)
(* the auto-hide timer (overlay_autohide.py) and the daily budget          *)
(* (kernel/budget.py), under the session bound, a barge-in and failures.   *)
(*                                                                         *)
(* The history is reduced to what is sent to the provider and can be       *)
(* wrong: whether the tool_uses stored last lack their tool_results, which *)
(* the provider refuses, and whether a screenshot is stored, of this turn  *)
(* or of an earlier one.  Speech is an await.                              *)
(***************************************************************************)
EXTENDS Naturals

CONSTANTS
  MaxPasses,      \* MAX_AGENTIC_ITERATIONS
  MaxRefresh,     \* MAX_REFRESH_FOLLOWUPS
  Limit,          \* the daily limit, in units of cost
  MaxCost,        \* bound: what one pass may cost
  MaxToolCost     \* bound: what the one paid call of a pass may cost

ASSUME BoundsAssumption ==
  /\ MaxPasses \in Nat \ {0}
  /\ MaxRefresh \in Nat
  /\ Limit \in Nat \ {0}
  /\ MaxCost \in Nat /\ MaxToolCost \in Nat

VARIABLES
  (* the turn's coroutine *)
  pc,             \* where it is
  pass,           \* the loop's index
  serviced,       \* result.passes_serviced
  refreshUsed,    \* refresh follow-ups granted in this turn
  choice,         \* this pass's tool_choice
  content,        \* the tool calls of this pass
  stop,           \* its stop_reason
  drawCalls,      \* a draw call is in result.tool_calls
  cut,            \* how the pipeline was cut short, "no" when it was not
  interrupt,      \* "no", "aborting" (interrupt_turn awaits) or "done"
  (* what it drives *)
  drawn,          \* HighlightGate.drawn
  shown,          \* a drawing is on the screen
  timer,          \* the auto-hide task is pending
  spent,          \* today's total in the ledger
  asked,          \* the message stored last is a tool_use with no tool_result
  image,          \* the screenshots stored: "none", "fresh", or one is "stale"
  (* history, read by the properties only *)
  draws,          \* drawings put on the screen in this turn
  refreshCut,     \* a turn was cut inside its refresh capture
  lastCut         \* cut of the turn before this one

turnVars  == <<pc, pass, serviced, refreshUsed, choice, content, stop, drawCalls,
               cut, interrupt>>
historyVars == <<draws, refreshCut, lastCut>>
worldVars == <<drawn, shown, timer, spent, asked, image, historyVars>>
vars      == <<turnVars, worldVars>>

\* At the positions of AwaitPoints the coroutine is suspended in its pipeline.
AwaitPoints == {"capture", "stream", "speak", "service", "refresh", "note", "cap"}
Positions   == AwaitPoints \cup {"idle", "afford", "drain", "unwind"}

\* What a pass asks for: a draw tool (with or without a valid shape), how many
\* screen refreshes, tools answered by their name, and unknown tools.
Contents == [draw : {"none", "valid", "invalid"}, refreshes : 0 .. 2,
             named : BOOLEAN, unknown : BOOLEAN]
Silent   == [draw |-> "none", refreshes |-> 0, named |-> FALSE, unknown |-> FALSE]

\* "end_turn" stands for every stop_reason that does not ask to go on.
Stops == {"tool_use", "end_turn"}

FlagsOK ==
  /\ drawCalls \in BOOLEAN /\ drawn \in BOOLEAN /\ shown \in BOOLEAN
  /\ timer \in BOOLEAN /\ asked \in BOOLEAN /\ refreshCut \in BOOLEAN

DataOK ==
  /\ pc \in Positions
  /\ pass \in 0 .. MaxPasses - 1 /\ serviced \in 0 .. MaxPasses
  /\ refreshUsed \in 0 .. MaxRefresh
  /\ choice \in {"auto", "none"}
  /\ content \in Contents
  /\ stop \in Stops
  /\ {cut, lastCut} \subseteq {"no", "timeout", "failed", "cancelled"}
  /\ image \in {"none", "fresh", "stale"}
  /\ interrupt \in {"no", "aborting", "done"}
  /\ spent \in Nat
  /\ draws \in Nat

\* The state has the types of the fields it stands for.
TypeOK == FlagsOK /\ DataOK

Init ==
  /\ pc = "idle" /\ pass = 0 /\ serviced = 0 /\ refreshUsed = 0
  /\ choice = "auto" /\ content = Silent /\ stop = "end_turn"
  /\ drawCalls = FALSE /\ cut = "no" /\ interrupt = "no"
  /\ drawn = FALSE /\ shown = FALSE /\ timer = FALSE /\ spent = 0
  /\ asked = FALSE /\ image = "none"
  /\ draws = 0 /\ refreshCut = FALSE /\ lastCut = "no"

-----------------------------------------------------------------------------
(* The capture of a frame *)

\* Mutated form: the pending auto-hide survives the capture.
HideKeepingTimer == shown' = FALSE /\ UNCHANGED timer

\* FrameCapture.capture up to its first await: the timer is dropped and
\* everything drawn is wiped off the screen.
HideForCapture == timer' = FALSE /\ shown' = FALSE

-----------------------------------------------------------------------------
(* The draw circuit breaker *)

\* next_draw: the first valid draw of the turn is buffered.
DrawsNow(c) == ~drawn /\ c.draw = "valid"

\* loop_tool_choice: the last pass and a pass after a drawing are toolless;
\* so is one under the confirm gate's brake, which may hold here or not.
LoopToolChoice ==
  IF serviced >= MaxPasses - 1 \/ drawn THEN {"none"} ELSE {"auto", "none"}

\* Mutated form: only a refused draw tells the gate.
GatesOnlyInvalid(c) == c.draw = "invalid"

\* build_tool_result_message answers a refresh (the last one asked for) and
\* the named tools by id; every other id falls to the draw branch.
Gates(c) == c.draw # "none" \/ c.unknown \/ c.refreshes > 1

ServicesRefresh == content.refreshes > 0 /\ refreshUsed < MaxRefresh

\* run_turn's finally awaits finish(); on a voice that a barge-in closed
\* finish() returns at once.
Finally == IF interrupt = "no" THEN "drain" ELSE "unwind"

-----------------------------------------------------------------------------
(* The pipeline *)

\* run_turn up to the first await of its capture.
NewTurn ==
  /\ pc = "idle"
  /\ pc' = "capture"
  /\ pass' = 0 /\ serviced' = 0 /\ refreshUsed' = 0
  /\ content' = Silent /\ drawCalls' = FALSE /\ cut' = "no" /\ interrupt' = "no"
  /\ HideForCapture
  /\ drawn' = FALSE /\ draws' = 0
  /\ lastCut' = cut
  /\ image' = IF image = "none" THEN "none" ELSE "stale"
  /\ UNCHANGED <<choice, stop, spent, asked, refreshCut>>

CaptureReturns ==
  /\ pc = "capture"
  /\ pc' = "afford"
  /\ UNCHANGED <<pass, serviced, refreshUsed, choice, content, stop, drawCalls,
                 cut, interrupt, worldVars>>

\* Budget.can_afford
CanAfford == spent < Limit

\* Asked before every pass: a refusal is spoken, otherwise the pass streams.
BeginPass ==
  /\ pc = "afford"
  /\ choice' \in LoopToolChoice
  /\ pc' = IF CanAfford THEN "stream" ELSE "note"
  /\ UNCHANGED <<pass, serviced, refreshUsed, content, stop, drawCalls, cut,
                 interrupt, worldVars>>

\* The provider refuses a history whose last tool_use has no tool_result: its
\* stream does not begin, and Fail is what remains.
IsAccepted == ~asked

\* The provider's stream ends with no TurnComplete: abandon() and return.
StreamEndsEarly ==
  /\ pc = "stream" /\ IsAccepted
  /\ pc' = "note"
  /\ drawCalls' \in IF choice = "auto" THEN {drawCalls, TRUE} ELSE {drawCalls}
  /\ UNCHANGED <<pass, serviced, refreshUsed, choice, content, stop, cut,
                 interrupt, worldVars>>

\* TurnComplete: the cost is recorded, the buffered draw applied, and the
\* pass's text handed to the voice. A toolless pass carries no call, and the
\* provider pauses on tool_use only when there is one.
StreamCompletes(c, s, cost) ==
  /\ pc = "stream" /\ IsAccepted
  /\ choice = "none" => c = Silent
  /\ s = "tool_use" => c # Silent
  /\ content' = c /\ stop' = s
  /\ drawCalls' = (drawCalls \/ c.draw # "none")
  /\ spent' = spent + cost
  /\ shown' = (shown \/ DrawsNow(c))
  /\ draws' = IF DrawsNow(c) THEN draws + 1 ELSE draws
  /\ pc' = "speak"
  /\ UNCHANGED <<pass, serviced, refreshUsed, choice, cut, interrupt, drawn,
                 timer, asked, image, refreshCut, lastCut>>

\* speak_or_feed returned: service_pass_calls counts the pass and serves it.
Spoke ==
  /\ pc = "speak"
  /\ pc' = "service"
  /\ serviced' = serviced + 1
  /\ UNCHANGED <<pass, refreshUsed, choice, content, stop, drawCalls, cut,
                 interrupt, worldVars>>

\* A routed call of the pass may cost: its price is recorded when it returns.
PayTool == \E cost \in 0 .. MaxToolCost :
             spent' = IF content.named THEN spent + cost ELSE spent

\* The tool_results are stored, and the loop decides: another pass, or the end
\* of the pipeline (the cap's note is spoken first).
PairAndGoOn(fresh) ==
  /\ drawn' = (drawn \/ Gates(content))
  /\ image' = IF fresh /\ image = "none" THEN "fresh" ELSE image
  /\ refreshUsed' = IF fresh THEN refreshUsed + 1 ELSE refreshUsed
  /\ \/ /\ stop # "tool_use" \/ (content.refreshes > 0 /\ ~fresh)
        /\ pc' = Finally
        /\ UNCHANGED pass
     \/ /\ stop = "tool_use" /\ (content.refreshes > 0 => fresh)
        /\ pc' = IF pass < MaxPasses - 1 THEN "afford" ELSE "cap"
        /\ pass' = IF pass < MaxPasses - 1 THEN pass + 1 ELSE pass
  /\ content' = Silent /\ stop' = "end_turn"
  /\ UNCHANGED <<serviced, choice, drawCalls, cut, interrupt, historyVars>>

\* Mutated form: a pass that does not pause on a tool is not paired.
PassReturnsUnpaired ==
  /\ pc = "service" /\ ~ServicesRefresh
  /\ PairAndGoOn(FALSE) /\ PayTool
  /\ UNCHANGED <<shown, timer>>
  /\ asked' = (stop # "tool_use" /\ content # Silent)

\* Nothing to refresh: the assistant message is stored, and its pairing with it.
PassReturns ==
  /\ pc = "service" /\ ~ServicesRefresh
  /\ PairAndGoOn(FALSE) /\ PayTool
  /\ asked' = FALSE
  /\ UNCHANGED <<shown, timer>>

\* The assistant message is stored, and a fresh frame is awaited before its
\* pairing is.
RefreshStarts ==
  /\ pc = "service" /\ ServicesRefresh
  /\ pc' = "refresh"
  /\ HideForCapture /\ PayTool
  /\ asked' = TRUE
  /\ UNCHANGED <<pass, serviced, refreshUsed, choice, content, stop, drawCalls,
                 cut, interrupt, drawn, image, historyVars>>

RefreshReturns ==
  /\ pc = "refresh"
  /\ PairAndGoOn(TRUE)
  /\ asked' = FALSE
  /\ UNCHANGED <<shown, timer, spent>>

\* A refusal, the cap's note or abandon() is over.
NoteSpoken ==
  /\ pc \in {"note", "cap"}
  /\ pc' = Finally
  /\ UNCHANGED <<pass, serviced, refreshUsed, choice, content, stop, drawCalls,
                 cut, interrupt, worldVars>>

\* The coroutine leaves its pipeline where it waits; calls of a broken stream
\* may have been received already.
CutShort(how) ==
  /\ pc \in AwaitPoints
  /\ pc' = Finally
  /\ cut' = how
  /\ refreshCut' = (refreshCut \/ pc = "refresh")
  /\ drawCalls' \in IF pc = "stream" /\ choice = "auto" THEN {drawCalls, TRUE}
                    ELSE {drawCalls}
  /\ UNCHANGED <<pass, serviced, refreshUsed, choice, content, stop, drawn, shown,
                 timer, spent, asked, image, draws, lastCut>>

\* The session bound (asyncio.timeout around the pipeline).
Timeout == CutShort("timeout") /\ UNCHANGED interrupt

\* The provider raises, or refuses the request; a capture never does.
Fail ==
  /\ pc = "stream"
  /\ CutShort("failed")
  /\ UNCHANGED interrupt

\* Mutated form: nor do they after the session bound.
StripsUnlessTimedOut == cut = "no"

\* run_turn's last statements run unless an exception is passing through.
Strips == cut \in {"no", "timeout"}

\* Mutated form: the timer is armed for the draws the gate has seen.
DrainReturnsByGate ==
  /\ pc \in {"drain", "unwind"}
  /\ pc' = "idle"
  /\ timer' = drawn
  /\ image' = IF Strips THEN "none" ELSE image
  /\ UNCHANGED <<pass, serviced, refreshUsed, choice, content, stop, drawCalls,
                 cut, interrupt, drawn, shown, spent, asked, historyVars>>

\* finish() returned: the auto-hide is armed for a turn that received a draw
\* call, and the stored images are dropped.
DrainReturns ==
  /\ pc \in {"drain", "unwind"}
  /\ pc' = "idle"
  /\ timer' = drawCalls
  /\ image' = IF Strips THEN "none" ELSE image
  /\ UNCHANGED <<pass, serviced, refreshUsed, choice, content, stop, drawCalls,
                 cut, interrupt, drawn, shown, spent, asked, historyVars>>

-----------------------------------------------------------------------------
(* Around the turn *)

\* interrupt_turn up to its await: timer dropped, screen wiped.
InterruptStarts ==
  /\ pc # "idle" /\ interrupt = "no"
  /\ interrupt' = "aborting"
  /\ timer' = FALSE /\ shown' = FALSE
  /\ UNCHANGED <<pc, pass, serviced, refreshUsed, choice, content, stop,
                 drawCalls, cut, drawn, spent, asked, image, historyVars>>

\* interrupt_turn returned and the task is cancelled: in its pipeline, or in
\* the drain, which either swallows the cancellation (SpeechSession.close) or
\* is left by it.
InterruptReturns ==
  /\ interrupt = "aborting" /\ interrupt' = "done"
  /\ \/ pc \in AwaitPoints /\ CutShort("cancelled")
     \/ pc \in {"idle", "drain"} /\ UNCHANGED <<pc, pass, serviced, refreshUsed,
                 choice, content, stop, drawCalls, cut, worldVars>>
     \/ /\ pc = "drain"
        /\ pc' = "idle" /\ cut' = "cancelled"
        /\ UNCHANGED <<pass, serviced, refreshUsed, choice, content, stop,
                       drawCalls, worldVars>>

\* The auto-hide's sleep is over.
TimerFires ==
  /\ timer
  /\ timer' = FALSE /\ shown' = FALSE
  /\ UNCHANGED <<turnVars, drawn, spent, asked, image, historyVars>>

\* A new UTC day: its total starts at zero.
NewDay ==
  /\ spent > 0
  /\ spent' = 0
  /\ UNCHANGED <<turnVars, drawn, shown, timer, asked, image, historyVars>>

TurnStep ==
  \/ CaptureReturns
  \/ BeginPass
  \/ StreamEndsEarly
  \/ \E c \in Contents, s \in Stops, cost \in 0 .. MaxCost :
       StreamCompletes(c, s, cost)
  \/ Spoke
  \/ PassReturns \/ RefreshStarts \/ RefreshReturns
  \/ NoteSpoken
  \/ Timeout \/ Fail
  \/ DrainReturns

Next ==
  \/ NewTurn
  \/ TurnStep
  \/ InterruptStarts \/ InterruptReturns
  \/ TimerFires
  \/ NewDay

\* Every await of a turn returns, at the latest by the session bound; so do
\* the abort and the timer's sleep. Users owe neither a turn nor a barge-in.
Fairness == WF_vars(TurnStep) /\ WF_vars(InterruptReturns) /\ WF_vars(TimerFires)

Spec == Init /\ [][Next]_vars /\ Fairness

-----------------------------------------------------------------------------
(* Properties *)

\* The circuit breaker: one drawing a turn, over both draw tools and over every
\* refresh in between (HighlightGate).
OneDrawPerTurn == draws <= 1

\* The loop never falls off its bound: the brake on the last pass makes the
\* turn end in an answer, never in the cap's note (DEC-147).
LoopEndsInAnAnswer == pc # "cap"

\* The day's total overshoots the limit by less than the pass that crossed it
\* and its one paid call: the gate is asked before EVERY pass (Rule 10).
SpendIsBounded == spent < Limit + MaxCost + MaxToolCost

\* Together: what a turn may do and cost is bounded, however its passes mix.
TurnIsBounded == OneDrawPerTurn /\ LoopEndsInAnAnswer /\ SpendIsBounded

\* A drawing left on the screen when no turn runs has its auto-hide pending,
\* whatever cut its turn short.
IdleDrawingHasTimer == pc = "idle" /\ shown => timer

\* An auto-hide is never pending inside a turn: an earlier turn's timer cannot
\* hide this turn's drawing.
TimerIsNeverStale == timer => pc = "idle"

\* Together: a drawing has exactly the timer of its own turn.
DrawingHasItsTimer == IdleDrawingHasTimer /\ TimerIsNeverStale

\* A request is refused for a tool_use without its tool_result only after a turn that
\* was cut in its refresh capture, whatever mix of calls the passes of all turns asked
\* for, and however these ended (build_tool_result_message, "or the next turn 400s").
RequestsArePaired == pc = "stream" /\ ~IsAccepted => refreshCut

\* What an earlier turn saw is sent again only right after a turn that was cancelled
\* or failed: the next one that ends by itself, or at the session bound, drops it
\* (strip_images_from_history, Bug 3).
FramesAreOfTheTurn ==
  pc = "stream" /\ image = "stale" => lastCut \in {"failed", "cancelled"}

\* Together: what a request carries of the passes and the turns before it.
RequestsAreClean == RequestsArePaired /\ FramesAreOfTheTurn

\* Every drawing goes away, by its timer, a capture or a barge-in.
DrawingsGoAway == shown ~> ~shown

=============================================================================
