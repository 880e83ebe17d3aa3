--------------------------- MODULE NavigatorMode ---------------------------
(***************************************************************************)
(* A walkthrough across turns: the mode and its frame                      *)
(* (kernel/session_mode.py, kernel/mode_frame.py, kernel/plan.py), the one *)
(* authority over its transitions (kernel/mode_transition.py), the         *)
(* verification of a step (kernel/step_verification.py), the tools the     *)
(* model drives it with (kernel/navigator_service.py,                      *)
(* kernel/pass_servicing.py), the prelude of a turn                        *)
(* (kernel/turn_prelude.py, kernel/verbosity.py), and the chip that shows  *)
(* it on the screen (overlay/mode_indicator.py,                            *)
(* overlay/window_commands.py), which captures, the auto-hide and a        *)
(* barge-in wipe.                                                          *)
(*                                                                         *)
(* A plan of n steps is the numbers 1 .. n: nothing in the program edits   *)
(* a plan once it is built.  Commands to the overlay are applied in the    *)
(* order in which they are queued.                                         *)
(***************************************************************************)
EXTENDS Integers

CONSTANTS
  MaxSteps,       \* MAX_STEPS
  MaxPasses,      \* MAX_AGENTIC_ITERATIONS
  MaxRefresh,     \* MAX_REFRESH_FOLLOWUPS
  Timeout         \* MODE_IDLE_TIMEOUT_S, in ticks of the clock

ASSUME NavigatorAssumption ==
  /\ MaxSteps \in Nat \ {0} /\ MaxPasses \in Nat \ {0}
  /\ MaxRefresh \in Nat /\ Timeout \in Nat \ {0}

VARIABLES
  (* kept across turns *)
  mode,           \* the frame: total steps, current step, verification
  idle,           \* time since last_activity_at, up to Timeout
  level,          \* VerbosityController's level
  chip,           \* the indicator: the text it remembers and the one drawn
  timer,          \* the auto-hide is pending
  (* the turn *)
  pc,             \* where its coroutine is
  pass,           \* result.passes_serviced
  refreshUsed,    \* refresh follow-ups granted
  barge,          \* a barge-in awaits the voice before it cancels the turn
  cut,            \* how the turn was cut short, "no" when it was not
  (* history, read by the properties only *)
  seen,           \* the last frame grabbed shows the chip
  wiped,          \* the last turn was cut inside a capture
  closed,         \* this turn has moved the step or judged it
  fell            \* this step was declared impossible to verify

modeVars == <<mode, idle, closed, fell>>
turnVars == <<pc, pass, refreshUsed, barge, cut>>
vars     == <<mode, idle, level, chip, timer, pc, pass, refreshUsed, barge, cut,
              seen, wiped, closed, fell>>

-----------------------------------------------------------------------------
(* The frame *)

Verifications == {"AWAITING", "VERIFYING", "FALLBACK"}

\* What the accessors of SessionMode answer without a mode.
NoMode == [total |-> 0, cur |-> 0, ver |-> "AWAITING"]

Frames == [total : 1 .. MaxSteps, cur : 1 .. MaxSteps, ver : Verifications]
Modes  == {NoMode} \cup {f \in Frames : f.cur <= f.total}

\* mode_indicator_text: the step and the total; without a mode, nothing.
Indicator(m) == <<m.cur, m.total>>
Nothing      == Indicator(NoMode)

\* ModeIndicator's three verbs.
Showing(m)  == [text |-> Indicator(m), drawn |-> Indicator(m)]
Cleared(c)  == [c EXCEPT !.drawn = Nothing]
Restored(c) == [c EXCEPT !.drawn = c.text]

Chips == [text : (0 .. MaxSteps) \X (0 .. MaxSteps),
          drawn : (0 .. MaxSteps) \X (0 .. MaxSteps)]

Levels == {"normal", "short", "exact"}     \* "short" also stands for detailed

\* What an utterance holds for the two detectors, exit words and verbosity.
Utterances == {"plain", "exit"} \cup Levels

\* At the positions of Captures the coroutine is inside FrameCapture.capture.
Captures  == {"settle", "grabbed"}
Awaits    == Captures \cup {"stream", "service", "note", "cap"}
Positions == Awaits \cup {"rest", "drain"}

FlagsOK ==
  /\ timer \in BOOLEAN /\ barge \in BOOLEAN /\ seen \in BOOLEAN
  /\ wiped \in BOOLEAN /\ closed \in BOOLEAN /\ fell \in BOOLEAN

DataOK ==
  /\ mode \in Modes /\ idle \in 0 .. Timeout
  /\ level \in Levels /\ chip \in Chips
  /\ pc \in Positions
  /\ pass \in 0 .. MaxPasses /\ refreshUsed \in 0 .. MaxRefresh
  /\ cut \in {"no", "timeout", "failed", "cancelled"}

\* The state has the types of the fields it stands for.
TypeOK == FlagsOK /\ DataOK

Init ==
  /\ mode = NoMode /\ idle = 0 /\ level = "normal"
  /\ chip = Showing(NoMode) /\ timer = FALSE
  /\ pc = "rest" /\ pass = 0 /\ refreshUsed = 0 /\ barge = FALSE /\ cut = "no"
  /\ seen = FALSE /\ wiped = FALSE /\ closed = FALSE /\ fell = FALSE

-----------------------------------------------------------------------------
(* Verification *)

Outcomes == {"RESULT_PROVEN", "RESULT_NOT_PROVEN_OBSERVABLE", "RESULT_UNOBSERVABLE"}

\* StepVerification.outcome: a claim the kernel does not know ("other"), or a
\* proof without evidence, is not proven.
Outcome(claim, evidence) ==
  IF claim \notin Outcomes \/ (claim = "RESULT_PROVEN" /\ ~evidence)
    THEN "RESULT_NOT_PROVEN_OBSERVABLE" ELSE claim

\* A stored verification is never ADVANCED: at_cycle_boundary's last branch
\* is not reached.
AtCycleBoundary(v) == IF v = "FALLBACK" THEN v ELSE "VERIFYING"

\* after_verification.
AfterVerification(v, outcome) ==
  CASE v # "VERIFYING"                               -> v
    [] v = "VERIFYING" /\ outcome = "RESULT_PROVEN"       -> "ADVANCED"
    [] v = "VERIFYING" /\ outcome = "RESULT_UNOBSERVABLE" -> "FALLBACK"
    [] OTHER                                         -> "AWAITING"

-----------------------------------------------------------------------------
(* The frame's verbs; each but the last two fires the observer, which shows *)
(* the chip anew.                                                           *)

Enter(n) ==
  /\ mode' = [total |-> n, cur |-> 1, ver |-> "AWAITING"]
  /\ idle' = 0 /\ closed' = TRUE /\ fell' = FALSE
  /\ chip' = Showing(mode')

Leave ==
  /\ mode' = NoMode /\ idle' = 0 /\ closed' = TRUE /\ fell' = FALSE
  /\ chip' = Showing(mode')

\* Mutated form: the verification stays with the pointer.
RecordProgressKeeping(k) ==
  /\ mode' = [mode EXCEPT !.cur = k]
  /\ closed' = TRUE /\ fell' = FALSE
  /\ chip' = Showing(mode')
  /\ UNCHANGED idle

\* record_progress: the verification starts over with the pointer.
RecordProgress(k) ==
  /\ mode' = [mode EXCEPT !.cur = k, !.ver = "AWAITING"]
  /\ closed' = TRUE /\ fell' = FALSE
  /\ chip' = Showing(mode')
  /\ UNCHANGED idle

RecordVerification(v) ==
  /\ mode' = [mode EXCEPT !.ver = v]
  /\ closed' = TRUE /\ fell' = (v = "FALLBACK")
  /\ UNCHANGED <<idle, chip>>

ModeStays == UNCHANGED <<modeVars, chip>>

\* ModeAuthority on a move: outside of the plan it is refused.
MoveTo(k) == IF k \in 1 .. mode.total THEN RecordProgress(k) ELSE ModeStays

-----------------------------------------------------------------------------
(* The overlay *)

\* A hide whose reason has ended wipes the chip and brings it back at once.
Hidden == chip' = Restored(Cleared(chip))

\* FrameCapture.capture up to its first await: the chip stays wiped.
HideForCapture(c) == chip' = Cleared(c) /\ timer' = FALSE

-----------------------------------------------------------------------------
(* The turn *)

\* Mutated form: the turn's own activity renews the mode first.
ExpiresRenewed == FALSE

\* is_idle_expired.
Expires == mode # NoMode /\ idle = Timeout

\* TurnPrelude.begin_turn and the turn up to its first capture: a lapsed mode
\* is gone before the turn renews it, then the exit word, then the boundary.
BeginTurn(u) ==
  /\ pc = "rest"
  /\ LET left == Expires \/ (u = "exit" /\ mode # NoMode)
         now  == IF left THEN NoMode ELSE mode
     IN /\ mode' = IF now = NoMode THEN now
                   ELSE [now EXCEPT !.ver = AtCycleBoundary(@)]
        /\ HideForCapture(IF left THEN Showing(NoMode) ELSE chip)
        /\ fell' = (fell /\ ~left)
  /\ idle' = 0 /\ closed' = FALSE
  /\ level' = IF u \in Levels THEN u ELSE level
  /\ pc' = "settle" /\ pass' = 0 /\ refreshUsed' = 0
  /\ cut' = "no" /\ wiped' = FALSE
  /\ UNCHANGED <<barge, seen>>

\* The pixels are taken.
Grab ==
  /\ pc = "settle" /\ pc' = "grabbed"
  /\ seen' = (chip.drawn # Nothing)
  /\ UNCHANGED <<modeVars, level, chip, timer, pass, refreshUsed, barge, cut, wiped>>

\* Mutated form: the capture leaves the chip to whoever hides next.
CaptureReturnsBare ==
  /\ pc = "grabbed" /\ pc' = "stream"
  /\ UNCHANGED <<modeVars, level, chip, timer, pass, refreshUsed, barge, cut, seen, wiped>>

\* The capture brings the chip back.
CaptureReturns ==
  /\ pc = "grabbed" /\ pc' = "stream"
  /\ chip' = Restored(chip)
  /\ UNCHANGED <<modeVars, level, timer, pass, refreshUsed, barge, cut, seen, wiped>>

\* A pass's stream completes, or the turn ends before or in it: the budget
\* refuses, or the stream dies.
StreamReturns ==
  /\ pc = "stream" /\ pc' \in {"service", "drain"}
  /\ UNCHANGED <<modeVars, level, chip, timer, pass, refreshUsed, barge, cut, seen, wiped>>

\* The pass's other calls are serviced; what follows runs up to the await of
\* the approval request.
Services ==
  /\ pc = "service" /\ pc' = "note" /\ pass' = pass + 1
  /\ UNCHANGED <<level, timer, refreshUsed, barge, cut, seen, wiped>>

\* The last pass of the loop is toolless.
MayCall == Services /\ pass < MaxPasses - 1

\* No navigator call, or a malformed one.
ServiceNothing == Services /\ ModeStays

\* navigator__plan with n well-formed steps.
ServicePlan(n) ==
  MayCall /\ Enter(IF n > MaxSteps THEN MaxSteps ELSE n)

\* navigator__move.  Without a mode there is no step to move to.
ServiceAdvance == MayCall /\ MoveTo(mode.cur + 1)
ServiceBack    == MayCall /\ MoveTo(mode.cur - 1)
ServiceJump(k) == MayCall /\ MoveTo(k)
ServiceDone    == MayCall /\ IF mode = NoMode THEN ModeStays ELSE Leave

\* navigator__verify: a proof advances through the authority; refused at the
\* last step, the verification rests in AWAITING.
ServiceVerify(claim, evidence) ==
  LET v == AfterVerification(mode.ver, Outcome(claim, evidence))
  IN /\ MayCall
     /\ CASE mode = NoMode  -> ModeStays
          [] mode # NoMode /\ v # "ADVANCED" -> RecordVerification(v)
          [] mode # NoMode /\ v = "ADVANCED" /\ mode.cur < mode.total ->
               RecordProgress(mode.cur + 1)
          [] OTHER -> RecordVerification("AWAITING")

\* The pass returns: the loop goes on, with a fresh frame when the pass asked
\* for one and has one left; or it ends, or meets its cap.
PassReturns ==
  /\ pc = "note"
  /\ \/ /\ pc' = "drain" /\ UNCHANGED <<chip, timer, refreshUsed>>
     \/ /\ pc' = IF pass < MaxPasses THEN "stream" ELSE "cap"
        /\ UNCHANGED <<chip, timer, refreshUsed>>
     \/ /\ pass < MaxPasses /\ refreshUsed < MaxRefresh
        /\ pc' = "settle" /\ refreshUsed' = refreshUsed + 1
        /\ HideForCapture(chip)
  /\ UNCHANGED <<modeVars, level, pass, barge, cut, seen, wiped>>

CapSpoken ==
  /\ pc = "cap" /\ pc' = "drain"
  /\ UNCHANGED <<modeVars, level, chip, timer, pass, refreshUsed, barge, cut, seen, wiped>>

\* The session bound cuts the pipeline at any await, a failing provider in
\* its stream; the finally drains.
CutShort ==
  /\ pc \in Awaits /\ pc' = "drain"
  /\ cut' \in IF pc = "stream" THEN {"timeout", "failed"} ELSE {"timeout"}
  /\ wiped' = (pc \in Captures)
  /\ UNCHANGED <<modeVars, level, chip, timer, pass, refreshUsed, barge, seen>>

\* The auto-hide is armed when the turn asked for a drawing.
MayArm == timer' \in {timer, TRUE}

\* Only an exception skips the decay of the level.
Decays == cut # "failed"

\* The voice is finished and run_turn ends; a barge-in that still awaits the
\* voice finds no turn to cancel.
DrainReturns ==
  /\ pc = "drain" /\ pc' = "rest"
  /\ MayArm
  /\ level' = IF Decays /\ level = "exact" THEN "normal" ELSE level
  /\ barge' = FALSE
  /\ UNCHANGED <<modeVars, chip, pass, refreshUsed, cut, seen, wiped>>

-----------------------------------------------------------------------------
(* Around the turn *)

\* interrupt_turn: the auto-hide is dropped and the overlay hidden.  Before
\* run_turn there is no voice to await.
InterruptStarts ==
  /\ ~barge
  /\ timer' = FALSE /\ Hidden
  /\ barge' = (pc # "rest")
  /\ UNCHANGED <<modeVars, level, pc, pass, refreshUsed, cut, seen, wiped>>

\* The voice is silent and the turn is cancelled.  finish() on a closed voice
\* returns at once; a turn cancelled in its drain does not arm the auto-hide.
\* Nothing after the finally runs.
CancelTurn ==
  /\ barge /\ barge' = FALSE
  /\ pc' = "rest" /\ cut' = "cancelled"
  /\ IF pc = "drain" THEN UNCHANGED <<timer, wiped>>
     ELSE MayArm /\ wiped' = (pc \in Captures)
  /\ UNCHANGED <<modeVars, level, chip, pass, refreshUsed, seen>>

TimerFires ==
  /\ timer /\ timer' = FALSE /\ Hidden
  /\ UNCHANGED <<modeVars, level, pc, pass, refreshUsed, barge, cut, seen, wiped>>

Tick ==
  /\ mode # NoMode /\ idle < Timeout /\ idle' = idle + 1
  /\ UNCHANGED <<mode, level, chip, timer, turnVars, seen, wiped, closed, fell>>

-----------------------------------------------------------------------------

Next ==
  \/ \E u \in Utterances : BeginTurn(u)
  \/ Grab \/ CaptureReturns \/ StreamReturns
  \/ ServiceNothing
  \/ \E n \in 1 .. MaxSteps + 1 : ServicePlan(n) \/ ServiceJump(n)
  \/ ServiceAdvance \/ ServiceBack \/ ServiceDone
  \/ \E claim \in Outcomes \cup {"other"}, evidence \in BOOLEAN :
       ServiceVerify(claim, evidence)
  \/ PassReturns \/ CapSpoken \/ CutShort \/ DrainReturns
  \/ InterruptStarts \/ CancelTurn \/ TimerFires \/ Tick

Spec == Init /\ [][Next]_vars

-----------------------------------------------------------------------------
(* Properties *)

\* A proof can only ever advance the step the user stood on when the turn
\* began, and only once: a turn that has moved the pointer, started another
\* plan, or judged the step already, holds no open cycle.
OneJudgementPerTurn == mode.ver = "VERIFYING" => ~closed

\* A step that was declared impossible to verify stays in FALLBACK, over
\* turns and further claims, until the pointer is set anew or the mode ends.
FallbackHolds == fell => mode.ver = "FALLBACK"

\* Together: a verdict is given once, by the turn that was asked for it, and stays.
VerdictStands == OneJudgementPerTurn /\ FallbackHolds

\* A mode that has been idle for the timeout is gone at the next turn: the
\* utterance that discovers it neither renews it nor is decorated by it.
ExpiryComesFirst ==
  [][pc = "rest" /\ pc' # "rest" /\ idle = Timeout => mode' = NoMode]_vars

\* Between turns the chip shows the step the kernel is on, and nothing without
\* a mode, whatever hid the overlay; only a turn that was cut inside a capture
\* may leave it wiped.
RestingChipShowsMode ==
  /\ chip.text = Indicator(mode)
  /\ pc = "rest" /\ ~wiped => chip.drawn = Indicator(mode)

\* No frame shows the model its own chip, unless a barge-in that is about to
\* cancel this very turn brought it back.
FrameHidesTheChip == pc = "grabbed" /\ seen => barge

\* Together: the user sees the chip of the kernel's step, and the model does not.
ChipIsForTheUser == RestingChipShowsMode /\ FrameHidesTheChip

\* A request for an exact length lasts one turn, unless that turn failed or
\* was cancelled.
ExactLastsOneTurn ==
  pc = "rest" /\ level = "exact" => cut \in {"failed", "cancelled"}

\* Together: neither the mode nor a requested length outlives its term.
ModesLapse == []ExactLastsOneTurn /\ ExpiryComesFirst
=============================================================================
