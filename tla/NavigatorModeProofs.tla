------------------------ MODULE NavigatorModeProofs ------------------------
(***************************************************************************)
(* Proofs about NavigatorMode, for plans of any length, any bound on       *)
(* passes and refreshes, and any timeout.                                  *)
(***************************************************************************)
EXTENDS NavigatorMode, TLAPS

USE NavigatorAssumption

-----------------------------------------------------------------------------
(* The records of the model *)

\* Setting the pointer of a mode inside its plan gives a mode again.
LEMMA PointerSet ==
  ASSUME NEW m \in Modes, NEW k \in 1 .. m.total
  PROVE  /\ [m EXCEPT !.cur = k, !.ver = "AWAITING"] \in Modes
         /\ [m EXCEPT !.cur = k, !.ver = "AWAITING"].ver = "AWAITING"
<1>1. m \in Frames /\ m.total \in 1 .. MaxSteps
  BY DEF Modes, Frames, NoMode
<1>2. [m EXCEPT !.cur = k, !.ver = "AWAITING"] \in Frames
  <2>1. k \in 1 .. MaxSteps /\ "AWAITING" \in Verifications
    BY <1>1 DEF Verifications
  <2> QED
    BY <1>1, <2>1 DEF Frames
<1>3. /\ [m EXCEPT !.cur = k, !.ver = "AWAITING"].cur = k
      /\ [m EXCEPT !.cur = k, !.ver = "AWAITING"].total = m.total
      /\ [m EXCEPT !.cur = k, !.ver = "AWAITING"].ver = "AWAITING"
  BY <1>1 DEF Frames
<1>4. k <= m.total
  BY <1>1
<1> QED
  BY <1>2, <1>3, <1>4 DEF Modes

\* Storing a verification leaves the step and the total alone.
LEMMA VerificationSet ==
  ASSUME NEW m \in Modes, m # NoMode, NEW v \in Verifications
  PROVE  /\ [m EXCEPT !.ver = v] \in Modes
         /\ [m EXCEPT !.ver = v].ver = v
         /\ Indicator([m EXCEPT !.ver = v]) = Indicator(m)
  BY DEF Modes, Frames, NoMode, Verifications, Indicator

LEMMA NewFrame ==
  ASSUME NEW n \in 1 .. MaxSteps
  PROVE  /\ [total |-> n, cur |-> 1, ver |-> "AWAITING"] \in Modes
         /\ [total |-> n, cur |-> 1, ver |-> "AWAITING"].ver = "AWAITING"
  BY DEF Modes, Frames, Verifications

LEMMA ModeFields ==
  ASSUME NEW m \in Modes
  PROVE  /\ m.total \in 0 .. MaxSteps /\ m.cur \in 0 .. m.total
         /\ m.ver \in Verifications
         /\ m # NoMode => m \in Frames /\ m.cur \in 1 .. m.total
         /\ NoMode \in Modes
  BY DEF Modes, Frames, NoMode, Verifications

\* The chip's verbs give chips.
LEMMA ChipVerbs ==
  /\ \A m \in Modes : /\ Showing(m) \in Chips
                      /\ Showing(m).text = Indicator(m)
                      /\ Showing(m).drawn = Indicator(m)
  /\ \A c \in Chips : /\ Cleared(c) \in Chips /\ Restored(c) \in Chips
                      /\ Cleared(c).text = c.text /\ Restored(c).text = c.text
                      /\ Cleared(c).drawn = Nothing /\ Restored(c).drawn = c.text
                      /\ Restored(Cleared(c)) = Restored(c)
<1>1. ASSUME NEW m \in Modes
      PROVE  /\ Showing(m) \in Chips /\ Showing(m).text = Indicator(m)
             /\ Showing(m).drawn = Indicator(m)
  BY ModeFields DEF Showing, Chips, Indicator
<1>2. ASSUME NEW c \in Chips
      PROVE  /\ Cleared(c) \in Chips /\ Restored(c) \in Chips
             /\ Cleared(c).text = c.text /\ Restored(c).text = c.text
             /\ Cleared(c).drawn = Nothing /\ Restored(c).drawn = c.text
             /\ Restored(Cleared(c)) = Restored(c)
  <2>1. Cleared(c) \in Chips /\ Cleared(c).text = c.text /\ Cleared(c).drawn = Nothing
    BY DEF Cleared, Chips, Nothing, Indicator, NoMode
  <2>2. Restored(c) \in Chips /\ Restored(c).text = c.text /\ Restored(c).drawn = c.text
    BY DEF Restored, Chips
  <2>3. Restored(Cleared(c)) = Restored(c)
    BY <2>1, <2>2 DEF Restored, Cleared, Chips
  <2> QED
    BY <2>1, <2>2, <2>3
<1> QED
  BY <1>1, <1>2

\* What a verification can become.
LEMMA Judged ==
  ASSUME NEW v \in Verifications, NEW claim \in Outcomes \cup {"other"},
         NEW evidence \in BOOLEAN
  PROVE  LET w == AfterVerification(v, Outcome(claim, evidence))
         IN /\ w # "ADVANCED" => w \in Verifications \ {"VERIFYING"}
            /\ v = "FALLBACK" => w = "FALLBACK"
  BY DEF AfterVerification, Outcome, Outcomes, Verifications

-----------------------------------------------------------------------------
(* Types *)

LEMMA InCaptureIsBoolean ==
  (pc \in Captures) \in BOOLEAN
<1>1. CASE pc \in Captures
  <2>1. (pc \in Captures) = TRUE
    BY <1>1
  <2>2. QED
    BY <2>1, Zenon
<1>2. CASE pc \notin Captures
  <2>1. (pc \in Captures) = FALSE
    BY <1>2
  <2>2. QED
    BY <2>1, Zenon
<1> QED
  BY <1>1, <1>2

\* The Boolean-valued variables keep their type in every step.
LEMMA FlagsStep == FlagsOK /\ [Next]_vars => FlagsOK'
<1> SUFFICES ASSUME FlagsOK, [Next]_vars PROVE FlagsOK'
  OBVIOUS
<1> USE DEF FlagsOK, modeVars, turnVars
<1>1. ASSUME NEW u \in Utterances, BeginTurn(u) PROVE FlagsOK'
  BY <1>1, Zenon DEF BeginTurn, HideForCapture
<1>2. CASE Grab \/ CaptureReturns \/ StreamReturns
  BY <1>2, Zenon DEF Grab, CaptureReturns, StreamReturns
<1>3. CASE ServiceNothing
  BY <1>3, Zenon DEF ServiceNothing, Services, ModeStays
<1>4. ASSUME NEW n \in 1 .. MaxSteps + 1, ServicePlan(n) \/ ServiceJump(n) PROVE FlagsOK'
  BY <1>4, Zenon DEF ServicePlan, ServiceJump, MayCall, Services, Enter, MoveTo,
                     RecordProgress, ModeStays
<1>5. CASE ServiceAdvance \/ ServiceBack
  BY <1>5, Zenon DEF ServiceAdvance, ServiceBack, MayCall, Services, MoveTo,
                     RecordProgress, ModeStays
<1>6. CASE ServiceDone
  BY <1>6, Zenon DEF ServiceDone, MayCall, Services, Leave, ModeStays
<1>7. ASSUME NEW claim \in Outcomes \cup {"other"}, NEW evidence \in BOOLEAN,
             ServiceVerify(claim, evidence)
      PROVE  FlagsOK'
  <2>1. MayCall /\ (ModeStays \/ (\E v : RecordVerification(v))
                      \/ RecordProgress(mode.cur + 1))
    BY <1>7, Zenon DEF ServiceVerify
  <2>2. QED
    BY <2>1, Zenon DEF MayCall, Services, ModeStays, RecordVerification, RecordProgress
<1>8. CASE PassReturns
  BY <1>8, Zenon DEF PassReturns, HideForCapture
<1>9. CASE CapSpoken \/ CutShort
  <2>1. wiped' \in {(pc \in Captures), wiped}
    BY <1>9 DEF CapSpoken, CutShort
  <2>2. UNCHANGED <<timer, barge, seen, closed, fell>>
    BY <1>9 DEF CapSpoken, CutShort
  <2>3. QED
    BY <2>1, <2>2, InCaptureIsBoolean, Zenon
<1>10. CASE DrainReturns
  BY <1>10, Zenon DEF DrainReturns, MayArm
<1>11. CASE InterruptStarts
  BY <1>11, Zenon DEF InterruptStarts
<1>12. CASE CancelTurn
  <2>1. CASE pc = "drain"
    BY <1>12, <2>1, Zenon DEF CancelTurn
  <2>2. CASE pc # "drain"
    BY <1>12, <2>2, InCaptureIsBoolean, Zenon DEF CancelTurn, MayArm
  <2>3. QED
    BY <2>1, <2>2
<1>13. CASE TimerFires \/ Tick
  BY <1>13, Zenon DEF TimerFires, Tick
<1>14. CASE UNCHANGED vars
  BY <1>14, Zenon DEF vars
<1> QED
  BY <1>1, <1>2, <1>3, <1>4, <1>5, <1>6, <1>7, <1>8, <1>9, <1>10, <1>11, <1>12,
     <1>13, <1>14 DEF Next

\* What a turn's navigator call may do to the frame and the chip: nothing, a
\* new frame shown, or another verification of the same step.
NavEffect ==
  \/ ModeStays
  \/ /\ mode' \in Modes /\ mode'.ver = "AWAITING"
     /\ idle' \in {0, idle} /\ closed' = TRUE /\ fell' = FALSE
     /\ chip' = Showing(mode')
  \/ /\ mode # NoMode
     /\ \E v \in Verifications \ {"VERIFYING"} :
          /\ mode' = [mode EXCEPT !.ver = v]
          /\ fell' = (v = "FALLBACK")
          /\ mode.ver = "FALLBACK" => v = "FALLBACK"
     /\ closed' = TRUE /\ UNCHANGED <<idle, chip>>

ServiceCall ==
  \/ ServiceNothing
  \/ \E n \in 1 .. MaxSteps + 1 : ServicePlan(n) \/ ServiceJump(n)
  \/ ServiceAdvance \/ ServiceBack \/ ServiceDone
  \/ \E claim \in Outcomes \cup {"other"}, evidence \in BOOLEAN :
       ServiceVerify(claim, evidence)

\* A move of the pointer is refused or sets it inside the plan.
LEMMA MoveEffect ==
  ASSUME mode \in Modes, NEW k \in Int, MoveTo(k)
  PROVE  NavEffect
<1>1. CASE k \in 1 .. mode.total
  BY <1>1, PointerSet DEF MoveTo, RecordProgress, NavEffect
<1>2. CASE k \notin 1 .. mode.total
  BY <1>2 DEF MoveTo, NavEffect
<1> QED
  BY <1>1, <1>2

LEMMA CallEffect ==
  ASSUME mode \in Modes, ServiceCall
  PROVE  Services /\ NavEffect
<1>1. CASE ServiceNothing
  BY <1>1 DEF ServiceNothing, NavEffect
<1>2. ASSUME NEW n \in 1 .. MaxSteps + 1, ServicePlan(n)
      PROVE  Services /\ NavEffect
  <2>1. (IF n > MaxSteps THEN MaxSteps ELSE n) \in 1 .. MaxSteps
    OBVIOUS
  <2>2. QED
    BY <1>2, <2>1, NewFrame DEF ServicePlan, MayCall, Enter, NavEffect
<1>3. ASSUME NEW n \in 1 .. MaxSteps + 1, ServiceJump(n)
      PROVE  Services /\ NavEffect
  BY <1>3, MoveEffect DEF ServiceJump, MayCall
<1>4. CASE ServiceAdvance \/ ServiceBack
  BY <1>4, MoveEffect, ModeFields DEF ServiceAdvance, ServiceBack, MayCall
<1>5. CASE ServiceDone
  BY <1>5, ModeFields DEF ServiceDone, MayCall, Leave, NavEffect, NoMode
<1>6. ASSUME NEW claim \in Outcomes \cup {"other"}, NEW evidence \in BOOLEAN,
             ServiceVerify(claim, evidence)
      PROVE  Services /\ NavEffect
  <2> DEFINE w == AfterVerification(mode.ver, Outcome(claim, evidence))
  <2>1. /\ w # "ADVANCED" => w \in Verifications \ {"VERIFYING"}
        /\ mode.ver = "FALLBACK" => w = "FALLBACK"
    BY Judged, ModeFields
  <2>2. Services
    BY <1>6 DEF ServiceVerify, MayCall
  <2>3. CASE mode = NoMode
    BY <1>6, <2>2, <2>3 DEF ServiceVerify, NavEffect
  <2>4. CASE mode # NoMode /\ w # "ADVANCED"
    <3>1. RecordVerification(w)
      BY <1>6, <2>4 DEF ServiceVerify
    <3>2. QED
      BY <2>1, <2>2, <2>4, <3>1 DEF RecordVerification, NavEffect
  <2>5. CASE mode # NoMode /\ w = "ADVANCED" /\ mode.cur < mode.total
    <3>1. RecordProgress(mode.cur + 1) /\ mode.cur + 1 \in 1 .. mode.total
      BY <1>6, <2>5, ModeFields DEF ServiceVerify
    <3>2. MoveTo(mode.cur + 1)
      BY <3>1 DEF MoveTo
    <3>3. QED
      BY <2>2, <3>1, <3>2, MoveEffect
  <2>6. CASE mode # NoMode /\ w = "ADVANCED" /\ ~(mode.cur < mode.total)
    <3>1. RecordVerification("AWAITING")
      BY <1>6, <2>6 DEF ServiceVerify
    <3>2. "AWAITING" \in Verifications \ {"VERIFYING"} /\ mode.ver # "FALLBACK"
      BY <2>1, <2>6 DEF Verifications
    <3>3. QED
      BY <2>2, <2>6, <3>1, <3>2 DEF RecordVerification, NavEffect
  <2>7. QED
    BY <2>3, <2>4, <2>5, <2>6
<1> QED
  BY <1>1, <1>2, <1>3, <1>4, <1>5, <1>6 DEF ServiceCall

\* The calls of a pass as one step, so that what they have in common is
\* proved once.
LEMMA NextSplit ==
  ASSUME [Next]_vars
  PROVE  \/ \E u \in Utterances : BeginTurn(u)
         \/ Grab \/ CaptureReturns \/ StreamReturns
         \/ ServiceCall
         \/ PassReturns \/ CapSpoken \/ CutShort \/ DrainReturns
         \/ InterruptStarts \/ CancelTurn \/ TimerFires \/ Tick
         \/ UNCHANGED vars
  BY DEF Next, ServiceCall

\* The frame that meets a turn's boundary.
LEMMA Boundary ==
  ASSUME mode \in Modes, NEW m \in {NoMode, mode}
  PROVE  LET b == IF m = NoMode THEN m ELSE [m EXCEPT !.ver = AtCycleBoundary(@)]
         IN /\ b \in Modes /\ Indicator(b) = Indicator(m)
            /\ m.ver = "FALLBACK" => b.ver = "FALLBACK"
<1> DEFINE b == IF m = NoMode THEN m ELSE [m EXCEPT !.ver = AtCycleBoundary(@)]
<1>1. m \in Modes
  BY ModeFields
<1>2. CASE m = NoMode
  BY <1>1, <1>2
<1>3. CASE m # NoMode
  <2>1. AtCycleBoundary(m.ver) \in Verifications
    BY <1>1, ModeFields DEF AtCycleBoundary, Verifications
  <2>2. b = [m EXCEPT !.ver = AtCycleBoundary(m.ver)]
    BY <1>3
  <2>3. b \in Modes /\ Indicator(b) = Indicator(m) /\ b.ver = AtCycleBoundary(m.ver)
    BY <1>1, <1>3, <2>1, <2>2, VerificationSet
  <2>4. QED
    BY <2>3 DEF AtCycleBoundary
<1> QED
  BY <1>2, <1>3

\* A pass is only begun while the loop has one left.
PassLeft == pc \in Captures \cup {"stream", "service"} => pass < MaxPasses

\* The other variables keep their type.
LEMMA DataStep == DataOK /\ PassLeft /\ [Next]_vars => DataOK' /\ PassLeft'
<1> SUFFICES ASSUME DataOK, PassLeft, [Next]_vars PROVE DataOK' /\ PassLeft'
  OBVIOUS
<1> USE DEF DataOK, PassLeft, modeVars, turnVars, Positions, Awaits, Captures
<1>1. ASSUME NEW u \in Utterances, BeginTurn(u) PROVE DataOK' /\ PassLeft'
  <2> DEFINE left == Expires \/ (u = "exit" /\ mode # NoMode)
             now  == IF left THEN NoMode ELSE mode
  <2>1. mode' \in Modes
    BY <1>1, Boundary DEF BeginTurn
  <2>2. chip' \in Chips
    <3>1. (IF left THEN Showing(NoMode) ELSE chip) \in Chips
      BY ChipVerbs, ModeFields
    <3>2. QED
      BY <1>1, <3>1, ChipVerbs DEF BeginTurn, HideForCapture
  <2>3. QED
    BY <1>1, <2>1, <2>2 DEF BeginTurn, Levels, Utterances
<1>2. CASE Grab \/ CaptureReturns \/ StreamReturns
  BY <1>2, ChipVerbs DEF Grab, CaptureReturns, StreamReturns
<1>3. CASE ServiceCall
  <2>1. Services /\ NavEffect
    BY <1>3, CallEffect
  <2>2. mode' \in Modes /\ idle' \in 0 .. Timeout /\ chip' \in Chips
    BY <2>1, ChipVerbs, VerificationSet DEF NavEffect, ModeStays
  <2>3. pass' \in 0 .. MaxPasses
    BY <2>1 DEF Services
  <2>4. QED
    BY <2>1, <2>2, <2>3 DEF Services
<1>4. CASE PassReturns
  BY <1>4, ChipVerbs DEF PassReturns, HideForCapture
<1>5. CASE CapSpoken \/ CutShort \/ DrainReturns
  BY <1>5 DEF CapSpoken, CutShort, DrainReturns, Levels
<1>6. CASE InterruptStarts \/ TimerFires
  BY <1>6, ChipVerbs DEF InterruptStarts, TimerFires, Hidden
<1>7. CASE CancelTurn
  BY <1>7 DEF CancelTurn
<1>8. CASE Tick
  BY <1>8 DEF Tick
<1>9. CASE UNCHANGED vars
  BY <1>9 DEF vars
<1> QED
  BY NextSplit, <1>1, <1>2, <1>3, <1>4, <1>5, <1>6, <1>7, <1>8, <1>9

-----------------------------------------------------------------------------
(* The verification *)

VerificationInv == OneJudgementPerTurn /\ FallbackHolds

LEMMA VerificationStep ==
  DataOK /\ VerificationInv /\ [Next]_vars => VerificationInv'
<1> SUFFICES ASSUME DataOK, VerificationInv, [Next]_vars PROVE VerificationInv'
  OBVIOUS
<1> USE DEF VerificationInv, OneJudgementPerTurn, FallbackHolds, modeVars, turnVars
<1>1. ASSUME NEW u \in Utterances, BeginTurn(u) PROVE VerificationInv'
  <2> DEFINE left == Expires \/ (u = "exit" /\ mode # NoMode)
             now  == IF left THEN NoMode ELSE mode
  <2>1. now \in {NoMode, mode} /\ (~left => now = mode)
    OBVIOUS
  <2>2. now.ver = "FALLBACK" => mode'.ver = "FALLBACK"
    BY <1>1, <2>1, Boundary DEF BeginTurn, DataOK
  <2>3. fell' = (fell /\ ~left) /\ closed' = FALSE
    BY <1>1 DEF BeginTurn
  <2>4. QED
    BY <2>1, <2>2, <2>3
<1>2. CASE ServiceCall
  <2>1. NavEffect
    BY <1>2, CallEffect DEF DataOK
  <2>2. CASE ModeStays
    BY <2>2 DEF ModeStays
  <2>3. CASE mode'.ver = "AWAITING" /\ fell' = FALSE
    BY <2>3
  <2>4. ASSUME mode # NoMode, NEW v \in Verifications \ {"VERIFYING"},
               mode' = [mode EXCEPT !.ver = v], fell' = (v = "FALLBACK")
        PROVE  VerificationInv'
    <3>1. mode'.ver = v
      BY <2>4, VerificationSet DEF DataOK
    <3>2. QED
      BY <2>4, <3>1
  <2>5. QED
    BY <2>1, <2>2, <2>3, <2>4 DEF NavEffect
<1>3. CASE UNCHANGED modeVars
  BY <1>3
<1>4. CASE Tick
  BY <1>4 DEF Tick
<1>5. QED
  BY NextSplit, <1>1, <1>2, <1>3, <1>4
  DEF Grab, CaptureReturns, StreamReturns, PassReturns, CapSpoken, CutShort,
      DrainReturns, InterruptStarts, CancelTurn, TimerFires, vars

-----------------------------------------------------------------------------
(* The chip *)

\* Outside of a capture the chip shows what it remembers, unless the turn was
\* cut inside one; it always remembers the step of the mode.
ChipInv ==
  /\ chip.text = Indicator(mode)
  /\ pc \notin Captures /\ ~wiped => chip.drawn = Indicator(mode)
  /\ wiped => pc \in {"rest", "drain"}
  /\ barge => pc # "rest"

LEMMA ChipStep == DataOK /\ ChipInv /\ [Next]_vars => ChipInv'
<1> SUFFICES ASSUME DataOK, ChipInv, [Next]_vars PROVE ChipInv'
  OBVIOUS
<1> USE DEF ChipInv, modeVars, turnVars
<1>1. ASSUME NEW u \in Utterances, BeginTurn(u) PROVE ChipInv'
  <2> DEFINE left == Expires \/ (u = "exit" /\ mode # NoMode)
             now  == IF left THEN NoMode ELSE mode
             shown == IF left THEN Showing(NoMode) ELSE chip
  <2>1. Indicator(mode') = Indicator(now)
    BY <1>1, Boundary DEF BeginTurn, DataOK
  <2>2. shown \in Chips /\ shown.text = Indicator(now)
    BY ChipVerbs, ModeFields DEF DataOK
  <2>3. chip' = Cleared(shown) /\ pc' = "settle" /\ wiped' = FALSE
    BY <1>1 DEF BeginTurn, HideForCapture
  <2>4. QED
    BY <2>1, <2>2, <2>3, ChipVerbs DEF Captures
<1>2. CASE ServiceCall
  <2>1. NavEffect /\ Services
    BY <1>2, CallEffect DEF DataOK
  <2>2. CASE ModeStays
    BY <2>1, <2>2 DEF ModeStays, Services, Captures
  <2>3. CASE mode' \in Modes /\ chip' = Showing(mode')
    BY <2>1, <2>3, ChipVerbs DEF Services
  <2>4. ASSUME mode # NoMode, NEW v \in Verifications \ {"VERIFYING"},
               mode' = [mode EXCEPT !.ver = v], chip' = chip
        PROVE  ChipInv'
    <3>1. Indicator(mode') = Indicator(mode)
      BY <2>4, VerificationSet DEF DataOK
    <3>2. QED
      BY <2>1, <2>4, <3>1 DEF Services, Captures
  <2>5. QED
    BY <2>1, <2>2, <2>3, <2>4 DEF NavEffect
<1>3. CASE Grab
  BY <1>3 DEF Grab, Captures
<1>4. CASE CaptureReturns
  BY <1>4, ChipVerbs DEF CaptureReturns, DataOK
<1>5. CASE StreamReturns \/ CapSpoken
  BY <1>5 DEF StreamReturns, CapSpoken, Captures
<1>6. CASE PassReturns
  BY <1>6, ChipVerbs DEF PassReturns, HideForCapture, Captures, DataOK
<1>7. CASE CutShort \/ CancelTurn
  <2>1. UNCHANGED <<chip, mode>>
    BY <1>7 DEF CutShort, CancelTurn
  <2>2. pc' \in {"rest", "drain"} /\ (barge' => pc' # "rest")
    BY <1>7 DEF CutShort, CancelTurn
  <2>3. ~wiped' => pc \notin Captures /\ ~wiped
    BY <1>7 DEF CutShort, CancelTurn, Captures, Awaits
  <2>4. QED
    BY <2>1, <2>2, <2>3 DEF Captures
<1>8. CASE DrainReturns
  BY <1>8 DEF DrainReturns, Captures
<1>9. CASE InterruptStarts \/ TimerFires
  <2>1. chip'.text = chip.text /\ chip'.drawn = chip.text
    BY <1>9, ChipVerbs DEF InterruptStarts, TimerFires, Hidden, DataOK
  <2>2. UNCHANGED <<mode, pc, wiped>>
    BY <1>9 DEF InterruptStarts, TimerFires
  <2>3. barge' => pc' # "rest"
    BY <1>9 DEF InterruptStarts, TimerFires
  <2>4. QED
    BY <2>1, <2>2, <2>3
<1>10. CASE Tick
  BY <1>10 DEF Tick
<1>11. CASE UNCHANGED vars
  BY <1>11 DEF vars
<1>12. QED
  BY NextSplit, <1>1, <1>2, <1>3, <1>4, <1>5, <1>6, <1>7, <1>8, <1>9, <1>10, <1>11

-----------------------------------------------------------------------------
(* The frames *)

\* An auto-hide is only pending between turns, so that inside a capture only a
\* barge-in can bring the chip back.
FrameInv ==
  /\ timer => pc = "rest"
  /\ pc = "settle" /\ chip.drawn # Nothing => barge
  /\ FrameHidesTheChip

LEMMA FrameStep == DataOK /\ FrameInv /\ [Next]_vars => FrameInv'
<1> SUFFICES ASSUME DataOK, FrameInv, [Next]_vars PROVE FrameInv'
  OBVIOUS
<1> USE DEF FrameInv, FrameHidesTheChip, modeVars, turnVars
<1>1. ASSUME NEW u \in Utterances, BeginTurn(u) PROVE FrameInv'
  <2> DEFINE shown == IF Expires \/ (u = "exit" /\ mode # NoMode)
                        THEN Showing(NoMode) ELSE chip
  <2>1. shown \in Chips
    BY ChipVerbs, ModeFields DEF DataOK
  <2>2. chip' = Cleared(shown) /\ timer' = FALSE /\ pc' = "settle"
    BY <1>1 DEF BeginTurn, HideForCapture
  <2>3. chip'.drawn = Nothing
    BY <2>1, <2>2, ChipVerbs
  <2>4. Nothing' = Nothing
    BY DEF Nothing, Indicator, NoMode
  <2>5. QED
    BY <2>2, <2>3, <2>4
<1>2. CASE ServiceCall
  BY <1>2, CallEffect DEF Services, DataOK
<1>3. CASE Grab
  BY <1>3 DEF Grab
<1>4. CASE CaptureReturns \/ StreamReturns \/ CapSpoken \/ CutShort
  BY <1>4 DEF CaptureReturns, StreamReturns, CapSpoken, CutShort, Awaits, Captures
<1>5. CASE PassReturns
  <2>1. CASE HideForCapture(chip)
    BY <1>5, <2>1, ChipVerbs DEF PassReturns, HideForCapture, DataOK
  <2>2. CASE UNCHANGED <<chip, timer>> /\ pc' \in {"drain", "stream", "cap"}
    BY <1>5, <2>2 DEF PassReturns
  <2>3. QED
    BY <1>5, <2>1, <2>2 DEF PassReturns
<1>6. CASE DrainReturns \/ CancelTurn
  BY <1>6 DEF DrainReturns, CancelTurn
<1>7. CASE InterruptStarts
  <2>1. timer' = FALSE /\ UNCHANGED <<pc, seen>> /\ barge' = (pc # "rest")
    BY <1>7 DEF InterruptStarts
  <2>2. QED
    BY <2>1
<1>8. CASE TimerFires
  BY <1>8 DEF TimerFires
<1>9. CASE Tick
  BY <1>9 DEF Tick
<1>10. CASE UNCHANGED vars
  BY <1>10 DEF vars
<1>11. QED
  BY NextSplit, <1>1, <1>2, <1>3, <1>4, <1>5, <1>6, <1>7, <1>8, <1>9, <1>10

-----------------------------------------------------------------------------
(* The length of a reply *)

LEMMA LengthStep == DataOK /\ ExactLastsOneTurn /\ [Next]_vars => ExactLastsOneTurn'
<1> SUFFICES ASSUME DataOK, ExactLastsOneTurn, [Next]_vars PROVE ExactLastsOneTurn'
  OBVIOUS
<1> USE DEF ExactLastsOneTurn, modeVars, turnVars
<1>1. CASE UNCHANGED <<level, cut, pc>>
  BY <1>1
<1>2. CASE pc' # "rest"
  BY <1>2
<1>3. CASE DrainReturns
  BY <1>3 DEF DrainReturns, Decays
<1>4. CASE CancelTurn
  BY <1>4 DEF CancelTurn
<1>5. CASE ServiceCall
  BY <1>5, CallEffect DEF Services, DataOK
<1>6. QED
  BY NextSplit, <1>1, <1>2, <1>3, <1>4, <1>5
  DEF BeginTurn, Grab, CaptureReturns, StreamReturns, PassReturns, CapSpoken,
      CutShort, InterruptStarts, TimerFires, Tick, vars

-----------------------------------------------------------------------------
(* The theorems *)

IInv == /\ FlagsOK
        /\ DataOK
        /\ PassLeft
        /\ VerificationInv
        /\ ChipInv
        /\ FrameInv
        /\ ExactLastsOneTurn

LEMMA InitIInv == Init => IInv
<1> SUFFICES ASSUME Init PROVE IInv
  OBVIOUS
<1> USE DEF Init
<1>1. FlagsOK
  BY Zenon DEF FlagsOK
<1>0. NoMode \in Modes
  BY DEF Modes
<1>2. DataOK
  BY <1>0, ChipVerbs DEF DataOK, Levels, Positions
<1>3. PassLeft
  BY DEF PassLeft
<1>4. VerificationInv
  BY DEF VerificationInv, OneJudgementPerTurn, FallbackHolds, NoMode
<1>5. ChipInv
  BY <1>0, ChipVerbs DEF ChipInv
<1>6. FrameInv
  BY DEF FrameInv, FrameHidesTheChip
<1>7. ExactLastsOneTurn
  BY DEF ExactLastsOneTurn
<1> QED
  BY <1>1, <1>2, <1>3, <1>4, <1>5, <1>6, <1>7 DEF IInv

\* The inductive invariant holds in every behaviour.
THEOREM NavigatorInvariant == Spec => []IInv
<1>1. IInv /\ [Next]_vars => IInv'
  BY FlagsStep, DataStep, VerificationStep, ChipStep, FrameStep, LengthStep DEF IInv
<1> QED
  BY InitIInv, <1>1, PTL DEF Spec

\* Type correctness, for plans of any length.
THEOREM NavigatorTypes == Spec => []TypeOK
<1>1. IInv => TypeOK
  BY DEF IInv, TypeOK
<1> QED
  BY NavigatorInvariant, <1>1, PTL

\* A turn judges the step it began on, once: after_verification and
\* record_progress close the cycle that begin_turn opened. FALLBACK outlives every
\* boundary and claim: at_cycle_boundary and after_verification leave it,
\* record_progress alone ends it.
THEOREM VerdictsStand == Spec => []VerdictStands
<1>1. IInv => OneJudgementPerTurn
  BY DEF IInv, VerificationInv
<1>2. IInv => FallbackHolds
  BY DEF IInv, VerificationInv
<1>3. IInv => VerdictStands
  BY <1>1, <1>2, Zenon DEF VerdictStands
<1> QED
  BY NavigatorInvariant, <1>3, PTL

\* Between turns the chip on the screen is the mode in the kernel, whatever hid
\* the overlay and whatever moved the step. FrameCapture wipes the chip before the
\* pixels are taken, and nothing but a barge-in brings it back before they are.
THEOREM ChipsAreForTheUser == Spec => []ChipIsForTheUser
<1>1. IInv => RestingChipShowsMode
  BY DEF IInv, ChipInv, RestingChipShowsMode, Captures
<1>2. IInv => FrameHidesTheChip
  BY DEF IInv, FrameInv
<1>3. IInv => ChipIsForTheUser
  BY <1>1, <1>2, Zenon DEF ChipIsForTheUser
<1> QED
  BY NavigatorInvariant, <1>3, PTL

\* end_turn decays an exact length unless an exception passes it by, and
\* begin_turn asks for the expiry before it renews the clock.
THEOREM ModesAlwaysLapse == Spec => ModesLapse
<1>1. IInv /\ [Next]_vars =>
        [pc = "rest" /\ pc' # "rest" /\ idle = Timeout => mode' = NoMode]_vars
  <2> SUFFICES ASSUME IInv, [Next]_vars, pc = "rest", pc' # "rest", idle = Timeout
               PROVE  mode' = NoMode
    OBVIOUS
  <2>1. PICK u \in Utterances : BeginTurn(u)
    <3>1. ~ServiceCall
      BY CallEffect DEF IInv, DataOK, Services
    <3>2. QED
      BY NextSplit, <3>1
      DEF Grab, CaptureReturns, StreamReturns, PassReturns, CapSpoken, CutShort,
          DrainReturns, InterruptStarts, CancelTurn, TimerFires, Tick, vars,
          turnVars, Awaits, Captures
  <2>2. Expires \/ mode = NoMode
    BY DEF Expires
  <2>3. QED
    BY <2>1, <2>2 DEF BeginTurn
<1>2. IInv => ExactLastsOneTurn
  BY DEF IInv
<1> QED
  BY NavigatorInvariant, <1>1, <1>2, PTL DEF Spec, ModesLapse, ExpiryComesFirst
=============================================================================
