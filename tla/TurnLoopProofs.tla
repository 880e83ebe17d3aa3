--------------------------- MODULE TurnLoopProofs ---------------------------
(***************************************************************************)
(* Proofs about TurnLoop, for every bound on passes and refreshes, every   *)
(* limit and every cost.                                                   *)
(***************************************************************************)
EXTENDS TurnLoop, TLAPS

USE BoundsAssumption

-----------------------------------------------------------------------------
(* Types *)

\* The Boolean-valued variables keep their type in every step.
LEMMA FlagsStep == FlagsOK /\ [Next]_vars => FlagsOK'
<1> SUFFICES ASSUME FlagsOK, [Next]_vars PROVE FlagsOK'
  OBVIOUS
<1> USE DEF FlagsOK, turnVars, worldVars, historyVars
<1>1. CASE NewTurn
  BY <1>1, Zenon DEF NewTurn, HideForCapture
<1>2. CASE CaptureReturns \/ BeginPass \/ Spoke \/ NoteSpoken
  BY <1>2, Zenon DEF CaptureReturns, BeginPass, Spoke, NoteSpoken
<1>3. CASE StreamEndsEarly
  BY <1>3, Zenon DEF StreamEndsEarly
<1>4. ASSUME NEW c \in Contents, NEW s \in Stops, NEW cost \in 0 .. MaxCost,
             StreamCompletes(c, s, cost)
      PROVE  FlagsOK'
  BY <1>4, Zenon DEF StreamCompletes
<1>5. CASE PassReturns
  BY <1>5, Zenon DEF PassReturns, PairAndGoOn
<1>6. CASE RefreshStarts
  BY <1>6, Zenon DEF RefreshStarts, HideForCapture
<1>7. CASE RefreshReturns
  BY <1>7, Zenon DEF RefreshReturns, PairAndGoOn
<1>8. ASSUME NEW how, CutShort(how) PROVE FlagsOK'
  BY <1>8, Zenon DEF CutShort
<1>9. CASE DrainReturns
  BY <1>9, Zenon DEF DrainReturns
<1>10. CASE InterruptStarts
  BY <1>10, Zenon DEF InterruptStarts
<1>11. CASE InterruptReturns
  BY <1>8, <1>11, Zenon DEF InterruptReturns
<1>12. CASE TimerFires \/ NewDay
  BY <1>12, Zenon DEF TimerFires, NewDay
<1>13. CASE UNCHANGED vars
  BY <1>13, Zenon DEF vars
<1> QED
  BY <1>1, <1>2, <1>3, <1>4, <1>5, <1>6, <1>7, <1>8, <1>9, <1>10, <1>11, <1>12,
     <1>13 DEF Next, TurnStep, Timeout, Fail

-----------------------------------------------------------------------------
(* Where the loop is *)

\* The loop's index against the passes serviced, and what a toolless pass may
\* hold.  The last pass is toolless.
PlaceInv ==
  /\ pc \in {"capture", "afford", "stream", "speak"} => serviced = pass
  /\ pc \in {"service", "refresh"} => serviced = pass + 1
  /\ pc = "refresh" => refreshUsed < MaxRefresh
  /\ pc \in {"stream", "speak", "service", "refresh"} /\ pass = MaxPasses - 1 =>
       choice = "none"
  /\ pc \in {"speak", "service", "refresh"} /\ choice = "none" =>
       content = Silent /\ stop = "end_turn"
  /\ pc # "cap"

LEMMA ContentRecords ==
  \A n, u \in BOOLEAN : [draw |-> "none", refreshes |-> 0, named |-> n, unknown |-> u]
                          \in Contents
  BY DEF Contents

LEMMA SilentIsContent == Silent \in Contents
  BY ContentRecords, Zenon DEF Silent

\* The next pass, or the end: what the pairing leaves.
LEMMA PairingGoesOn ==
  ASSUME NEW fresh \in BOOLEAN, PairAndGoOn(fresh), DataOK, PlaceInv,
         pc \in {"service", "refresh"}
  PROVE  /\ pc' \in {"afford", "drain", "unwind"}
         /\ pc' = "afford" => pass' = pass + 1 /\ pass < MaxPasses - 1
         /\ pc' # "afford" => pass' = pass
         /\ UNCHANGED <<serviced, choice, drawCalls, cut, interrupt, historyVars>>
<1>1. stop = "tool_use" => pass < MaxPasses - 1
  BY DEF DataOK, PlaceInv
<1>2. QED
  BY <1>1 DEF PairAndGoOn, Finally, DataOK

LEMMA DataStep == DataOK /\ PlaceInv /\ [Next]_vars => DataOK' /\ PlaceInv'
<1> SUFFICES ASSUME DataOK, PlaceInv, [Next]_vars PROVE DataOK' /\ PlaceInv'
  OBVIOUS
<1> USE DEF DataOK, PlaceInv, turnVars, worldVars, historyVars, Positions, AwaitPoints, Stops
<1>0. Silent \in Contents
  BY SilentIsContent
<1>1. CASE NewTurn
  BY <1>0, <1>1 DEF NewTurn
<1>2. CASE CaptureReturns
  BY <1>2 DEF CaptureReturns
<1>3. CASE BeginPass
  BY <1>3 DEF BeginPass, LoopToolChoice
<1>4. CASE StreamEndsEarly
  BY <1>4 DEF StreamEndsEarly
<1>5. ASSUME NEW c \in Contents, NEW s \in Stops, NEW cost \in 0 .. MaxCost,
             StreamCompletes(c, s, cost)
      PROVE  DataOK' /\ PlaceInv'
  <2>1. draws' \in Nat /\ spent' \in Nat
    BY <1>5 DEF StreamCompletes
  <2>2. choice = "none" => c = Silent /\ s = "end_turn"
    BY <1>5 DEF StreamCompletes
  <2>3. QED
    BY <1>5, <2>1, <2>2 DEF StreamCompletes
<1>6. CASE Spoke
  BY <1>6 DEF Spoke
<1>7. CASE PassReturns
  <2>1. PairAndGoOn(FALSE) /\ pc = "service" /\ PayTool
    BY <1>7 DEF PassReturns
  <2>2. spent' \in Nat
    BY <2>1 DEF PayTool
  <2>3. /\ refreshUsed' = refreshUsed /\ content' = Silent /\ stop' = "end_turn"
        /\ image' = image
    BY <2>1 DEF PairAndGoOn
  <2>4. /\ pc' \in {"afford", "drain", "unwind"}
        /\ pc' = "afford" => pass' = pass + 1 /\ pass < MaxPasses - 1
        /\ pc' # "afford" => pass' = pass
        /\ UNCHANGED <<serviced, choice, drawCalls, cut, interrupt, historyVars>>
    BY <2>1, PairingGoesOn
  <2>5. QED
    BY <1>0, <2>1, <2>2, <2>3, <2>4
<1>8. CASE RefreshStarts
  <2>1. spent' \in Nat
    BY <1>8 DEF RefreshStarts, PayTool
  <2>2. QED
    BY <1>8, <2>1 DEF RefreshStarts, ServicesRefresh
<1>9. CASE RefreshReturns
  <2>1. PairAndGoOn(TRUE) /\ pc = "refresh" /\ spent' = spent
    BY <1>9 DEF RefreshReturns
  <2>2. /\ refreshUsed' = refreshUsed + 1 /\ content' = Silent /\ stop' = "end_turn"
        /\ image' \in {"none", "fresh", "stale"}
    BY <2>1 DEF PairAndGoOn
  <2>3. /\ pc' \in {"afford", "drain", "unwind"}
        /\ pc' = "afford" => pass' = pass + 1 /\ pass < MaxPasses - 1
        /\ pc' # "afford" => pass' = pass
        /\ UNCHANGED <<serviced, choice, drawCalls, cut, interrupt, historyVars>>
    BY <2>1, PairingGoesOn
  <2>4. QED
    BY <1>0, <2>1, <2>2, <2>3
<1>10. CASE NoteSpoken
  BY <1>10 DEF NoteSpoken, Finally
<1>11. ASSUME NEW how \in {"timeout", "failed", "cancelled"}, CutShort(how),
              interrupt' \in {"no", "aborting", "done"}
       PROVE  DataOK' /\ PlaceInv'
  BY <1>11 DEF CutShort, Finally
<1>12. CASE DrainReturns
  BY <1>12 DEF DrainReturns
<1>13. CASE InterruptStarts
  BY <1>13 DEF InterruptStarts
<1>14. CASE InterruptReturns
  BY <1>11, <1>14 DEF InterruptReturns
<1>15. CASE TimerFires \/ NewDay
  BY <1>15 DEF TimerFires, NewDay
<1>16. CASE UNCHANGED vars
  BY <1>16 DEF vars
<1> QED
  BY <1>1, <1>2, <1>3, <1>4, <1>5, <1>6, <1>7, <1>8, <1>9, <1>10, <1>11, <1>12,
     <1>13, <1>14, <1>15, <1>16 DEF Next, TurnStep, Timeout, Fail

-----------------------------------------------------------------------------
(* The drawing *)

\* Until the gate is told, nothing has been drawn; between the drawing and the
\* pairing that tells it, the pass at hand holds the draw call.
DrawInv ==
  /\ OneDrawPerTurn
  /\ pc \in {"capture", "afford", "stream"} /\ ~drawn => draws = 0
  /\ pc \in {"speak", "service", "refresh"} /\ ~drawn /\ draws # 0 =>
       content.draw # "none"

LEMMA DrawStep == DataOK /\ PlaceInv /\ DrawInv /\ [Next]_vars => DrawInv'
<1> SUFFICES ASSUME DataOK, PlaceInv, DrawInv, [Next]_vars PROVE DrawInv'
  OBVIOUS
<1> USE DEF DrawInv, OneDrawPerTurn, turnVars, worldVars, historyVars
<1>1. CASE NewTurn
  BY <1>1 DEF NewTurn
<1>2. CASE CaptureReturns \/ BeginPass \/ Spoke \/ RefreshStarts
  BY <1>2 DEF CaptureReturns, BeginPass, Spoke, RefreshStarts
<1>3. CASE StreamEndsEarly \/ NoteSpoken \/ DrainReturns
  BY <1>3 DEF StreamEndsEarly, NoteSpoken, Finally, DrainReturns
<1>4. ASSUME NEW c \in Contents, NEW s \in Stops, NEW cost \in 0 .. MaxCost,
             StreamCompletes(c, s, cost)
      PROVE  DrawInv'
  <2>1. CASE DrawsNow(c)
    BY <1>4, <2>1 DEF StreamCompletes, DrawsNow, DataOK
  <2>2. CASE ~DrawsNow(c)
    BY <1>4, <2>2 DEF StreamCompletes
  <2>3. QED
    BY <2>1, <2>2
<1>5. ASSUME NEW fresh \in BOOLEAN, PairAndGoOn(fresh), pc \in {"service", "refresh"}
      PROVE  DrawInv'
  <2>1. pc' \in {"afford", "drain", "unwind"} /\ draws' = draws
    BY <1>5, PairingGoesOn
  <2>2. ~drawn' => ~drawn /\ content.draw = "none"
    BY <1>5 DEF PairAndGoOn, Gates
  <2>3. QED
    BY <1>5, <2>1, <2>2
<1>6. CASE PassReturns \/ RefreshReturns
  BY <1>5, <1>6 DEF PassReturns, RefreshReturns
<1>7. ASSUME NEW how, CutShort(how) PROVE DrawInv'
  BY <1>7 DEF CutShort, Finally
<1>8. CASE InterruptStarts
  BY <1>8 DEF InterruptStarts
<1>9. CASE InterruptReturns
  BY <1>7, <1>9 DEF InterruptReturns
<1>10. CASE TimerFires \/ NewDay
  BY <1>10 DEF TimerFires, NewDay
<1>11. CASE UNCHANGED vars
  BY <1>11 DEF vars
<1> QED
  BY <1>1, <1>2, <1>3, <1>4, <1>6, <1>7, <1>8, <1>9, <1>10, <1>11
  DEF Next, TurnStep, Timeout, Fail

-----------------------------------------------------------------------------
(* The budget *)

\* The gate is asked right before the stream: what is spent beyond the limit is
\* this pass's own.
SpendInv ==
  /\ pc = "stream" => spent < Limit
  /\ pc \in {"speak", "service"} => spent < Limit + MaxCost
  /\ SpendIsBounded

LEMMA SpendStep == DataOK /\ SpendInv /\ PlaceInv /\ [Next]_vars => SpendInv'
<1> SUFFICES ASSUME DataOK, SpendInv, PlaceInv, [Next]_vars PROVE SpendInv'
  OBVIOUS
<1> USE DEF DataOK, SpendInv, SpendIsBounded, turnVars, worldVars, historyVars
<1>1. CASE NewTurn
  BY <1>1 DEF NewTurn
<1>2. CASE CaptureReturns \/ BeginPass \/ Spoke
  BY <1>2 DEF CaptureReturns, BeginPass, Spoke, CanAfford
<1>3. CASE StreamEndsEarly \/ NoteSpoken \/ DrainReturns
  BY <1>3 DEF StreamEndsEarly, NoteSpoken, Finally, DrainReturns
<1>4. ASSUME NEW c \in Contents, NEW s \in Stops, NEW cost \in 0 .. MaxCost,
             StreamCompletes(c, s, cost)
      PROVE  SpendInv'
  BY <1>4 DEF StreamCompletes
<1>5. CASE PassReturns
  <2>1. pc' \in {"afford", "drain", "unwind"}
    BY <1>5, PairingGoesOn DEF PassReturns
  <2>2. pc = "service" /\ PayTool
    BY <1>5 DEF PassReturns
  <2>3. QED
    BY <2>1, <2>2 DEF PayTool
<1>6. CASE RefreshStarts
  BY <1>6 DEF RefreshStarts, PayTool
<1>7. CASE RefreshReturns
  <2>1. pc' \in {"afford", "drain", "unwind"}
    BY <1>7, PairingGoesOn DEF RefreshReturns
  <2>2. QED
    BY <1>7, <2>1 DEF RefreshReturns
<1>8. ASSUME NEW how, CutShort(how) PROVE SpendInv'
  BY <1>8 DEF CutShort, Finally
<1>9. CASE InterruptStarts
  BY <1>9 DEF InterruptStarts
<1>10. CASE InterruptReturns
  BY <1>8, <1>10 DEF InterruptReturns
<1>11. CASE TimerFires \/ NewDay
  BY <1>11 DEF TimerFires, NewDay
<1>12. CASE UNCHANGED vars
  BY <1>12 DEF vars
<1> QED
  BY <1>1, <1>2, <1>3, <1>4, <1>5, <1>6, <1>7, <1>8, <1>9, <1>10, <1>11, <1>12
  DEF Next, TurnStep, Timeout, Fail

-----------------------------------------------------------------------------
(* The screen *)

\* A timer and a turn exclude each other; a drawing of the running turn is one
\* its drain will arm a timer for, and a drain that a barge-in entered has
\* nothing on the screen.
ScreenInv ==
  /\ TimerIsNeverStale
  /\ IdleDrawingHasTimer
  /\ shown /\ pc # "idle" => drawCalls
  /\ pc = "drain" /\ interrupt # "no" => ~shown

LEMMA ScreenStep == DataOK /\ PlaceInv /\ ScreenInv /\ [Next]_vars => ScreenInv'
<1> SUFFICES ASSUME DataOK, PlaceInv, ScreenInv, [Next]_vars PROVE ScreenInv'
  OBVIOUS
<1> USE DEF ScreenInv, TimerIsNeverStale, IdleDrawingHasTimer, turnVars, worldVars, historyVars
<1>1. CASE NewTurn
  BY <1>1 DEF NewTurn, HideForCapture
<1>2. CASE CaptureReturns \/ BeginPass \/ Spoke
  BY <1>2 DEF CaptureReturns, BeginPass, Spoke
<1>3. CASE StreamEndsEarly
  BY <1>3 DEF StreamEndsEarly
<1>4. ASSUME NEW c \in Contents, NEW s \in Stops, NEW cost \in 0 .. MaxCost,
             StreamCompletes(c, s, cost)
      PROVE  ScreenInv'
  BY <1>4 DEF StreamCompletes, DrawsNow
<1>5. ASSUME NEW fresh \in BOOLEAN, PairAndGoOn(fresh), pc \in {"service", "refresh"},
             UNCHANGED <<shown, timer>>
      PROVE  ScreenInv'
  <2>1. pc' \in {"afford", Finally} /\ UNCHANGED <<drawCalls, interrupt>>
    BY <1>5, PairingGoesOn DEF PairAndGoOn, PlaceInv, DataOK
  <2>2. QED
    BY <1>5, <2>1 DEF Finally
<1>6. CASE PassReturns \/ RefreshReturns
  BY <1>5, <1>6 DEF PassReturns, RefreshReturns
<1>7. CASE RefreshStarts
  BY <1>7 DEF RefreshStarts, HideForCapture
<1>8. CASE NoteSpoken
  BY <1>8 DEF NoteSpoken, Finally
<1>9. ASSUME NEW how, CutShort(how), interrupt' = interrupt \/ interrupt # "no"
      PROVE  ScreenInv'
  BY <1>9 DEF CutShort, Finally, AwaitPoints
<1>10. CASE DrainReturns
  BY <1>10 DEF DrainReturns
<1>11. CASE InterruptStarts
  BY <1>11 DEF InterruptStarts
<1>12. CASE InterruptReturns
  BY <1>9, <1>12 DEF InterruptReturns
<1>13. CASE TimerFires \/ NewDay
  BY <1>13 DEF TimerFires, NewDay
<1>14. CASE UNCHANGED vars
  BY <1>14 DEF vars
<1> QED
  BY <1>1, <1>2, <1>3, <1>4, <1>6, <1>7, <1>8, <1>9, <1>10, <1>11, <1>12, <1>13,
     <1>14 DEF Next, TurnStep, Timeout, Fail

-----------------------------------------------------------------------------
(* The history *)

\* A tool_use waits for its tool_result while its turn captures a fresh frame, and for
\* ever when the turn was cut there.
PairingInv == asked /\ pc # "refresh" => refreshCut

\* A screenshot outlives its turn only if that was cancelled or failed, and so every
\* turn after it.
FrameInv ==
  /\ pc = "idle" /\ image # "none" => cut \in {"failed", "cancelled"}
  /\ pc # "idle" /\ image = "stale" => lastCut \in {"failed", "cancelled"}

\* What the next request carries of the turns before.
HistoryInv == PairingInv /\ FrameInv

LEMMA HistoryStep == DataOK /\ PlaceInv /\ HistoryInv /\ [Next]_vars => HistoryInv'
<1> SUFFICES ASSUME DataOK, PlaceInv, HistoryInv, [Next]_vars PROVE HistoryInv'
  OBVIOUS
<1> USE DEF HistoryInv, PairingInv, FrameInv, turnVars, worldVars, historyVars
<1>1. CASE NewTurn
  BY <1>1 DEF NewTurn, DataOK
<1>2. CASE CaptureReturns \/ BeginPass \/ Spoke \/ RefreshStarts
  BY <1>2 DEF CaptureReturns, BeginPass, Spoke, RefreshStarts
<1>3. CASE StreamEndsEarly \/ NoteSpoken
  <2>1. pc' # "idle" /\ pc # "idle" /\ pc # "refresh"
        /\ UNCHANGED <<asked, image, refreshCut, lastCut>>
    BY <1>3 DEF StreamEndsEarly, NoteSpoken, Finally
  <2>2. QED
    BY <2>1
<1>4. ASSUME NEW c \in Contents, NEW s \in Stops, NEW cost \in 0 .. MaxCost,
             StreamCompletes(c, s, cost)
      PROVE  HistoryInv'
  BY <1>4 DEF StreamCompletes
<1>5. CASE PassReturns \/ RefreshReturns
  <2>1. PICK fresh \in BOOLEAN : PairAndGoOn(fresh) /\ pc \in {"service", "refresh"}
    BY <1>5 DEF PassReturns, RefreshReturns
  <2>2. pc' # "idle" /\ pc # "idle" /\ UNCHANGED <<refreshCut, lastCut>>
    BY <2>1, PairingGoesOn
  <2>3. asked' = FALSE
    BY <1>5 DEF PassReturns, RefreshReturns
  <2>4. image' = "stale" => image = "stale"
    BY <2>1 DEF PairAndGoOn
  <2>5. QED
    BY <2>2, <2>3, <2>4
<1>6. ASSUME NEW how, CutShort(how) PROVE HistoryInv'
  <2>1. /\ pc # "idle" /\ pc' \in {"drain", "unwind"} /\ UNCHANGED <<asked, image, lastCut>>
        /\ refreshCut' = (refreshCut \/ pc = "refresh")
    BY <1>6 DEF CutShort, Finally, AwaitPoints
  <2>2. QED
    BY <2>1
<1>7. CASE DrainReturns
  BY <1>7 DEF DrainReturns, Strips, DataOK
<1>8. CASE InterruptStarts
  BY <1>8 DEF InterruptStarts
<1>9. CASE InterruptReturns
  BY <1>6, <1>9 DEF InterruptReturns
<1>10. CASE TimerFires \/ NewDay
  BY <1>10 DEF TimerFires, NewDay
<1>11. CASE UNCHANGED vars
  BY <1>11 DEF vars
<1> QED
  BY <1>1, <1>2, <1>3, <1>4, <1>5, <1>6, <1>7, <1>8, <1>9, <1>10, <1>11
  DEF Next, TurnStep, Timeout, Fail

-----------------------------------------------------------------------------
(* The inductive invariant and what follows from it *)

IInv == TypeOK /\ PlaceInv /\ DrawInv /\ SpendInv /\ ScreenInv /\ HistoryInv

LEMMA InitIInv == Init => IInv
<1> SUFFICES ASSUME Init PROVE IInv
  OBVIOUS
<1> USE DEF Init
<1>1. FlagsOK
  BY Zenon DEF FlagsOK
<1>2. DataOK
  BY SilentIsContent DEF DataOK, Positions, AwaitPoints, Stops
<1>3. PlaceInv /\ DrawInv /\ SpendInv
  BY DEF PlaceInv, DrawInv, OneDrawPerTurn, SpendInv, SpendIsBounded
<1>4. ScreenInv /\ HistoryInv
  BY DEF ScreenInv, TimerIsNeverStale, IdleDrawingHasTimer, HistoryInv, PairingInv,
         FrameInv
<1>5. QED
  BY <1>1, <1>2, <1>3, <1>4 DEF IInv, TypeOK

\* The conjunction of the parts is an invariant of the turn loop.
THEOREM TurnLoopInvariant == Spec => []IInv
<1>1. Init => IInv
  BY InitIInv
<1>2. IInv /\ [Next]_vars => IInv'
  BY FlagsStep, DataStep, DrawStep, SpendStep, ScreenStep, HistoryStep
  DEF IInv, TypeOK
<1>3. QED
  BY <1>1, <1>2, PTL DEF Spec

\* Every field of a turn keeps its type: the loop's index stays below its bound
\* and the refresh follow-ups within theirs.
THEOREM TurnLoopTypes == Spec => []TypeOK
<1>1. IInv => TypeOK
  BY DEF IInv
<1>2. QED
  BY <1>1, TurnLoopInvariant, PTL

\* The circuit breaker lets one drawing through per turn (HighlightGate,
\* next_draw), the last pass is toolless, so the loop ends in an answer and never
\* reaches the cap's note (loop_tool_choice, DEC-147), and a day overshoots its
\* limit by less than one pass and its paid call (Budget.can_afford, asked before
\* every pass): for every number of passes and refreshes, limit and price.
THEOREM TurnsAreBounded == Spec => []TurnIsBounded
<1>1. IInv => OneDrawPerTurn
  BY DEF IInv, DrawInv
<1>2. IInv => LoopEndsInAnAnswer
  BY DEF IInv, PlaceInv, LoopEndsInAnAnswer
<1>3. IInv => SpendIsBounded
  BY DEF IInv, SpendInv
<1>4. IInv => TurnIsBounded
  BY <1>1, <1>2, <1>3, Zenon DEF TurnIsBounded
<1>5. QED
  BY <1>4, TurnLoopInvariant, PTL

\* Between turns a drawing has its auto-hide pending, however its turn ended
\* (run_turn's finally and interrupt_turn), and no auto-hide of an earlier turn is
\* pending while a turn runs (FrameCapture.capture cancels it before its first
\* await).
THEOREM DrawingsAreTimed == Spec => []DrawingHasItsTimer
<1>1. IInv => IdleDrawingHasTimer
  BY DEF IInv, ScreenInv
<1>2. IInv => TimerIsNeverStale
  BY DEF IInv, ScreenInv
<1>3. IInv => DrawingHasItsTimer
  BY <1>1, <1>2, Zenon DEF DrawingHasItsTimer
<1>4. QED
  BY <1>3, TurnLoopInvariant, PTL

\* No request is refused for a tool_use without its tool_result, but after a turn was
\* cut inside its refresh capture (the assistant message is stored before the capture,
\* its pairing after it); and none carries what an earlier turn saw, but right after a
\* turn that was cancelled or failed (strip_images_from_history in run_turn): for any
\* number of turns and passes.
THEOREM RequestsStayClean == Spec => []RequestsAreClean
<1>1. IInv => RequestsArePaired
  BY DEF IInv, HistoryInv, PairingInv, RequestsArePaired, IsAccepted
<1>2. IInv => FramesAreOfTheTurn
  BY DEF IInv, HistoryInv, FrameInv, FramesAreOfTheTurn
<1>3. IInv => RequestsAreClean
  BY <1>1, <1>2, Zenon DEF RequestsAreClean
<1>4. QED
  BY <1>3, TurnLoopInvariant, PTL
=============================================================================
