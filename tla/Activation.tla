----------------------------- MODULE Activation -----------------------------
(***************************************************************************)
(* F9: the hold-to-talk key, the activation gate and barge-in.             *)
(*                                                                         *)
(* Two threads share the flags of ActivationController (activation.py):    *)
(* the KEYBOARD thread runs HotkeyListener's handlers (hotkey.py) and      *)
(* on_press; the asyncio LOOP runs the callbacks scheduled on it in FIFO   *)
(* order, the turn's task and the interrupt tasks.  No lock protects the   *)
(* flags, so a press may fall between two statements of the turn's reset.  *)
(* The microphone (mic.py) and the part of the turn that decides when it   *)
(* can be silenced and cancelled (kernel/orchestrator.py) are included.    *)
(* Barge-in is on (its default).                                           *)
(***************************************************************************)
EXTENDS Naturals, Sequences

CONSTANT MaxPresses   \* bound: physical key-downs in a behaviour

ASSUME MaxPressesAssumption == MaxPresses \in Nat \ {0}

VARIABLES
  (* keyboard thread *)
  down,            \* the key is physically down
  held,            \* HotkeyListener._held
  presses,         \* key-downs so far; the number names the hold
  kpc,             \* where the keyboard thread is
  seenTurn,        \* the turn on_press found in progress
  (* ActivationController *)
  isProcessing, interrupting, pendingActivation,
  task,            \* _task: the number of the latest turn, 0 for none
  (* the loop *)
  ready,           \* the loop's FIFO of callbacks and first task steps
  lpc,             \* "idle", or the statement of reset_turn_state to run next
  phase,           \* where the latest turn's task is
  aborting,        \* turns whose interrupt task awaits turn_voice.interrupt()
  voice,           \* the turn's TurnVoice: "none", "open" or "closed"
  (* Mic *)
  recording,       \* the hold whose stream is open, 0 for none
  stopping,        \* turns whose mic.stop has a worker thread that has not run yet
  (* history, read by the properties only *)
  barged,          \* turns a press was accepted against
  cancelled,       \* turns that received task.cancel()
  kept,            \* the barge-in hold whose recording must survive, 0 for none
  raced            \* an on_press and a reset of the turn's state have overlapped

keyVars  == <<down, held, presses, kpc, seenTurn>>
flagVars == <<isProcessing, interrupting, pendingActivation, task>>
loopVars == <<ready, lpc, phase, aborting, voice>>
micVars  == <<recording, stopping>>
histVars == <<barged, cancelled, kept, raced>>
vars     == <<keyVars, flagVars, loopVars, micVars, histVars>>

Holds  == 1 .. MaxPresses
Turns  == 1 .. MaxPresses
Phases == {"none", "queued", "micStop", "stt", "notice", "turn", "finishing",
           "reset", "ended", "lost"}

\* The turn's coroutine still has something to run.
LivePhases == Phases \ {"none", "ended", "lost"}

FlagsOK ==
  /\ down \in BOOLEAN /\ held \in BOOLEAN
  /\ isProcessing \in BOOLEAN /\ interrupting \in BOOLEAN
  /\ pendingActivation \in BOOLEAN
  /\ raced \in BOOLEAN

DataOK ==
  /\ presses \in 0 .. MaxPresses
  /\ kpc \in {"idle", "press", "busy", "open", "openBusy", "schedule"}
  /\ seenTurn \in 0 .. MaxPresses
  /\ task \in 0 .. MaxPresses
  /\ ready \in Seq({"activate", "begin", "interrupt", "turn"})
  /\ lpc \in {"idle", "resetMic", "resetHotkey", "release", "releaseBarged",
              "deferred"}
  /\ phase \in Phases
  /\ aborting \subseteq Turns /\ stopping \subseteq Turns
  /\ voice \in {"none", "open", "closed"}
  /\ recording \in 0 .. MaxPresses
  /\ barged \subseteq Turns /\ cancelled \subseteq Turns
  /\ kept \in 0 .. MaxPresses

TypeOK == FlagsOK /\ DataOK

Init ==
  /\ down = FALSE /\ held = FALSE /\ presses = 0 /\ kpc = "idle" /\ seenTurn = 0
  /\ isProcessing = FALSE /\ interrupting = FALSE /\ pendingActivation = FALSE
  /\ task = 0
  /\ ready = <<>> /\ lpc = "idle" /\ phase = "none" /\ aborting = {}
  /\ voice = "none"
  /\ recording = 0 /\ stopping = {}
  /\ barged = {} /\ cancelled = {} /\ kept = 0 /\ raced = FALSE

-----------------------------------------------------------------------------
(* The keyboard thread *)

\* _handle_press, up to the call of on_press. A held key is auto-repeat.
KeyDown ==
  /\ kpc = "idle" /\ ~down /\ presses < MaxPresses
  /\ down' = TRUE /\ held' = TRUE
  /\ presses' = presses + 1
  /\ kpc' = IF held THEN "idle" ELSE "press"
  /\ raced' = (raced \/ (~held /\ lpc # "idle"))
  /\ UNCHANGED <<seenTurn, flagVars, loopVars, micVars, barged, cancelled, kept>>

\* on_press reads is_processing.
PressReads ==
  /\ kpc = "press"
  /\ kpc' = IF isProcessing THEN "busy" ELSE "open"
  /\ seenTurn' = task
  /\ UNCHANGED <<down, held, presses, flagVars, loopVars, micVars, histVars>>

\* A turn is in progress and a barge-in already is in flight: ignored.
PressIgnored ==
  /\ kpc = "busy" /\ interrupting
  /\ kpc' = "idle"
  /\ UNCHANGED <<down, held, presses, seenTurn, flagVars, loopVars, micVars,
                 histVars>>

\* A turn is in progress: this press is its barge-in.
PressClaims ==
  /\ kpc = "busy" /\ ~interrupting
  /\ interrupting' = TRUE
  /\ barged' = barged \cup {seenTurn}
  /\ kpc' = "openBusy"
  /\ UNCHANGED <<down, held, presses, seenTurn, isProcessing, pendingActivation,
                 task, loopVars, micVars, cancelled, kept, raced>>

\* An open stream is reset and a fresh one opened; opening may fail.
OpenRecording ==
  /\ kpc \in {"open", "openBusy"}
  /\ recording' \in {0, presses}
  /\ kept' = IF kpc = "openBusy" THEN recording' ELSE 0
  /\ kpc' = IF kpc = "openBusy" THEN "schedule" ELSE "idle"
  /\ UNCHANGED <<down, held, presses, seenTurn, flagVars, loopVars, stopping,
                 barged, cancelled, raced>>

\* call_soon_threadsafe(_begin_interrupt)
ScheduleInterrupt ==
  /\ kpc = "schedule"
  /\ ready' = Append(ready, "begin")
  /\ kpc' = "idle"
  /\ UNCHANGED <<down, held, presses, seenTurn, flagVars, lpc, phase, aborting,
                 voice, micVars, histVars>>

\* _handle_release: without a matching press the key-up is ignored.
KeyUp ==
  /\ kpc = "idle" /\ down
  /\ down' = FALSE /\ held' = FALSE
  /\ ready' = IF held THEN Append(ready, "activate") ELSE ready
  /\ UNCHANGED <<presses, kpc, seenTurn, flagVars, lpc, phase, aborting, voice,
                 micVars, histVars>>

\* The system never delivers the key-up (a lost key-up).
KeyUpLost ==
  /\ kpc = "idle" /\ down
  /\ down' = FALSE
  /\ UNCHANGED <<held, presses, kpc, seenTurn, flagVars, loopVars, micVars,
                 histVars>>

-----------------------------------------------------------------------------
(* The loop: callbacks and first task steps, in FIFO order *)

\* The loop is free to run its next step.
LoopFree == lpc = "idle"

Pops(item) == LoopFree /\ ready # <<>> /\ Head(ready) = item

\* on_activate past its guard: the new turn's task is queued behind rest.
Launch(rest) ==
  /\ isProcessing' = TRUE
  /\ task' = task + 1
  /\ phase' = "queued"
  /\ voice' = "none"
  /\ ready' = Append(rest, "turn")

\* Mutated form: a key-up in a turn is not dropped.
ActivateUnguarded ==
  /\ Pops("activate")
  /\ Launch(Tail(ready))
  /\ UNCHANGED <<keyVars, interrupting, pendingActivation, lpc, aborting,
                 micVars, histVars>>

\* on_activate: deferred during a barge-in, dropped during a turn, or launched.
Activate ==
  /\ Pops("activate")
  /\ IF isProcessing
     THEN /\ pendingActivation' = (pendingActivation \/ interrupting)
          /\ ready' = Tail(ready)
          /\ UNCHANGED <<isProcessing, task, phase, voice>>
     ELSE /\ Launch(Tail(ready))
          /\ UNCHANGED pendingActivation
  /\ UNCHANGED <<keyVars, interrupting, lpc, aborting, micVars, histVars>>

\* _begin_interrupt: the interrupt task is created.
BeginInterrupt ==
  /\ Pops("begin")
  /\ ready' = Append(Tail(ready), "interrupt")
  /\ UNCHANGED <<keyVars, flagVars, lpc, phase, aborting, voice, micVars,
                 histVars>>

\* task.cancel() on turn t, and what the cancelled coroutine does with it: a
\* task that has not started never runs at all, a turn in its pipeline runs
\* its finally (finish), the others go straight to the reset.
CancelTurn(t) ==
  IF t = task /\ phase \in LivePhases
  THEN /\ cancelled' = cancelled \cup {t}
       /\ phase' = CASE phase = "queued" -> "lost"
                     [] phase = "turn"   -> "finishing"
                     [] OTHER            -> "reset"
  ELSE UNCHANGED <<cancelled, phase>>

\* Mutated form: the task is cancelled before its voice is silenced.
InterruptCancelFirst ==
  /\ Pops("interrupt")
  /\ ready' = Tail(ready)
  /\ IF interrupting THEN CancelTurn(task) ELSE UNCHANGED <<cancelled, phase>>
  /\ UNCHANGED <<keyVars, flagVars, lpc, aborting, voice, micVars, barged, kept, raced>>

\* _do_interrupt's first step: it bails when the turn ended by itself,
\* otherwise captures the task. With no active voice interrupt_turn does not
\* suspend; with one, the voice is closed and its abort awaited.
Interrupt ==
  /\ Pops("interrupt")
  /\ ready' = Tail(ready)
  /\ \/ /\ ~interrupting
        /\ UNCHANGED <<voice, aborting, cancelled, phase>>
     \/ /\ interrupting /\ voice = "none"
        /\ CancelTurn(task)
        /\ UNCHANGED <<voice, aborting>>
     \/ /\ interrupting /\ voice # "none"
        /\ voice' = "closed"
        /\ aborting' = aborting \cup {task}
        /\ UNCHANGED <<cancelled, phase>>
  /\ UNCHANGED <<keyVars, flagVars, lpc, micVars, barged, kept, raced>>

\* interrupt_turn returned: the captured task is cancelled if still running.
InterruptReturns(t) ==
  /\ LoopFree /\ t \in aborting
  /\ aborting' = aborting \ {t}
  /\ CancelTurn(t)
  /\ UNCHANGED <<keyVars, flagVars, ready, lpc, voice, micVars, barged, kept, raced>>

-----------------------------------------------------------------------------
(* The turn's task *)

\* Its first step: handle_activation calls mic.stop(), which returns None at
\* once when nothing records (the failure notice is spoken) and otherwise
\* hands the close to a worker thread. A task cancelled before it started
\* runs nothing.
TurnStarts ==
  /\ Pops("turn")
  /\ ready' = Tail(ready)
  /\ IF phase = "queued"
     THEN /\ phase' = IF recording = 0 THEN "notice" ELSE "micStop"
          /\ stopping' = IF recording = 0 THEN stopping ELSE stopping \cup {task}
          /\ kept' = IF task \in barged THEN kept ELSE 0
     ELSE UNCHANGED <<phase, stopping, kept>>
  /\ UNCHANGED <<keyVars, flagVars, lpc, aborting, voice, recording, barged,
                 cancelled, raced>>

\* The worker thread of turn t closes whatever stream is open by now; the turn
\* goes on if it still waits.
MicStops(t) ==
  /\ t \in stopping
  /\ stopping' = stopping \ {t}
  /\ recording' = 0
  /\ phase' = IF t = task /\ phase = "micStop" THEN "stt" ELSE phase
  /\ UNCHANGED <<keyVars, flagVars, ready, lpc, aborting, voice, histVars>>

\* The transcript arrives: empty (a notice is spoken) or a turn begins.
Transcribed ==
  /\ LoopFree /\ phase = "stt"
  /\ \/ phase' = "notice" /\ UNCHANGED voice
     \/ phase' = "turn" /\ voice' = "open"
  /\ UNCHANGED <<keyVars, flagVars, ready, lpc, aborting, micVars, histVars>>

\* The pipeline ends or its 90 s bound truncates it: the finally drains.
PipelineEnds ==
  /\ LoopFree /\ phase = "turn"
  /\ phase' = "finishing"
  /\ UNCHANGED <<keyVars, flagVars, ready, lpc, aborting, voice, micVars,
                 histVars>>

\* finish() returned, or the notice was spoken: run_turn clears
\* _active_turn_voice and the task reaches its own finally.
TurnReturns ==
  /\ LoopFree /\ phase \in {"finishing", "notice"}
  /\ phase' = "reset"
  /\ voice' = "none"
  /\ UNCHANGED <<keyVars, flagVars, ready, lpc, aborting, micVars, histVars>>

\* Mutated form: the barge-in's flag survives the turn it interrupted.
ResetKeepsInterrupting ==
  /\ LoopFree /\ phase = "reset"
  /\ phase' = "ended"
  /\ voice' = "none"
  /\ lpc' = IF interrupting THEN "releaseBarged" ELSE "resetMic"
  /\ raced' = (raced \/ kpc # "idle")
  /\ UNCHANGED <<keyVars, flagVars, ready, aborting, micVars, barged, cancelled,
                 kept>>

\* Mutated form: a full reset, whoever interrupted.
ResetAlwaysFully ==
  /\ LoopFree /\ phase = "reset"
  /\ phase' = "ended"
  /\ voice' = "none"
  /\ interrupting' = FALSE
  /\ lpc' = "resetMic"
  /\ raced' = (raced \/ kpc # "idle")
  /\ UNCHANGED <<keyVars, isProcessing, pendingActivation, task, ready, aborting,
                 micVars, barged, cancelled, kept>>

\* reset_turn_state reads _interrupting and takes one of its two branches.
ResetBranches ==
  /\ LoopFree /\ phase = "reset"
  /\ phase' = "ended"
  /\ voice' = "none"
  /\ interrupting' = FALSE
  /\ lpc' = IF interrupting THEN "releaseBarged" ELSE "resetMic"
  /\ raced' = (raced \/ kpc # "idle")
  /\ UNCHANGED <<keyVars, isProcessing, pendingActivation, task, ready, aborting,
                 micVars, barged, cancelled, kept>>

ResetMic ==
  /\ lpc = "resetMic"
  /\ recording' = 0
  /\ lpc' = "resetHotkey"
  /\ UNCHANGED <<keyVars, flagVars, ready, phase, aborting, voice, stopping,
                 histVars>>

ResetHotkey ==
  /\ lpc = "resetHotkey"
  /\ held' = FALSE
  /\ lpc' = "release"
  /\ UNCHANGED <<down, presses, kpc, seenTurn, flagVars, ready, phase, aborting,
                 voice, micVars, histVars>>

Release ==
  /\ lpc = "release"
  /\ isProcessing' = FALSE
  /\ lpc' = "idle"
  /\ UNCHANGED <<keyVars, interrupting, pendingActivation, task, ready, phase,
                 aborting, voice, micVars, histVars>>

ReleaseBarged ==
  /\ lpc = "releaseBarged"
  /\ isProcessing' = FALSE
  /\ lpc' = "deferred"
  /\ UNCHANGED <<keyVars, interrupting, pendingActivation, task, ready, phase,
                 aborting, voice, micVars, histVars>>

\* Mutated form: the deferred key-up is cleared and not fired.
DropDeferred ==
  /\ lpc = "deferred"
  /\ lpc' = "idle"
  /\ pendingActivation' = FALSE
  /\ UNCHANGED <<keyVars, isProcessing, interrupting, task, ready, phase,
                 aborting, voice, micVars, histVars>>

\* Mutated form: the deferred key-up is fired and stays pending.
FireKeepingDeferral ==
  /\ lpc = "deferred"
  /\ lpc' = "idle"
  /\ IF pendingActivation
     THEN Launch(ready)
     ELSE UNCHANGED <<isProcessing, task, ready, phase, voice>>
  /\ UNCHANGED <<keyVars, interrupting, pendingActivation, aborting, micVars,
                 histVars>>

\* The deferred key-up, if any, starts the new turn from inside the reset.
FireDeferred ==
  /\ lpc = "deferred"
  /\ lpc' = "idle"
  /\ pendingActivation' = FALSE
  /\ IF pendingActivation
     THEN Launch(ready)
     ELSE UNCHANGED <<isProcessing, task, ready, phase, voice>>
  /\ UNCHANGED <<keyVars, interrupting, aborting, micVars, histVars>>

Keyboard == PressReads \/ PressIgnored \/ PressClaims \/ OpenRecording
            \/ ScheduleInterrupt
Reset    == ResetMic \/ ResetHotkey \/ Release \/ ReleaseBarged \/ FireDeferred
Loop     == \/ Activate \/ BeginInterrupt \/ Interrupt \/ TurnStarts
            \/ Transcribed \/ PipelineEnds \/ TurnReturns \/ ResetBranches
            \/ Reset

Next ==
  \/ KeyDown \/ KeyUp \/ KeyUpLost
  \/ Keyboard
  \/ Loop
  \/ \E t \in Turns : InterruptReturns(t) \/ MicStops(t)

\* Both threads run, every await of a turn and of an abort is bounded, and the
\* workers run; the user owes nothing.
Fairness ==
  /\ WF_vars(Keyboard)
  /\ WF_vars(Loop)
  /\ \A t \in Turns : WF_vars(InterruptReturns(t)) /\ WF_vars(MicStops(t))

Spec == Init /\ [][Next]_vars /\ Fairness

-----------------------------------------------------------------------------
(* Properties that hold under every interleaving *)

\* One turn at a time: a turn is launched only when the previous one has
\* nothing left to run (on_activate's guard and the deferral together).
TurnsNeverOverlap == [][task' # task => phase \notin LivePhases]_vars

\* A deferred key-up always has the teardown that fires it: its turn still runs,
\* interrupted, towards its reset, or the reset has taken the branch that looks for
\* it; and it is spent only by starting the turn it asked for.  The turn that was
\* cancelled before its first step ("lost") is excepted: it has no reset, F9 stays
\* busy, and a key-up deferred behind it is never fired.
DeferralHasItsTeardown ==
  pendingActivation => \/ interrupting /\ phase \in LivePhases
                       \/ lpc \in {"releaseBarged", "deferred"}
                       \/ phase = "lost"

DeferredKeyUpIsFired ==
  /\ []DeferralHasItsTeardown
  /\ [][pendingActivation /\ ~pendingActivation' => task' = task + 1]_vars

\* F9 comes back: a turn in progress always ends with is_processing released,
\* unless its task was cancelled before its first step.
TurnsRelease == isProcessing ~> (~isProcessing \/ phase = "lost")

-----------------------------------------------------------------------------
(* Properties of the race armour (_interrupting cleared by the reset)      *)

\* Silence first, cancel second: a turn is never cancelled while its voice is open
\* (the order its finally relies on).  And it is never cancelled unless a press
\* interrupted it: a stale interrupt spares the turn that finished and the
\* deferred new one, unless a press once overlapped a reset.
SilencedBeforeCancel ==
  [][cancelled' # cancelled => voice # "open"]_vars

OnlyBargedTurnsAreCancelled == ~raced => cancelled \subseteq barged

CancelIsOrderly == SilencedBeforeCancel /\ []OnlyBargedTurnsAreCancelled

\* A barge-in's flag is cleared by the teardown it caused, unless a press once
\* overlapped a reset.
BargeInIsTornDown == interrupting ~> (~interrupting \/ phase = "lost" \/ raced)

\* A deferred key-up does not wait for ever.
DeferralIsSpent == pendingActivation ~> (~pendingActivation \/ phase = "lost")

\* Together: the hotkey comes back to rest after every turn and every barge-in.
HotkeyComesBack == TurnsRelease /\ BargeInIsTornDown /\ DeferralIsSpent

\* "preserve the barge-in mic" (activation.py:24, approved decision 2): what closes
\* the recording of a barge-in is the turn it starts or, where a turn it interrupted
\* was still closing the microphone, the worker of that one; never a reset, unless a
\* press once overlapped one.
BargeInKeepsItsRecording ==
  [][kept # 0 /\ recording = kept /\ recording' # kept /\ ~raced
       => kept' # kept \/ \E t \in stopping \cap barged : stopping' = stopping \ {t}]_vars
=============================================================================
