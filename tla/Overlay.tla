------------------------------ MODULE Overlay ------------------------------
(***************************************************************************)
(* The overlay window: SidekickOverlay (overlay/sidekick_window.py), its   *)
(* dispatcher (window_commands.py) and its widgets, fed through one queue  *)
(* by the turn, by the auto-hide timer, by a barge-in and by the keyboard  *)
(* thread.                                                                 *)
(*                                                                         *)
(* Every verb of the overlay is a put; the Tk thread takes the commands    *)
(* one at a time and runs its own timers in between: the glide of the      *)
(* pointer, the paced captions, the fade of the whiteboard.  Pixels are    *)
(* left out; what is on the canvas is not.                                 *)
(***************************************************************************)
EXTENDS Naturals, Sequences

CONSTANTS
  Spotlight,      \* MUTHIS_FOCUS_DIM
  MaxQueue        \* bound: commands the Tk thread is behind by

ASSUME OverlayAssumption ==
  Spotlight \in BOOLEAN /\ MaxQueue \in Nat \ {0}

VARIABLES
  commands,       \* SidekickOverlay._commands
  tk,             \* the Tk thread: "off", "starting", "up", "dead", "closed"
  view,           \* the widgets and what they show
  (* those who draw *)
  pc,             \* where the turn is
  streamed,       \* it speaks through the session
  board,          \* it asked for the whiteboard
  drew,           \* it asked for a drawing
  barge,          \* "no", "pressed", "hidden": how far its barge-in is
  aborting,       \* interrupt_turn awaits the end of the voice
  armed,          \* the auto-hide timer runs
  (* history, read by the properties only *)
  frame,          \* what of ours the last frame of a turn not barged shows
  grabbing,       \* a grab that hid the chip did not come to restore it
  left            \* the session bound cut abandon(), and its caption was left

turnVars    == <<pc, streamed, board, drew, barge, aborting, armed>>
historyVars == <<frame, grabbing, left>>
overlayVars == <<commands, tk, view, turnVars, historyVars>>

\* Of VALID_STATES, whether the light is on; commands that only change its
\* colour are left out.
States == {"light", "idle"}
Items  == {"drawing", "caption", "badge", "chip"}
Commands ==
  States \cup
  {"show", "draw_shapes", "dim_screen", "undim_screen", "clear_status_light",
   "show_caption", "show_caption_later", "show_domain_badge",
   "show_mode_indicator", "end_mode_indicator", "restore_mode_indicator",
   "clear_caption", "hide", "hide_for_capture", "close"}

View == [items : SUBSET Items,          \* what is on the canvas
         text  : BOOLEAN,               \* ModeIndicator._text is not empty
         later : BOOLEAN,               \* paced captions of this generation wait
         glide : BOOLEAN,               \* PointerAnimator._active
         dim   : {"none", "dark", "fading"},
         state : States, off : BOOLEAN] \* StatusIndicator

Blank == [items |-> {}, text |-> FALSE, later |-> FALSE, glide |-> FALSE,
          dim |-> "none", state |-> "idle", off |-> FALSE]

\* The dot is redrawn by a pulse of the Tk thread, whatever deleted it.
Dot(v) == v.state # "idle" /\ ~v.off

OverlayInit ==
  /\ commands = <<>> /\ tk = "off" /\ view = Blank
  /\ pc = "idle" /\ streamed = FALSE /\ board = FALSE
  /\ drew = FALSE /\ barge = "no" /\ aborting = FALSE /\ armed = FALSE
  /\ frame = {} /\ grabbing = FALSE /\ left = FALSE

-----------------------------------------------------------------------------
(* The Tk thread *)

\* ModeIndicator.restore
Restored(v) == [v EXCEPT !.items = IF v.text THEN @ \cup {"chip"} ELSE @ \ {"chip"}]

\* CaptionBar.clear orphans the paced captions.  Mutated form: it does not.
CaptionErased(v) == [v EXCEPT !.items = @ \ {"caption"}]
CaptionCleared(v) == [v EXCEPT !.items = @ \ {"caption"}, !.later = FALSE]

\* The "hide" branch: the glide, the whole canvas, the captions to come and the
\* whiteboard.
Hidden(v) == CaptionCleared([v EXCEPT !.items = {}, !.glide = FALSE, !.dim = "none"])

\* The "show" branch: RectangleWidget.clear deletes everything on the canvas,
\* and the glide starts.
Shown(v) == [v EXCEPT !.items = {"drawing"}, !.glide = TRUE,
                      !.dim = IF Spotlight THEN "dark" ELSE @]

\* dispatch_command
Dispatch(c, v) ==
  CASE c = "show"                   -> Shown(v)
    [] c = "draw_shapes"            -> [v EXCEPT !.items = @ \cup {"drawing"}]
    [] c = "dim_screen"             -> [v EXCEPT !.dim = "dark"]
    [] c = "undim_screen"           -> [v EXCEPT !.dim = IF @ = "dark" THEN "fading" ELSE @]
    [] c \in States                 -> [v EXCEPT !.state = c, !.off = FALSE]
    [] c = "clear_status_light"     -> [v EXCEPT !.off = TRUE]
    [] c = "show_caption"           -> [v EXCEPT !.items = @ \cup {"caption"}]
    [] c = "show_caption_later"     -> [v EXCEPT !.later = TRUE]
    [] c = "show_domain_badge"      -> [v EXCEPT !.items = @ \cup {"badge"}]
    [] c = "show_mode_indicator"    -> Restored([v EXCEPT !.text = TRUE])
    [] c = "end_mode_indicator"     -> Restored([v EXCEPT !.text = FALSE])
    [] c = "restore_mode_indicator" -> Restored(v)
    [] c = "clear_caption"          -> [CaptionCleared(v) EXCEPT !.items = @ \ {"badge"}]
    [] c = "hide"                   -> Restored(Hidden(v))
    [] c = "hide_for_capture"       -> Hidden(v)
    [] c = "close"                  -> Blank

\* _drain takes one command; "close" destroys the window.
Drain ==
  /\ tk = "up" /\ commands # <<>>
  /\ commands' = Tail(commands)
  /\ view' = Dispatch(Head(commands), view)
  /\ tk' = IF Head(commands) = "close" THEN "closed" ELSE "up"
  /\ UNCHANGED <<turnVars, historyVars>>

\* _run: the window comes up, or it does not and the overlay is disabled.
WindowStarts ==
  /\ tk = "starting" /\ tk' \in {"up", "dead"}
  /\ UNCHANGED <<commands, view, turnVars, historyVars>>

TkTimer(v) == view' = v /\ UNCHANGED <<commands, tk, turnVars, historyVars>>

\* _on_arrival: RectangleWidget.draw clears the canvas before it draws.
GlideArrives ==
  /\ tk = "up" /\ view.glide
  /\ TkTimer([view EXCEPT !.glide = FALSE, !.items = {"drawing"}])

CaptionFires ==
  /\ tk = "up" /\ view.later
  /\ \E others \in BOOLEAN :
       TkTimer([view EXCEPT !.later = others, !.items = @ \cup {"caption"}])

FadeEnds ==
  /\ tk = "up" /\ view.dim = "fading"
  /\ TkTimer([view EXCEPT !.dim = "none"])

-----------------------------------------------------------------------------
(* The turn *)

\* Mutated form: what a verb puts is put as one.
PutsOnce(verbs) ==
  IF tk = "dead" THEN UNCHANGED <<commands, tk>>
  ELSE /\ Len(commands) + Len(verbs) <= MaxQueue
       /\ commands' = Append(commands, verbs)
       /\ tk' = IF tk = "off" THEN "starting" ELSE tk

\* _enqueue: the first command starts the thread, a dead overlay takes none.
Puts(verbs) ==
  IF tk = "dead" THEN UNCHANGED <<commands, tk>>
  ELSE /\ Len(commands) + Len(verbs) <= MaxQueue
       /\ commands' = commands \o verbs
       /\ tk' = IF tk = "off" THEN "starting" ELSE tk

If(condition, verbs) == IF condition THEN verbs ELSE <<>>

InTurn == pc \notin {"idle", "held", "closed"}

\* A window that is up has taken what was put: it polls every _QUEUE_POLL_MS, and
\* the turn comes from OVERLAY_SETTLE_S, from the model or from the player.
CaughtUp == commands = <<>> \/ tk # "up"

Turn(here, there) == pc = here /\ pc' = there

\* The key goes down at rest: _open_recording.
Press ==
  /\ Turn("idle", "held") /\ Puts(<<"light">>)
  /\ UNCHANGED <<view, streamed, board, drew, barge, aborting, armed, historyVars>>

\* The release: on_activate.
Release ==
  /\ Turn("held", "capture") /\ Puts(<<"light">>)
  /\ barge' = "no"
  /\ UNCHANGED <<view, streamed, board, drew, aborting, armed, historyVars>>

\* A recording with nothing in it: reset_turn_state.
NothingHeard ==
  /\ Turn("held", "idle") /\ Puts(<<"idle">>)
  /\ barge' = "no"
  /\ UNCHANGED <<view, streamed, board, drew, aborting, armed, historyVars>>

\* Mutated form: the light is not put out.
HidesTheDrawingsOnly ==
  /\ Turn("capture", "settle")
  /\ armed' = FALSE
  /\ Puts(<<"hide_for_capture">>)
  /\ grabbing' = TRUE /\ left' = FALSE
  /\ UNCHANGED <<view, streamed, board, drew, barge, aborting, frame>>

\* FrameCapture.capture, up to the settling delay
HidesForCapture ==
  /\ Turn("capture", "settle")
  /\ armed' = FALSE
  /\ Puts(<<"clear_status_light", "hide_for_capture">>)
  /\ grabbing' = TRUE /\ left' = FALSE
  /\ UNCHANGED <<view, streamed, board, drew, barge, aborting, frame>>

\* ... the grab, and what comes back after it.
Grabs ==
  /\ Turn("settle", "pass") /\ CaughtUp
  /\ frame' = IF barge # "no" THEN {}
              ELSE view.items \cup (IF Dot(view) THEN {"dot"} ELSE {})
  /\ grabbing' = FALSE
  /\ Puts(<<"light", "restore_mode_indicator">>)
  /\ UNCHANGED <<view, streamed, board, drew, barge, aborting, armed, left>>

\* PendingDraw.apply: a highlight, shapes, or shapes on the whiteboard.
Draws ==
  /\ Turn("pass", "speak") /\ CaughtUp
  /\ drew' = TRUE
  /\ \E dim \in BOOLEAN :
       /\ board' = (board \/ dim)
       /\ \/ ~dim /\ Puts(<<"show">>)
          \/ Puts(If(dim, <<"dim_screen">>) \o <<"draw_shapes">>)
  /\ UNCHANGED <<view, streamed, barge, aborting, armed, historyVars>>

DrawsNothing ==
  /\ Turn("pass", "speak") /\ CaughtUp
  /\ UNCHANGED <<commands, tk, view, streamed, board, drew, barge, aborting, armed,
                 historyVars>>

\* TurnVoice._feed: the caption is paced to the audio, and stays to the end.
Feeds ==
  /\ Turn("speak", "serve")
  /\ \E caption \in {"show_caption", "show_caption_later"} :
       Puts(<<caption>>)
  /\ streamed' = TRUE
  /\ UNCHANGED <<view, board, drew, barge, aborting, armed, historyVars>>

\* VoiceOut.speak: one caption, or one for each sentence, until the audio ends.
Speaks ==
  /\ Turn("speak", "said")
  /\ \E caption \in {"show_caption", "show_caption_later"} : Puts(<<caption>>)
  /\ UNCHANGED <<view, streamed, board, drew, barge, aborting, armed, historyVars>>

Spoken ==
  /\ Turn("said", "serve") /\ CaughtUp /\ Puts(<<"clear_caption">>)
  /\ UNCHANGED <<view, streamed, board, drew, barge, aborting, armed, historyVars>>

SpeaksNothing ==
  /\ Turn("speak", "serve")
  /\ UNCHANGED <<commands, tk, view, streamed, board, drew, barge, aborting, armed,
                 historyVars>>

\* The tools of the pass may change the mode; the badge is last.  Then a fresh
\* frame, another pass, or the answer is complete.
Serves ==
  /\ pc = "serve"
  /\ \E mode \in {<<>>, <<"show_mode_indicator">>, <<"end_mode_indicator">>},
        badge \in {<<>>, <<"show_domain_badge">>} : Puts(mode \o badge)
  /\ pc' \in {"capture", "pass", "end"}
  /\ UNCHANGED <<view, streamed, board, drew, barge, aborting, armed, historyVars>>

\* The session bound, or a failure, of the grab too: speak() clears its caption
\* on the way out.  abandon() would clear a streamed one, but the bound may cut it
\* first, and then finish() finds the voice closed and does nothing.
TurnFails ==
  /\ InTurn /\ pc # "end" /\ pc' = "end"
  /\ Puts(If(pc = "said", <<"clear_caption">>))
  /\ \E cut \in BOOLEAN : left' = (left \/ (cut /\ streamed /\ barge # "hidden"))
  /\ UNCHANGED <<view, streamed, board, drew, barge, aborting, armed, frame, grabbing>>

\* Mutated form: the timer is armed only where a turn was not interrupted.
EndsArmedByAnswers ==
  /\ Turn("end", IF barge = "no" THEN "idle" ELSE "held")
  /\ Puts(If(streamed /\ ~left /\ barge # "hidden", <<"clear_caption">>)
          \o If(barge = "no", <<"idle">>))
  /\ armed' = (armed \/ (drew /\ ~board))
  /\ streamed' = FALSE /\ board' = FALSE /\ drew' = FALSE
  /\ UNCHANGED <<view, barge, aborting, historyVars>>

\* run_turn's finally: the voice has ended, or was silenced; the lights come
\* back, the timer is armed; reset_turn_state leaves the light to a barge-in.
TurnEnds ==
  /\ Turn("end", IF barge = "no" THEN "idle" ELSE "held")
  /\ Puts(If(streamed /\ ~left /\ barge # "hidden", <<"clear_caption">>)
          \o If(board, <<"undim_screen">>)
          \o If(barge = "no", <<"idle">>))
  /\ armed' = (armed \/ drew)
  /\ streamed' = FALSE /\ board' = FALSE /\ drew' = FALSE
  /\ UNCHANGED <<view, barge, aborting, historyVars>>

-----------------------------------------------------------------------------
(* Barge-in, auto-hide, shutdown *)

\* The key goes down over a turn.
PressesOver ==
  /\ InTurn /\ barge = "no" /\ barge' = "pressed"
  /\ Puts(<<"light">>)
  /\ UNCHANGED <<view, pc, streamed, board, drew, aborting, armed, historyVars>>

\* interrupt_turn: the screen first ...
InterruptHides ==
  /\ InTurn /\ barge = "pressed" /\ barge' = "hidden"
  /\ ~aborting /\ aborting' = TRUE
  /\ armed' = FALSE
  /\ Puts(<<"hide">>)
  /\ UNCHANGED <<view, pc, streamed, board, drew, historyVars>>

\* ... and, when the voice is silent, its caption; the turn is cancelled if it
\* is not over.
InterruptReturns ==
  /\ aborting /\ aborting' = FALSE
  /\ pc' = IF InTurn /\ barge = "hidden" THEN "end" ELSE pc
  /\ Puts(<<"clear_caption">>) /\ left' = FALSE
  /\ UNCHANGED <<view, streamed, board, drew, barge, armed, frame, grabbing>>

AutoHide ==
  /\ armed /\ pc # "closed" /\ armed' = FALSE
  /\ Puts(<<"hide">>) /\ left' = FALSE
  /\ UNCHANGED <<view, pc, streamed, board, drew, barge, aborting, frame, grabbing>>

Close ==
  /\ Turn("idle", "closed")
  /\ IF tk \in {"off", "dead"} THEN UNCHANGED <<commands, tk>> ELSE Puts(<<"close">>)
  /\ UNCHANGED <<view, streamed, board, drew, barge, aborting, armed, historyVars>>

-----------------------------------------------------------------------------

TkStep == Drain \/ WindowStarts \/ GlideArrives \/ CaptionFires \/ FadeEnds

TurnStep ==
  \/ HidesForCapture \/ Grabs
  \/ Draws \/ DrawsNothing \/ Feeds \/ Speaks \/ Spoken \/ SpeaksNothing
  \/ Serves \/ TurnEnds

OverlayNext ==
  \/ TkStep \/ TurnStep \/ TurnFails
  \/ Press \/ Release \/ NothingHeard
  \/ PressesOver \/ InterruptHides \/ InterruptReturns
  \/ AutoHide \/ Close

\* The Tk thread runs its loop and its timers, the turn goes on until its session
\* bound at most, the auto-hide timer fires; nobody has to press a key, or to close.
OverlayFairness ==
  /\ WF_overlayVars(Drain) /\ WF_overlayVars(WindowStarts)
  /\ WF_overlayVars(GlideArrives) /\ WF_overlayVars(CaptionFires)
  /\ WF_overlayVars(FadeEnds)
  /\ WF_overlayVars(TurnStep) /\ SF_overlayVars(TurnFails)
  /\ WF_overlayVars(InterruptHides) /\ WF_overlayVars(InterruptReturns)
  /\ WF_overlayVars(AutoHide)

OverlaySpec == OverlayInit /\ [][OverlayNext]_overlayVars /\ OverlayFairness

-----------------------------------------------------------------------------
(* Properties *)

\* The state has the types of the fields it stands for.
OverlayFlagsOK ==
  /\ streamed \in BOOLEAN /\ board \in BOOLEAN /\ drew \in BOOLEAN
  /\ aborting \in BOOLEAN /\ armed \in BOOLEAN
  /\ grabbing \in BOOLEAN /\ left \in BOOLEAN

OverlayDataOK ==
  /\ commands \in Seq(Commands) /\ Len(commands) <= MaxQueue
  /\ tk \in {"off", "starting", "up", "dead", "closed"}
  /\ view \in View
  /\ pc \in {"idle", "held", "capture", "settle", "pass", "speak", "said", "serve",
             "end", "closed"}
  /\ barge \in {"no", "pressed", "hidden"}
  /\ frame \subseteq Items \cup {"dot"}

OverlayTypeOK == OverlayFlagsOK /\ OverlayDataOK

\* No frame sent to the model shows anything the overlay drew: not the light,
\* not a drawing whose glide was under way, not a caption that was still to come
\* (FrameCapture.capture and the "hide" branch), unless the key was pressed over
\* the turn before the grab.
FrameIsClean == frame = {}

\* A caption is on the bar, or still to come, only while the voice it belongs to
\* speaks: not after the answer was spoken, failed or was silenced, unless the
\* session bound cut the abandon() that was to clear it; that one is left to the
\* next capture, or to the auto-hide (TurnVoice.finish, VoiceOut.speak).
CaptionsFollowTheVoice ==
  commands = <<>> /\ tk = "up" /\ ("caption" \in view.items \/ view.later)
    => pc = "said" \/ (streamed /\ InTurn) \/ aborting \/ left

\* What the screen comes to between turns: no drawing, no caption, no dark board,
\* no light; and the chip exactly where a mode is on.  The badge may stay.
Resting ==
  /\ view.items \ {"badge"} = IF view.text THEN {"chip"} ELSE {}
  /\ view.dim = "none" /\ ~Dot(view)

\* After every turn the screen is given back and the mode's chip is up, whoever
\* drew, hid or interrupted last, unless a grab failed under the chip or abandon()
\* was cut (AutoHideController, "hide" and run_turn's finally).
ScreenComesToRest ==
  pc = "idle" ~> (pc # "idle" \/ Resting \/ grabbing \/ left \/ tk = "dead")
=============================================================================
