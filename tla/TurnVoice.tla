------------------------------ MODULE TurnVoice ------------------------------
(***************************************************************************)
(* The voice of one turn: TurnVoice (turn_voice.py) over one streamed      *)
(* SpeechSession (tts_session.py) with its player thread                   *)
(* (tts_ws_player.py), and the buffered VoiceOut.speak (voice_out.py,      *)
(* tts.py, tts_elevenlabs.py) it degrades to.                              *)
(*                                                                         *)
(* Concurrent: the turn's task, which hands texts over and then finishes;  *)
(* the eager open task; the speech service and the player; and an          *)
(* interrupt task (barge-in), which cancels the turn when it is done.      *)
(* Texts are numbered in the order they are handed over.                   *)
(***************************************************************************)
EXTENDS Naturals, Sequences, SequencesExt

CONSTANT MaxTexts     \* bound: texts handed over in a turn

ASSUME MaxTextsAssumption == MaxTexts \in Nat \ {0}

Texts == 1 .. MaxTexts

VARIABLES
  (* TurnVoice *)
  open,         \* the eager open: "off" (disabled), "opening", "up" or "failed"
  dead, closed, interrupted,
  fed, unplayed,
  (* the turn's task *)
  tpc,          \* where it is
  text,         \* the latest text handed over, 0 for none
  finishing,    \* it is inside finish() or abandon()
  quiet,        \* abandon(): nothing is spoken at the end
  batch,        \* the texts of the buffered call in flight
  engine,       \* the engine of the buffered call that sounds
  (* the interrupt task *)
  ipc,
  (* SpeechSession and its player *)
  ws,           \* the socket and its reader: "none", "up" or "down"
  sent,         \* texts the service has not answered with audio
  player,       \* the worker thread: "none", "running" or "stopped"
  queue,        \* texts whose audio waits in the player
  gotAudio,
  (* what the user experiences; history *)
  heard,        \* how often a text has sounded
  ghost,        \* a call or a session that was cut goes on sounding
  cut,          \* the turn was cancelled or timed out
  excused       \* texts lost with a dead service, player or buffered call

voiceVars   == <<open, dead, closed, interrupted, fed, unplayed>>
taskVars    == <<tpc, text, finishing, quiet, batch, engine>>
sessionVars == <<ws, sent, player, queue, gotAudio>>
heardVars   == <<heard, ghost, cut, excused>>
vars        == <<voiceVars, taskVars, ipc, sessionVars, heardVars>>

\* At these positions the task is suspended inside the turn's pipeline;
\* "ready" stands for every await that is not the voice's.
Pipeline == {"ready", "waitOpen", "feeding", "fetch", "play"}

FlagsOK ==
  /\ dead \in BOOLEAN /\ closed \in BOOLEAN /\ interrupted \in BOOLEAN
  /\ finishing \in BOOLEAN /\ quiet \in BOOLEAN /\ gotAudio \in BOOLEAN
  /\ ghost \in BOOLEAN /\ cut \in BOOLEAN

DataOK ==
  /\ open \in {"off", "opening", "up", "failed"}
  /\ fed \subseteq Texts /\ unplayed \subseteq Texts
  /\ tpc \in Pipeline \cup {"settle", "closeWs", "closeDrain", "over"}
  /\ text \in 0 .. MaxTexts
  /\ batch \subseteq Texts /\ engine \in {"elevenlabs", "gemini"}
  /\ ipc \in {"no", "settle", "abortWs", "cancel", "done"}
  /\ ws \in {"none", "up", "down"} /\ player \in {"none", "running", "stopped"}
  /\ sent \in Seq(Texts) /\ queue \in Seq(Texts)
  /\ heard \in [Texts -> Nat] /\ excused \subseteq Texts

TypeOK == FlagsOK /\ DataOK

\* A fresh TurnVoice, whose begin_open has started the open task.
Fresh ==
  /\ open' \in {"off", "opening"}
  /\ dead' = FALSE /\ closed' = FALSE /\ interrupted' = FALSE
  /\ fed' = {} /\ unplayed' = {}
  /\ tpc' = "ready" /\ text' = 0 /\ finishing' = FALSE /\ quiet' = FALSE
  /\ batch' = {} /\ engine' = "gemini" /\ ipc' = "no"
  /\ ws' = "none" /\ sent' = <<>> /\ player' = "none" /\ queue' = <<>>
  /\ gotAudio' = FALSE
  /\ heard' = [t \in Texts |-> 0] /\ cut' = FALSE /\ excused' = {}

Init ==
  /\ open \in {"off", "opening"}
  /\ dead = FALSE /\ closed = FALSE /\ interrupted = FALSE
  /\ fed = {} /\ unplayed = {}
  /\ tpc = "ready" /\ text = 0 /\ finishing = FALSE /\ quiet = FALSE
  /\ batch = {} /\ engine = "gemini" /\ ipc = "no"
  /\ ws = "none" /\ sent = <<>> /\ player = "none" /\ queue = <<>>
  /\ gotAudio = FALSE
  /\ heard = [t \in Texts |-> 0] /\ ghost = FALSE /\ cut = FALSE /\ excused = {}

-----------------------------------------------------------------------------
(* The eager open *)

OpenSucceeds ==
  /\ open = "opening"
  /\ open' = "up" /\ ws' = "up" /\ player' = "running"
  /\ UNCHANGED <<dead, closed, interrupted, fed, unplayed, taskVars, ipc, sent,
                 queue, gotAudio, heardVars>>

OpenFails ==
  /\ open = "opening"
  /\ open' = "failed"
  /\ UNCHANGED <<dead, closed, interrupted, fed, unplayed, taskVars, ipc,
                 sessionVars, heardVars>>

-----------------------------------------------------------------------------
(* The turn hands a text over *)

\* Mutated form: the text before the one handed over is spoken.
SpeakPrevious(b) == tpc' = "fetch" /\ batch' = {t - 1 : t \in b}

\* VoiceOut.speak(b) begins.
SpeakBuffered(b) == tpc' = "fetch" /\ batch' = b

\* Mutated form: a text after the session's death is spoken at once.
SpeakOverSession(t) == SpeakBuffered({t}) /\ UNCHANGED unplayed

\* A text after the session's death waits for the end of the turn.
KeepForTheEnd(t) ==
  unplayed' = unplayed \cup {t} /\ UNCHANGED <<tpc, batch>>

\* speak_or_feed (and push_stream, whose pass has found the session open):
\* kept for the end, fed, fed once the open task is done, or spoken at once.
Say ==
  /\ tpc = "ready" /\ text < MaxTexts
  /\ text' = text + 1
  /\ \/ /\ dead
        /\ KeepForTheEnd(text + 1)
     \/ /\ ~dead /\ open = "up"
        /\ tpc' = "feeding" /\ UNCHANGED <<unplayed, batch>>
     \/ /\ ~dead /\ open = "opening" /\ ~closed
        /\ tpc' = "waitOpen" /\ UNCHANGED <<unplayed, batch>>
     \/ /\ ~dead /\ (open \in {"off", "failed"} \/ (open = "opening" /\ closed))
        /\ SpeakBuffered({text + 1}) /\ UNCHANGED unplayed
  /\ UNCHANGED <<open, dead, closed, interrupted, fed, finishing, quiet, engine,
                 ipc, sessionVars, heardVars>>

\* ensure_open returns the open task's result.
OpenAwaited ==
  /\ tpc = "waitOpen" /\ open # "opening"
  /\ IF open = "up" THEN tpc' = "feeding" /\ UNCHANGED batch
                    ELSE SpeakBuffered({text})
  /\ UNCHANGED <<voiceVars, text, finishing, quiet, engine, ipc, sessionVars,
                 heardVars>>

\* SpeechSession.feed: the send succeeds or the session is dead for the turn.
Feed ==
  /\ tpc = "feeding"
  /\ tpc' = "ready"
  /\ IF ws = "up"
     THEN /\ sent' = Append(sent, text) /\ fed' = fed \cup {text}
          /\ UNCHANGED <<dead, unplayed>>
     ELSE /\ dead' = TRUE /\ unplayed' = unplayed \cup {text}
          /\ UNCHANGED <<sent, fed>>
  /\ UNCHANGED <<open, closed, interrupted, text, finishing, quiet, batch, engine,
                 ipc, ws, player, queue, gotAudio, heardVars>>

-----------------------------------------------------------------------------
(* A buffered call *)

\* Audio arrives: from the first engine, or from the second once the first
\* has failed without a sound.
BufferedSounds ==
  /\ tpc = "fetch"
  /\ tpc' = "play"
  /\ engine' \in {"elevenlabs", "gemini"}
  /\ heard' = [t \in Texts |-> IF t \in batch THEN heard[t] + 1 ELSE heard[t]]
  /\ UNCHANGED <<voiceVars, text, finishing, quiet, batch, ipc, sessionVars, ghost,
                 cut, excused>>

\* The call returns: from its tail, or with no engine available.
BufferedReturns ==
  /\ tpc \in {"fetch", "play"}
  /\ tpc' = IF finishing THEN "over" ELSE "ready"
  /\ excused' = IF tpc = "fetch" THEN excused \cup batch ELSE excused
  /\ batch' = {}
  /\ UNCHANGED <<voiceVars, text, finishing, quiet, engine, ipc, sessionVars, heard,
                 ghost, cut>>

\* What a cancellation leaves sounding: stream_pcm aborts its player while it
\* streams, but not inside its own finally, where the tail drains (the two are
\* one position here); play_clip always aborts.
Abandoned == IF tpc = "play" /\ engine = "elevenlabs" THEN {ghost, TRUE}
                                                      ELSE {ghost}

GhostEnds ==
  /\ ghost
  /\ ghost' = FALSE
  /\ UNCHANGED <<voiceVars, taskVars, ipc, sessionVars, heard, cut, excused>>

-----------------------------------------------------------------------------
(* The speech service and the player *)

\* _read_audio: the audio of the next text is queued in the player.
Synthesize ==
  /\ ws = "up" /\ sent # <<>>
  /\ sent' = Tail(sent)
  /\ gotAudio' = TRUE
  /\ IF player = "running"
     THEN queue' = Append(queue, Head(sent)) /\ UNCHANGED excused
     ELSE excused' = excused \cup {Head(sent)} /\ UNCHANGED queue
  /\ UNCHANGED <<voiceVars, taskVars, ipc, ws, player, heard, ghost, cut>>

\* The socket goes down with the texts it has not answered.
WsGoesDown ==
  /\ ws' = "down" /\ sent' = <<>>
  /\ excused' = excused \cup ToSet(sent)

ServiceDies ==
  /\ ws = "up"
  /\ WsGoesDown
  /\ UNCHANGED <<voiceVars, taskVars, ipc, player, queue, gotAudio, heard, ghost,
                 cut>>

Play ==
  /\ player = "running" /\ queue # <<>>
  /\ heard' = [heard EXCEPT ![Head(queue)] = @ + 1]
  /\ queue' = Tail(queue)
  /\ UNCHANGED <<voiceVars, taskVars, ipc, ws, sent, player, gotAudio, ghost, cut,
                 excused>>

\* The output device fails.
PlayerDies ==
  /\ player = "running"
  /\ player' = "stopped" /\ queue' = <<>>
  /\ excused' = excused \cup ToSet(queue)
  /\ UNCHANGED <<voiceVars, taskVars, ipc, ws, sent, gotAudio, heard, ghost, cut>>

-----------------------------------------------------------------------------
(* The end of the turn *)

\* finish() or abandon() is entered: at once over on a closed voice.
EnterFinish ==
  /\ finishing' = TRUE /\ closed' = TRUE
  /\ tpc' = IF closed THEN "over" ELSE "settle"
  /\ batch' = {}

\* run_turn's finally, after the pipeline or after abandon().
Finish ==
  /\ tpc = "ready"
  /\ EnterFinish
  /\ quiet' \in BOOLEAN
  /\ UNCHANGED <<open, dead, interrupted, fed, unplayed, text, engine, ipc,
                 sessionVars, heardVars>>

\* Mutated form: an open that failed is tried again.
SettledRetrying ==
  /\ tpc = "settle" /\ open # "opening"
  /\ IF open = "failed"
     THEN open' = "opening" /\ UNCHANGED tpc
     ELSE tpc' = (IF open = "up" THEN "closeWs" ELSE "over") /\ UNCHANGED open
  /\ UNCHANGED <<dead, closed, interrupted, fed, unplayed, text, finishing, quiet,
                 batch, engine, ipc, sessionVars, heardVars>>

\* _settle_open, then session.close() when there is a session.
Settled ==
  /\ tpc = "settle" /\ open # "opening"
  /\ tpc' = IF open = "up" THEN "closeWs" ELSE "over"
  /\ UNCHANGED <<voiceVars, text, finishing, quiet, batch, engine, ipc, sessionVars,
                 heardVars>>

\* Every text was answered, the socket is down, or the close timed out: the
\* socket is released and the player told to drain.
WsCloses ==
  /\ tpc = "closeWs"
  /\ tpc' = "closeDrain"
  /\ WsGoesDown
  /\ UNCHANGED <<voiceVars, text, finishing, quiet, batch, engine, ipc, player,
                 queue, gotAudio, heard, ghost, cut>>

\* Mutated form: the texts of a session that died are spoken even when the
\* user has silenced the turn.
RemainderUnsilenced ==
  IF quiet THEN {} ELSE IF ~gotAudio THEN fed \cup unplayed ELSE unplayed

\* Mutated form: the whole turn is spoken again after a partial failure.
RemainderWhole ==
  IF quiet \/ interrupted THEN {}
  ELSE IF ~gotAudio \/ unplayed # {} THEN fed \cup unplayed ELSE {}

\* Decision 15: what finish() speaks after the close.
Remainder ==
  IF quiet \/ interrupted THEN {}
  ELSE IF ~gotAudio THEN fed \cup unplayed ELSE unplayed

\* The player's thread is joined; the fallback follows.
PlayerDrained ==
  /\ tpc = "closeDrain" /\ (queue = <<>> \/ player = "stopped")
  /\ player' = "stopped"
  /\ IF Remainder = {} THEN tpc' = "over" /\ UNCHANGED batch
                       ELSE SpeakBuffered(Remainder)
  /\ UNCHANGED <<voiceVars, text, finishing, quiet, engine, ipc, ws, sent, queue,
                 gotAudio, heardVars>>

\* The session bound fires, once; it is far longer than the open's.  It cuts the
\* pipeline, whose finally is finish() ...
TimeoutInPipeline ==
  /\ tpc \in Pipeline /\ ~finishing
  /\ ghost' \in Abandoned
  /\ EnterFinish
  /\ UNCHANGED <<ws, sent, player, excused>>

\* ... and abandon(), which is in the pipeline: its close swallows the cut while it
\* waits for the service ...
TimeoutInClose ==
  /\ tpc = "closeWs" /\ quiet
  /\ tpc' = "closeDrain"
  /\ WsGoesDown
  /\ UNCHANGED <<closed, finishing, batch, player, ghost>>

\* ... and lets it out while it joins the player, whose tail then sounds on behind a
\* turn that is over: finish() returns at once on the closed voice.
TimeoutInDrain ==
  /\ tpc = "closeDrain" /\ quiet
  /\ tpc' = "over"
  /\ UNCHANGED <<closed, finishing, batch, ws, sent, player, ghost, excused>>

Timeout ==
  /\ open # "opening" /\ ~cut
  /\ cut' = TRUE
  /\ TimeoutInPipeline \/ TimeoutInClose \/ TimeoutInDrain
  /\ UNCHANGED <<open, dead, interrupted, fed, unplayed, text, quiet, engine, ipc,
                 queue, gotAudio, heard>>

-----------------------------------------------------------------------------
(* The barge-in *)

\* interrupt(): the voice is closed before anything is awaited.
InterruptStarts ==
  /\ tpc # "over" /\ ipc = "no"
  /\ ipc' = "settle"
  /\ interrupted' = TRUE /\ closed' = TRUE
  /\ UNCHANGED <<open, dead, fed, unplayed, taskVars, sessionVars, heardVars>>

\* The open task is awaited; SpeechSession.abort stops the reader and releases
\* the socket.
AbortWs ==
  /\ ipc = "settle" /\ open # "opening"
  /\ IF open = "up"
     THEN ipc' = "abortWs" /\ WsGoesDown
     ELSE ipc' = "cancel" /\ UNCHANGED <<ws, sent, excused>>
  /\ UNCHANGED <<voiceVars, taskVars, player, queue, gotAudio, heard, ghost, cut>>

\* PcmStreamPlayer.abort: silence, and the thread is joined.
AbortPlayer ==
  /\ ipc = "abortWs"
  /\ ipc' = "cancel"
  /\ player' = "stopped" /\ queue' = <<>>
  /\ UNCHANGED <<voiceVars, taskVars, ws, sent, gotAudio, heardVars>>

\* The interrupt task cancels the turn's. A close in progress swallows it
\* while it waits for the service, and lets it out while it joins the player.
CancelTurn ==
  /\ ipc = "cancel"
  /\ ipc' = "done"
  /\ \/ /\ tpc \in {"over", "closeWs"}
        /\ UNCHANGED <<tpc, batch, cut, ghost>>
     \/ /\ tpc \notin {"over", "closeWs"}
        /\ cut' = TRUE /\ ghost' \in Abandoned
        /\ tpc' = "over" /\ batch' = {}
  /\ UNCHANGED <<voiceVars, text, finishing, quiet, engine, sessionVars, heard,
                 excused>>

\* The next turn has a voice of its own; a tail that still sounds is not its.
NewTurn ==
  /\ tpc = "over" /\ ipc \in {"no", "done"}
  /\ Fresh
  /\ ghost' = (ghost \/ queue # <<>>)

Task == Say \/ OpenAwaited \/ Feed \/ BufferedSounds \/ BufferedReturns
        \/ Finish \/ Settled \/ WsCloses \/ PlayerDrained \/ Timeout
Interrupt == AbortWs \/ AbortPlayer \/ CancelTurn

Next ==
  \/ OpenSucceeds \/ OpenFails
  \/ Task
  \/ Synthesize \/ ServiceDies
  \/ Play \/ PlayerDies
  \/ InterruptStarts \/ Interrupt
  \/ GhostEnds
  \/ NewTurn

\* The open, every call of the turn and the abort are bounded, and the player
\* plays what it has.
Fairness ==
  /\ WF_vars(OpenSucceeds \/ OpenFails)
  /\ WF_vars(Task) /\ WF_vars(Interrupt) /\ WF_vars(Play) /\ WF_vars(GhostEnds)

Spec == Init /\ [][Next]_vars /\ Fairness

-----------------------------------------------------------------------------
(* Properties *)

\* No text is heard twice, whatever died or was re-spoken (the double-speak
\* guard of decision 15).
HeardAtMostOnce == \A t \in Texts : heard[t] <= 1

\* The streamed audio and a buffered call of one turn never sound together.
OneVoiceInATurn == tpc = "play" => queue = <<>>

\* A turn that ran to its end by itself lost only what a dead service, player
\* or buffered call took with it.
NothingIsLost ==
  tpc = "over" /\ ~cut /\ ~interrupted /\ ~quiet =>
    \A t \in 1 .. text : heard[t] = 1 \/ t \in excused

\* Together: every text of a turn is spoken once.
EachTextIsSpokenOnce == HeardAtMostOnce /\ NothingIsLost

\* finish() speaks nothing in a turn that the user silenced before.
FinishKeepsSilence ==
  [][finishing /\ interrupted /\ tpc' = "fetch" => tpc = "fetch"]_vars

\* The session bound fired while abandon() joined the player.
AbandonWasCut == cut /\ quiet /\ ~interrupted

\* Once the turn and its interrupt are over, the socket is released and the
\* session's player does not run, unless the bound cut abandon() off from it.
SessionIsReleased ==
  tpc = "over" /\ ipc \in {"no", "done"} =>
    ws # "up" /\ (player # "running" \/ AbandonWasCut)

\* Together: one voice at a time in a turn, and what it used is given back at its
\* end.
OneVoiceAtATime == OneVoiceInATurn /\ SessionIsReleased

\* A turn's task always comes out of its voice, and what a cut left sounding behind
\* a turn comes to its end.
TurnComesOut == (tpc # "over" ~> tpc = "over") /\ (ghost ~> ~ghost)
=============================================================================
