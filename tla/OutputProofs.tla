---------------------------- MODULE OutputProofs ----------------------------
(***************************************************************************)
(* Proofs about what the user hears and sees, TurnVoice and Overlay, each  *)
(* for every value of its constants.  A text has one place (PlaceInv),     *)
(* where it has not sounded (HeardInv), and keeps one until it has         *)
(* (CoverInv).  The invariants of the overlay speak of the view and of the *)
(* queue before it: either the view is as it should be and nothing in the  *)
(* queue spoils it, or a command that makes it so is still to come.        *)
(***************************************************************************)
EXTENDS TurnVoice, Overlay, TLAPS

(* TurnVoice: the inductive invariant *)

\* Which session there is, what a place in the turn implies of it, and what dies
\* with it.
SessionInv ==
  /\ open # "up" => /\ ws = "none" /\ player = "none" /\ fed = {}
                    /\ ~gotAudio /\ ~dead
  /\ open = "up" => ws # "none" /\ player # "none"
  /\ ws # "up" => sent = <<>>
  /\ player # "running" => queue = <<>>
  /\ tpc \in {"feeding", "closeWs", "closeDrain"} => open = "up"
  /\ tpc = "closeDrain" => ws = "down"
  /\ tpc = "waitOpen" => ~dead
  /\ ~dead => unplayed = {}

\* How the end of the turn and its interrupt go about the session: what is closed,
\* by whom, and how far each has come.
EndInv ==
  /\ finishing => closed /\ tpc \in {"settle", "closeWs", "closeDrain", "fetch",
                                     "play", "over"}
  /\ tpc \in {"settle", "closeWs", "closeDrain"} => finishing
  /\ closed => finishing \/ interrupted
  /\ tpc = "over" => closed
  /\ interrupted => closed /\ ipc # "no"
  /\ ipc # "no" => interrupted
  /\ quiet => finishing
  /\ ipc = "abortWs" => open = "up" /\ ws = "down"
  /\ ipc \in {"cancel", "done"} => open # "opening" /\ ws # "up" /\ player # "running"
  /\ tpc = "over" /\ ~interrupted => /\ open # "opening" /\ ws # "up"
                                     /\ player # "running" \/ (cut /\ quiet)
  /\ ~finishing /\ tpc \in {"fetch", "play"} => fed = {} /\ ~dead
  /\ finishing /\ tpc \in {"fetch", "play"} => ws = "down" /\ player = "stopped"

\* The texts the service has not answered, and those the player has not played.
Unanswered == ToSet(sent)
Unheard    == ToSet(queue)

\* A text is in one place: not yet fed, with the service, in the player, or kept
\* for the end.
PlaceInv ==
  /\ fed \subseteq 1 .. text /\ unplayed \subseteq 1 .. text /\ batch \subseteq 1 .. text
  /\ fed \cap unplayed = {}
  /\ Unanswered \cup Unheard \subseteq fed
  /\ Unanswered \cap Unheard = {}
  /\ IsInjective(sent) /\ IsInjective(queue)
  /\ tpc \in {"waitOpen", "feeding"} => text > 0 /\ text \notin fed \cup unplayed
  /\ tpc = "fetch" /\ ~finishing => text > 0 /\ batch = {text}

\* The remainder of the turn has sounded, or is not to sound.
RemainderIsOver == finishing /\ tpc \in {"play", "over"}

\* A text that is still to sound has not sounded.
HeardInv ==
  /\ \A t \in Texts : heard[t] <= 1
  /\ \A t \in Texts : t > text => heard[t] = 0
  /\ tpc \in {"waitOpen", "feeding"} => heard[text] = 0
  /\ \A t \in Unanswered \cup Unheard : heard[t] = 0
  /\ tpc = "fetch" => \A t \in batch : heard[t] = 0
  /\ ~RemainderIsOver => \A t \in unplayed : heard[t] = 0
  /\ ~gotAudio => queue = <<>>
  /\ ~gotAudio /\ ~RemainderIsOver => \A t \in fed : heard[t] = 0

\* Where a text can be that has not sounded.
Covered(t) ==
  \/ heard[t] = 1 \/ t \in excused \/ t \in Unanswered \/ t \in Unheard
  \/ t \in unplayed /\ (finishing => tpc \in {"settle", "closeWs", "closeDrain"})
  \/ tpc = "fetch" /\ t \in batch
  \/ tpc \in {"waitOpen", "feeding"} /\ t = text

\* No text gets lost on its way in a turn that nobody cuts or silences.
CoverInv == ~cut /\ ~interrupted /\ ~quiet => \A t \in 1 .. text : Covered(t)

VoiceInv == TypeOK /\ SessionInv /\ EndInv /\ PlaceInv /\ HeardInv /\ CoverInv

USE MaxTextsAssumption

-----------------------------------------------------------------------------
(* Sequences without repetition *)

\* What Append does to the elements of a sequence.
LEMMA AppendFacts ==
  ASSUME NEW T, NEW s \in Seq(T), NEW e \in T
  PROVE  /\ Append(s, e) \in Seq(T) /\ Append(s, e) # <<>>
         /\ ToSet(Append(s, e)) = ToSet(s) \cup {e}
         /\ IsInjective(s) /\ e \notin ToSet(s) => IsInjective(Append(s, e))
<1>1. /\ DOMAIN Append(s, e) = 1 .. Len(s) + 1 /\ Append(s, e)[Len(s) + 1] = e
      /\ \A i \in 1 .. Len(s) : Append(s, e)[i] = s[i]
      /\ Len(s) \in Nat /\ DOMAIN s = 1 .. Len(s)
  OBVIOUS
<1>2. ToSet(Append(s, e)) = ToSet(s) \cup {e}
  BY <1>1 DEF ToSet
<1>3. ASSUME IsInjective(s), e \notin ToSet(s) PROVE IsInjective(Append(s, e))
  <2>1. \A i \in 1 .. Len(s) : s[i] # e
    BY <1>1, <1>3 DEF ToSet
  <2> QED
    BY <1>1, <1>3, <2>1 DEF IsInjective
<1> QED
  BY <1>2, <1>3

\* What Tail does.
LEMMA TailFacts ==
  ASSUME NEW T, NEW s \in Seq(T), s # <<>>
  PROVE  /\ Head(s) \in T /\ Tail(s) \in Seq(T)
         /\ ToSet(s) = ToSet(Tail(s)) \cup {Head(s)}
         /\ IsInjective(s) => Head(s) \notin ToSet(Tail(s)) /\ IsInjective(Tail(s))
<1>1. /\ DOMAIN Tail(s) = 1 .. Len(s) - 1 /\ Len(s) \in Nat \ {0}
      /\ \A i \in 1 .. Len(s) - 1 : Tail(s)[i] = s[i + 1]
      /\ Head(s) = s[1] /\ DOMAIN s = 1 .. Len(s)
  OBVIOUS
<1>2. \A i \in 2 .. Len(s) : i - 1 \in 1 .. Len(s) - 1 /\ Tail(s)[i - 1] = s[i]
  BY <1>1
<1>3. ToSet(s) = ToSet(Tail(s)) \cup {Head(s)}
  <2>1. ToSet(s) \subseteq ToSet(Tail(s)) \cup {Head(s)}
    <3> SUFFICES ASSUME NEW i \in 1 .. Len(s), i # 1 PROVE s[i] \in ToSet(Tail(s))
      BY <1>1 DEF ToSet
    <3>1. i \in 2 .. Len(s)
      BY <1>1
    <3> QED
      BY <1>1, <1>2, <3>1 DEF ToSet
  <2>2. ToSet(Tail(s)) \cup {Head(s)} \subseteq ToSet(s)
    BY <1>1 DEF ToSet
  <2> QED
    BY <2>1, <2>2
<1>4. ASSUME IsInjective(s) PROVE Head(s) \notin ToSet(Tail(s)) /\ IsInjective(Tail(s))
  BY <1>1, <1>4 DEF IsInjective, ToSet
<1> QED
  BY <1>3, <1>4

-----------------------------------------------------------------------------
(* Types *)

\* The Boolean state keeps its type.
LEMMA FlagsStep == FlagsOK /\ [Next]_vars => FlagsOK'
<1> SUFFICES ASSUME FlagsOK, [Next]_vars PROVE FlagsOK'
  OBVIOUS
<1> USE DEF FlagsOK, voiceVars, taskVars, sessionVars, heardVars
<1>1. CASE OpenSucceeds \/ OpenFails
  BY <1>1, Zenon DEF OpenSucceeds, OpenFails
<1>2. CASE Say
  BY <1>2, Zenon DEF Say
<1>3. CASE OpenAwaited \/ Feed
  BY <1>3, Zenon DEF OpenAwaited, Feed
<1>4. CASE BufferedSounds \/ BufferedReturns
  BY <1>4, Zenon DEF BufferedSounds, BufferedReturns
<1>5. CASE Finish \/ Settled
  BY <1>5, Zenon DEF Finish, EnterFinish, Settled
<1>6. CASE WsCloses \/ PlayerDrained
  BY <1>6, Zenon DEF WsCloses, WsGoesDown, PlayerDrained
<1>7. CASE Timeout
  <2>1. CASE TimeoutInPipeline
    <3>1. ghost' \in BOOLEAN
      BY <2>1, Zenon DEF TimeoutInPipeline, Abandoned
    <3> QED
      BY <1>7, <2>1, <3>1, Zenon DEF Timeout, TimeoutInPipeline, EnterFinish
  <2>2. CASE TimeoutInClose
    BY <1>7, <2>2, Zenon DEF Timeout, TimeoutInClose
  <2>3. CASE TimeoutInDrain
    BY <1>7, <2>3, Zenon DEF Timeout, TimeoutInDrain
  <2> QED
    BY <1>7, <2>1, <2>2, <2>3, Zenon DEF Timeout
<1>8. CASE Synthesize \/ ServiceDies
  BY <1>8, Zenon DEF Synthesize, ServiceDies, WsGoesDown
<1>9. CASE Play \/ PlayerDies \/ GhostEnds
  BY <1>9, Zenon DEF Play, PlayerDies, GhostEnds
<1>10. CASE InterruptStarts \/ AbortWs \/ AbortPlayer
  BY <1>10, Zenon DEF InterruptStarts, AbortWs, WsGoesDown, AbortPlayer
<1>11. CASE CancelTurn
  <2>1. ghost' \in BOOLEAN
    BY <1>11, Zenon DEF CancelTurn, Abandoned
  <2> QED
    BY <1>11, <2>1, Zenon DEF CancelTurn
<1>12. CASE NewTurn
  BY <1>12, Zenon DEF NewTurn, Fresh
<1>13. CASE UNCHANGED vars
  BY <1>13, Zenon DEF vars
<1> QED
  BY <1>1, <1>2, <1>3, <1>4, <1>5, <1>6, <1>7, <1>8, <1>9, <1>10, <1>11, <1>12, <1>13
  DEF Next, Task, Interrupt

\* The other state does.
LEMMA DataStep == VoiceInv /\ [Next]_vars => DataOK'
<1> SUFFICES ASSUME VoiceInv, [Next]_vars PROVE DataOK'
  OBVIOUS
<1>0. TypeOK /\ PlaceInv
  BY DEF VoiceInv
<1>a. ToSet(sent) \subseteq Texts /\ ToSet(queue) \subseteq Texts
  BY <1>0 DEF TypeOK, DataOK, ToSet
<1>b. /\ text < MaxTexts => text + 1 \in Texts /\ text + 1 \in 0 .. MaxTexts
      /\ tpc \in {"waitOpen", "feeding"} => text \in Texts
  BY <1>0 DEF TypeOK, DataOK, PlaceInv, Texts
<1> USE <1>0 DEF TypeOK, FlagsOK, DataOK, Pipeline, voiceVars, taskVars, sessionVars,
                 heardVars
<1>1. CASE OpenSucceeds
  BY <1>1 DEF OpenSucceeds
<1>2. CASE OpenFails
  BY <1>2 DEF OpenFails
<1>3. CASE Say
  <2>1. text' \in 0 .. MaxTexts
    BY <1>3, <1>b DEF Say
  <2>2. tpc' \in Pipeline /\ unplayed' \subseteq Texts /\ batch' \subseteq Texts
    BY <1>3, <1>b DEF Say, KeepForTheEnd, SpeakBuffered
  <2> QED
    BY <1>3, <2>1, <2>2 DEF Say
<1>4. CASE OpenAwaited
  BY <1>4, <1>b DEF OpenAwaited, SpeakBuffered
<1>5. CASE Feed
  <2>1. sent' \in Seq(Texts) /\ fed' \subseteq Texts /\ unplayed' \subseteq Texts
    <3>1. text \in Texts /\ Append(sent, text) \in Seq(Texts)
      BY <1>5, <1>b DEF Feed
    <3>2. CASE ws = "up"
      BY <1>5, <3>1, <3>2 DEF Feed
    <3>3. CASE ws # "up"
      BY <1>5, <3>1, <3>3 DEF Feed
    <3> QED
      BY <3>2, <3>3
  <2> QED
    BY <1>5, <2>1 DEF Feed
<1>6. CASE BufferedSounds
  BY <1>6 DEF BufferedSounds
<1>7. CASE BufferedReturns
  BY <1>7 DEF BufferedReturns
<1>8. CASE Finish
  BY <1>8 DEF Finish, EnterFinish
<1>9. CASE Settled
  BY <1>9 DEF Settled
<1>10. CASE Timeout
  <2>1. CASE TimeoutInPipeline
    BY <1>10, <2>1 DEF Timeout, TimeoutInPipeline, EnterFinish
  <2>2. CASE TimeoutInClose
    BY <1>10, <1>a, <2>2 DEF Timeout, TimeoutInClose, WsGoesDown
  <2>3. CASE TimeoutInDrain
    BY <1>10, <2>3 DEF Timeout, TimeoutInDrain
  <2> QED
    BY <1>10, <2>1, <2>2, <2>3 DEF Timeout
<1>11. CASE WsCloses
  BY <1>11, <1>a DEF WsCloses, WsGoesDown
<1>12. CASE ServiceDies
  BY <1>12, <1>a DEF ServiceDies, WsGoesDown
<1>13. CASE PlayerDrained
  BY <1>13 DEF PlayerDrained, SpeakBuffered, Remainder
<1>14. CASE Synthesize
  <2>1. sent' \in Seq(Texts) /\ queue' \in Seq(Texts) /\ excused' \subseteq Texts
    <3>1. /\ Head(sent) \in Texts /\ Tail(sent) \in Seq(Texts)
          /\ Append(queue, Head(sent)) \in Seq(Texts)
      BY <1>14 DEF Synthesize
    <3>2. CASE player = "running"
      BY <1>14, <3>1, <3>2 DEF Synthesize
    <3>3. CASE player # "running"
      BY <1>14, <3>1, <3>3 DEF Synthesize
    <3> QED
      BY <3>2, <3>3
  <2> QED
    BY <1>14, <2>1 DEF Synthesize
<1>15. CASE Play
  BY <1>15 DEF Play
<1>16. CASE PlayerDies
  BY <1>16, <1>a DEF PlayerDies
<1>17. CASE GhostEnds
  BY <1>17 DEF GhostEnds
<1>18. CASE InterruptStarts
  BY <1>18 DEF InterruptStarts
<1>19. CASE AbortPlayer
  BY <1>19 DEF AbortPlayer
<1>20. CASE AbortWs
  <2>1. CASE open = "up"
    BY <1>20, <1>a, <2>1 DEF AbortWs, WsGoesDown
  <2>2. CASE open # "up"
    BY <1>20, <2>2 DEF AbortWs
  <2> QED
    BY <2>1, <2>2
<1>21. CASE CancelTurn
  BY <1>21 DEF CancelTurn
<1>22. CASE NewTurn
  BY <1>22 DEF NewTurn, Fresh
<1>23. CASE UNCHANGED vars
  BY <1>23 DEF vars
<1> QED
  BY <1>1, <1>2, <1>3, <1>4, <1>5, <1>6, <1>7, <1>8, <1>9, <1>10, <1>11, <1>12, <1>13,
     <1>14, <1>15, <1>16, <1>17, <1>18, <1>19, <1>20, <1>21, <1>22, <1>23
  DEF Next, Task, Interrupt
-----------------------------------------------------------------------------
(* The session and the end of the turn *)

\* Only a session that is open holds anything, and what it loses is gone.
LEMMA SessionStep == VoiceInv /\ [Next]_vars => SessionInv'
<1> SUFFICES ASSUME VoiceInv, [Next]_vars PROVE SessionInv'
  OBVIOUS
<1>0. TypeOK /\ SessionInv /\ EndInv
  BY DEF VoiceInv
<1> USE <1>0 DEF SessionInv, voiceVars, taskVars, sessionVars, heardVars
<1>1. CASE OpenSucceeds
  BY <1>1 DEF OpenSucceeds
<1>2. CASE OpenFails
  BY <1>2 DEF OpenFails
<1>3. CASE Say
  BY <1>3 DEF Say, KeepForTheEnd, SpeakBuffered
<1>4. CASE OpenAwaited
  BY <1>4 DEF OpenAwaited, SpeakBuffered
<1>5. CASE Feed
  BY <1>5 DEF Feed
<1>6. CASE BufferedSounds
  BY <1>6 DEF BufferedSounds
<1>7. CASE BufferedReturns
  BY <1>7 DEF BufferedReturns
<1>8. CASE Finish
  BY <1>8 DEF Finish, EnterFinish
<1>9. CASE Settled
  BY <1>9 DEF Settled
<1>10. CASE Timeout
  BY <1>10 DEF Timeout, TimeoutInPipeline, TimeoutInClose, TimeoutInDrain, EnterFinish,
              WsGoesDown
<1>11. CASE WsCloses
  BY <1>11 DEF WsCloses, WsGoesDown
<1>12. CASE ServiceDies
  BY <1>12 DEF ServiceDies, WsGoesDown
<1>13. CASE PlayerDrained
  BY <1>13 DEF PlayerDrained, SpeakBuffered, Remainder
<1>14. CASE Synthesize
  BY <1>14 DEF Synthesize
<1>15. CASE Play
  BY <1>15 DEF Play
<1>16. CASE PlayerDies
  BY <1>16 DEF PlayerDies
<1>17. CASE GhostEnds
  BY <1>17 DEF GhostEnds
<1>18. CASE InterruptStarts
  BY <1>18 DEF InterruptStarts
<1>19. CASE AbortPlayer
  BY <1>19 DEF AbortPlayer, EndInv
<1>20. CASE AbortWs
  BY <1>20 DEF AbortWs, WsGoesDown
<1>21. CASE CancelTurn
  BY <1>21 DEF CancelTurn
<1>22. CASE NewTurn
  BY <1>22 DEF NewTurn, Fresh
<1>23. CASE UNCHANGED vars
  BY <1>23 DEF vars
<1> QED
  BY <1>1, <1>2, <1>3, <1>4, <1>5, <1>6, <1>7, <1>8, <1>9, <1>10, <1>11, <1>12, <1>13,
     <1>14, <1>15, <1>16, <1>17, <1>18, <1>19, <1>20, <1>21, <1>22, <1>23
  DEF Next, Task, Interrupt

\* Every way out of a turn has released its session.
LEMMA EndStep == VoiceInv /\ [Next]_vars => EndInv'
<1> SUFFICES ASSUME VoiceInv, [Next]_vars PROVE EndInv'
  OBVIOUS
<1>0. TypeOK /\ SessionInv /\ EndInv
  BY DEF VoiceInv
<1> USE <1>0 DEF EndInv, voiceVars, taskVars, sessionVars, heardVars
<1>1. CASE OpenSucceeds
  BY <1>1 DEF OpenSucceeds, SessionInv, TypeOK, FlagsOK, DataOK
<1>2. CASE OpenFails
  BY <1>2 DEF OpenFails
<1>3. CASE Say
  BY <1>3 DEF Say, KeepForTheEnd, SpeakBuffered, SessionInv, TypeOK, FlagsOK, DataOK
<1>4. CASE OpenAwaited
  BY <1>4 DEF OpenAwaited, SpeakBuffered, SessionInv, TypeOK, FlagsOK, DataOK
<1>5. CASE Feed
  BY <1>5 DEF Feed
<1>6. CASE BufferedSounds
  BY <1>6 DEF BufferedSounds
<1>7. CASE BufferedReturns
  BY <1>7 DEF BufferedReturns, SessionInv, TypeOK, FlagsOK, DataOK
<1>8. CASE Finish
  BY <1>8 DEF Finish, EnterFinish
<1>9. CASE Settled
  BY <1>9 DEF Settled, SessionInv, TypeOK, FlagsOK, DataOK
<1>10. CASE Timeout
  <2>1. CASE TimeoutInPipeline
    BY <1>10, <2>1 DEF Timeout, TimeoutInPipeline, EnterFinish
  <2>2. CASE TimeoutInClose
    BY <1>10, <2>2 DEF Timeout, TimeoutInClose, WsGoesDown
  <2>3. CASE TimeoutInDrain
    BY <1>10, <2>3 DEF Timeout, TimeoutInDrain, SessionInv
  <2> QED
    BY <1>10, <2>1, <2>2, <2>3 DEF Timeout
<1>11. CASE WsCloses
  BY <1>11 DEF WsCloses, WsGoesDown
<1>12. CASE ServiceDies
  BY <1>12 DEF ServiceDies, WsGoesDown
<1>13. CASE PlayerDrained
  BY <1>13 DEF PlayerDrained, SpeakBuffered, Remainder, SessionInv, TypeOK, FlagsOK, DataOK
<1>14. CASE Synthesize
  BY <1>14 DEF Synthesize
<1>15. CASE Play
  BY <1>15 DEF Play
<1>16. CASE PlayerDies
  BY <1>16 DEF PlayerDies
<1>17. CASE GhostEnds
  BY <1>17 DEF GhostEnds
<1>18. CASE InterruptStarts
  BY <1>18 DEF InterruptStarts
<1>19. CASE AbortPlayer
  BY <1>19 DEF AbortPlayer
<1>20. CASE AbortWs
  BY <1>20 DEF AbortWs, WsGoesDown, SessionInv, TypeOK, FlagsOK, DataOK
<1>21. CASE CancelTurn
  BY <1>21 DEF CancelTurn
<1>22. CASE NewTurn
  BY <1>22 DEF NewTurn, Fresh
<1>23. CASE UNCHANGED vars
  BY <1>23 DEF vars
<1> QED
  BY <1>1, <1>2, <1>3, <1>4, <1>5, <1>6, <1>7, <1>8, <1>9, <1>10, <1>11, <1>12, <1>13,
     <1>14, <1>15, <1>16, <1>17, <1>18, <1>19, <1>20, <1>21, <1>22, <1>23
  DEF Next, Task, Interrupt
-----------------------------------------------------------------------------
(* Where the texts are *)

\* A text that is fed goes to the service and is new to it.
LEMMA FeedMoves ==
  ASSUME VoiceInv, Feed
  PROVE  /\ Unheard' = Unheard /\ queue' = queue
         /\ \/ /\ Unanswered' = Unanswered \cup {text} /\ IsInjective(sent')
               /\ fed' = fed \cup {text} /\ unplayed' = unplayed
            \/ /\ sent' = sent /\ fed' = fed /\ unplayed' = unplayed \cup {text}
<1> USE DEF VoiceInv, TypeOK, DataOK
<1>1. /\ sent \in Seq(Texts) /\ text \in Texts /\ text \notin Unanswered
      /\ IsInjective(sent)
  BY DEF Feed, PlaceInv, Texts
<1>2. /\ ToSet(Append(sent, text)) = ToSet(sent) \cup {text}
      /\ IsInjective(Append(sent, text))
  <2>1. text \notin ToSet(sent)
    BY <1>1 DEF Unanswered
  <2> QED
    BY <1>1, <2>1, AppendFacts
<1> QED
  BY <1>2 DEF Feed, Unanswered, Unheard

\* A text the service answers goes to the player, or is lost with it.
LEMMA SynthesizeMoves ==
  ASSUME VoiceInv, Synthesize
  PROVE  \E t \in Unanswered \ Unheard :
           /\ Unanswered' = Unanswered \ {t} /\ IsInjective(sent')
           /\ \/ /\ Unheard' = Unheard \cup {t} /\ IsInjective(queue')
                 /\ excused' = excused
              \/ /\ queue' = queue /\ excused' = excused \cup {t}
<1> USE DEF VoiceInv, TypeOK, DataOK
<1> DEFINE t == Head(sent)
<1>1. /\ sent \in Seq(Texts) /\ queue \in Seq(Texts) /\ sent # <<>>
      /\ IsInjective(sent) /\ IsInjective(queue) /\ Unanswered \cap Unheard = {}
  BY DEF Synthesize, PlaceInv
<1>2. /\ t \in Texts /\ ToSet(sent) = ToSet(Tail(sent)) \cup {t}
      /\ t \notin ToSet(Tail(sent)) /\ IsInjective(Tail(sent))
  BY <1>1, TailFacts, Zenon
<1>3. t \in Unanswered \ Unheard
  BY <1>1, <1>2 DEF Unanswered
<1>4. /\ ToSet(Append(queue, t)) = ToSet(queue) \cup {t}
      /\ IsInjective(Append(queue, t))
  <2>1. t \notin ToSet(queue)
    BY <1>3 DEF Unheard
  <2> QED
    BY <1>1, <1>2, <2>1, AppendFacts
<1>5. sent' = Tail(sent)
  BY DEF Synthesize
<1>6. Unanswered' = Unanswered \ {t} /\ IsInjective(sent')
  BY <1>2, <1>5 DEF Unanswered
<1>7. CASE player = "running"
  <2>1. queue' = Append(queue, t) /\ excused' = excused
    BY <1>7 DEF Synthesize
  <2>2. Unheard' = Unheard \cup {t} /\ IsInjective(queue')
    BY <1>4, <2>1 DEF Unheard
  <2> QED
    BY <1>3, <1>6, <2>1, <2>2
<1>8. CASE player # "running"
  <2>1. queue' = queue /\ excused' = excused \cup {t}
    BY <1>8 DEF Synthesize
  <2> QED
    BY <1>3, <1>6, <2>1
<1> QED
  BY <1>7, <1>8

\* The text the player plays is no longer with it.
LEMMA PlayMoves ==
  ASSUME VoiceInv, Play
  PROVE  \E t \in Unheard :
           /\ Unheard' = Unheard \ {t} /\ IsInjective(queue')
           /\ heard' = [heard EXCEPT ![t] = @ + 1]
<1> USE DEF VoiceInv, TypeOK, DataOK
<1>1. queue \in Seq(Texts) /\ queue # <<>> /\ IsInjective(queue)
  BY DEF Play, PlaceInv
<1>2. /\ ToSet(queue) = ToSet(Tail(queue)) \cup {Head(queue)}
      /\ Head(queue) \notin ToSet(Tail(queue)) /\ IsInjective(Tail(queue))
  BY <1>1, TailFacts, Zenon
<1>3. /\ queue' = Tail(queue)
      /\ heard' = [heard EXCEPT ![Head(queue)] = @ + 1]
  BY DEF Play
<1>4. /\ Head(queue) \in Unheard /\ Unheard' = Unheard \ {Head(queue)}
      /\ IsInjective(queue')
  BY <1>2, <1>3 DEF Unheard
<1> QED
  BY <1>3, <1>4

\* Nothing is in an empty sequence.
LEMMA EmptyFacts == ToSet(<<>>) = {} /\ IsInjective(<<>>)
BY DEF ToSet, IsInjective

\* A text is never in two places.
LEMMA PlaceStep == VoiceInv /\ [Next]_vars => PlaceInv'
<1> SUFFICES ASSUME VoiceInv, [Next]_vars PROVE PlaceInv'
  OBVIOUS
<1>0. TypeOK /\ SessionInv /\ EndInv /\ PlaceInv /\ HeardInv
  BY DEF VoiceInv
<1> USE <1>0 DEF TypeOK, FlagsOK, DataOK, SessionInv, EndInv, PlaceInv,
       voiceVars, taskVars, sessionVars, heardVars
<1>a. sent' = sent => Unanswered' = Unanswered
  BY DEF Unanswered
<1>b. queue' = queue => Unheard' = Unheard
  BY DEF Unheard
<1>c. /\ sent' = <<>> => Unanswered' = {} /\ IsInjective(sent')
      /\ queue' = <<>> => Unheard' = {} /\ IsInjective(queue')
  BY EmptyFacts DEF Unanswered, Unheard
<1>1. CASE OpenSucceeds
  BY <1>1, <1>a, <1>b, <1>c DEF OpenSucceeds
<1>2. CASE OpenFails
  BY <1>2, <1>a, <1>b, <1>c DEF OpenFails
<1>3. CASE Say
  <2>1. /\ text \in Nat /\ text' = text + 1 /\ 1 .. text \subseteq 1 .. text'
        /\ text' \in 1 .. text' /\ text' \notin 1 .. text /\ text' > 0
    BY <1>3 DEF Say
  <2>2. UNCHANGED <<fed, finishing, sent, queue, Unanswered, Unheard>>
    BY <1>3, <1>a, <1>b DEF Say
  <2>3. CASE dead
    BY <1>3, <2>1, <2>2, <2>3 DEF Say, KeepForTheEnd
  <2>4. CASE ~dead
    <3>1. unplayed' = unplayed
      BY <1>3, <2>4 DEF Say
    <3>2. \/ tpc' \in {"feeding", "waitOpen"} /\ batch' = batch
          \/ tpc' = "fetch" /\ batch' = {text'}
      BY <1>3, <2>1, <2>4 DEF Say, SpeakBuffered
    <3> QED
      BY <2>1, <2>2, <3>1, <3>2
  <2> QED
    BY <2>3, <2>4
<1>4. CASE OpenAwaited
  <2>1. UNCHANGED <<text, fed, unplayed, finishing, sent, queue, Unanswered, Unheard>>
    BY <1>4, <1>a, <1>b DEF OpenAwaited
  <2>2. text > 0 /\ text \in 1 .. text /\ text \notin fed \cup unplayed
    BY <1>4 DEF OpenAwaited
  <2>3. \/ tpc' = "feeding" /\ batch' = batch
        \/ tpc' = "fetch" /\ batch' = {text}
    BY <1>4 DEF OpenAwaited, SpeakBuffered
  <2> QED
    BY <2>1, <2>2, <2>3
<1>5. CASE Feed
  <2>1. text > 0 /\ text \in 1 .. text /\ text \notin fed \cup unplayed
    BY <1>5 DEF Feed
  <2>2. UNCHANGED <<text, batch, finishing>> /\ tpc' = "ready"
    BY <1>5 DEF Feed
  <2>3. /\ Unheard' = Unheard /\ queue' = queue
        /\ \/ /\ Unanswered' = Unanswered \cup {text} /\ IsInjective(sent')
              /\ fed' = fed \cup {text} /\ unplayed' = unplayed
           \/ /\ Unanswered' = Unanswered /\ sent' = sent
              /\ fed' = fed /\ unplayed' = unplayed \cup {text}
    BY <1>5, <1>a, FeedMoves
  <2>4. Unanswered \cup Unheard \subseteq fed /\ Unanswered \cap Unheard = {}
    OBVIOUS
  <2>5. /\ fed' \subseteq 1 .. text' /\ unplayed' \subseteq 1 .. text'
        /\ fed' \cap unplayed' = {}
    BY <2>1, <2>2, <2>3
  <2>6. /\ Unanswered' \cup Unheard' \subseteq fed' /\ Unanswered' \cap Unheard' = {}
    BY <2>1, <2>3, <2>4
  <2>7. batch' \subseteq 1 .. text' /\ IsInjective(sent') /\ IsInjective(queue')
    BY <2>2, <2>3
  <2> QED
    BY <2>2, <2>5, <2>6, <2>7
<1>6. CASE BufferedSounds
  BY <1>6, <1>a, <1>b, <1>c DEF BufferedSounds
<1>7. CASE BufferedReturns
  BY <1>7, <1>a, <1>b, <1>c DEF BufferedReturns
<1>8. CASE Finish
  BY <1>8, <1>a, <1>b, <1>c DEF Finish, EnterFinish
<1>9. CASE Settled
  BY <1>9, <1>a, <1>b, <1>c DEF Settled
<1>10. CASE Timeout
  BY <1>10, <1>a, <1>b, <1>c DEF Timeout, TimeoutInPipeline, TimeoutInClose,
              TimeoutInDrain, EnterFinish,
              WsGoesDown
<1>11. CASE WsCloses
  BY <1>11, <1>a, <1>b, <1>c DEF WsCloses, WsGoesDown
<1>12. CASE ServiceDies
  BY <1>12, <1>a, <1>b, <1>c DEF ServiceDies, WsGoesDown
<1>13. CASE PlayerDrained
  BY <1>13, <1>a, <1>b, <1>c DEF PlayerDrained, SpeakBuffered, Remainder
<1>14. CASE Synthesize
  BY <1>14, <1>a, <1>b, <1>c, SynthesizeMoves DEF Synthesize
<1>15. CASE Play
  BY <1>15, <1>a, <1>b, <1>c, PlayMoves DEF Play
<1>16. CASE PlayerDies
  BY <1>16, <1>a, <1>b, <1>c DEF PlayerDies
<1>17. CASE GhostEnds
  BY <1>17, <1>a, <1>b, <1>c DEF GhostEnds
<1>18. CASE InterruptStarts
  BY <1>18, <1>a, <1>b, <1>c DEF InterruptStarts
<1>19. CASE AbortPlayer
  BY <1>19, <1>a, <1>b, <1>c DEF AbortPlayer
<1>20. CASE AbortWs
  BY <1>20, <1>a, <1>b, <1>c DEF AbortWs, WsGoesDown
<1>21. CASE CancelTurn
  BY <1>21, <1>a, <1>b, <1>c DEF CancelTurn
<1>22. CASE NewTurn
  BY <1>22, <1>a, <1>b, <1>c DEF NewTurn, Fresh
<1>23. CASE UNCHANGED vars
  BY <1>23, <1>a, <1>b, <1>c DEF vars
<1> QED
  BY <1>1, <1>2, <1>3, <1>4, <1>5, <1>6, <1>7, <1>8, <1>9, <1>10, <1>11, <1>12, <1>13,
     <1>14, <1>15, <1>16, <1>17, <1>18, <1>19, <1>20, <1>21, <1>22, <1>23
  DEF Next, Task, Interrupt

\* What is still to sound has not sounded.
LEMMA HeardStep == VoiceInv /\ [Next]_vars => HeardInv'
<1> SUFFICES ASSUME VoiceInv, [Next]_vars PROVE HeardInv'
  OBVIOUS
<1>0. TypeOK /\ SessionInv /\ EndInv /\ PlaceInv /\ HeardInv
  BY DEF VoiceInv
<1> USE <1>0 DEF TypeOK, FlagsOK, DataOK, SessionInv, EndInv, PlaceInv, HeardInv,
                RemainderIsOver, voiceVars, taskVars, sessionVars, heardVars
<1>a. sent' = sent => Unanswered' = Unanswered
  BY DEF Unanswered
<1>b. queue' = queue => Unheard' = Unheard
  BY DEF Unheard
<1>c. /\ sent' = <<>> => Unanswered' = {} /\ IsInjective(sent')
      /\ queue' = <<>> => Unheard' = {} /\ IsInjective(queue')
  BY EmptyFacts DEF Unanswered, Unheard
<1>1. CASE OpenSucceeds
  BY <1>1, <1>a, <1>b, <1>c DEF OpenSucceeds
<1>2. CASE OpenFails
  BY <1>2, <1>a, <1>b, <1>c DEF OpenFails
<1>3. CASE Say
  <2>1. /\ text' = text + 1 /\ text' \in Texts
        /\ \A t \in Texts : t > text' => t > text
    BY <1>3 DEF Say, Texts
  <2>2. /\ heard[text'] = 0
        /\ UNCHANGED <<fed, finishing, gotAudio, heard, queue, Unanswered, Unheard>>
    BY <1>3, <1>a, <1>b, <2>1 DEF Say
  <2>3. ~RemainderIsOver /\ (tpc' = "fetch" => batch' = {text'})
    BY <1>3, <2>1 DEF Say, SpeakBuffered, KeepForTheEnd
  <2>4. unplayed' = unplayed \/ unplayed' = unplayed \cup {text'}
    BY <1>3, <2>1 DEF Say, KeepForTheEnd
  <2> QED
    BY <2>1, <2>2, <2>3, <2>4
<1>4. CASE OpenAwaited
  BY <1>4, <1>a, <1>b, <1>c DEF OpenAwaited, SpeakBuffered
<1>5. CASE Feed
  BY <1>5, <1>a, <1>b, <1>c, FeedMoves DEF Feed
<1>6. CASE BufferedSounds
  <2>1. /\ UNCHANGED <<text, fed, unplayed, batch, finishing, gotAudio, queue>>
        /\ UNCHANGED <<Unanswered, Unheard>> /\ tpc = "fetch" /\ tpc' = "play"
    BY <1>6, <1>a, <1>b DEF BufferedSounds
  <2>2. \A t \in Texts : /\ t \in batch => heard[t] = 0 /\ heard'[t] = 1
                         /\ t \notin batch => heard'[t] = heard[t]
    BY <1>6 DEF BufferedSounds, HeardInv
  <2>3. Unanswered = {} /\ Unheard = {}
    <3>1. CASE finishing
      BY <2>1, <3>1, EmptyFacts DEF Unanswered, Unheard
    <3>2. CASE ~finishing
      BY <2>1, <3>2
    <3> QED
      BY <3>1, <3>2
  <2>4. \A t \in Texts : heard'[t] <= 1 /\ (t > text' => heard'[t] = 0)
    <3> TAKE t \in Texts
    <3>1. heard[t] <= 1 /\ heard[t] \in Nat /\ (t > text => heard[t] = 0)
      OBVIOUS
    <3>2. t > text => t \notin batch
      BY DEF Texts
    <3>3. CASE t \in batch
      <4>1. heard'[t] = 1
        BY <2>2, <3>3
      <4>2. text' = text
        BY <2>1
      <4> QED
        BY <3>2, <3>3, <4>1, <4>2
    <3>4. CASE t \notin batch
      BY <2>1, <2>2, <3>1, <3>4
    <3> QED
      BY <3>3, <3>4
  <2>5. ~RemainderIsOver' => fed' = {} /\ unplayed' = {}
    BY <2>1
  <2> QED
    BY <2>1, <2>3, <2>4, <2>5
<1>7. CASE BufferedReturns
  BY <1>7, <1>a, <1>b, <1>c DEF BufferedReturns
<1>8. CASE Finish
  BY <1>8, <1>a, <1>b, <1>c DEF Finish, EnterFinish
<1>9. CASE Settled
  BY <1>9, <1>a, <1>b, <1>c DEF Settled
<1>10. CASE Timeout
  BY <1>10, <1>a, <1>b, <1>c DEF Timeout, TimeoutInPipeline, TimeoutInClose,
              TimeoutInDrain, EnterFinish,
              WsGoesDown
<1>11. CASE WsCloses
  BY <1>11, <1>a, <1>b, <1>c DEF WsCloses, WsGoesDown
<1>12. CASE ServiceDies
  BY <1>12, <1>a, <1>b, <1>c DEF ServiceDies, WsGoesDown
<1>13. CASE PlayerDrained
  BY <1>13, <1>a, <1>b, <1>c DEF PlayerDrained, SpeakBuffered, Remainder
<1>14. CASE Synthesize
  BY <1>14, <1>a, <1>b, <1>c, SynthesizeMoves DEF Synthesize
<1>15. CASE Play
  <2>1. PICK t \in Unheard :
          /\ Unheard' = Unheard \ {t} /\ IsInjective(queue')
          /\ heard' = [heard EXCEPT ![t] = @ + 1]
    BY <1>15, PlayMoves
  <2>2. /\ UNCHANGED <<text, fed, unplayed, batch, finishing, gotAudio, tpc>>
        /\ Unanswered' = Unanswered
    BY <1>15, <1>a DEF Play
  <2>3. t \in Texts /\ t \in fed /\ t \notin unplayed /\ t \notin Unanswered
    OBVIOUS
  <2>4. heard'[t] = 1 /\ \A x \in Texts : x # t => heard'[x] = heard[x]
    BY <2>1, <2>3
  <2>5. gotAudio /\ player = "running" /\ queue # <<>>
    BY <1>15 DEF Play
  <2>6. /\ tpc \in {"waitOpen", "feeding"} => text # t /\ text \in Texts
        /\ tpc = "fetch" => t \notin batch
    BY <2>3, <2>5 DEF Texts
  <2>7. t <= text
    BY <2>3
  <2> QED
    BY <2>1, <2>2, <2>3, <2>4, <2>5, <2>6, <2>7
<1>16. CASE PlayerDies
  BY <1>16, <1>a, <1>b, <1>c DEF PlayerDies
<1>17. CASE GhostEnds
  BY <1>17, <1>a, <1>b, <1>c DEF GhostEnds
<1>18. CASE InterruptStarts
  BY <1>18, <1>a, <1>b, <1>c DEF InterruptStarts
<1>19. CASE AbortPlayer
  BY <1>19, <1>a, <1>b, <1>c DEF AbortPlayer
<1>20. CASE AbortWs
  BY <1>20, <1>a, <1>b, <1>c DEF AbortWs, WsGoesDown
<1>21. CASE CancelTurn
  BY <1>21, <1>a, <1>b, <1>c DEF CancelTurn
<1>22. CASE NewTurn
  BY <1>22, <1>a, <1>b, <1>c DEF NewTurn, Fresh
<1>23. CASE UNCHANGED vars
  BY <1>23, <1>a, <1>b, <1>c DEF vars
<1> QED
  BY <1>1, <1>2, <1>3, <1>4, <1>5, <1>6, <1>7, <1>8, <1>9, <1>10, <1>11, <1>12, <1>13,
     <1>14, <1>15, <1>16, <1>17, <1>18, <1>19, <1>20, <1>21, <1>22, <1>23
  DEF Next, Task, Interrupt

\* No text gets lost.
LEMMA CoverStep == VoiceInv /\ [Next]_vars => CoverInv'
<1> SUFFICES ASSUME VoiceInv, [Next]_vars, ~cut', ~interrupted', ~quiet',
                      NEW t \in 1 .. text'
               PROVE  Covered(t)'
  BY DEF CoverInv
<1>0. TypeOK /\ SessionInv /\ EndInv /\ PlaceInv /\ HeardInv /\ CoverInv
  BY DEF VoiceInv
<1> USE <1>0 DEF TypeOK, FlagsOK, DataOK, SessionInv, EndInv, PlaceInv, CoverInv,
       Covered, voiceVars, taskVars, sessionVars, heardVars
<1>a. sent' = sent => Unanswered' = Unanswered
  BY DEF Unanswered
<1>b. queue' = queue => Unheard' = Unheard
  BY DEF Unheard
<1>c. /\ sent' = <<>> => Unanswered' = {} /\ IsInjective(sent')
      /\ queue' = <<>> => Unheard' = {} /\ IsInjective(queue')
  BY EmptyFacts DEF Unanswered, Unheard
<1>d. Unanswered = ToSet(sent) /\ Unheard = ToSet(queue)
  BY DEF Unanswered, Unheard
<1>1. CASE OpenSucceeds
  BY <1>1, <1>a, <1>b, <1>c DEF OpenSucceeds
<1>2. CASE OpenFails
  BY <1>2, <1>a, <1>b, <1>c DEF OpenFails
<1>3. CASE Say
  BY <1>3, <1>a, <1>b, <1>c DEF Say, KeepForTheEnd, SpeakBuffered
<1>4. CASE OpenAwaited
  BY <1>4, <1>a, <1>b, <1>c DEF OpenAwaited, SpeakBuffered
<1>5. CASE Feed
  BY <1>5, <1>a, <1>b, <1>c, FeedMoves DEF Feed
<1>6. CASE BufferedSounds
  <2>1. /\ UNCHANGED <<text, unplayed, batch, finishing, excused>>
        /\ UNCHANGED <<Unanswered, Unheard>> /\ tpc = "fetch" /\ tpc' = "play"
        /\ UNCHANGED <<cut, interrupted, quiet>>
    BY <1>6, <1>a, <1>b DEF BufferedSounds
  <2>2. t \in Texts
    BY <2>1 DEF Texts
  <2>3. /\ t \in batch => heard'[t] = 1
        /\ t \notin batch => heard'[t] = heard[t]
    BY <1>6, <2>2 DEF BufferedSounds, HeardInv
  <2>4. Covered(t)
    BY <2>1
  <2> QED
    BY <2>1, <2>3, <2>4
<1>7. CASE BufferedReturns
  BY <1>7, <1>a, <1>b, <1>c DEF BufferedReturns
<1>8. CASE Finish
  BY <1>8, <1>a, <1>b, <1>c DEF Finish, EnterFinish
<1>9. CASE Settled
  BY <1>9, <1>a, <1>b, <1>c DEF Settled
<1>10. CASE Timeout
  BY <1>10, <1>a, <1>b, <1>c DEF Timeout, TimeoutInPipeline, TimeoutInClose,
              TimeoutInDrain, EnterFinish,
              WsGoesDown
<1>11. CASE WsCloses
  BY <1>11, <1>a, <1>b, <1>c, <1>d DEF WsCloses, WsGoesDown
<1>12. CASE ServiceDies
  BY <1>12, <1>a, <1>b, <1>c, <1>d DEF ServiceDies, WsGoesDown
<1>13. CASE PlayerDrained
  BY <1>13, <1>a, <1>b, <1>c DEF PlayerDrained, SpeakBuffered, Remainder
<1>14. CASE Synthesize
  BY <1>14, <1>a, <1>b, <1>c, SynthesizeMoves DEF Synthesize
<1>15. CASE Play
  <2>1. PICK x \in Unheard :
          /\ Unheard' = Unheard \ {x} /\ heard' = [heard EXCEPT ![x] = @ + 1]
    BY <1>15, PlayMoves
  <2>2. /\ UNCHANGED <<text, unplayed, batch, finishing, tpc, excused>>
        /\ UNCHANGED <<Unanswered, cut, interrupted, quiet>>
    BY <1>15, <1>a DEF Play
  <2>3. t \in Texts /\ x \in Texts /\ heard[x] = 0
    <3>1. t \in 1 .. text /\ text \in 0 .. MaxTexts
      BY <2>2
    <3>2. x \in fed /\ fed \subseteq Texts
      BY <2>1
    <3>3. heard[x] = 0
      BY <2>1 DEF HeardInv
    <3> QED
      BY <3>1, <3>2, <3>3 DEF Texts
  <2>4. heard'[x] = 1 /\ (t # x => heard'[t] = heard[t])
    BY <2>1, <2>3
  <2>5. Covered(t)
    BY <2>2
  <2> QED
    BY <2>1, <2>2, <2>4, <2>5
<1>16. CASE PlayerDies
  BY <1>16, <1>a, <1>b, <1>c, <1>d DEF PlayerDies
<1>17. CASE GhostEnds
  BY <1>17, <1>a, <1>b, <1>c DEF GhostEnds
<1>18. CASE InterruptStarts
  BY <1>18, <1>a, <1>b, <1>c DEF InterruptStarts
<1>19. CASE AbortPlayer
  BY <1>19, <1>a, <1>b, <1>c DEF AbortPlayer
<1>20. CASE AbortWs
  BY <1>20, <1>a, <1>b, <1>c DEF AbortWs, WsGoesDown
<1>21. CASE CancelTurn
  BY <1>21, <1>a, <1>b, <1>c DEF CancelTurn
<1>22. CASE NewTurn
  BY <1>22, <1>a, <1>b, <1>c DEF NewTurn, Fresh
<1>23. CASE UNCHANGED vars
  BY <1>23, <1>a, <1>b, <1>c DEF vars
<1> QED
  BY <1>1, <1>2, <1>3, <1>4, <1>5, <1>6, <1>7, <1>8, <1>9, <1>10, <1>11, <1>12, <1>13,
     <1>14, <1>15, <1>16, <1>17, <1>18, <1>19, <1>20, <1>21, <1>22, <1>23
  DEF Next, Task, Interrupt

-----------------------------------------------------------------------------
(* What the user hears *)

\* The inductive invariant holds in every reachable state.
THEOREM VoiceInvariant == Spec => []VoiceInv
<1>1. Init => VoiceInv
  <2> SUFFICES ASSUME Init PROVE VoiceInv
    OBVIOUS
  <2>1. FlagsOK
    BY Zenon DEF Init, FlagsOK
  <2>2. DataOK
    BY DEF Init, DataOK, Pipeline, Texts
  <2>3. SessionInv /\ EndInv
    BY DEF Init, SessionInv, EndInv
  <2>4. Unanswered = {} /\ Unheard = {}
    BY EmptyFacts DEF Init, Unanswered, Unheard
  <2>5. PlaceInv /\ HeardInv
    BY <2>4, EmptyFacts DEF Init, PlaceInv, HeardInv, RemainderIsOver
  <2>6. CoverInv
    BY DEF Init, CoverInv
  <2> QED
    BY <2>1, <2>2, <2>3, <2>5, <2>6 DEF VoiceInv, TypeOK
<1>2. VoiceInv /\ [Next]_vars => VoiceInv'
  BY FlagsStep, DataStep, SessionStep, EndStep, PlaceStep, HeardStep, CoverStep
  DEF VoiceInv, TypeOK
<1> QED
  BY <1>1, <1>2, PTL DEF Spec

\* Type correctness: a text is handed over once, within the bound.
THEOREM VoiceTypes == Spec => []TypeOK
<1>1. VoiceInv => TypeOK
  BY DEF VoiceInv
<1> QED
  BY <1>1, VoiceInvariant, PTL

\* However many texts a turn has, and whichever of the session's open, socket and
\* player fails at whatever moment: none is heard twice, and a turn that nobody cut
\* or silenced lost only what a failure took with it (SpeechSession,
\* TurnVoice.finish).
THEOREM EachTextOnce == Spec => []EachTextIsSpokenOnce
<1>1. VoiceInv => HeardAtMostOnce
  BY DEF VoiceInv, HeardInv, HeardAtMostOnce
<1>2. VoiceInv => NothingIsLost
  <2> SUFFICES ASSUME VoiceInv, tpc = "over", ~cut, ~interrupted, ~quiet,
                      NEW t \in 1 .. text
               PROVE  heard[t] = 1 \/ t \in excused
    BY DEF NothingIsLost
  <2>1. sent = <<>> /\ queue = <<>>
    BY DEF VoiceInv, EndInv, SessionInv
  <2>2. Unanswered = {} /\ Unheard = {}
    BY <2>1, EmptyFacts DEF Unanswered, Unheard
  <2>3. finishing
    BY DEF VoiceInv, EndInv
  <2> QED
    BY <2>2, <2>3 DEF VoiceInv, CoverInv, Covered
<1> QED
  BY <1>1, <1>2, VoiceInvariant, PTL DEF EachTextIsSpokenOnce

\* The streamed audio and a buffered call never sound together, and no turn leaves
\* a socket behind, nor a running player unless the session bound cut it off from
\* one in abandon() (SpeechSession.close and abort, run_turn's timeout).
THEOREM OneVoiceAlways == Spec => []OneVoiceAtATime
<1>1. VoiceInv => OneVoiceInATurn
  <2> SUFFICES ASSUME VoiceInv, tpc = "play" PROVE queue = <<>>
    BY DEF OneVoiceInATurn
  <2>1. CASE finishing
    BY <2>1 DEF VoiceInv, EndInv, SessionInv
  <2>2. CASE ~finishing
    <3>1. Unheard = {}
      BY <2>2 DEF VoiceInv, EndInv, PlaceInv
    <3>2. queue \in Seq(Texts)
      BY DEF VoiceInv, TypeOK, DataOK
    <3> QED
      BY <3>1, <3>2, TailFacts DEF Unheard
  <2> QED
    BY <2>1, <2>2
<1>2. VoiceInv => SessionIsReleased
  BY DEF VoiceInv, EndInv, SessionIsReleased, AbandonWasCut
<1> QED
  BY <1>1, <1>2, VoiceInvariant, PTL DEF OneVoiceAtATime

\* What a turn that was silenced has kept for its end is never spoken
\* (TurnVoice.finish after interrupt).
THEOREM FinishIsSilent == Spec => FinishKeepsSilence
<1>1. VoiceInv /\ [Next]_vars
        => [finishing /\ interrupted /\ tpc' = "fetch" => tpc = "fetch"]_vars
  <2> SUFFICES ASSUME VoiceInv, [Next]_vars, finishing, interrupted, tpc' = "fetch"
               PROVE  tpc = "fetch"
    OBVIOUS
  <2>0. tpc \notin {"ready", "waitOpen", "feeding"}
    BY DEF VoiceInv, EndInv
  <2> USE DEF voiceVars, taskVars, sessionVars, heardVars
  <2>1. CASE Say \/ OpenAwaited \/ Feed \/ Finish
    BY <2>0, <2>1 DEF Say, OpenAwaited, Feed, Finish
  <2>2. CASE BufferedSounds \/ BufferedReturns \/ Settled \/ WsCloses \/ Timeout
    BY <2>2 DEF BufferedSounds, BufferedReturns, Settled, WsCloses, Timeout,
                TimeoutInPipeline, TimeoutInClose, TimeoutInDrain, EnterFinish
  <2>3. CASE PlayerDrained
    <3>1. Remainder = {}
      BY DEF Remainder
    <3> QED
      BY <2>3, <3>1 DEF PlayerDrained
  <2>4. CASE OpenSucceeds \/ OpenFails \/ Synthesize \/ ServiceDies
    BY <2>4 DEF OpenSucceeds, OpenFails, Synthesize, ServiceDies
  <2>5. CASE Play \/ PlayerDies \/ InterruptStarts \/ AbortWs \/ AbortPlayer
    BY <2>5 DEF Play, PlayerDies, InterruptStarts, AbortWs, AbortPlayer
  <2>6. CASE CancelTurn \/ GhostEnds \/ NewTurn \/ UNCHANGED vars
    BY <2>6 DEF CancelTurn, GhostEnds, NewTurn, Fresh, vars
  <2> QED
    BY <2>1, <2>2, <2>3, <2>4, <2>5, <2>6 DEF Next, Task, Interrupt
<1> QED
  BY <1>1, VoiceInvariant, PTL DEF Spec, FinishKeepsSilence

HIDE MaxTextsAssumption
-----------------------------------------------------------------------------
(* Overlay: the inductive invariant *)

\* What a queue holds of commands: only such that keep something, or, for the last
\* time, one that does it, and behind it only such that keep it.
Only(q, keep) == \A i \in DOMAIN q : q[i] \in keep
Comes(q, does, keep) ==
  \E k \in DOMAIN q : q[k] \in does /\ \A i \in DOMAIN q : i > k => q[i] \in keep

\* No window shows anything before it is up or after it was closed.
WindowInv ==
  /\ tk # "up" => view = Blank
  /\ tk = "off" => commands = <<>>

\* The canvas is empty and nothing of it is still to come.
Wiped(v) == v.items = {} /\ ~v.later /\ ~v.glide
IsWiped == \/ Wiped(view) /\ Only(commands, {"clear_caption"})
           \/ Comes(commands, {"hide_for_capture"}, {"clear_caption"})

IsDark == \/ ~Dot(view) /\ Only(commands, {"hide_for_capture", "clear_caption"})
          \/ Comes(commands, {"clear_status_light"},
                   {"hide_for_capture", "clear_caption"})

\* Before a grab, the canvas and the light are out when the queue is empty.
FrameInv ==
  /\ frame = {}
  /\ pc = "settle" => ~armed
  /\ pc = "settle" /\ barge = "no" /\ tk # "dead" => IsWiped /\ IsDark

\* No caption is on the bar, and none is paced.
NoCaption(v) == "caption" \notin v.items /\ ~v.later
Captions     == {"show_caption", "show_caption_later"}
Uncaptioned  == Commands \ Captions
IsSilent == \/ NoCaption(view) /\ Only(commands, Uncaptioned)
            \/ Comes(commands, {"clear_caption", "hide", "hide_for_capture", "close"},
                     Uncaptioned)

\* What a verb puts that clears a caption.
Clearings == {<<"clear_caption">>, <<"hide">>, <<"clear_status_light", "hide_for_capture">>}

\* Somebody has still to clear the caption, or nobody will before the next capture.
Owed == pc = "said" \/ aborting \/ left \/ (streamed /\ InTurn /\ barge # "hidden")

\* Where nobody owes a clearing, none is needed behind what is in the queue.
CaptionInv ==
  /\ barge = "hidden" /\ ~aborting /\ InTurn => pc = "end"
  /\ ~Owed /\ tk # "dead" => IsSilent

ScreenInv == OverlayTypeOK /\ WindowInv /\ FrameInv /\ CaptionInv

USE OverlayAssumption

-----------------------------------------------------------------------------
(* Queues of commands *)

\* What is put behind a queue that only keeps something, or that does it.
LEMMA PutBehind ==
  ASSUME NEW T, NEW q \in Seq(T), NEW cs \in Seq(T), NEW does, NEW keep
  PROVE  /\ Only(q, keep) /\ Only(cs, keep) => Only(q \o cs, keep)
         /\ Comes(q, does, keep) /\ Only(cs, keep) => Comes(q \o cs, does, keep)
         /\ Comes(cs, does, keep) => Comes(q \o cs, does, keep)
<1> DEFINE r == q \o cs
<1>1. /\ DOMAIN r = 1 .. Len(q) + Len(cs) /\ Len(q) \in Nat /\ Len(cs) \in Nat
      /\ DOMAIN q = 1 .. Len(q) /\ DOMAIN cs = 1 .. Len(cs)
  OBVIOUS
<1>2. \A i \in 1 .. Len(q) : r[i] = q[i]
  OBVIOUS
<1>3. \A i \in 1 .. Len(cs) : r[Len(q) + i] = cs[i]
  OBVIOUS
<1>4. \A i \in DOMAIN r : \/ i \in 1 .. Len(q)
                          \/ i - Len(q) \in 1 .. Len(cs) /\ r[i] = cs[i - Len(q)]
  BY <1>1, <1>3
<1> HIDE DEF r
<1>5. Only(q, keep) /\ Only(cs, keep) => Only(r, keep)
  BY <1>1, <1>2, <1>4 DEF Only
<1>6. ASSUME Comes(q, does, keep), Only(cs, keep) PROVE Comes(r, does, keep)
  <2>1. PICK k \in 1 .. Len(q) :
          q[k] \in does /\ \A i \in 1 .. Len(q) : i > k => q[i] \in keep
    BY <1>1, <1>6 DEF Comes
  <2>2. k \in DOMAIN r /\ r[k] \in does
    BY <1>1, <1>2, <2>1
  <2>3. \A i \in DOMAIN r : i > k => r[i] \in keep
    BY <1>1, <1>2, <1>4, <1>6, <2>1 DEF Only
  <2> QED
    BY <2>2, <2>3 DEF Comes
<1>7. ASSUME Comes(cs, does, keep) PROVE Comes(r, does, keep)
  <2>1. PICK k \in 1 .. Len(cs) :
          cs[k] \in does /\ \A i \in 1 .. Len(cs) : i > k => cs[i] \in keep
    BY <1>1, <1>7 DEF Comes
  <2>2. Len(q) + k \in DOMAIN r /\ r[Len(q) + k] \in does
    BY <1>1, <1>3, <2>1
  <2>3. ASSUME NEW i \in DOMAIN r, i > Len(q) + k PROVE r[i] \in keep
    <3>1. i - Len(q) \in 1 .. Len(cs) /\ r[i] = cs[i - Len(q)] /\ i - Len(q) > k
      BY <1>1, <1>4, <2>1, <2>3
    <3> QED
      BY <2>1, <3>1
  <2> QED
    BY <2>2, <2>3 DEF Comes
<1> QED
  BY <1>5, <1>6, <1>7 DEF r

\* What is left of a queue when its first command is taken.
LEMMA TakenFrom ==
  ASSUME NEW T, NEW q \in Seq(T), q # <<>>, NEW does, NEW keep
  PROVE  /\ Head(q) \in T /\ Tail(q) \in Seq(T) /\ Len(Tail(q)) = Len(q) - 1
         /\ Only(q, keep) => Head(q) \in keep /\ Only(Tail(q), keep)
         /\ Comes(q, does, keep)
              => \/ Comes(Tail(q), does, keep)
                 \/ Head(q) \in does /\ Only(Tail(q), keep)
<1>1. /\ DOMAIN Tail(q) = 1 .. Len(q) - 1 /\ Len(q) \in Nat \ {0}
      /\ Head(q) = q[1] /\ DOMAIN q = 1 .. Len(q)
      /\ Len(Tail(q)) = Len(q) - 1 /\ Head(q) \in T /\ Tail(q) \in Seq(T)
  OBVIOUS
<1>2. \A i \in 1 .. Len(q) - 1 : Tail(q)[i] = q[i + 1] /\ i + 1 \in 1 .. Len(q)
  BY <1>1
<1>3. Only(q, keep) => Head(q) \in keep /\ Only(Tail(q), keep)
  BY <1>1, <1>2 DEF Only
<1>4. ASSUME Comes(q, does, keep)
      PROVE  \/ Comes(Tail(q), does, keep)
             \/ Head(q) \in does /\ Only(Tail(q), keep)
  <2>1. PICK k \in 1 .. Len(q) :
          q[k] \in does /\ \A i \in 1 .. Len(q) : i > k => q[i] \in keep
    BY <1>1, <1>4 DEF Comes
  <2>2. CASE k = 1
    BY <1>1, <1>2, <2>1, <2>2 DEF Only
  <2>3. CASE k # 1
    <3>1. k - 1 \in 1 .. Len(q) - 1 /\ Tail(q)[k - 1] = q[k]
      BY <1>1, <1>2, <2>1, <2>3
    <3>2. ASSUME NEW i \in 1 .. Len(q) - 1, i > k - 1 PROVE Tail(q)[i] \in keep
      BY <1>2, <2>1, <3>2
    <3> QED
      BY <1>1, <2>1, <3>1, <3>2 DEF Comes
  <2> QED
    BY <2>2, <2>3
<1> QED
  BY <1>1, <1>3, <1>4

\* A queue of one command, or of none.
LEMMA OneCommand ==
  ASSUME NEW c, NEW does, NEW keep
  PROVE  /\ Only(<<>>, keep) /\ ~Comes(<<>>, does, keep)
         /\ c \in keep => Only(<<c>>, keep)
         /\ c \in does => Comes(<<c>>, does, keep)
BY DEF Only, Comes

\* A queue of some set of commands.
LEMMA OnlyOf ==
  ASSUME NEW keep, NEW q \in Seq(keep)
  PROVE  Only(q, keep)
BY DEF Only

\* What a verb puts.
LEMMA PutsFacts ==
  ASSUME OverlayTypeOK, NEW cs \in Seq(Commands), Puts(cs)
  PROVE  /\ commands' \in Seq(Commands) /\ Len(commands') <= MaxQueue
         /\ tk' \in {"off", "starting", "up", "dead", "closed"}
         /\ tk' = "dead" <=> tk = "dead"
         /\ tk' = "up" <=> tk = "up"
         /\ tk' # "off"
         /\ tk # "dead" =>
              \A does, keep :
                /\ Only(commands, keep) /\ Only(cs, keep) => Only(commands', keep)
                /\ Comes(commands, does, keep) /\ Only(cs, keep)
                     => Comes(commands', does, keep)
                /\ Comes(cs, does, keep) => Comes(commands', does, keep)
<1> USE DEF OverlayTypeOK, OverlayDataOK
<1>1. CASE tk = "dead"
  BY <1>1 DEF Puts
<1>2. CASE tk # "dead"
  <2>1. commands' = commands \o cs /\ tk' = IF tk = "off" THEN "starting" ELSE tk
    BY <1>2 DEF Puts
  <2>2. commands' \in Seq(Commands) /\ Len(commands') <= MaxQueue
    <3>1. commands \o cs \in Seq(Commands) /\ Len(commands \o cs) = Len(commands) + Len(cs)
      OBVIOUS
    <3> QED
      BY <1>2, <2>1, <3>1 DEF Puts
  <2>3. ASSUME NEW does, NEW keep
        PROVE  /\ Only(commands, keep) /\ Only(cs, keep) => Only(commands', keep)
               /\ Comes(commands, does, keep) /\ Only(cs, keep)
                    => Comes(commands', does, keep)
               /\ Comes(cs, does, keep) => Comes(commands', does, keep)
    BY <2>1, PutBehind
  <2>4. /\ tk' \in {"off", "starting", "up", "dead", "closed"}
        /\ tk' # "dead" /\ tk' # "off" /\ (tk' = "up" <=> tk = "up")
    BY <1>2, <2>1
  <2> QED
    BY <1>2, <2>2, <2>3, <2>4
<1> QED
  BY <1>1, <1>2

-----------------------------------------------------------------------------
(* Commands *)

\* Every command leaves a view.
LEMMA DispatchType ==
  ASSUME NEW v \in View, NEW c \in Commands
  PROVE  Dispatch(c, v) \in View
<1> USE DEF View, Items, States
<1>1. CASE c \in {"show", "draw_shapes", "dim_screen", "undim_screen"}
  BY <1>1, OverlayAssumption DEF Dispatch, Shown
<1>2. CASE c \in {"light", "idle", "clear_status_light"}
  BY <1>2 DEF Dispatch
<1>3. CASE c \in {"show_caption", "show_caption_later", "show_domain_badge"}
  BY <1>3 DEF Dispatch
<1>4. CASE c \in {"show_mode_indicator", "end_mode_indicator", "restore_mode_indicator"}
  BY <1>4 DEF Dispatch, Restored
<1>5. CASE c \in {"clear_caption", "hide_for_capture"}
  BY <1>5 DEF Dispatch, CaptionCleared, Hidden
<1>6. CASE c = "hide"
  <2>1. Hidden(v) \in View
    BY DEF CaptionCleared, Hidden
  <2> QED
    BY <1>6, <2>1 DEF Dispatch, Restored
<1>7. CASE c = "close"
  BY <1>7 DEF Dispatch, Blank
<1> QED
  BY <1>1, <1>2, <1>3, <1>4, <1>5, <1>6, <1>7 DEF Commands

\* What a grab relies on: "hide_for_capture" empties the canvas and
\* "clear_status_light" puts the light out, and neither undoes the other.
LEMMA DispatchWipes ==
  ASSUME NEW v \in View
  PROVE  /\ Wiped(Dispatch("hide_for_capture", v))
         /\ Wiped(v) => Wiped(Dispatch("clear_caption", v))
         /\ ~Dot(Dispatch("clear_status_light", v))
         /\ ~Dot(v) => /\ ~Dot(Dispatch("hide_for_capture", v))
                       /\ ~Dot(Dispatch("clear_caption", v))
BY DEF Dispatch, Hidden, CaptionCleared, Wiped, Dot, View, States

\* Captions come by their own two commands, and go by four.
LEMMA DispatchCaptions ==
  ASSUME NEW v \in View, NEW c \in Commands
  PROVE  /\ c \in {"clear_caption", "hide", "hide_for_capture", "close"}
              => NoCaption(Dispatch(c, v))
         /\ c \in Uncaptioned /\ NoCaption(v) => NoCaption(Dispatch(c, v))
<1> USE DEF View, Items, States, NoCaption
<1>1. CASE c \in {"clear_caption", "hide_for_capture", "close"}
  BY <1>1 DEF Dispatch, CaptionCleared, Hidden, Blank
<1>2. CASE c = "hide"
  <2>1. Hidden(v) \in View /\ NoCaption(Hidden(v))
    BY DEF CaptionCleared, Hidden
  <2> QED
    BY <1>2, <2>1 DEF Dispatch, Restored
<1>3. CASE c \in {"show", "draw_shapes", "dim_screen", "undim_screen"}
  BY <1>3, OverlayAssumption DEF Dispatch, Shown
<1>4. CASE c \in {"light", "idle", "clear_status_light", "show_domain_badge"}
  BY <1>4 DEF Dispatch
<1>5. CASE c \in {"show_mode_indicator", "end_mode_indicator", "restore_mode_indicator"}
  BY <1>5 DEF Dispatch, Restored
<1>6. CASE c \in Captions
  BY <1>6 DEF Captions, Uncaptioned
<1> QED
  BY <1>1, <1>2, <1>3, <1>4, <1>5, <1>6 DEF Commands, Captions

-----------------------------------------------------------------------------
(* Types *)

\* The Boolean state keeps its type.
LEMMA OverlayFlagsStep == OverlayFlagsOK /\ [OverlayNext]_overlayVars => OverlayFlagsOK'
<1> SUFFICES ASSUME OverlayFlagsOK, [OverlayNext]_overlayVars PROVE OverlayFlagsOK'
  OBVIOUS
<1> USE DEF OverlayFlagsOK, turnVars, historyVars
<1>1. CASE Drain \/ WindowStarts
  BY <1>1, Zenon DEF Drain, WindowStarts
<1>2. CASE GlideArrives \/ CaptionFires \/ FadeEnds
  BY <1>2, Zenon DEF GlideArrives, CaptionFires, FadeEnds, TkTimer
<1>3. CASE HidesForCapture \/ Grabs
  BY <1>3, Zenon DEF HidesForCapture, Grabs
<1>4. CASE Draws \/ DrawsNothing
  BY <1>4, Zenon DEF Draws, DrawsNothing
<1>5. CASE Feeds \/ Speaks \/ Spoken \/ SpeaksNothing
  BY <1>5, Zenon DEF Feeds, Speaks, Spoken, SpeaksNothing
<1>6. CASE Serves \/ TurnEnds \/ TurnFails
  BY <1>6, Zenon DEF Serves, TurnEnds, TurnFails
<1>7. CASE Press \/ Release \/ NothingHeard
  BY <1>7, Zenon DEF Press, Release, NothingHeard
<1>8. CASE PressesOver \/ InterruptHides \/ InterruptReturns
  BY <1>8, Zenon DEF PressesOver, InterruptHides, InterruptReturns
<1>9. CASE AutoHide \/ Close
  BY <1>9, Zenon DEF AutoHide, Close
<1>10. CASE UNCHANGED overlayVars
  BY <1>10, Zenon DEF overlayVars
<1> QED
  BY <1>1, <1>2, <1>3, <1>4, <1>5, <1>6, <1>7, <1>8, <1>9, <1>10
  DEF OverlayNext, TkStep, TurnStep

\* None of these puts a caption command.
LEMMA PutsUncaptioned ==
  ASSUME \/ Press \/ Release \/ NothingHeard \/ HidesForCapture \/ Grabs \/ Draws
         \/ Spoken \/ Serves \/ TurnFails \/ TurnEnds \/ PressesOver
         \/ InterruptHides \/ InterruptReturns \/ AutoHide
  PROVE  \E cs \in Seq(Uncaptioned) : Puts(cs)
<1>0. /\ {"light", "idle", "show", "draw_shapes", "dim_screen", "undim_screen",
          "clear_status_light", "show_domain_badge", "show_mode_indicator",
          "end_mode_indicator", "restore_mode_indicator", "clear_caption", "hide",
          "hide_for_capture"} \subseteq Uncaptioned
  BY DEF Uncaptioned, Captions, Commands, States
<1>1. \A c \in Uncaptioned : <<c>> \in Seq(Uncaptioned)
  OBVIOUS
<1>2. \A c, d \in Uncaptioned : <<c, d>> \in Seq(Uncaptioned)
  OBVIOUS
<1>3. \A p, q \in Seq(Uncaptioned) : p \o q \in Seq(Uncaptioned)
  OBVIOUS
<1>4. ASSUME NEW b, NEW c \in Uncaptioned PROVE If(b, <<c>>) \in Seq(Uncaptioned)
  BY DEF If
<1>5. CASE Press \/ Release \/ NothingHeard \/ Spoken \/ PressesOver \/ InterruptHides
             \/ InterruptReturns \/ AutoHide
  BY <1>0, <1>1, <1>5 DEF Press, Release, NothingHeard, Spoken, PressesOver,
                          InterruptHides, InterruptReturns, AutoHide
<1>6. CASE HidesForCapture \/ Grabs
  BY <1>0, <1>2, <1>6 DEF HidesForCapture, Grabs
<1>7. CASE Draws
  <2>1. PICK dim \in BOOLEAN :
          \/ Puts(<<"show">>) \/ Puts(If(dim, <<"dim_screen">>) \o <<"draw_shapes">>)
    BY <1>7 DEF Draws
  <2>2. If(dim, <<"dim_screen">>) \o <<"draw_shapes">> \in Seq(Uncaptioned)
    BY <1>0, <1>1, <1>3, <1>4
  <2> QED
    BY <1>0, <1>1, <2>1, <2>2
<1>8. CASE Serves
  <2>1. PICK mode \in {<<>>, <<"show_mode_indicator">>, <<"end_mode_indicator">>},
             badge \in {<<>>, <<"show_domain_badge">>} : Puts(mode \o badge)
    BY <1>8 DEF Serves
  <2>2. mode \in Seq(Uncaptioned) /\ badge \in Seq(Uncaptioned)
    <3>1. /\ <<>> \in Seq(Uncaptioned) /\ <<"show_mode_indicator">> \in Seq(Uncaptioned)
          /\ <<"end_mode_indicator">> \in Seq(Uncaptioned)
          /\ <<"show_domain_badge">> \in Seq(Uncaptioned)
      BY <1>0
    <3> QED
      BY <3>1
  <2> QED
    BY <1>3, <2>1, <2>2
<1>9. CASE TurnFails
  BY <1>0, <1>4, <1>9 DEF TurnFails
<1>10. CASE TurnEnds
  <2>1. Puts(If(streamed /\ ~left /\ barge # "hidden", <<"clear_caption">>)
             \o If(board, <<"undim_screen">>)
             \o If(barge = "no", <<"idle">>))
    BY <1>10 DEF TurnEnds
  <2>2. /\ If(streamed /\ ~left /\ barge # "hidden", <<"clear_caption">>)
             \in Seq(Uncaptioned)
        /\ If(board, <<"undim_screen">>) \in Seq(Uncaptioned)
        /\ If(barge = "no", <<"idle">>) \in Seq(Uncaptioned)
    BY <1>0, <1>1 DEF If
  <2> HIDE DEF If
  <2>3. If(streamed /\ ~left /\ barge # "hidden", <<"clear_caption">>)
          \o If(board, <<"undim_screen">>)
          \o If(barge = "no", <<"idle">>) \in Seq(Uncaptioned)
    BY <1>3, <2>2
  <2> QED
    BY <2>1, <2>3
<1> QED
  BY <1>5, <1>6, <1>7, <1>8, <1>9, <1>10

\* What every step does to the queue and to the thread.
LEMMA WhatIsPut ==
  ASSUME OverlayTypeOK, [OverlayNext]_overlayVars, ~Drain, ~WindowStarts
  PROVE  \/ UNCHANGED <<commands, tk>>
         \/ \E cs \in Seq(Commands) : Puts(cs)
<1>1. \A cs \in Seq(Uncaptioned) : cs \in Seq(Commands)
  BY DEF Uncaptioned
<1>2. \A c \in Commands : <<c>> \in Seq(Commands)
  OBVIOUS
<1>3. {"show_caption", "show_caption_later", "close"} \subseteq Commands
  BY DEF Commands
<1>4. CASE GlideArrives \/ CaptionFires \/ FadeEnds \/ DrawsNothing \/ SpeaksNothing
  BY <1>4 DEF GlideArrives, CaptionFires, FadeEnds, TkTimer, DrawsNothing, SpeaksNothing
<1>5. CASE Feeds \/ Speaks
  BY <1>2, <1>3, <1>5 DEF Feeds, Speaks
<1>6. CASE Close
  BY <1>2, <1>3, <1>6 DEF Close
<1>7. CASE UNCHANGED overlayVars
  BY <1>7 DEF overlayVars
<1> QED
  BY <1>1, <1>4, <1>5, <1>6, <1>7, PutsUncaptioned DEF OverlayNext, TkStep, TurnStep

\* The other state keeps its type, and the queue its bound.
LEMMA OverlayDataStep == OverlayTypeOK /\ [OverlayNext]_overlayVars => OverlayDataOK'
<1> SUFFICES ASSUME OverlayTypeOK, [OverlayNext]_overlayVars PROVE OverlayDataOK'
  OBVIOUS
<1> USE DEF OverlayTypeOK, OverlayDataOK
<1>1. CASE Drain
  <2>1. Head(commands) \in Commands /\ Tail(commands) \in Seq(Commands)
        /\ Len(Tail(commands)) <= MaxQueue
    BY <1>1 DEF Drain
  <2>2. view' \in View
    BY <1>1, <2>1, DispatchType DEF Drain
  <2> QED
    BY <1>1, <2>1, <2>2 DEF Drain, turnVars, historyVars
<1>2. CASE WindowStarts
  BY <1>2 DEF WindowStarts, turnVars, historyVars
<1>3. CASE ~Drain /\ ~WindowStarts
  <2>1. /\ commands' \in Seq(Commands) /\ Len(commands') <= MaxQueue
        /\ tk' \in {"off", "starting", "up", "dead", "closed"}
    BY <1>3, WhatIsPut, PutsFacts
  <2>2. view' \in View
    <3>1. CASE GlideArrives \/ CaptionFires \/ FadeEnds
      <4>1. CASE GlideArrives
        BY <4>1 DEF GlideArrives, TkTimer, View, Items
      <4>2. CASE CaptionFires
        <5>1. PICK others \in BOOLEAN :
                view' = [view EXCEPT !.later = others, !.items = @ \cup {"caption"}]
          BY <4>2 DEF CaptionFires, TkTimer
        <5> QED
          BY <5>1 DEF View, Items
      <4>3. CASE FadeEnds
        BY <4>3 DEF FadeEnds, TkTimer, View
      <4> QED
        BY <3>1, <4>1, <4>2, <4>3
    <3>2. CASE ~(GlideArrives \/ CaptionFires \/ FadeEnds)
      <4>1. view' = view
        BY <1>3, <3>2 DEF OverlayNext, TkStep, TurnStep, overlayVars, HidesForCapture,
              Grabs, Draws, DrawsNothing, Feeds, Speaks, Spoken, SpeaksNothing, Serves,
              TurnEnds, TurnFails, Press, Release, NothingHeard, PressesOver,
              InterruptHides, InterruptReturns, AutoHide, Close
      <4> QED
        BY <4>1
    <3> QED
      BY <3>1, <3>2
  <2>3. /\ pc' \in {"idle", "held", "capture", "settle", "pass", "speak", "said", "serve",
                    "end", "closed"}
        /\ barge' \in {"no", "pressed", "hidden"}
    BY <1>3 DEF OverlayNext, TkStep, TurnStep, overlayVars, turnVars, Turn,
          GlideArrives, CaptionFires, FadeEnds, TkTimer, HidesForCapture, Grabs, Draws,
          DrawsNothing, Feeds, Speaks, Spoken, SpeaksNothing, Serves, TurnEnds,
          TurnFails, Press, Release, NothingHeard, PressesOver, InterruptHides,
          InterruptReturns, AutoHide, Close
  <2>4. frame' \subseteq Items \cup {"dot"}
    <3>1. CASE Grabs
      BY <3>1 DEF Grabs, View
    <3>2. CASE ~Grabs
      <4>1. frame' = frame
        BY <1>3, <3>2 DEF OverlayNext, TkStep, TurnStep, overlayVars, historyVars,
              GlideArrives, CaptionFires, FadeEnds, TkTimer, HidesForCapture, Draws,
              DrawsNothing,
              Feeds, Speaks, Spoken, SpeaksNothing, Serves, TurnEnds, TurnFails, Press,
              Release, NothingHeard, PressesOver, InterruptHides, InterruptReturns,
              AutoHide, Close
      <4> QED
        BY <4>1
    <3> QED
      BY <3>1, <3>2
  <2> QED
    BY <2>1, <2>2, <2>3, <2>4
<1> QED
  BY <1>1, <1>2, <1>3

-----------------------------------------------------------------------------
(* The screen *)

\* Only commands and the timers of the Tk thread change what is shown.
LEMMA OthersKeepTheView ==
  ASSUME [OverlayNext]_overlayVars, ~Drain, ~GlideArrives, ~CaptionFires, ~FadeEnds
  PROVE  view' = view
BY DEF OverlayNext, TkStep, TurnStep, overlayVars, WindowStarts, HidesForCapture, Grabs,
       Draws, DrawsNothing, Feeds, Speaks, Spoken, SpeaksNothing, Serves, TurnEnds,
       TurnFails, Press, Release, NothingHeard, PressesOver, InterruptHides,
       InterruptReturns, AutoHide, Close

\* The timers change neither the queue nor the turn.
LEMMA TimersKeepTheRest ==
  ASSUME GlideArrives \/ CaptionFires \/ FadeEnds
  PROVE  UNCHANGED <<commands, tk, turnVars, historyVars>> /\ tk = "up"
BY DEF GlideArrives, CaptionFires, FadeEnds, TkTimer

\* A window shows something only while it is up.
LEMMA WindowStep ==
  OverlayTypeOK /\ WindowInv /\ [OverlayNext]_overlayVars => WindowInv'
<1> SUFFICES ASSUME OverlayTypeOK, WindowInv, [OverlayNext]_overlayVars PROVE WindowInv'
  OBVIOUS
<1> USE DEF WindowInv
<1>1. CASE Drain
  BY <1>1 DEF Drain, Dispatch
<1>2. CASE WindowStarts
  BY <1>2 DEF WindowStarts
<1>3. CASE GlideArrives \/ CaptionFires \/ FadeEnds
  BY <1>3, TimersKeepTheRest
<1>4. CASE ~(Drain \/ WindowStarts \/ GlideArrives \/ CaptionFires \/ FadeEnds)
  <2>1. view' = view
    BY <1>4, OthersKeepTheView
  <2>2. CASE UNCHANGED <<commands, tk>>
    BY <2>1, <2>2
  <2>3. CASE \E cs \in Seq(Commands) : Puts(cs)
    BY <2>1, <2>3, PutsFacts
  <2> QED
    BY <1>4, <2>2, <2>3, WhatIsPut
<1> QED
  BY <1>1, <1>2, <1>3, <1>4

\* Taking a command keeps the canvas going to be empty, and the light to be out.
LEMMA DrainKeepsTheWipe ==
  ASSUME OverlayTypeOK, Drain
  PROVE  (IsWiped => IsWiped') /\ (IsDark => IsDark')
<1> USE DEF OverlayTypeOK, OverlayDataOK
<1>1. /\ commands \in Seq(Commands) /\ commands # <<>> /\ commands' = Tail(commands)
      /\ view \in View /\ view' = Dispatch(Head(commands), view)
  BY DEF Drain
<1> DEFINE c == Head(commands)
<1>2. ASSUME NEW does, NEW keep
      PROVE  /\ Only(commands, keep) => c \in keep /\ Only(commands', keep)
             /\ Comes(commands, does, keep)
                  => \/ Comes(commands', does, keep)
                     \/ c \in does /\ Only(commands', keep)
  <2>1. /\ Only(commands, keep) => c \in keep /\ Only(Tail(commands), keep)
        /\ Comes(commands, does, keep)
             => \/ Comes(Tail(commands), does, keep)
                \/ c \in does /\ Only(Tail(commands), keep)
    BY <1>1, TakenFrom, Zenon
  <2>2. commands' = Tail(commands)
    BY <1>1
  <2> HIDE DEF c
  <2> QED
    BY <2>1, <2>2, Zenon
<1>3. ASSUME IsWiped PROVE IsWiped'
  <2>1. CASE Wiped(view) /\ Only(commands, {"clear_caption"})
    <3>1. c = "clear_caption" /\ Only(commands', {"clear_caption"})
      BY <1>2, <2>1
    <3>2. Wiped(view')
      BY <1>1, <2>1, <3>1, DispatchWipes
    <3> QED
      BY <3>1, <3>2 DEF IsWiped
  <2>2. CASE Comes(commands, {"hide_for_capture"}, {"clear_caption"})
    <3>1. CASE Comes(commands', {"hide_for_capture"}, {"clear_caption"})
      BY <3>1 DEF IsWiped
    <3>2. CASE c = "hide_for_capture" /\ Only(commands', {"clear_caption"})
      <4>1. Wiped(view')
        BY <1>1, <3>2, DispatchWipes
      <4> QED
        BY <3>2, <4>1 DEF IsWiped
    <3> QED
      BY <1>2, <2>2, <3>1, <3>2
  <2> QED
    BY <1>3, <2>1, <2>2 DEF IsWiped
<1>4. ASSUME IsDark PROVE IsDark'
  <2> DEFINE keep == {"hide_for_capture", "clear_caption"}
  <2>1. CASE ~Dot(view) /\ Only(commands, keep)
    <3>1. c \in keep /\ Only(commands', keep)
      BY <1>2, <2>1
    <3>2. ~Dot(view')
      BY <1>1, <2>1, <3>1, DispatchWipes
    <3> QED
      BY <3>1, <3>2 DEF IsDark
  <2>2. CASE Comes(commands, {"clear_status_light"}, keep)
    <3>1. CASE Comes(commands', {"clear_status_light"}, keep)
      BY <3>1 DEF IsDark
    <3>2. CASE c = "clear_status_light" /\ Only(commands', keep)
      <4>1. ~Dot(view')
        BY <1>1, <3>2, DispatchWipes
      <4> QED
        BY <3>2, <4>1 DEF IsDark
    <3> QED
      BY <1>2, <2>2, <3>1, <3>2
  <2> QED
    BY <1>4, <2>1, <2>2 DEF IsDark
<1> QED
  BY <1>3, <1>4

\* A timer that was to draw after the wipe was stopped by it.
LEMMA TimersKeepTheWipe ==
  ASSUME OverlayTypeOK, GlideArrives \/ CaptionFires \/ FadeEnds
  PROVE  (IsWiped => IsWiped') /\ (IsDark => IsDark')
<1> USE DEF OverlayTypeOK, OverlayDataOK, View
<1>1. commands' = commands
  BY TimersKeepTheRest
<1>2. Dot(view') = Dot(view)
  <2>1. CASE GlideArrives
    BY <2>1 DEF GlideArrives, TkTimer, Dot
  <2>2. CASE CaptionFires
    <3>1. PICK others \in BOOLEAN :
            view' = [view EXCEPT !.later = others, !.items = @ \cup {"caption"}]
      BY <2>2 DEF CaptionFires, TkTimer
    <3> QED
      BY <3>1 DEF Dot
  <2>3. CASE FadeEnds
    BY <2>3 DEF FadeEnds, TkTimer, Dot
  <2> QED
    BY <2>1, <2>2, <2>3
<1>3. Wiped(view) => Wiped(view')
  BY DEF Wiped, GlideArrives, CaptionFires, FadeEnds, TkTimer
<1> QED
  BY <1>1, <1>2, <1>3 DEF IsWiped, IsDark

\* A grab finds neither drawing, caption, badge, chip nor light.
LEMMA FrameStep == ScreenInv /\ [OverlayNext]_overlayVars => FrameInv'
<1> SUFFICES ASSUME ScreenInv, [OverlayNext]_overlayVars PROVE FrameInv'
  OBVIOUS
<1> USE DEF ScreenInv, FrameInv, turnVars, historyVars, Turn
<1>1. CASE Drain
  <2>1. UNCHANGED <<pc, barge, armed, frame>> /\ tk # "dead"
    BY <1>1 DEF Drain
  <2> QED
    BY <1>1, <2>1, DrainKeepsTheWipe
<1>2. CASE WindowStarts
  BY <1>2 DEF WindowStarts, IsWiped, IsDark
<1>3. CASE GlideArrives \/ CaptionFires \/ FadeEnds
  <2>1. UNCHANGED <<pc, barge, armed, frame, tk>>
    BY <1>3, TimersKeepTheRest
  <2> QED
    BY <1>3, <2>1, TimersKeepTheWipe
<1>4. CASE HidesForCapture
  <2>1. pc' = "settle" /\ armed' = FALSE /\ frame' = frame
    BY <1>4 DEF HidesForCapture
  <2> DEFINE cs == <<"clear_status_light", "hide_for_capture">>
             keep == {"hide_for_capture", "clear_caption"}
  <2>2. cs \in Seq(Commands) /\ Puts(cs)
    BY <1>4 DEF HidesForCapture, Commands
  <2>3. /\ Comes(cs, {"hide_for_capture"}, {"clear_caption"})
        /\ Comes(cs, {"clear_status_light"}, keep)
    BY DEF Comes
  <2>4. tk' # "dead" => IsWiped' /\ IsDark'
    BY <2>2, <2>3, PutsFacts DEF IsWiped, IsDark
  <2> QED
    BY <2>1, <2>4
<1>5. CASE Grabs
  <2>1. frame' = {}
    <3>1. CASE barge # "no"
      BY <1>5, <3>1 DEF Grabs
    <3>2. CASE barge = "no" /\ tk = "up"
      <4>1. commands = <<>> /\ IsWiped /\ IsDark
        BY <1>5, <3>2 DEF Grabs, CaughtUp
      <4>2. Wiped(view) /\ ~Dot(view)
        BY <4>1, OneCommand DEF IsWiped, IsDark
      <4> QED
        BY <1>5, <3>2, <4>2 DEF Grabs, Wiped
    <3>3. CASE barge = "no" /\ tk # "up"
      <4>1. view.items = {} /\ ~Dot(view)
        BY <3>3 DEF WindowInv, Blank, Dot
      <4> QED
        BY <1>5, <3>3, <4>1 DEF Grabs
    <3> QED
      BY <3>1, <3>2, <3>3
  <2>2. pc' = "pass"
    BY <1>5 DEF Grabs
  <2> QED
    BY <2>1, <2>2
<1>6. CASE InterruptReturns
  <2>1. /\ UNCHANGED <<barge, armed, frame, view>> /\ Puts(<<"clear_caption">>)
        /\ pc' = "settle" => pc = "settle"
    BY <1>6 DEF InterruptReturns
  <2>2. <<"clear_caption">> \in Seq(Commands)
    BY DEF Commands
  <2>3. /\ Only(<<"clear_caption">>, {"clear_caption"})
        /\ Only(<<"clear_caption">>, {"hide_for_capture", "clear_caption"})
    BY DEF Only
  <2>4. tk' # "dead" => tk # "dead" /\ (IsWiped => IsWiped') /\ (IsDark => IsDark')
    BY <2>1, <2>2, <2>3, PutsFacts DEF IsWiped, IsDark
  <2> QED
    BY <2>1, <2>4
<1>7. CASE AutoHide
  BY <1>7 DEF AutoHide
<1>8. CASE PressesOver \/ InterruptHides
  BY <1>8 DEF PressesOver, InterruptHides
<1>9. CASE Draws \/ DrawsNothing \/ Feeds \/ Speaks \/ Spoken \/ SpeaksNothing
  BY <1>9 DEF Draws, DrawsNothing, Feeds, Speaks, Spoken, SpeaksNothing
<1>10. CASE Serves \/ TurnEnds \/ TurnFails
  BY <1>10 DEF Serves, TurnEnds, TurnFails
<1>11. CASE Press \/ Release \/ NothingHeard \/ Close
  BY <1>11 DEF Press, Release, NothingHeard, Close
<1>12. CASE UNCHANGED overlayVars
  BY <1>12 DEF overlayVars, IsWiped, IsDark
<1> QED
  BY <1>1, <1>2, <1>3, <1>4, <1>5, <1>6, <1>7, <1>8, <1>9, <1>10, <1>11, <1>12
  DEF OverlayNext, TkStep, TurnStep

-----------------------------------------------------------------------------
(* The captions *)

\* What nobody has to clear stays so behind commands that know no caption.
LEMMA SilenceIsKept ==
  ASSUME OverlayTypeOK, IsSilent, view' = view, NEW cs \in Seq(Uncaptioned), Puts(cs),
         tk # "dead"
  PROVE  IsSilent'
<1>1. cs \in Seq(Commands)
  BY DEF Uncaptioned
<1>2. Only(cs, Uncaptioned)
  BY OnlyOf
<1> QED
  BY <1>1, <1>2, PutsFacts DEF IsSilent

\* They are commands.
LEMMA ClearingsAreCommands == \A cs \in Clearings : cs \in Seq(Commands)
<1>1. {"clear_caption", "hide", "clear_status_light", "hide_for_capture"} \subseteq Commands
  BY DEF Commands
<1>2. /\ <<"clear_caption">> \in Seq(Commands) /\ <<"hide">> \in Seq(Commands)
      /\ <<"clear_status_light", "hide_for_capture">> \in Seq(Commands)
  BY <1>1
<1> QED
  BY <1>2 DEF Clearings

\* Nobody has to clear what a command that is put clears.
LEMMA SilenceIsMade ==
  ASSUME OverlayTypeOK, NEW cs \in Clearings, Puts(cs), tk # "dead"
  PROVE  IsSilent'
<1>1. cs \in Seq(Commands)
  BY ClearingsAreCommands
<1>2. Comes(cs, {"clear_caption", "hide", "hide_for_capture", "close"}, Uncaptioned)
  <2>1. CASE cs = <<"clear_status_light", "hide_for_capture">>
    BY <2>1 DEF Comes
  <2>2. CASE cs \in {<<"clear_caption">>, <<"hide">>}
    BY <2>2 DEF Comes
  <2> QED
    BY <2>1, <2>2 DEF Clearings
<1> QED
  BY <1>1, <1>2, PutsFacts DEF IsSilent

\* Taking a command keeps the bar silent, or going to be.
LEMMA DrainKeepsSilence ==
  ASSUME OverlayTypeOK, IsSilent, Drain
  PROVE  IsSilent'
<1> USE DEF OverlayTypeOK, OverlayDataOK
<1> DEFINE c    == Head(commands)
           does == {"clear_caption", "hide", "hide_for_capture", "close"}
<1>1. /\ commands \in Seq(Commands) /\ commands # <<>> /\ commands' = Tail(commands)
      /\ view \in View /\ view' = Dispatch(c, view)
  BY DEF Drain
<1>2. /\ c \in Commands
      /\ Only(commands, Uncaptioned) => c \in Uncaptioned /\ Only(commands', Uncaptioned)
      /\ Comes(commands, does, Uncaptioned)
           => \/ Comes(commands', does, Uncaptioned)
              \/ c \in does /\ Only(commands', Uncaptioned)
  BY <1>1, TakenFrom
<1>3. /\ c \in does => NoCaption(view')
      /\ c \in Uncaptioned /\ NoCaption(view) => NoCaption(view')
  BY <1>1, <1>2, DispatchCaptions
<1> QED
  BY <1>2, <1>3 DEF IsSilent

\* A paced caption was forgotten with the one on the bar.
LEMMA TimersKeepSilence ==
  ASSUME OverlayTypeOK, IsSilent, GlideArrives \/ CaptionFires \/ FadeEnds
  PROVE  IsSilent'
<1> USE DEF OverlayTypeOK, OverlayDataOK, View
<1>1. commands' = commands
  BY TimersKeepTheRest
<1>2. ASSUME NoCaption(view) PROVE NoCaption(view')
  <2>1. CASE GlideArrives
    BY <1>2, <2>1 DEF NoCaption, GlideArrives, TkTimer
  <2>2. CASE CaptionFires
    BY <1>2, <2>2 DEF NoCaption, CaptionFires
  <2>3. CASE FadeEnds
    BY <1>2, <2>3 DEF NoCaption, FadeEnds, TkTimer
  <2> QED
    BY <2>1, <2>2, <2>3
<1> QED
  BY <1>1, <1>2 DEF IsSilent

\* Whoever no longer owes the clearing has put it.
LEMMA CaptionStep == ScreenInv /\ [OverlayNext]_overlayVars => CaptionInv'
<1> SUFFICES ASSUME ScreenInv, [OverlayNext]_overlayVars PROVE CaptionInv'
  OBVIOUS
<1>0. /\ OverlayTypeOK
      /\ barge = "hidden" /\ ~aborting /\ InTurn => pc = "end"
      /\ ~Owed /\ tk # "dead" => IsSilent
  BY DEF ScreenInv, CaptionInv
<1> DEFINE Cut == barge = "hidden" /\ ~aborting /\ InTurn => pc = "end"
<1>a. SUFFICES Cut' /\ (~Owed' /\ tk' # "dead" => IsSilent')
  BY DEF CaptionInv
<1> USE <1>0 DEF turnVars, Turn, InTurn
<1>c. InTurn /\ pc # "end" /\ barge = "hidden" => aborting
  BY <1>0
<1>b. ASSUME NEW cs \in Seq(Commands), Puts(cs) PROVE tk' = "dead" <=> tk = "dead"
  BY <1>b, PutsFacts
<1>1. CASE Drain
  <2>1. UNCHANGED <<turnVars, left>> /\ tk # "dead"
    BY <1>1 DEF Drain, historyVars
  <2> QED
    BY <1>1, <2>1, DrainKeepsSilence DEF Owed
<1>2. CASE WindowStarts
  <2>1. UNCHANGED <<turnVars, left, commands, view>> /\ tk # "dead"
    BY <1>2 DEF WindowStarts, historyVars
  <2> QED
    BY <2>1 DEF Owed, IsSilent
<1>3. CASE GlideArrives \/ CaptionFires \/ FadeEnds
  <2>1. UNCHANGED <<turnVars, left, tk>>
    BY <1>3, TimersKeepTheRest DEF historyVars
  <2> QED
    BY <1>3, <2>1, TimersKeepSilence DEF Owed
<1>4. CASE UNCHANGED overlayVars
  BY <1>4 DEF overlayVars, historyVars, Owed, IsSilent
<1>5. ASSUME view' = view,
             \/ UNCHANGED <<commands, tk>>
             \/ \E cs \in Seq(Uncaptioned) : Puts(cs),
             ~Owed' => ~Owed
      PROVE  ~Owed' /\ tk' # "dead" => IsSilent'
  <2>1. \A cs \in Seq(Uncaptioned) : cs \in Seq(Commands)
    BY DEF Uncaptioned
  <2>2. tk' # "dead" => tk # "dead"
    BY <1>5, <1>b, <2>1
  <2>3. CASE UNCHANGED <<commands, tk>>
    BY <1>5, <2>3 DEF IsSilent
  <2> QED
    BY <1>5, <2>2, <2>3, SilenceIsKept
<1>6. ASSUME NEW cs \in Clearings, Puts(cs) PROVE tk' # "dead" => IsSilent'
  <2>1. cs \in Seq(Commands)
    BY <1>6, ClearingsAreCommands
  <2> QED
    BY <1>6, <1>b, <2>1, SilenceIsMade
<1>7. CASE Spoken
  BY <1>6, <1>7 DEF Spoken, Clearings
<1>8. CASE InterruptReturns
  BY <1>6, <1>8 DEF InterruptReturns, Clearings
<1>9. CASE Speaks
  <2>1. pc' = "said" /\ InTurn /\ pc # "end" /\ barge' = barge
    BY <1>9 DEF Speaks
  <2>2. aborting' = aborting
    BY <1>9, Zenon DEF Speaks
  <2> QED
    BY <1>c, <2>1, <2>2, Zenon DEF Owed
<1>10. CASE Feeds
  <2>1. InTurn /\ InTurn' /\ pc # "end" /\ barge' = barge
    BY <1>10 DEF Feeds
  <2>2. streamed' = TRUE /\ aborting' = aborting
    BY <1>10, Zenon DEF Feeds
  <2> QED
    BY <1>c, <2>1, <2>2, Zenon DEF Owed
<1>11. CASE InterruptHides
  <2>1. aborting'
    BY <1>11, Zenon DEF InterruptHides
  <2> QED
    BY <2>1, Zenon DEF Owed
<1>12. CASE TurnFails
  <2>1. pc' = "end" /\ InTurn /\ view' = view /\ barge' = barge
    BY <1>12 DEF TurnFails
  <2>2. (aborting' <=> aborting) /\ (streamed' <=> streamed) /\ (left => left')
    BY <1>12, Zenon DEF TurnFails
  <2>3. CASE pc = "said"
    BY <1>6, <1>12, <2>1, <2>3 DEF TurnFails, If, Clearings
  <2>4. CASE pc # "said"
    <3>1. ~Owed' => ~Owed
      BY <2>1, <2>2, <2>4 DEF Owed
    <3>2. \E cs \in Seq(Uncaptioned) : Puts(cs)
      BY <1>12, PutsUncaptioned
    <3> QED
      BY <1>5, <2>1, <3>1, <3>2
  <2> QED
    BY <2>3, <2>4
<1>13. CASE TurnEnds
  <2>1. /\ pc = "end" /\ pc' \in {"idle", "held"} /\ view' = view
        /\ barge' = barge
    BY <1>13 DEF TurnEnds
  <2>2. (aborting' <=> aborting) /\ (left' <=> left)
    BY <1>13, Zenon DEF TurnEnds, historyVars
  <2>3. CASE streamed /\ ~left /\ barge # "hidden"
    <3> DEFINE a    == <<"clear_caption">>
               b    == If(board, <<"undim_screen">>)
               c    == If(barge = "no", <<"idle">>)
               does == {"clear_caption", "hide", "hide_for_capture", "close"}
    <3>1. Puts(a \o b \o c)
      BY <1>13, <2>3 DEF TurnEnds, If
    <3>2. a \in Seq(Commands) /\ b \in Seq(Uncaptioned) /\ c \in Seq(Uncaptioned)
      <4>1. {"clear_caption", "undim_screen", "idle"} \subseteq Uncaptioned
        BY DEF Uncaptioned, Captions, Commands, States
      <4>2. /\ <<"clear_caption">> \in Seq(Commands) /\ <<>> \in Seq(Uncaptioned)
            /\ <<"undim_screen">> \in Seq(Uncaptioned)
            /\ <<"idle">> \in Seq(Uncaptioned)
        BY <4>1 DEF Uncaptioned
      <4> QED
        BY <4>2 DEF If
    <3>3. b \in Seq(Commands) /\ c \in Seq(Commands)
      BY <3>2 DEF Uncaptioned
    <3>4. Comes(a, does, Uncaptioned)
      BY DEF Comes
    <3> HIDE DEF a, b, c, does
    <3>5. Only(b, Uncaptioned) /\ Only(c, Uncaptioned)
      BY <3>2, OnlyOf
    <3> DEFINE ab  == a \o b
               abc == ab \o c
    <3>6. ab \in Seq(Commands) /\ Comes(ab, does, Uncaptioned)
      BY <3>2, <3>3, <3>4, <3>5, PutBehind
    <3> HIDE DEF ab
    <3>7. abc \in Seq(Commands) /\ Comes(abc, does, Uncaptioned)
      BY <3>3, <3>5, <3>6, PutBehind
    <3>9. Puts(abc)
      BY <3>1 DEF ab
    <3> HIDE DEF abc
    <3>8. tk' # "dead" => Comes(commands', does, Uncaptioned)
      BY <3>7, <3>9, PutsFacts
    <3> QED
      BY <2>1, <3>8 DEF IsSilent, does
  <2>4. CASE ~(streamed /\ ~left /\ barge # "hidden")
    <3>0. pc # "said"
      BY <2>1
    <3>1. ~Owed' => ~Owed
      BY <2>2, <2>4, <3>0, Zenon DEF Owed
    <3>2. \E cs \in Seq(Uncaptioned) : Puts(cs)
      BY <1>13, PutsUncaptioned
    <3> QED
      BY <1>5, <2>1, <3>1, <3>2
  <2> QED
    BY <2>3, <2>4
<1>14. CASE Press \/ Release \/ NothingHeard
  <2>1. /\ pc \in {"idle", "held"} /\ pc' \in {"idle", "held", "capture"}
        /\ pc' = "capture" => barge' = "no"
        /\ view' = view
    BY <1>14 DEF Press, Release, NothingHeard
  <2>2. (aborting' <=> aborting) /\ (streamed' <=> streamed) /\ (left' <=> left)
    <3>1. CASE Press
      BY <3>1, Zenon DEF Press, historyVars
    <3>2. CASE Release
      BY <3>2, Zenon DEF Release, historyVars
    <3>3. CASE NothingHeard
      BY <3>3, Zenon DEF NothingHeard, historyVars
    <3> QED
      BY <1>14, <3>1, <3>2, <3>3
  <2>3. ~Owed' => ~Owed
    BY <2>1, <2>2 DEF Owed
  <2>4. \E cs \in Seq(Uncaptioned) : Puts(cs)
    BY <1>14, PutsUncaptioned
  <2> QED
    BY <1>5, <2>1, <2>3, <2>4
<1>15. CASE Grabs \/ Draws \/ Serves
  <2>1. /\ InTurn /\ pc \notin {"said", "end"} /\ pc' \in {"settle", "pass", "speak",
                                                          "capture", "end"}
        /\ barge' = barge /\ view' = view
    BY <1>15 DEF Grabs, Draws, Serves
  <2>2. (aborting' <=> aborting) /\ (streamed' <=> streamed) /\ (left' <=> left)
    <3>1. CASE Grabs
      BY <3>1, Zenon DEF Grabs, historyVars
    <3>2. CASE Draws
      BY <3>2, Zenon DEF Draws, historyVars
    <3>3. CASE Serves
      BY <3>3, Zenon DEF Serves, historyVars
    <3> QED
      BY <1>15, <3>1, <3>2, <3>3
  <2>3. ~Owed' => ~Owed
    BY <2>1, <2>2 DEF Owed
  <2>4. \E cs \in Seq(Uncaptioned) : Puts(cs)
    BY <1>15, PutsUncaptioned
  <2> QED
    BY <1>5, <2>1, <2>2, <2>3, <2>4
<1>16. CASE DrawsNothing \/ SpeaksNothing
  <2>1. /\ InTurn /\ pc \notin {"said", "end"} /\ pc' \in {"speak", "serve"}
        /\ UNCHANGED <<barge, view, commands, tk>>
    BY <1>16 DEF DrawsNothing, SpeaksNothing
  <2>2. (aborting' <=> aborting) /\ (streamed' <=> streamed) /\ (left' <=> left)
    <3>1. CASE DrawsNothing
      BY <3>1, Zenon DEF DrawsNothing, historyVars
    <3>2. CASE SpeaksNothing
      BY <3>2, Zenon DEF SpeaksNothing, historyVars
    <3> QED
      BY <1>16, <3>1, <3>2
  <2>3. ~Owed' => ~Owed
    BY <2>1, <2>2 DEF Owed
  <2> QED
    BY <1>5, <2>1, <2>2, <2>3
<1>17. CASE PressesOver
  <2>1. pc' = pc /\ barge = "no" /\ barge' = "pressed" /\ view' = view
    BY <1>17 DEF PressesOver
  <2>2. (aborting' <=> aborting) /\ (streamed' <=> streamed) /\ (left' <=> left)
    BY <1>17, Zenon DEF PressesOver, historyVars
  <2>3. ~Owed' => ~Owed
    BY <2>1, <2>2 DEF Owed
  <2>4. \E cs \in Seq(Uncaptioned) : Puts(cs)
    BY <1>17, PutsUncaptioned
  <2> QED
    BY <1>5, <2>1, <2>3, <2>4
<1>18. CASE AutoHide
  BY <1>6, <1>18 DEF AutoHide, Clearings
<1>19. CASE Close
  <2>1. pc = "idle" /\ pc' = "closed" /\ barge' = barge /\ view' = view
    BY <1>19 DEF Close
  <2>2. (aborting' <=> aborting) /\ (left' <=> left)
    BY <1>19, Zenon DEF Close, historyVars
  <2>3. ~Owed' => ~Owed
    BY <2>1, <2>2 DEF Owed
  <2>4. UNCHANGED <<commands, tk>> \/ Puts(<<"close">>)
    BY <1>19 DEF Close
  <2>5. <<"close">> \in Seq(Uncaptioned)
    BY DEF Uncaptioned, Captions, Commands
  <2> QED
    BY <1>5, <2>1, <2>3, <2>4, <2>5
<1>20. CASE HidesForCapture
  BY <1>6, <1>20 DEF HidesForCapture, Clearings
<1> QED
  BY <1>1, <1>2, <1>3, <1>4, <1>7, <1>8, <1>9, <1>10, <1>11, <1>12, <1>13, <1>14, <1>15,
     <1>16, <1>17, <1>18, <1>19, <1>20 DEF OverlayNext, TkStep, TurnStep

-----------------------------------------------------------------------------
(* What the user, and the model, see *)

\* The inductive invariant holds in every reachable state.
THEOREM OverlayInvariant == OverlaySpec => []ScreenInv
<1>1. OverlayInit => ScreenInv
  <2> SUFFICES ASSUME OverlayInit PROVE ScreenInv
    OBVIOUS
  <2>1. OverlayFlagsOK
    BY Zenon DEF OverlayInit, OverlayFlagsOK
  <2>2. OverlayDataOK
    BY OverlayAssumption DEF OverlayInit, OverlayDataOK, View, Blank, States
  <2>3. WindowInv /\ FrameInv
    BY DEF OverlayInit, WindowInv, FrameInv
  <2>4. CaptionInv
    BY OneCommand DEF OverlayInit, CaptionInv, IsSilent, NoCaption, Blank
  <2> QED
    BY <2>1, <2>2, <2>3, <2>4 DEF ScreenInv, OverlayTypeOK
<1>2. ScreenInv /\ [OverlayNext]_overlayVars => ScreenInv'
  BY OverlayFlagsStep, OverlayDataStep, WindowStep, FrameStep, CaptionStep
  DEF ScreenInv, OverlayTypeOK
<1> QED
  BY <1>1, <1>2, PTL DEF OverlaySpec

\* Type correctness: what the Tk thread is behind by stays within the bound, and
\* every command and timer leaves a view.
THEOREM OverlayTypes == OverlaySpec => []OverlayTypeOK
<1>1. ScreenInv => OverlayTypeOK
  BY DEF ScreenInv
<1> QED
  BY <1>1, OverlayInvariant, PTL

\* However far the Tk thread is behind, and whoever else puts commands meanwhile: no
\* frame that the model is sent shows what the overlay drew (FrameCapture.capture).
THEOREM FramesAreClean == OverlaySpec => []FrameIsClean
<1>1. ScreenInv => FrameIsClean
  BY DEF ScreenInv, FrameInv, FrameIsClean
<1> QED
  BY <1>1, OverlayInvariant, PTL

\* No caption outlasts the voice it belongs to, whether the answer was spoken, cut,
\* failed or barged (CaptionBar.clear, TurnVoice.finish, interrupt_turn).
THEOREM CaptionsFollow == OverlaySpec => []CaptionsFollowTheVoice
<1>1. ScreenInv => CaptionsFollowTheVoice
  <2> SUFFICES ASSUME ScreenInv, commands = <<>>, tk = "up", ~NoCaption(view)
               PROVE  pc = "said" \/ (streamed /\ InTurn) \/ aborting \/ left
    BY DEF CaptionsFollowTheVoice, NoCaption
  <2>1. ~IsSilent
    BY OneCommand DEF IsSilent
  <2> QED
    BY <2>1 DEF ScreenInv, CaptionInv, Owed
<1> QED
  BY <1>1, OverlayInvariant, PTL

=============================================================================
