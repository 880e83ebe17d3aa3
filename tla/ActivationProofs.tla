-------------------------- MODULE ActivationProofs --------------------------
(***************************************************************************)
(* Proofs about Activation, for every number of presses.  The inductive    *)
(* invariant counts key-ups against presses (no turn without a press of    *)
(* its own), ties a live turn to is_processing, a deferred key-up to the   *)
(* teardown that fires it, an open voice to the turn that can be silenced, *)
(* and, as long as no press overlapped a reset, the barge-in's flag to the *)
(* turn it interrupted.                                                    *)
(***************************************************************************)
EXTENDS Activation, FiniteSetTheorems, TLAPS

\* Key-ups waiting on the loop, the one a barge-in deferred, and the one the
\* physical key still owes.
Keyups(s)      == {i \in 1 .. Len(s) : s[i] = "activate"}
DeferredKeyups == IF pendingActivation THEN 1 ELSE 0
ComingKeyups   == IF down /\ held THEN 1 ELSE 0

\* No turn without a press of its own.
PressesInv ==
  task + Cardinality(Keyups(ready)) + DeferredKeyups + ComingKeyups <= presses

\* A turn that runs, or was lost, holds is_processing, and nothing else does between
\* two resets; only turns there have been are named.
RunInv ==
  /\ phase \in LivePhases \cup {"lost"} => isProcessing /\ lpc = "idle"
  /\ isProcessing /\ lpc = "idle" => phase \in LivePhases \cup {"lost"}
  /\ lpc = "deferred" => ~isProcessing
  /\ isProcessing \/ interrupting => task # 0
  /\ seenTurn <= task
  /\ kpc = "busy" => seenTurn # 0
  /\ \A t \in barged \cup aborting : t <= task

\* A deferred key-up is never pending in a full reset.
DeferInv ==
  /\ DeferralHasItsTeardown
  /\ lpc \in {"resetMic", "resetHotkey", "release"} => ~pendingActivation

\* An open voice belongs to the turn's pipeline; an aborted one is closed.
VoiceInv ==
  /\ voice # "none" => phase \in {"turn", "finishing", "reset"}
  /\ task \in aborting /\ phase \in LivePhases =>
       voice # "open" /\ phase \in {"turn", "finishing", "reset"}

\* While no press overlapped a reset.
RaceInv ==
  ~raced =>
    /\ kpc # "idle" => lpc = "idle"
    /\ kpc = "busy" => isProcessing /\ seenTurn = task
    /\ interrupting => isProcessing /\ task \in barged /\ lpc = "idle"
    /\ aborting \subseteq barged
    /\ cancelled \subseteq barged
    /\ phase \in LivePhases /\ task \in barged => interrupting
    /\ kpc \in {"openBusy", "schedule"} => interrupting
    /\ kept # 0 => interrupting \/ phase \in {"none", "queued", "ended", "lost"}
    /\ lpc = "resetMic" => kept = 0
    /\ \A t \in stopping \ barged : t = task /\ phase = "micStop"

IInv == TypeOK /\ PressesInv /\ RunInv /\ DeferInv /\ VoiceInv /\ RaceInv

USE MaxPressesAssumption

-----------------------------------------------------------------------------
(* Counting the key-ups of a queue *)

Callbacks == {"activate", "begin", "interrupt", "turn"}

LEMMA KeyupsFinite ==
  ASSUME NEW s \in Seq(Callbacks)
  PROVE  IsFiniteSet(Keyups(s)) /\ Cardinality(Keyups(s)) \in Nat
<1>1. Len(s) \in Nat
  OBVIOUS
<1>2. IsFiniteSet(1 .. Len(s))
  BY <1>1, FS_Interval
<1>3. IsFiniteSet(Keyups(s))
  BY <1>2, FS_Subset DEF Keyups
<1> QED
  BY <1>3, FS_CardinalityType

\* Queueing a key-up adds one, queueing anything else adds none.
LEMMA KeyupsAppend ==
  ASSUME NEW s \in Seq(Callbacks), NEW x \in Callbacks
  PROVE  Cardinality(Keyups(Append(s, x)))
           = Cardinality(Keyups(s)) + (IF x = "activate" THEN 1 ELSE 0)
<1>1. CASE x = "activate"
  <2>1. Keyups(Append(s, x)) = Keyups(s) \cup {Len(s) + 1}
    BY <1>1 DEF Keyups
  <2>2. Len(s) + 1 \notin Keyups(s)
    BY DEF Keyups
  <2> QED
    BY <1>1, <2>1, <2>2, KeyupsFinite, FS_AddElement
<1>2. CASE x # "activate"
  <2>1. Keyups(Append(s, x)) = Keyups(s)
    BY <1>2 DEF Keyups
  <2> QED
    BY <1>2, <2>1, KeyupsFinite
<1> QED
  BY <1>1, <1>2

\* Taking a key-up from the front removes one, anything else none: the key-ups
\* of the tail are those of the queue after the first, shifted by one place.
LEMMA KeyupsTail ==
  ASSUME NEW s \in Seq(Callbacks), s # <<>>
  PROVE  Cardinality(Keyups(s))
           = Cardinality(Keyups(Tail(s))) + (IF Head(s) = "activate" THEN 1 ELSE 0)
<1> DEFINE shift == [i \in Keyups(Tail(s)) |-> i + 1]
<1>1. Tail(s) \in Seq(Callbacks)
  OBVIOUS
<1>2. shift \in Bijection(Keyups(Tail(s)), Keyups(s) \ {1})
  <2>1. \A i \in Keyups(Tail(s)) : i + 1 \in Keyups(s) \ {1}
    BY DEF Keyups
  <2>2. \A j \in Keyups(s) \ {1} : j - 1 \in Keyups(Tail(s)) /\ j = (j - 1) + 1
    BY DEF Keyups
  <2>3. shift \in [Keyups(Tail(s)) -> Keyups(s) \ {1}]
    BY <2>1
  <2>4. \A i, j \in Keyups(Tail(s)) : shift[i] = shift[j] => i = j
    BY DEF Keyups
  <2>5. \A j \in Keyups(s) \ {1} : \E i \in Keyups(Tail(s)) : shift[i] = j
    BY <2>2
  <2> QED
    BY <2>3, <2>4, <2>5, Zenon DEF Bijection, Injection, Surjection, IsInjective
<1>3. IsFiniteSet(Keyups(Tail(s))) /\ Cardinality(Keyups(Tail(s))) \in Nat
  BY <1>1, KeyupsFinite
<1>4. IsFiniteSet(Keyups(s)) /\ Cardinality(Keyups(s)) \in Nat
  BY KeyupsFinite
<1>5. Cardinality(Keyups(Tail(s))) = Cardinality(Keyups(s) \ {1})
  <2>1. ExistsBijection(Keyups(Tail(s)), Keyups(s) \ {1})
    BY <1>2, Zenon DEF ExistsBijection
  <2> HIDE DEF shift
  <2> QED
    BY <1>3, <2>1, FS_Bijection, Zenon
<1>6. Cardinality(Keyups(s) \ {1})
        = IF 1 \in Keyups(s) THEN Cardinality(Keyups(s)) - 1 ELSE Cardinality(Keyups(s))
  BY <1>4, FS_RemoveElement, Zenon
<1>7. 1 \in Keyups(s) <=> Head(s) = "activate"
  BY DEF Keyups
<1> QED
  BY <1>3, <1>4, <1>5, <1>6, <1>7

-----------------------------------------------------------------------------
(* Type correctness *)

\* A turn about to be launched is the turn of a press of its own.
LEMMA LaunchIsOwed ==
  ASSUME TypeOK, PressesInv, Pops("activate") \/ pendingActivation
  PROVE  task + 1 <= presses
<1>1. Cardinality(Keyups(ready)) \in Nat
  BY KeyupsFinite DEF TypeOK, DataOK, Callbacks
<1>2. DeferredKeyups \in {0, 1} /\ ComingKeyups \in {0, 1}
  BY DEF DeferredKeyups, ComingKeyups
<1>3. CASE Pops("activate")
  <2>1. Cardinality(Keyups(ready)) = Cardinality(Keyups(Tail(ready))) + 1
    BY <1>3, KeyupsTail DEF Pops, TypeOK, DataOK, Callbacks
  <2>2. Cardinality(Keyups(Tail(ready))) \in Nat
    <3>1. Tail(ready) \in Seq(Callbacks)
      BY <1>3 DEF Pops, TypeOK, DataOK, Callbacks
    <3> QED
      BY <3>1, KeyupsFinite
  <2> QED
    BY <1>2, <2>1, <2>2 DEF PressesInv, TypeOK, DataOK
<1>4. CASE pendingActivation
  BY <1>1, <1>2, <1>4 DEF PressesInv, DeferredKeyups, TypeOK, DataOK
<1> QED
  BY <1>3, <1>4

\* The Boolean flags keep their type in every step.
LEMMA FlagsStep == FlagsOK /\ [Next]_vars => FlagsOK'
<1> SUFFICES ASSUME FlagsOK, [Next]_vars PROVE FlagsOK'
  OBVIOUS
<1> USE DEF FlagsOK, flagVars, loopVars, micVars, histVars, keyVars
<1>1. CASE KeyDown \/ KeyUp \/ KeyUpLost \/ Keyboard
  BY <1>1, Zenon DEF KeyDown, KeyUp, KeyUpLost, Keyboard, PressReads, PressIgnored,
                     PressClaims, OpenRecording, ScheduleInterrupt
<1>2. CASE Activate
  BY <1>2, Zenon DEF Activate, Launch
<1>3. CASE BeginInterrupt \/ Interrupt \/ TurnStarts
  BY <1>3, Zenon DEF BeginInterrupt, Interrupt, TurnStarts
<1>4. CASE Transcribed \/ PipelineEnds \/ TurnReturns \/ ResetBranches
  BY <1>4, Zenon DEF Transcribed, PipelineEnds, TurnReturns, ResetBranches
<1>5. CASE Reset
  BY <1>5, Zenon DEF Reset, ResetMic, ResetHotkey, Release, ReleaseBarged,
                     FireDeferred, Launch
<1>6. ASSUME NEW t \in Turns, InterruptReturns(t) PROVE FlagsOK'
  BY <1>6, Zenon DEF InterruptReturns
<1>7. ASSUME NEW t \in Turns, MicStops(t) PROVE FlagsOK'
  BY <1>7, Zenon DEF MicStops
<1>8. CASE UNCHANGED vars
  BY <1>8, Zenon DEF vars
<1> QED
  BY <1>1, <1>2, <1>3, <1>4, <1>5, <1>6, <1>7, <1>8 DEF Next, Loop

\* So do the others; a launch stays within the bound because it is owed.
LEMMA DataStep == IInv /\ [Next]_vars => DataOK'
<1> SUFFICES ASSUME IInv, [Next]_vars PROVE DataOK'
  OBVIOUS
<1>0. TypeOK /\ PressesInv /\ RunInv
  BY DEF IInv
<1> USE <1>0 DEF TypeOK, FlagsOK, DataOK, Phases, Turns, flagVars, loopVars, micVars,
                 histVars, keyVars
<1>1. CASE KeyDown \/ KeyUp \/ KeyUpLost
  <2>1. CASE KeyDown
    BY <2>1 DEF KeyDown
  <2>2. CASE KeyUp
    BY <2>2 DEF KeyUp
  <2>3. CASE KeyUpLost
    BY <2>3 DEF KeyUpLost
  <2> QED
    BY <1>1, <2>1, <2>2, <2>3
<1>2. CASE Keyboard
  <2>1. CASE PressReads \/ PressIgnored
    BY <2>1 DEF PressReads, PressIgnored
  <2>3. CASE OpenRecording
    BY <2>3 DEF OpenRecording
  <2>4. CASE ScheduleInterrupt
    BY <2>4 DEF ScheduleInterrupt
  <2>2. CASE PressClaims
    BY <2>2 DEF PressClaims, RunInv
  <2> QED
    BY <1>2, <2>1, <2>2, <2>3, <2>4 DEF Keyboard
<1>3. CASE Activate
  <2>1. task + 1 <= presses
    BY <1>3, LaunchIsOwed DEF Activate
  <2> QED
    BY <1>3, <2>1 DEF Activate, Launch, Pops
<1>4. CASE BeginInterrupt
  BY <1>4 DEF BeginInterrupt, Pops
<1>5. CASE Interrupt
  <2>1. cancelled' \subseteq Turns /\ phase' \in Phases
    BY <1>5 DEF Interrupt, CancelTurn, LivePhases, RunInv
  <2>2. aborting' \subseteq Turns /\ voice' \in {"none", "open", "closed"}
    <3>1. interrupting => task \in Turns
      BY DEF RunInv
    <3> QED
      BY <1>5, <3>1, Zenon DEF Interrupt
  <2>3. ready' \in Seq({"activate", "begin", "interrupt", "turn"})
    BY <1>5 DEF Interrupt, Pops
  <2> QED
    BY <1>5, <2>1, <2>2, <2>3 DEF Interrupt
<1>6. CASE TurnStarts
  <2>1. stopping' \subseteq Turns
    <3>1. phase = "queued" => task \in Turns
      BY DEF RunInv, LivePhases
    <3> QED
      BY <1>6, <3>1, Zenon DEF TurnStarts
  <2>2. ready' \in Seq({"activate", "begin", "interrupt", "turn"})
    BY <1>6 DEF TurnStarts, Pops
  <2>3. phase' \in Phases /\ kept' \in 0 .. MaxPresses
    BY <1>6 DEF TurnStarts
  <2> QED
    BY <1>6, <2>1, <2>2, <2>3 DEF TurnStarts
<1>7. CASE Transcribed \/ PipelineEnds \/ TurnReturns \/ ResetBranches
  BY <1>7 DEF Transcribed, PipelineEnds, TurnReturns, ResetBranches
<1>8. CASE ResetMic \/ ResetHotkey \/ Release \/ ReleaseBarged
  <2>1. CASE ResetMic
    BY <2>1 DEF ResetMic
  <2>2. CASE ResetHotkey
    BY <2>2 DEF ResetHotkey
  <2>3. CASE Release
    BY <2>3 DEF Release
  <2>4. CASE ReleaseBarged
    BY <2>4 DEF ReleaseBarged
  <2> QED
    BY <1>8, <2>1, <2>2, <2>3, <2>4
<1>9. CASE FireDeferred
  <2>1. pendingActivation => task + 1 <= presses
    BY LaunchIsOwed
  <2> QED
    BY <1>9, <2>1 DEF FireDeferred, Launch
<1>10. ASSUME NEW t \in Turns, InterruptReturns(t) PROVE DataOK'
  BY <1>10 DEF InterruptReturns, CancelTurn
<1>11. ASSUME NEW t \in Turns, MicStops(t) PROVE DataOK'
  BY <1>11 DEF MicStops
<1>12. CASE UNCHANGED vars
  BY <1>12 DEF vars
<1> QED
  BY <1>1, <1>2, <1>3, <1>4, <1>5, <1>6, <1>7, <1>8, <1>9, <1>10, <1>11, <1>12
  DEF Next, Loop, Reset
-----------------------------------------------------------------------------
(* No turn without a press of its own *)

LEMMA PressesStep == IInv /\ [Next]_vars => PressesInv'
<1> SUFFICES ASSUME IInv, [Next]_vars PROVE PressesInv'
  OBVIOUS
<1>0. TypeOK /\ PressesInv
  BY DEF IInv
<1> USE DEF flagVars, loopVars, micVars, histVars, keyVars
<1> DEFINE queued(s) == Cardinality(Keyups(s))
<1>a. /\ ready \in Seq(Callbacks) /\ task \in Nat /\ presses \in Nat
      /\ queued(ready) \in Nat
      /\ task + queued(ready) + DeferredKeyups + ComingKeyups <= presses
  BY <1>0, KeyupsFinite DEF TypeOK, DataOK, Callbacks, PressesInv
<1>b. DeferredKeyups \in {0, 1} /\ ComingKeyups \in {0, 1}
  BY DEF DeferredKeyups, ComingKeyups
<1>c. ASSUME NEW s \in Seq(Callbacks)
      PROVE  /\ queued(Append(s, "activate")) = queued(s) + 1
             /\ queued(Append(s, "begin")) = queued(s)
             /\ queued(Append(s, "interrupt")) = queued(s)
             /\ queued(Append(s, "turn")) = queued(s)
  BY KeyupsAppend, KeyupsFinite DEF Callbacks
<1>d. ASSUME NEW x \in Callbacks, Pops(x)
      PROVE  /\ queued(ready) = queued(Tail(ready)) + (IF x = "activate" THEN 1 ELSE 0)
             /\ Tail(ready) \in Seq(Callbacks) /\ queued(Tail(ready)) \in Nat
  <2>1. Tail(ready) \in Seq(Callbacks)
    BY <1>a, <1>d DEF Pops
  <2>2. queued(Tail(ready)) \in Nat
    BY <2>1, KeyupsFinite
  <2> QED
    BY <1>a, <1>d, <2>1, <2>2, KeyupsTail DEF Pops
<1>e. SUFFICES task' + queued(ready') + DeferredKeyups' + ComingKeyups' <= presses'
  BY DEF PressesInv
<1> HIDE DEF queued
<1>1. CASE KeyDown
  <2>1. ComingKeyups' = 1 /\ ComingKeyups = 0 /\ DeferredKeyups' = DeferredKeyups
    BY <1>1, Zenon DEF KeyDown, ComingKeyups, DeferredKeyups
  <2> QED
    BY <1>1, <1>a, <1>b, <2>1 DEF KeyDown
<1>2. CASE KeyUp
  <2>1. ComingKeyups' = 0 /\ DeferredKeyups' = DeferredKeyups
    BY <1>2, Zenon DEF KeyUp, ComingKeyups, DeferredKeyups
  <2>2. CASE held
    <3>1. ComingKeyups = 1
      BY <1>2, <2>2 DEF KeyUp, ComingKeyups
    <3>2. ready' = Append(ready, "activate") /\ task' = task /\ presses' = presses
      BY <1>2, <2>2 DEF KeyUp
    <3>3. queued(ready') = queued(ready) + 1
      BY <1>a, <1>c, <3>2, Zenon
    <3> QED
      BY <1>a, <1>b, <2>1, <3>1, <3>2, <3>3
  <2>3. CASE ~held
    BY <1>2, <1>a, <1>b, <2>1, <2>3 DEF KeyUp
  <2> QED
    BY <2>2, <2>3
<1>3. CASE KeyUpLost
  <2>1. ComingKeyups' = 0 /\ DeferredKeyups' = DeferredKeyups
    BY <1>3, Zenon DEF KeyUpLost, ComingKeyups, DeferredKeyups
  <2> QED
    BY <1>3, <1>a, <1>b, <2>1 DEF KeyUpLost
<1>4. CASE PressReads \/ PressIgnored \/ PressClaims \/ OpenRecording
  <2>1. UNCHANGED <<down, held, pendingActivation, task, ready, presses>>
    BY <1>4 DEF PressReads, PressIgnored, PressClaims, OpenRecording
  <2>2. ComingKeyups' = ComingKeyups /\ DeferredKeyups' = DeferredKeyups
    BY <2>1, Zenon DEF ComingKeyups, DeferredKeyups
  <2> QED
    BY <1>a, <2>1, <2>2
<1>5. CASE ScheduleInterrupt
  <2>1. ComingKeyups' = ComingKeyups /\ DeferredKeyups' = DeferredKeyups
    BY <1>5, Zenon DEF ScheduleInterrupt, ComingKeyups, DeferredKeyups
  <2>2. queued(ready') = queued(ready)
    BY <1>5, <1>a, <1>c DEF ScheduleInterrupt, Callbacks
  <2> QED
    BY <1>5, <1>a, <2>1, <2>2 DEF ScheduleInterrupt
<1>6. CASE Activate
  <2>1. queued(ready) = queued(Tail(ready)) + 1 /\ queued(Tail(ready)) \in Nat
    BY <1>6, <1>d DEF Activate, Callbacks
  <2>2. ComingKeyups' = ComingKeyups /\ presses' = presses
    BY <1>6, Zenon DEF Activate, ComingKeyups
  <2>3. CASE isProcessing
    <3>1. task' = task /\ ready' = Tail(ready)
      BY <1>6, <2>3, Zenon DEF Activate
    <3>2. DeferredKeyups' \in {0, 1}
      BY DEF DeferredKeyups
    <3> QED
      BY <1>a, <1>b, <2>1, <2>2, <3>1, <3>2
  <2>4. CASE ~isProcessing
    <3>1. /\ task' = task + 1 /\ ready' = Append(Tail(ready), "turn")
          /\ DeferredKeyups' = DeferredKeyups
      BY <1>6, <2>4, Zenon DEF Activate, Launch, DeferredKeyups
    <3>2. Tail(ready) \in Seq(Callbacks)
      BY <1>6, <1>d DEF Activate, Callbacks
    <3>3. queued(ready') = queued(Tail(ready))
      BY <1>c, <3>1, <3>2, Zenon
    <3> QED
      BY <1>a, <1>b, <2>1, <2>2, <3>1, <3>3
  <2> QED
    BY <2>3, <2>4
<1>7. CASE BeginInterrupt
  <2>1. Tail(ready) \in Seq(Callbacks) /\ queued(ready) = queued(Tail(ready))
    BY <1>7, <1>a, <1>d DEF BeginInterrupt, Callbacks
  <2>2. /\ ready' = Append(Tail(ready), "interrupt") /\ task' = task
        /\ presses' = presses /\ DeferredKeyups' = DeferredKeyups
        /\ ComingKeyups' = ComingKeyups
    BY <1>7, Zenon DEF BeginInterrupt, DeferredKeyups, ComingKeyups
  <2>3. queued(ready') = queued(Tail(ready))
    BY <1>c, <2>1, <2>2, Zenon
  <2> QED
    BY <1>a, <2>1, <2>2, <2>3
<1>8. CASE Interrupt \/ TurnStarts
  <2>1. /\ ready' = Tail(ready) /\ task' = task
        /\ presses' = presses /\ DeferredKeyups' = DeferredKeyups
        /\ ComingKeyups' = ComingKeyups
    <3>1. ready' = Tail(ready) /\ UNCHANGED <<down, held, pendingActivation, task, presses>>
      BY <1>8 DEF Interrupt, TurnStarts
    <3> QED
      BY <3>1, Zenon DEF ComingKeyups, DeferredKeyups
  <2>2. Pops("interrupt") \/ Pops("turn")
    BY <1>8, Zenon DEF Interrupt, TurnStarts
  <2>3. queued(ready') = queued(ready)
    BY <1>a, <1>d, <2>1, <2>2 DEF Callbacks
  <2> QED
    BY <1>a, <2>1, <2>3
<1>9. CASE FireDeferred
  <2>1. ComingKeyups' = ComingKeyups /\ DeferredKeyups' = 0 /\ presses' = presses
    BY <1>9, Zenon DEF FireDeferred, ComingKeyups, DeferredKeyups
  <2>2. CASE pendingActivation
    <3>1. task' = task + 1 /\ ready' = Append(ready, "turn") /\ DeferredKeyups = 1
      BY <1>9, <2>2, Zenon DEF FireDeferred, Launch, DeferredKeyups
    <3>2. queued(ready') = queued(ready)
      BY <1>a, <1>c, <3>1 DEF Callbacks
    <3> QED
      BY <1>a, <1>b, <2>1, <3>1, <3>2
  <2>3. CASE ~pendingActivation
    <3>1. task' = task /\ ready' = ready
      BY <1>9, <2>3, Zenon DEF FireDeferred
    <3> QED
      BY <1>a, <1>b, <2>1, <3>1
  <2> QED
    BY <2>2, <2>3
<1>10. CASE ResetHotkey
  <2>1. /\ ComingKeyups' = 0 /\ DeferredKeyups' = DeferredKeyups
        /\ task' = task /\ ready' = ready /\ presses' = presses
    BY <1>10, Zenon DEF ResetHotkey, ComingKeyups, DeferredKeyups
  <2> QED
    BY <1>a, <1>b, <2>1
<1>11. CASE \/ Transcribed \/ PipelineEnds \/ TurnReturns \/ ResetBranches \/ ResetMic
            \/ Release \/ ReleaseBarged
            \/ \E t \in Turns : InterruptReturns(t) \/ MicStops(t)
  <2>1. /\ ComingKeyups' = ComingKeyups /\ DeferredKeyups' = DeferredKeyups
        /\ task' = task /\ ready' = ready /\ presses' = presses
    <3>1. UNCHANGED <<down, held, pendingActivation, task, ready, presses>>
      BY <1>11 DEF Transcribed, PipelineEnds, TurnReturns, ResetBranches, ResetMic,
                   Release, ReleaseBarged, MicStops, InterruptReturns
    <3> QED
      BY <3>1, Zenon DEF ComingKeyups, DeferredKeyups
  <2> QED
    BY <1>a, <2>1
<1>12. CASE UNCHANGED vars
  <2>1. /\ ComingKeyups' = ComingKeyups /\ DeferredKeyups' = DeferredKeyups
        /\ task' = task /\ ready' = ready /\ presses' = presses
    BY <1>12, Zenon DEF vars, ComingKeyups, DeferredKeyups
  <2> QED
    BY <1>a, <2>1
<1> QED
  BY <1>1, <1>2, <1>3, <1>4, <1>5, <1>6, <1>7, <1>8, <1>9, <1>10, <1>11, <1>12
  DEF Next, Loop, Keyboard, Reset

-----------------------------------------------------------------------------
(* The other parts of the invariant *)

\* A live turn keeps is_processing set until its reset releases it.
LEMMA RunStep == IInv /\ [Next]_vars => RunInv'
<1> SUFFICES ASSUME IInv, [Next]_vars PROVE RunInv'
  OBVIOUS
<1>0. TypeOK /\ RunInv /\ TypeOK'
  BY FlagsStep, DataStep DEF IInv, TypeOK
<1> USE DEF flagVars, loopVars, micVars, histVars, keyVars
<1> USE <1>0 DEF RunInv, LivePhases, Phases, TypeOK, FlagsOK, DataOK
<1>1. CASE KeyDown
  BY <1>1 DEF KeyDown
<1>2. CASE KeyUp
  BY <1>2 DEF KeyUp
<1>3. CASE KeyUpLost
  BY <1>3 DEF KeyUpLost
<1>4. CASE PressReads
  BY <1>4 DEF PressReads
<1>5. CASE PressIgnored
  BY <1>5 DEF PressIgnored
<1>6. CASE PressClaims
  BY <1>6 DEF PressClaims
<1>7. CASE OpenRecording
  BY <1>7 DEF OpenRecording
<1>8. CASE ScheduleInterrupt
  BY <1>8 DEF ScheduleInterrupt
<1>9. CASE Activate
  <2>1. CASE isProcessing
    BY <1>9, <2>1 DEF Activate, Pops, LoopFree
  <2>2. CASE ~isProcessing
    <3>1. /\ isProcessing' /\ task' = task + 1 /\ phase' = "queued" /\ lpc' = "idle"
          /\ UNCHANGED <<kpc, seenTurn, barged, aborting>>
      BY <1>9, <2>2, Zenon DEF Activate, Pops, LoopFree, Launch
    <3>2. \A t \in barged \cup aborting : t <= task + 1
      <4> SUFFICES ASSUME NEW t \in barged \cup aborting PROVE t <= task + 1
        OBVIOUS
      <4>1. t \in Nat /\ task \in Nat /\ t <= task
        BY DEF Turns
      <4> QED
        BY <4>1
    <3>3. seenTurn' <= task' /\ task' # 0 /\ (kpc' = "busy" => seenTurn' # 0)
      BY <3>1
    <3> QED
      BY <3>1, <3>2, <3>3, Zenon DEF RunInv
  <2> QED
    BY <2>1, <2>2
<1>10. CASE BeginInterrupt
  BY <1>10 DEF BeginInterrupt, Pops, LoopFree
<1>11. CASE Interrupt
  BY <1>11 DEF Interrupt, Pops, LoopFree, CancelTurn
<1>12. CASE TurnStarts
  BY <1>12 DEF TurnStarts, Pops, LoopFree
<1>13. CASE Transcribed
  BY <1>13 DEF Transcribed, LoopFree
<1>14. CASE PipelineEnds
  BY <1>14 DEF PipelineEnds, LoopFree
<1>15. CASE TurnReturns
  BY <1>15 DEF TurnReturns, LoopFree
<1>16. CASE ResetBranches
  BY <1>16 DEF ResetBranches, LoopFree
<1>17. CASE ResetMic
  BY <1>17 DEF ResetMic
<1>18. CASE ResetHotkey
  BY <1>18 DEF ResetHotkey
<1>19. CASE Release
  BY <1>19 DEF Release
<1>20. CASE ReleaseBarged
  BY <1>20 DEF ReleaseBarged
<1>21. CASE FireDeferred
  <2>1. CASE ~pendingActivation
    BY <1>21, <2>1 DEF FireDeferred
  <2>2. CASE pendingActivation
    <3>1. /\ isProcessing' /\ task' = task + 1 /\ phase' = "queued" /\ lpc' = "idle"
          /\ UNCHANGED <<kpc, seenTurn, barged, aborting>>
      BY <1>21, <2>2, Zenon DEF FireDeferred, Launch
    <3>2. \A t \in barged \cup aborting : t <= task + 1
      <4> SUFFICES ASSUME NEW t \in barged \cup aborting PROVE t <= task + 1
        OBVIOUS
      <4>1. t \in Nat /\ task \in Nat /\ t <= task
        BY DEF Turns
      <4> QED
        BY <4>1
    <3>3. seenTurn' <= task' /\ task' # 0 /\ (kpc' = "busy" => seenTurn' # 0)
      BY <3>1
    <3> QED
      BY <3>1, <3>2, <3>3, Zenon DEF RunInv
  <2> QED
    BY <2>1, <2>2
<1>22. ASSUME NEW t \in Turns, InterruptReturns(t) PROVE RunInv'
  BY <1>22 DEF InterruptReturns, CancelTurn, LoopFree
<1>23. ASSUME NEW t \in Turns, MicStops(t) PROVE RunInv'
  BY <1>23 DEF MicStops
<1>24. CASE UNCHANGED vars
  BY <1>24 DEF vars
<1> QED
  BY <1>1, <1>2, <1>3, <1>4, <1>5, <1>6, <1>7, <1>8, <1>9, <1>10, <1>11,
     <1>12, <1>13, <1>14, <1>15, <1>16, <1>17, <1>18, <1>19, <1>20, <1>21,
     <1>22, <1>23, <1>24
  DEF Next, Loop, Keyboard, Reset

\* A deferred key-up stays with its teardown until it is fired.
LEMMA DeferStep == IInv /\ [Next]_vars => DeferInv'
<1> SUFFICES ASSUME IInv, [Next]_vars PROVE DeferInv'
  OBVIOUS
<1>0. /\ DeferInv /\ RunInv
      /\ lpc \in {"idle", "resetMic", "resetHotkey", "release", "releaseBarged",
                  "deferred"}
  BY DEF IInv, TypeOK, DataOK
<1> USE DEF flagVars, loopVars, micVars, histVars, keyVars
<1> USE <1>0 DEF DeferInv, DeferralHasItsTeardown, RunInv, LivePhases, Phases
<1>1. CASE KeyDown
  BY <1>1 DEF KeyDown
<1>2. CASE KeyUp
  BY <1>2 DEF KeyUp
<1>3. CASE KeyUpLost
  BY <1>3 DEF KeyUpLost
<1>4. CASE PressReads
  BY <1>4 DEF PressReads
<1>5. CASE PressIgnored
  BY <1>5 DEF PressIgnored
<1>6. CASE PressClaims
  BY <1>6 DEF PressClaims
<1>7. CASE OpenRecording
  BY <1>7 DEF OpenRecording
<1>8. CASE ScheduleInterrupt
  BY <1>8 DEF ScheduleInterrupt
<1>9. CASE Activate
  BY <1>9 DEF Activate, Launch, Pops, LoopFree
<1>10. CASE BeginInterrupt
  BY <1>10 DEF BeginInterrupt, Pops, LoopFree
<1>11. CASE Interrupt
  BY <1>11 DEF Interrupt, Pops, LoopFree, CancelTurn
<1>12. CASE TurnStarts
  BY <1>12 DEF TurnStarts, Pops, LoopFree
<1>13. CASE Transcribed
  BY <1>13 DEF Transcribed, LoopFree
<1>14. CASE PipelineEnds
  BY <1>14 DEF PipelineEnds, LoopFree
<1>15. CASE TurnReturns
  BY <1>15 DEF TurnReturns, LoopFree
<1>16. CASE ResetBranches
  BY <1>16 DEF ResetBranches, LoopFree
<1>17. CASE ResetMic
  BY <1>17 DEF ResetMic
<1>18. CASE ResetHotkey
  BY <1>18 DEF ResetHotkey
<1>19. CASE Release
  BY <1>19 DEF Release
<1>20. CASE ReleaseBarged
  BY <1>20 DEF ReleaseBarged
<1>21. CASE FireDeferred
  BY <1>21 DEF FireDeferred, Launch
<1>22. ASSUME NEW t \in Turns, InterruptReturns(t) PROVE DeferInv'
  BY <1>22 DEF InterruptReturns, CancelTurn, LoopFree
<1>23. ASSUME NEW t \in Turns, MicStops(t) PROVE DeferInv'
  BY <1>23 DEF MicStops
<1>24. CASE UNCHANGED vars
  BY <1>24 DEF vars
<1> QED
  BY <1>1, <1>2, <1>3, <1>4, <1>5, <1>6, <1>7, <1>8, <1>9, <1>10, <1>11,
     <1>12, <1>13, <1>14, <1>15, <1>16, <1>17, <1>18, <1>19, <1>20, <1>21,
     <1>22, <1>23, <1>24
  DEF Next, Loop, Keyboard, Reset

\* An aborted voice stays closed and the turn it spoke for stays in its pipeline.
LEMMA VoiceStep == IInv /\ [Next]_vars => VoiceInv'
<1> SUFFICES ASSUME IInv, [Next]_vars PROVE VoiceInv'
  OBVIOUS
<1>0. VoiceInv /\ RunInv /\ TypeOK
  BY DEF IInv
<1> USE DEF flagVars, loopVars, micVars, histVars, keyVars
<1> USE <1>0 DEF VoiceInv, LivePhases, Phases, TypeOK, DataOK
<1>1. CASE KeyDown
  BY <1>1 DEF KeyDown
<1>2. CASE KeyUp
  BY <1>2 DEF KeyUp
<1>3. CASE KeyUpLost
  BY <1>3 DEF KeyUpLost
<1>4. CASE PressReads
  BY <1>4 DEF PressReads
<1>5. CASE PressIgnored
  BY <1>5 DEF PressIgnored
<1>6. CASE PressClaims
  BY <1>6 DEF PressClaims
<1>7. CASE OpenRecording
  BY <1>7 DEF OpenRecording
<1>8. CASE ScheduleInterrupt
  BY <1>8 DEF ScheduleInterrupt
<1>9. CASE Activate
  <2>1. CASE isProcessing
    BY <1>9, <2>1 DEF Activate, Pops, LoopFree
  <2>2. CASE ~isProcessing
    <3>1. task' = task + 1 /\ voice' = "none" /\ UNCHANGED aborting
      BY <1>9, <2>2, Zenon DEF Activate, Pops, LoopFree, Launch
    <3>2. task' \notin aborting
      BY <3>1 DEF RunInv
    <3> QED
      BY <3>1, <3>2
  <2> QED
    BY <2>1, <2>2
<1>10. CASE BeginInterrupt
  BY <1>10 DEF BeginInterrupt, Pops, LoopFree
<1>11. CASE Interrupt
  BY <1>11 DEF Interrupt, Pops, LoopFree, CancelTurn
<1>12. CASE TurnStarts
  BY <1>12 DEF TurnStarts, Pops, LoopFree
<1>13. CASE Transcribed
  BY <1>13 DEF Transcribed, LoopFree
<1>14. CASE PipelineEnds
  BY <1>14 DEF PipelineEnds, LoopFree
<1>15. CASE TurnReturns
  BY <1>15 DEF TurnReturns, LoopFree
<1>16. CASE ResetBranches
  BY <1>16 DEF ResetBranches, LoopFree
<1>17. CASE ResetMic
  BY <1>17 DEF ResetMic
<1>18. CASE ResetHotkey
  BY <1>18 DEF ResetHotkey
<1>19. CASE Release
  BY <1>19 DEF Release
<1>20. CASE ReleaseBarged
  BY <1>20 DEF ReleaseBarged
<1>21. CASE FireDeferred
  <2>1. CASE ~pendingActivation
    BY <1>21, <2>1 DEF FireDeferred
  <2>2. CASE pendingActivation
    <3>1. task' = task + 1 /\ voice' = "none" /\ UNCHANGED aborting
      BY <1>21, <2>2, Zenon DEF FireDeferred, Launch
    <3>2. task' \notin aborting
      BY <3>1 DEF RunInv
    <3> QED
      BY <3>1, <3>2
  <2> QED
    BY <2>1, <2>2
<1>22. ASSUME NEW t \in Turns, InterruptReturns(t) PROVE VoiceInv'
  BY <1>22 DEF InterruptReturns, CancelTurn, LoopFree
<1>23. ASSUME NEW t \in Turns, MicStops(t) PROVE VoiceInv'
  BY <1>23 DEF MicStops
<1>24. CASE UNCHANGED vars
  BY <1>24 DEF vars
<1> QED
  BY <1>1, <1>2, <1>3, <1>4, <1>5, <1>6, <1>7, <1>8, <1>9, <1>10, <1>11,
     <1>12, <1>13, <1>14, <1>15, <1>16, <1>17, <1>18, <1>19, <1>20, <1>21,
     <1>22, <1>23, <1>24
  DEF Next, Loop, Keyboard, Reset

\* Without an overlap the barge-in's flag stays with the turn it interrupted.
LEMMA RaceStep == IInv /\ [Next]_vars => RaceInv'
<1> SUFFICES ASSUME IInv, [Next]_vars PROVE RaceInv'
  OBVIOUS
<1>0. RaceInv /\ RunInv /\ TypeOK /\ TypeOK'
  BY FlagsStep, DataStep DEF IInv, TypeOK
<1> USE DEF flagVars, loopVars, micVars, histVars, keyVars
<1> USE <1>0 DEF RaceInv, RunInv, LivePhases, Phases, TypeOK, FlagsOK, DataOK
<1>1. CASE KeyDown
  BY <1>1 DEF KeyDown
<1>2. CASE KeyUp
  BY <1>2 DEF KeyUp
<1>3. CASE KeyUpLost
  BY <1>3 DEF KeyUpLost
<1>4. CASE PressReads
  BY <1>4 DEF PressReads
<1>5. CASE PressIgnored
  BY <1>5 DEF PressIgnored
<1>6. CASE PressClaims
  BY <1>6 DEF PressClaims
<1>7. CASE OpenRecording
  BY <1>7 DEF OpenRecording
<1>8. CASE ScheduleInterrupt
  BY <1>8 DEF ScheduleInterrupt
<1>9. CASE Activate
  <2>1. CASE isProcessing
    BY <1>9, <2>1 DEF Activate, Pops, LoopFree
  <2>2. CASE ~isProcessing
    <3>1. /\ isProcessing' /\ task' = task + 1 /\ phase' = "queued" /\ lpc' = "idle"
          /\ lpc \in {"idle", "deferred"} /\ phase \notin LivePhases
          /\ UNCHANGED <<kpc, seenTurn, barged, aborting, cancelled, raced, interrupting,
                         kept, stopping>>
      BY <1>9, <2>2 DEF Activate, Pops, LoopFree, Launch
    <3>2. task' \notin barged
      BY <3>1
    <3>3. ASSUME ~raced
          PROVE  /\ aborting \subseteq barged /\ cancelled \subseteq barged
                 /\ stopping \subseteq barged
                 /\ kpc # "busy" /\ ~interrupting
                 /\ kpc \notin {"openBusy", "schedule"}
      BY <1>9, <2>2, <3>3
    <3> QED
      BY <3>1, <3>2, <3>3, Zenon
  <2> QED
    BY <2>1, <2>2
<1>10. CASE BeginInterrupt
  BY <1>10 DEF BeginInterrupt, Pops, LoopFree
<1>11. CASE Interrupt
  BY <1>11 DEF Interrupt, Pops, LoopFree, CancelTurn
<1>12. CASE TurnStarts
  BY <1>12 DEF TurnStarts, Pops, LoopFree
<1>13. CASE Transcribed
  BY <1>13 DEF Transcribed, LoopFree
<1>14. CASE PipelineEnds
  BY <1>14 DEF PipelineEnds, LoopFree
<1>15. CASE TurnReturns
  BY <1>15 DEF TurnReturns, LoopFree
<1>16. CASE ResetBranches
  BY <1>16 DEF ResetBranches, LoopFree
<1>17. CASE ResetMic
  BY <1>17 DEF ResetMic
<1>18. CASE ResetHotkey
  BY <1>18 DEF ResetHotkey
<1>19. CASE Release
  BY <1>19 DEF Release
<1>20. CASE ReleaseBarged
  BY <1>20 DEF ReleaseBarged
<1>21. CASE FireDeferred
  <2>1. CASE ~pendingActivation
    BY <1>21, <2>1 DEF FireDeferred
  <2>2. CASE pendingActivation
    <3>1. /\ isProcessing' /\ task' = task + 1 /\ phase' = "queued" /\ lpc' = "idle"
          /\ lpc \in {"idle", "deferred"} /\ phase \notin LivePhases
          /\ UNCHANGED <<kpc, seenTurn, barged, aborting, cancelled, raced, interrupting,
                         kept, stopping>>
      BY <1>21, <2>2 DEF FireDeferred, Launch
    <3>2. task' \notin barged
      BY <3>1
    <3>3. ASSUME ~raced
          PROVE  /\ aborting \subseteq barged /\ cancelled \subseteq barged
                 /\ stopping \subseteq barged
                 /\ kpc # "busy" /\ ~interrupting
                 /\ kpc \notin {"openBusy", "schedule"}
      BY <1>21, <3>3 DEF FireDeferred
    <3> QED
      BY <3>1, <3>2, <3>3, Zenon
  <2> QED
    BY <2>1, <2>2
<1>22. ASSUME NEW t \in Turns, InterruptReturns(t) PROVE RaceInv'
  BY <1>22 DEF InterruptReturns, CancelTurn, LoopFree
<1>23. ASSUME NEW t \in Turns, MicStops(t) PROVE RaceInv'
  BY <1>23 DEF MicStops
<1>24. CASE UNCHANGED vars
  BY <1>24 DEF vars
<1> QED
  BY <1>1, <1>2, <1>3, <1>4, <1>5, <1>6, <1>7, <1>8, <1>9, <1>10, <1>11,
     <1>12, <1>13, <1>14, <1>15, <1>16, <1>17, <1>18, <1>19, <1>20, <1>21,
     <1>22, <1>23, <1>24
  DEF Next, Loop, Keyboard, Reset

-----------------------------------------------------------------------------
(* Theorems *)

\* The inductive invariant holds in every reachable state.
THEOREM ActivationInvariant == Spec => []IInv
<1>1. Init => IInv
  <2> SUFFICES ASSUME Init PROVE IInv
    OBVIOUS
  <2>1. FlagsOK
    BY Zenon DEF Init, FlagsOK
  <2>2. DataOK
    BY DEF Init, DataOK, Phases
  <2>3. PressesInv
    <3>1. Keyups(ready) = {}
      BY DEF Init, Keyups
    <3>2. DeferredKeyups = 0 /\ ComingKeyups = 0
      BY Zenon DEF Init, DeferredKeyups, ComingKeyups
    <3> QED
      BY <3>1, <3>2, FS_EmptySet DEF Init, PressesInv
  <2>4. RunInv /\ DeferInv /\ VoiceInv /\ RaceInv
    BY DEF Init, RunInv, DeferInv, DeferralHasItsTeardown, VoiceInv, RaceInv, LivePhases
  <2> QED
    BY <2>1, <2>2, <2>3, <2>4 DEF IInv, TypeOK
<1>2. IInv /\ [Next]_vars => IInv'
  BY FlagsStep, DataStep, PressesStep, RunStep, DeferStep, VoiceStep, RaceStep
  DEF IInv, TypeOK
<1> QED
  BY <1>1, <1>2, PTL DEF Spec

\* Type correctness: there are never more turns than presses, however key-ups are
\* lost, deferred or dropped (on_activate and the deferral).
THEOREM ActivationTypes == Spec => []TypeOK
<1>1. IInv => TypeOK
  BY DEF IInv
<1> QED
  BY <1>1, ActivationInvariant, PTL

\* One turn at a time, for any number of presses at any moment of a turn, of its
\* reset or of an interrupt (ActivationController.on_activate and
\* reset_turn_state).
THEOREM OneTurnAtATime == Spec => TurnsNeverOverlap
<1>1. IInv /\ [Next]_vars => (task' # task => phase \notin LivePhases)
  <2> SUFFICES ASSUME IInv, [Next]_vars, task' # task PROVE phase \notin LivePhases
    OBVIOUS
  <2>1. CASE Activate
    <3>1. ~isProcessing
      BY <2>1 DEF Activate
    <3> QED
      BY <3>1 DEF IInv, RunInv
  <2>2. CASE FireDeferred
    <3>1. lpc = "deferred"
      BY <2>2 DEF FireDeferred
    <3> QED
      BY <3>1 DEF IInv, RunInv
  <2> QED
    BY <2>1, <2>2
    DEF Next, KeyDown, KeyUp, KeyUpLost, Keyboard, PressReads, PressIgnored, PressClaims,
        OpenRecording, ScheduleInterrupt, Loop, BeginInterrupt, Interrupt, TurnStarts,
        Transcribed, PipelineEnds, TurnReturns, ResetBranches, Reset, ResetMic, ResetHotkey,
        Release, ReleaseBarged, InterruptReturns, MicStops, vars, flagVars
<1>2. IInv /\ [Next]_vars => [task' # task => phase \notin LivePhases]_vars
  BY <1>1
<1> QED
  BY <1>2, ActivationInvariant, PTL DEF Spec, TurnsNeverOverlap

\* A key-up deferred by a barge-in has a teardown under way that looks for it, unless
\* its turn was lost before its first step, and is spent only by starting the turn it
\* asked for (_pending_activation).
THEOREM DeferralFires == Spec => DeferredKeyUpIsFired
<1> DEFINE Fires == pendingActivation /\ ~pendingActivation' => task' = task + 1
<1>1. IInv => DeferralHasItsTeardown
  BY DEF IInv, DeferInv
<1>2. IInv /\ [Next]_vars => Fires
  <2> SUFFICES ASSUME IInv, [Next]_vars, pendingActivation, ~pendingActivation'
               PROVE  task' = task + 1
    OBVIOUS
  <2>1. CASE Activate
    BY <2>1, Zenon DEF Activate
  <2>2. CASE FireDeferred
    BY <2>2, Zenon DEF FireDeferred, Launch
  <2> QED
    BY <2>1, <2>2
    DEF Next, KeyDown, KeyUp, KeyUpLost, Keyboard, PressReads, PressIgnored, PressClaims,
        OpenRecording, ScheduleInterrupt, Loop, BeginInterrupt, Interrupt, TurnStarts,
        Transcribed, PipelineEnds, TurnReturns, ResetBranches, Reset, ResetMic, ResetHotkey,
        Release, ReleaseBarged, InterruptReturns, MicStops, vars, flagVars
<1>3. IInv /\ [Next]_vars => [Fires]_vars
  BY <1>2
<1> QED
  BY <1>1, <1>3, ActivationInvariant, PTL DEF Spec, DeferredKeyUpIsFired

\* Silence first, cancel second, and only a turn that was interrupted is cancelled
\* (ActivationController._do_interrupt).
THEOREM CancelsInOrder == Spec => CancelIsOrderly
<1>1. IInv => OnlyBargedTurnsAreCancelled
  BY DEF IInv, RaceInv, OnlyBargedTurnsAreCancelled
<1>2. IInv /\ [Next]_vars => (cancelled' # cancelled => voice # "open")
  <2> SUFFICES ASSUME IInv, [Next]_vars, cancelled' # cancelled PROVE voice # "open"
    OBVIOUS
  <2>1. CASE Interrupt
    BY <2>1 DEF Interrupt
  <2>2. ASSUME NEW t \in Turns, InterruptReturns(t) PROVE voice # "open"
    <3>1. t = task /\ phase \in LivePhases /\ t \in aborting
      BY <2>2 DEF InterruptReturns, CancelTurn
    <3> QED
      BY <3>1 DEF IInv, VoiceInv
  <2> QED
    BY <2>1, <2>2
    DEF Next, KeyDown, KeyUp, KeyUpLost, Keyboard, PressReads, PressIgnored, PressClaims,
        OpenRecording, ScheduleInterrupt, Loop, BeginInterrupt, Activate, TurnStarts,
        Transcribed, PipelineEnds, TurnReturns, ResetBranches, Reset, ResetMic, ResetHotkey,
        Release, ReleaseBarged, FireDeferred, MicStops, vars, histVars
<1>3. IInv /\ [Next]_vars => [cancelled' # cancelled => voice # "open"]_vars
  BY <1>2
<1> QED
  BY <1>1, <1>3, ActivationInvariant, PTL DEF Spec, CancelIsOrderly,
     SilencedBeforeCancel

\* A reset never closes the recording of a barge-in, unless a press overlapped one
\* (reset_turn_state's two branches).
THEOREM RecordingKept == Spec => BargeInKeepsItsRecording
<1> DEFINE Keeps == kept # 0 /\ recording = kept /\ recording' # kept /\ ~raced
                      => \/ kept' # kept
                         \/ \E t \in stopping \cap barged : stopping' = stopping \ {t}
<1>1. IInv /\ [Next]_vars => Keeps
  <2> SUFFICES ASSUME IInv, [Next]_vars, kept # 0, recording = kept, recording' # kept,
                      ~raced
               PROVE  \/ kept' # kept
                      \/ \E t \in stopping \cap barged : stopping' = stopping \ {t}
    OBVIOUS
  <2>1. CASE OpenRecording
    BY <2>1 DEF OpenRecording
  <2>2. ASSUME NEW t \in Turns, MicStops(t)
        PROVE  \E u \in stopping \cap barged : stopping' = stopping \ {u}
    <3>1. t \in barged
      BY <2>2 DEF MicStops, IInv, RaceInv, LivePhases, Phases
    <3> QED
      BY <2>2, <3>1, Zenon DEF MicStops
  <2>3. CASE ResetMic
    BY <2>3 DEF ResetMic, IInv, RaceInv
  <2> QED
    BY <2>1, <2>2, <2>3
    DEF Next, KeyDown, KeyUp, KeyUpLost, Keyboard, PressReads, PressIgnored, PressClaims,
        ScheduleInterrupt, Loop, BeginInterrupt, Activate, Interrupt, TurnStarts,
        Transcribed, PipelineEnds, TurnReturns, ResetBranches, Reset, ResetHotkey,
        Release, ReleaseBarged, FireDeferred, InterruptReturns, vars, micVars
<1>2. IInv /\ [Next]_vars => [Keeps]_vars
  BY <1>1
<1> QED
  BY <1>2, ActivationInvariant, PTL DEF Spec, BargeInKeepsItsRecording
=============================================================================
