------------------------- MODULE ConfirmGateProofs -------------------------
(***************************************************************************)
(* Proofs about ConfirmGate, for every set of calls and tools and every    *)
(* pass bound.  The inductive invariant says what the gate's memory means  *)
(* at each point of the turn: before the turn's look nothing was decided   *)
(* in it; after the look an approved pending is the call THIS utterance    *)
(* answered, and an unapproved pending is a refusal of THIS turn.          *)
(***************************************************************************)
EXTENDS ConfirmGate, TLAPS

\* An approved pending is a call, of a tool that is approved per call.
PendingInv ==
  pending.approved => /\ pending.call # NoCall
                      /\ ToolOf[pending.call] \notin TurnGranted

\* Where the coroutine is, against what it has done.
PlaceInv ==
  /\ pc \notin {"idle", "capture"} => observed
  /\ egress # NoCall => pc \in {"runningPre", "runningRead"}
  /\ pc = "precondition" => (preCall # NoCall => ToolOf[preCall] \in Precondition)
  /\ pc \in {"precondition", "runningPre", "read"} /\ choice = "none" =>
       preCall = NoCall /\ readCall = NoCall

\* Before the look: the turn has decided nothing.
FreshInv ==
  ~observed =>
    /\ answered = NoCall /\ grant = NoTool
    /\ refusals = 0 /\ releases = 0
    /\ openAtStart <=> pending.call # NoCall

\* After the look.
LookedInv ==
  observed =>
    /\ answered # NoCall => utterance = "approve" /\ openAtStart
    /\ grant # NoTool => /\ answered # NoCall
                         /\ grant = ToolOf[answered]
                         /\ grant \in TurnGranted
    /\ pending.approved => pending.call = answered /\ releases = 0 /\ refusals = 0
    /\ AwaitingApproval <=> refusals = 1
    /\ missed => utterance = "other" /\ openAtStart

BrakeInv ==
  /\ refusals \in {0, 1} /\ releases \in {0, 1}
  /\ observed /\ refusals = 1 =>
       /\ pc \notin {"runningPre", "runningRead"}
       /\ pc \in {"stream", "precondition", "read"} => choice = "none"

\* What the turn decided, as one formula.
TurnInv == /\ PendingInv
           /\ PlaceInv
           /\ FreshInv
           /\ LookedInv
           /\ BrakeInv
           /\ EgressHasItsAnswer

IInv == TypeOK /\ TurnInv

USE CallsAssumption, ToolsAssumption, MaxPassesAssumption

\* The Boolean-valued variables keep their type in every step.
LEMMA FlagsStep == FlagsOK /\ [Next]_vars => FlagsOK'
<1> SUFFICES ASSUME FlagsOK, [Next]_vars PROVE FlagsOK'
  OBVIOUS
<1> USE DEF FlagsOK, gateVars, histVars
<1>1. ASSUME NEW u \in Utterances, NewTurn(u) PROVE FlagsOK'
  BY <1>1, Zenon DEF NewTurn, Arm
<1>2. CASE StopTurn
  BY <1>2, Zenon DEF StopTurn
<1>3. CASE BeginPass
  BY <1>3, Zenon DEF BeginPass, Observe, HearApproval, HearNoApproval
<1>4. ASSUME NEW p \in Calls \cup {NoCall}, NEW r \in Calls \cup {NoCall},
             NEW w \in BOOLEAN, StreamCompletes(p, r, w)
      PROVE  FlagsOK'
  BY <1>4, Zenon DEF StreamCompletes
<1>5. ASSUME NEW c, NEW running, NEW next, Service(c, running, next) PROVE FlagsOK'
  BY <1>5, Zenon DEF Service, SkipSlot, PassCall, ReleaseCall, RefuseCall, Execute,
                     Consume, Place
<1>6. ASSUME NEW c, NEW running, NEW next, Return(c, running, next) PROVE FlagsOK'
  BY <1>6, Zenon DEF Return
<1>7. CASE SandboxReturns \/ Spoke
  BY <1>7, Zenon DEF SandboxReturns, Spoke
<1>8. CASE HandOver
  BY <1>8, Zenon DEF HandOver
<1>9. CASE NextPass
  BY <1>9, Zenon DEF NextPass
<1>10. CASE UNCHANGED vars
  BY <1>10, Zenon DEF vars, turnVars
<1> QED
  BY <1>1, <1>2, <1>3, <1>4, <1>5, <1>6, <1>7, <1>8, <1>9, <1>10
  DEF Next, RefuseForBudget, StreamEndsEarly, ServicePrecondition,
      ReturnPrecondition, ServiceRead, ReturnRead, EndTurn, Cancel

\* Every record the gate stores as its pending is well typed.
LEMMA PendingRecords ==
  ASSUME NEW c \in Calls \cup {NoCall}
  PROVE  \A b \in BOOLEAN : [call |-> c, approved |-> b]
                                \in [call : Calls \cup {NoCall}, approved : BOOLEAN]
  OBVIOUS

\* So do the others: the gate's memory, the turn's position and counters.
LEMMA DataStep == TypeOK /\ [Next]_vars => DataOK'
<1> SUFFICES ASSUME TypeOK, [Next]_vars PROVE DataOK'
  OBVIOUS
<1> USE DEF TypeOK, FlagsOK, DataOK, Positions, Utterances, Questions, NoPending,
            gateVars, histVars
<1>1. ASSUME NEW u \in Utterances, NewTurn(u) PROVE DataOK'
  BY <1>1 DEF NewTurn, Arm
<1>2. CASE StopTurn
  BY <1>2 DEF StopTurn
<1>3. CASE BeginPass
  <2>1. NoPending \in [call : Calls \cup {NoCall}, approved : BOOLEAN]
    BY PendingRecords, Zenon DEF NoPending
  <2>2. [call |-> pending.call, approved |-> TRUE]
          \in [call : Calls \cup {NoCall}, approved : BOOLEAN]
    <3>1. pending.call \in Calls \cup {NoCall}
      OBVIOUS
    <3>2. QED
      BY <3>1, PendingRecords, Zenon
  <2>3. QED
    BY <1>3, <2>1, <2>2 DEF BeginPass, Observe, HearApproval, HearNoApproval, LoopToolChoice
<1>4. ASSUME NEW p \in Calls \cup {NoCall}, NEW r \in Calls \cup {NoCall},
             NEW w \in BOOLEAN, StreamCompletes(p, r, w)
      PROVE  DataOK'
  BY <1>4 DEF StreamCompletes
<1>5. ASSUME NEW c \in Calls \cup {NoCall}, NEW running \in Positions,
             NEW next \in Positions, Service(c, running, next)
      PROVE DataOK'
  <2>1. NoPending \in [call : Calls \cup {NoCall}, approved : BOOLEAN]
    BY PendingRecords, Zenon DEF NoPending
  <2>2. [call |-> c, approved |-> FALSE]
          \in [call : Calls \cup {NoCall}, approved : BOOLEAN]
    BY PendingRecords, Zenon
  <2>3. CASE SkipSlot(c, next) \/ PassCall(c, running)
    BY <1>5, <2>3 DEF Service, SkipSlot, PassCall, Execute
  <2>4. CASE ReleaseCall(c, running)
    BY <1>5, <2>1, <2>4 DEF Service, ReleaseCall, Execute, Consume
  <2>5. CASE RefuseCall(c, next)
    BY <1>5, <2>2, <2>5 DEF Service, RefuseCall, Place
  <2>6. QED
    BY <1>5, <2>3, <2>4, <2>5 DEF Service
<1>6. ASSUME NEW c, NEW running, NEW next \in Positions, Return(c, running, next)
      PROVE DataOK'
  BY <1>6 DEF Return
<1>7. CASE SandboxReturns \/ Spoke
  BY <1>7 DEF SandboxReturns, Spoke
<1>8. CASE HandOver
  BY <1>8 DEF HandOver
<1>9. CASE NextPass
  BY <1>9 DEF NextPass
<1>10. CASE UNCHANGED vars
  BY <1>10 DEF vars, turnVars
<1> QED
  BY <1>1, <1>2, <1>3, <1>4, <1>5, <1>6, <1>7, <1>8, <1>9, <1>10
  DEF Next, RefuseForBudget, StreamEndsEarly, ServicePrecondition,
      ReturnPrecondition, ServiceRead, ReturnRead, EndTurn, Cancel, AfterRead

\* TurnInv, the relation between the look, the answer, the pending and the
\* running call, is preserved by every step of the turn.
LEMMA TurnStep == TypeOK /\ TypeOK' /\ TurnInv /\ [Next]_vars => TurnInv'
<1> SUFFICES ASSUME TypeOK, TypeOK', TurnInv, [Next]_vars PROVE TurnInv'
  OBVIOUS
<1> USE DEF TypeOK, FlagsOK, DataOK, TurnInv, PendingInv, PlaceInv, FreshInv,
            LookedInv, BrakeInv, EgressHasItsAnswer, AwaitingApproval, NoPending,
            Utterances, gateVars, histVars
<1>1. ASSUME NEW u \in Utterances, NewTurn(u) PROVE TurnInv'
  BY <1>1 DEF NewTurn, Arm
<1>2. CASE StopTurn
  BY <1>2 DEF StopTurn
<1>3. CASE BeginPass
  BY <1>3 DEF BeginPass, Observe, HearApproval, HearNoApproval, LoopToolChoice
<1>4. ASSUME NEW p \in Calls \cup {NoCall}, NEW r \in Calls \cup {NoCall},
             NEW w \in BOOLEAN, StreamCompletes(p, r, w)
      PROVE  TurnInv'
  BY <1>4 DEF StreamCompletes
<1>5. CASE ServicePrecondition
  BY <1>5 DEF ServicePrecondition, Service, SkipSlot, PassCall, ReleaseCall,
              RefuseCall, Execute, Gated, Covers
<1>6. CASE ServiceRead
  <2> USE <1>6 DEF ServiceRead, Service, AfterRead
  <2>1. CASE SkipSlot(readCall, AfterRead)
    BY <2>1 DEF SkipSlot
  <2>2. CASE PassCall(readCall, "runningRead")
    BY <2>2 DEF PassCall, Execute, Gated, Covers
  <2>3. CASE ReleaseCall(readCall, "runningRead")
    BY <2>3 DEF ReleaseCall, Execute, ReleasedBy, Consume
  <2>4. CASE RefuseCall(readCall, AfterRead)
    BY <2>4 DEF RefuseCall, Place, ReleasedBy
  <2>5. QED
    BY <2>1, <2>2, <2>3, <2>4
<1>7. CASE ReturnPrecondition \/ ReturnRead
  BY <1>7 DEF ReturnPrecondition, ReturnRead, Return, AfterRead
<1>8. CASE SandboxReturns \/ Spoke
  BY <1>8 DEF SandboxReturns, Spoke
<1>9. CASE HandOver
  BY <1>9 DEF HandOver
<1>10. CASE NextPass
  BY <1>10 DEF NextPass
<1>11. CASE UNCHANGED vars
  BY <1>11 DEF vars, turnVars
<1> QED
  BY <1>1, <1>2, <1>3, <1>4, <1>5, <1>6, <1>7, <1>8, <1>9, <1>10, <1>11
  DEF Next, RefuseForBudget, StreamEndsEarly, EndTurn, Cancel

\* The inductive invariant holds in every reachable state.
THEOREM Invariance == Spec => []IInv
<1>1. Init => IInv
  <2>1. Init => FlagsOK
    BY Zenon DEF Init, FlagsOK
  <2>2. Init => DataOK
    <3>1. NoPending \in [call : Calls \cup {NoCall}, approved : BOOLEAN]
      BY PendingRecords, Zenon DEF NoPending
    <3>2. QED
      BY <3>1 DEF Init, DataOK, Positions, Utterances, Questions
  <2>3. Init => TurnInv
    BY DEF Init, TurnInv, PendingInv, PlaceInv, FreshInv, LookedInv, BrakeInv,
           EgressHasItsAnswer, AwaitingApproval, NoPending
  <2>4. QED
    BY <2>1, <2>2, <2>3 DEF IInv, TypeOK
<1>2. IInv /\ [Next]_vars => IInv'
  BY FlagsStep, DataStep, TurnStep DEF IInv, TypeOK
<1>3. QED
  BY <1>1, <1>2, PTL DEF Spec

\* Type correctness of the gate's memory and of the turn that drives it.
THEOREM TypeCorrect == Spec => []TypeOK
<1>1. IInv => TypeOK
  BY DEF IInv
<1>2. QED
  BY <1>1, Invariance, PTL

\* A high-impact call executes in a tainted session only on this turn's own
\* approval of it, given to a question of an earlier turn, and one per-call
\* approval releases one call (ConfirmGate.refusal_for, observe and new_turn
\* together, GateState.consume).
THEOREM EgressAlwaysApproved == Spec => []EgressIsApproved
<1>1. IInv => EgressHasItsAnswer
  BY DEF IInv, TurnInv
<1>2. IInv => ApprovalIsSingleUse
  BY DEF IInv, TurnInv, BrakeInv, ApprovalIsSingleUse
<1>3. IInv => EgressIsApproved
  BY <1>1, <1>2, Zenon DEF EgressIsApproved
<1>4. QED
  BY <1>3, Invariance, PTL

\* The brake follows the open question: a refusal makes the rest of its turn
\* toolless (loop_tool_choice), the approval of a call lifts the brake
\* (GateState.awaiting_approval), and the retry note never reports an earlier
\* turn's miss (GateState.missed).
THEOREM BrakeAlwaysFollows == Spec => []BrakeFollowsTheQuestion
<1>1. IInv => RefusalBrakesTheTurn
  BY DEF IInv, TurnInv, BrakeInv, FreshInv, RefusalBrakesTheTurn, TypeOK, FlagsOK
<1>2. IInv => ApprovalLiftsTheBrake
  BY DEF IInv, TurnInv, LookedInv, FreshInv, ApprovalLiftsTheBrake, TypeOK, FlagsOK
<1>3. IInv => MissIsThisTurns
  BY DEF IInv, TurnInv, LookedInv, MissIsThisTurns
<1>4. IInv => BrakeFollowsTheQuestion
  BY <1>1, <1>2, <1>3, Zenon DEF BrakeFollowsTheQuestion
<1>5. QED
  BY <1>4, Invariance, PTL

\* A step that only clears the pending, or leaves the question where it is, loses
\* no question.
LEMMA QuestionStands ==
  ASSUME QuestionIsNotLost,
         \/ pending'.call = NoCall
         \/ /\ pending'.call = pending.call
            /\ spoken' = spoken /\ question' = question
            /\ pc # "speaking" \/ pc' = pc
  PROVE  QuestionIsNotLost'
BY Zenon DEF QuestionIsNotLost

\* Across cancellations and turns the gate holds the question of a waiting call
\* until it hands it over, and hands it over once; what is lost is lost by the
\* voice, at the await that speaks it (GateState.place, take_spoken_request).
THEOREM QuestionNeverLost == Spec => []QuestionIsNotLost
<1>1. Init => QuestionIsNotLost
  BY DEF Init, QuestionIsNotLost, NoPending
<1>2. ASSUME TypeOK, QuestionIsNotLost, [Next]_vars PROVE QuestionIsNotLost'
  <2> USE DEF gateVars, histVars, turnVars
  <2>1. ASSUME NEW u \in Utterances, NewTurn(u) PROVE QuestionIsNotLost'
    BY <1>2, <2>1, QuestionStands DEF NewTurn
  <2>2. CASE SandboxReturns \/ NextPass \/ UNCHANGED vars
    BY <1>2, <2>2, QuestionStands DEF SandboxReturns, NextPass, vars
  <2>3. CASE StopTurn
    BY <1>2, <2>3 DEF StopTurn, QuestionIsNotLost
  <2>4. CASE Spoke
    BY <1>2, <2>4 DEF Spoke, QuestionIsNotLost
  <2>5. CASE BeginPass
    <3>1. question' = question /\ pc # "speaking"
      BY <2>5 DEF BeginPass
    <3>2. CASE UNCHANGED gateVars
      BY <1>2, <3>1, <3>2, QuestionStands
    <3>3. CASE pending.call = NoCall /\ pending' = pending
      BY <1>2, <3>3, QuestionStands
    <3>4. CASE HearApproval
      BY <1>2, <3>1, <3>4, QuestionStands DEF HearApproval, NoPending
    <3>5. CASE HearNoApproval
      BY <1>2, <3>5, QuestionStands DEF HearNoApproval, NoPending
    <3>6. QED
      BY <2>5, <3>2, <3>3, <3>4, <3>5 DEF BeginPass, Observe
  <2>6. ASSUME NEW p \in Calls \cup {NoCall}, NEW r \in Calls \cup {NoCall},
               NEW w \in BOOLEAN, StreamCompletes(p, r, w)
        PROVE  QuestionIsNotLost'
    BY <1>2, <2>6, QuestionStands DEF StreamCompletes
  <2>7. ASSUME NEW c \in Calls \cup {NoCall}, NEW running, NEW next,
               Service(c, running, next), pc # "speaking"
        PROVE  QuestionIsNotLost'
    <3>1. CASE SkipSlot(c, next) \/ PassCall(c, running)
      BY <1>2, <2>7, <3>1, QuestionStands DEF SkipSlot, PassCall, Execute
    <3>2. CASE ReleaseCall(c, running)
      BY <1>2, <3>2, QuestionStands DEF ReleaseCall, Consume, NoPending
    <3>3. CASE RefuseCall(c, next)
      BY <3>3 DEF RefuseCall, Place, QuestionIsNotLost
    <3>4. QED
      BY <2>7, <3>1, <3>2, <3>3 DEF Service
  <2>8. CASE ReturnPrecondition \/ ReturnRead
    BY <1>2, <2>8, QuestionStands DEF ReturnPrecondition, ReturnRead, Return
  <2>9. CASE HandOver
    <3>1. pending' = pending
      BY <2>9 DEF HandOver
    <3>2. CASE spoken = NoCall
      BY <1>2, <2>9, <3>1, <3>2 DEF HandOver, QuestionIsNotLost
    <3>3. CASE spoken # NoCall
      BY <1>2, <2>9, <3>1, <3>3 DEF HandOver, QuestionIsNotLost
    <3>4. QED
      BY <3>2, <3>3
  <2>10. CASE ServicePrecondition \/ ServiceRead
    <3>1. preCall \in Calls \cup {NoCall} /\ readCall \in Calls \cup {NoCall}
      BY <1>2 DEF TypeOK, DataOK
    <3>2. QED
      BY <2>7, <2>10, <3>1 DEF ServicePrecondition, ServiceRead
  <2>11. QED
    BY <1>2, <2>1, <2>2, <2>5, <2>6, <2>8, <2>9, <2>3, <2>4, <2>10
    DEF Next, RefuseForBudget, StreamEndsEarly, EndTurn, Cancel
<1>3. QED
  BY <1>1, <1>2, TypeCorrect, PTL DEF Spec

-----------------------------------------------------------------------------
(* The gate implements the abstract approval protocol *)

\* A step that leaves the gate's memory, the look and the running call alone
\* is invisible to the protocol.
LEMMA InvisibleStep ==
  ASSUME pending' = pending, grant' = grant, egress' = egress, InForce' = InForce
  PROVE  UNCHANGED Abstract!vars
  BY DEF Abstract!vars, AskedNow, LicenceNow, ReleasedBy, Covers

\* Serving a slot (ToolRouter.service) is Ask, Send or nothing in the protocol.
LEMMA SlotStep ==
  ASSUME IInv, NEW c \in Calls \cup {NoCall}, NEW running \in Positions \ {"idle"},
         NEW next \in Positions \ {"idle"}, Service(c, running, next),
         pc \in {"precondition", "read"}
  PROVE  [Abstract!Next]_Abstract!vars
<1> USE DEF IInv, TypeOK, FlagsOK, DataOK, TurnInv, PendingInv, PlaceInv, LookedInv,
            InForce, gateVars
<1>1. InForce /\ egress = NoCall
  OBVIOUS
<1>2. pending.approved => grant = NoTool
  OBVIOUS
<1>3. CASE SkipSlot(c, next)
  <2>1. InForce' = InForce /\ pending' = pending /\ grant' = grant /\ egress' = egress
    BY <1>1, <1>3 DEF Service, SkipSlot
  <2>2. QED
    BY <2>1, InvisibleStep
<1>4. CASE PassCall(c, running)
  <2>1. InForce' /\ pending' = pending /\ grant' = grant
    BY <1>1, <1>4 DEF PassCall, Execute
  <2>2. CASE ~Gated(c)
    <3>1. egress' = egress /\ InForce' = InForce
      BY <1>1, <1>4, <2>1, <2>2 DEF PassCall, Execute
    <3>2. QED
      BY <2>1, <3>1, InvisibleStep
  <2>3. CASE Gated(c)
    <3>1. c \in Calls /\ Covers(c) /\ egress' = c
      BY <1>4, <2>3 DEF PassCall, Execute
    <3>2. ~pending.approved
      BY <1>2, <3>1 DEF Covers
    <3>3. LicenceNow = {d \in Calls : Covers(d)} /\ LicenceNow' = LicenceNow
      BY <1>1, <2>1, <3>2 DEF LicenceNow, ReleasedBy, Covers
    <3>4. grant \in TurnGranted
      BY <1>1, <3>1 DEF Covers
    <3>5. Abstract!Standing(LicenceNow) = LicenceNow
      BY <3>3, <3>4 DEF Abstract!Standing, Covers
    <3>6. AskedNow' = AskedNow
      BY <1>1, <2>1 DEF AskedNow
    <3>7. Abstract!Send(c)
      BY <1>1, <3>1, <3>3, <3>5, <3>6 DEF Abstract!Send
    <3>8. QED
      BY <3>1, <3>7 DEF Abstract!Next
  <2>4. QED
    BY <2>2, <2>3
<1>5. CASE ReleaseCall(c, running)
  <2>1. /\ c \in Calls /\ egress' = c /\ pending.call = c /\ pending.approved
        /\ pending' = NoPending /\ grant' = NoTool /\ InForce'
    BY <1>1, <1>2, <1>5 DEF ReleaseCall, Execute, Consume, ReleasedBy
  <2>2. LicenceNow = {c}
    BY <1>1, <1>2, <2>1 DEF LicenceNow, ReleasedBy, Covers
  <2>3. LicenceNow' = {}
    BY <2>1 DEF LicenceNow, ReleasedBy, Covers, NoPending
  <2>4. AskedNow' = AskedNow
    BY <1>1, <2>1 DEF AskedNow, NoPending
  <2>5. Abstract!Standing({c}) = {}
    BY <2>1 DEF Abstract!Standing
  <2>6. Abstract!Send(c)
    BY <1>1, <2>1, <2>2, <2>3, <2>4, <2>5 DEF Abstract!Send
  <2>7. QED
    BY <2>1, <2>6 DEF Abstract!Next
<1>6. CASE RefuseCall(c, next)
  <2>1. /\ c \in Calls /\ egress' = egress /\ grant' = grant /\ InForce'
        /\ pending' = [call |-> c, approved |-> FALSE]
    BY <1>1, <1>6 DEF RefuseCall, Place
  <2>2. c \notin LicenceNow
    BY <1>1, <1>6 DEF LicenceNow, RefuseCall
  <2>3. AskedNow' = c
    BY <2>1 DEF AskedNow
  <2>4. LicenceNow' = {d \in Calls : Covers(d)}
    BY <2>1 DEF LicenceNow, ReleasedBy, Covers
  <2>5. grant # NoTool => grant \in TurnGranted
    BY <1>1
  <2>6. Abstract!Standing(LicenceNow) = {d \in Calls : Covers(d)}
    BY <1>1, <2>5 DEF Abstract!Standing, LicenceNow, ReleasedBy, Covers
  <2>7. Abstract!Ask(c)
    BY <2>1, <2>2, <2>3, <2>4, <2>6 DEF Abstract!Ask
  <2>8. QED
    BY <2>1, <2>7 DEF Abstract!Next
<1>7. QED
  BY <1>3, <1>4, <1>5, <1>6 DEF Service

\* The turn's look (observe) is Approve, Dismiss or nothing in the protocol.
LEMMA LookStep ==
  ASSUME IInv, IInv', BeginPass
  PROVE  [Abstract!Next]_Abstract!vars
<1> USE DEF IInv, TypeOK, FlagsOK, DataOK, TurnInv, PendingInv, PlaceInv, FreshInv,
            LookedInv, InForce, gateVars
<1>1. pc = "capture" /\ pc' = "stream" /\ egress' = egress /\ Observe
  BY DEF BeginPass
<1>2. CASE observed
  <2>1. InForce' = InForce /\ pending' = pending /\ grant' = grant
    BY <1>1, <1>2 DEF Observe
  <2>2. QED
    BY <1>1, <2>1, InvisibleStep
<1>3. CASE ~observed
  <2>1. ~InForce /\ InForce' /\ grant = NoTool
    BY <1>1, <1>3 DEF Observe
  <2>2. LicenceNow = {} /\ AskedNow = pending.call
    BY <2>1 DEF LicenceNow, AskedNow
  <2>3. CASE pending.call = NoCall
    <3>1. pending' = pending /\ grant' = grant /\ ~pending.approved
      BY <1>1, <1>3, <2>3 DEF Observe
    <3>2. LicenceNow' = {} /\ AskedNow' = AskedNow
      BY <2>1, <2>2, <3>1 DEF LicenceNow, AskedNow, ReleasedBy, Covers
    <3>3. QED
      BY <1>1, <2>2, <3>2 DEF Abstract!vars
  <2>4. CASE pending.call # NoCall /\ HearApproval
    <3>1. pending.call \in Calls
      BY <2>4
    <3>2. CASE ToolOf[pending.call] \in TurnGranted
      <4>1. grant' = ToolOf[pending.call] /\ pending' = NoPending
        BY <2>4, <3>2 DEF HearApproval
      <4>2. grant' # NoTool
        BY <3>1, <4>1
      <4>3. LicenceNow' = {d \in Calls : ToolOf[d] = ToolOf[pending.call]}
        BY <2>1, <4>1, <4>2 DEF LicenceNow, ReleasedBy, Covers, NoPending
      <4>4. AskedNow' = NoCall
        BY <4>1 DEF AskedNow, NoPending
      <4>5. Abstract!Approve
        BY <1>1, <2>2, <2>4, <3>2, <4>3, <4>4 DEF Abstract!Approve, Abstract!Scope
      <4>6. QED
        BY <4>5 DEF Abstract!Next
    <3>3. CASE ToolOf[pending.call] \notin TurnGranted
      <4>1. /\ pending' = [call |-> pending.call, approved |-> TRUE]
            /\ grant' = NoTool
        BY <2>1, <2>4, <3>3 DEF HearApproval
      <4>2. LicenceNow' = {pending.call}
        BY <2>1, <3>1, <4>1 DEF LicenceNow, ReleasedBy, Covers
      <4>3. AskedNow' = NoCall
        BY <2>1, <4>1 DEF AskedNow
      <4>4. Abstract!Approve
        BY <1>1, <2>2, <2>4, <3>3, <4>2, <4>3 DEF Abstract!Approve, Abstract!Scope
      <4>5. QED
        BY <4>4 DEF Abstract!Next
    <3>4. QED
      BY <3>2, <3>3
  <2>5. CASE pending.call # NoCall /\ HearNoApproval
    <3>1. pending' = NoPending /\ grant' = NoTool
      BY <2>1, <2>5 DEF HearNoApproval
    <3>2. LicenceNow' = {} /\ AskedNow' = NoCall
      BY <3>1 DEF LicenceNow, AskedNow, ReleasedBy, Covers, NoPending
    <3>3. Abstract!Dismiss
      BY <1>1, <2>2, <2>5, <3>2 DEF Abstract!Dismiss
    <3>4. QED
      BY <3>3 DEF Abstract!Next
  <2>6. QED
    BY <1>1, <1>3, <2>3, <2>4, <2>5 DEF Observe
<1>4. QED
  BY <1>2, <1>3

\* The end or the cancellation of a turn is the protocol's EndTurn.
LEMMA StopStep ==
  ASSUME IInv, StopTurn
  PROVE  [Abstract!Next]_Abstract!vars
<1> USE DEF IInv, TypeOK, FlagsOK, DataOK, TurnInv, PendingInv, gateVars, StopTurn
<1>1. ~InForce' /\ pending' = pending /\ egress' = NoCall
  BY DEF InForce
<1>2. LicenceNow' = {} /\ AskedNow' = pending.call
  BY <1>1 DEF LicenceNow, AskedNow
<1>3. CASE InForce /\ pending.approved
  <2>1. pending.call \in LicenceNow
    BY <1>3 DEF LicenceNow, ReleasedBy
  <2>2. pending.call \notin Abstract!Standing(LicenceNow)
    BY <1>3 DEF Abstract!Standing
  <2>3. QED
    BY <1>1, <1>2, <2>1, <2>2 DEF Abstract!Next, Abstract!EndTurn
<1>4. CASE ~(InForce /\ pending.approved)
  <2>1. AskedNow' = AskedNow
    BY <1>2, <1>4 DEF AskedNow
  <2>2. QED
    BY <1>1, <1>2, <2>1 DEF Abstract!Next, Abstract!EndTurn
<1>5. QED
  BY <1>3, <1>4

\* The return of a serviced call is Arrive or nothing in the protocol.
LEMMA ReturnStep ==
  ASSUME IInv, ReturnPrecondition \/ ReturnRead
  PROVE  [Abstract!Next]_Abstract!vars
<1> USE DEF IInv, TypeOK, FlagsOK, DataOK, gateVars
<1>1. /\ pending' = pending /\ grant' = grant /\ InForce' = InForce
      /\ egress' = NoCall
  BY DEF ReturnPrecondition, ReturnRead, Return, AfterRead, InForce
<1>2. CASE egress = NoCall
  BY <1>1, <1>2, InvisibleStep
<1>3. CASE egress # NoCall
  <2>1. LicenceNow' = LicenceNow /\ AskedNow' = AskedNow
    BY <1>1 DEF LicenceNow, AskedNow, ReleasedBy, Covers
  <2>2. QED
    BY <1>1, <1>3, <2>1 DEF Abstract!Next, Abstract!Arrive
<1>4. QED
  BY <1>2, <1>3

\* The confirm gate, driven by the real turn with its cancellations and budget
\* refusals, implements the abstract approval protocol.
THEOREM Refinement == Spec => ImplementsApproval
<1>1. Init => Abstract!Init
  BY DEF Init, Abstract!Init, AskedNow, LicenceNow, InForce, NoPending
<1>2. ASSUME IInv, IInv', [Next]_vars
      PROVE  [Abstract!Next]_Abstract!vars
  <2> USE DEF IInv, TypeOK, FlagsOK, DataOK, InForce, gateVars, histVars
  <2>1. ASSUME NEW u \in Utterances, NewTurn(u)
        PROVE  [Abstract!Next]_Abstract!vars
    BY <2>1 DEF NewTurn, Arm, Abstract!vars, AskedNow, LicenceNow
  <2>2. CASE StopTurn
    BY <2>2, <1>2, StopStep
  <2>3. CASE BeginPass
    BY <2>3, <1>2, LookStep
  <2>4. ASSUME NEW p \in Calls \cup {NoCall}, NEW r \in Calls \cup {NoCall},
               NEW w \in BOOLEAN, StreamCompletes(p, r, w)
        PROVE  [Abstract!Next]_Abstract!vars
    <3>1. pending' = pending /\ grant' = grant /\ egress' = egress /\ InForce' = InForce
      BY <2>4 DEF StreamCompletes
    <3>2. QED
      BY <3>1, InvisibleStep
  <2>5. CASE ServicePrecondition
    BY <2>5, <1>2, SlotStep DEF ServicePrecondition, Positions
  <2>6. CASE ServiceRead
    BY <2>6, <1>2, SlotStep DEF ServiceRead, AfterRead, Positions
  <2>7. CASE ReturnPrecondition \/ ReturnRead
    BY <2>7, <1>2, ReturnStep
  <2>8. CASE SandboxReturns \/ Spoke \/ HandOver
    <3>1. pending' = pending /\ grant' = grant /\ egress' = egress /\ InForce' = InForce
      BY <2>8 DEF SandboxReturns, Spoke, HandOver
    <3>2. QED
      BY <3>1, InvisibleStep
  <2>9. CASE NextPass
    <3>1. pending' = pending /\ grant' = grant /\ egress' = egress /\ InForce' = InForce
      BY <2>9 DEF NextPass
    <3>2. QED
      BY <3>1, InvisibleStep
  <2>10. CASE UNCHANGED vars
    <3>1. pending' = pending /\ grant' = grant /\ egress' = egress /\ InForce' = InForce
      BY <2>10 DEF vars, turnVars
    <3>2. QED
      BY <3>1, InvisibleStep
  <2>11. QED
    BY <1>2, <2>1, <2>2, <2>3, <2>4, <2>5, <2>6, <2>7, <2>8, <2>9, <2>10
    DEF Next, RefuseForBudget, StreamEndsEarly, EndTurn, Cancel
<1>3. QED
  BY <1>1, <1>2, Invariance, PTL DEF Spec, ImplementsApproval, Abstract!Spec
=============================================================================
