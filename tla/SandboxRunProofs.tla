------------------------- MODULE SandboxRunProofs -------------------------
(***************************************************************************)
(* Proofs about SandboxRun, for every number of containers, runs, passes   *)
(* and hook threads.  The inductive invariant follows the create command:  *)
(* while it is with the daemon the run it belongs to has not moved on, or  *)
(* was cut; and it follows the rm: once it was served, nothing is left.    *)
(***************************************************************************)
EXTENDS SandboxRun, TLAPS

Left == {"created", "running", "exited"}

\* A container can still come into being only in the run that creates it.
CreateInv ==
  \A c \in Containers :
    <<"create", c>> \in requests => c \in excused \/ (c = name /\ pc = "create")

\* The rm that was answered removed the container, or failed.
ReapInv ==
  pc = "reap" /\ Answered("rm") => name \in excused \/ box[name] \notin Left

RunInv == CreateInv /\ ReapInv /\ NothingIsLeft

\* A run in progress has a container, and one that is announced was created.
PlaceInv == pc \in InRun => name \in Containers

IInv == TypeOK /\ PlaceInv /\ RunInv

USE SandboxAssumption, NoneAssumption
USE DEF InRun, Positions, Commands, Requests, BoxStates, turnVars

-----------------------------------------------------------------------------
(* Types *)

LEMMA IssuedTypes ==
  ASSUME requests \subseteq Requests, NEW command \in Commands, NEW c \in Containers
  PROVE  requests \cup {<<command, c>>} \subseteq Requests
OBVIOUS

\* Each docker command leaves a container in one of its states.
LEMMA AfterTypes ==
  ASSUME NEW command \in Commands, NEW state \in BoxStates
  PROVE  After(command, state) \in BoxStates
BY DEF After

\* The reap keeps the types of what it changes.
LEMMA ReapTypes ==
  ASSUME TypeOK, PlaceInv, pc \in InRun, Reap, exc' \in {"no", "error", "cancelled"}
  PROVE  /\ pc' \in {"reap", "idle", "turn"}
         /\ requests' \subseteq Requests /\ excused' \subseteq Containers
BY IssuedTypes DEF TypeOK, PlaceInv, Reap, Issued

\* So do the steps that a cancellation is part of.
LEMMA CancelledTypes ==
  ASSUME TypeOK, PlaceInv, Cancelled
  PROVE  /\ pc' \in {"reap", "idle", "turn"} /\ exc' \in {"no", "error", "cancelled"}
         /\ active' \in Containers \cup {None}
         /\ requests' \subseteq Requests /\ excused' \subseteq Containers
<1>1. CASE pc \in {"turn", "create", "reap"}
  BY <1>1 DEF Cancelled, TypeOK, PlaceInv
<1>2. CASE pc \in {"write", "read", "kill", "drain"}
  <2>1. Leaves("cancelled")
    BY <1>2 DEF Cancelled
  <2>2. QED
    BY <1>2, <2>1, ReapTypes DEF Leaves
<1> QED
  BY <1>1, <1>2 DEF Cancelled

\* Every variable keeps its type, and a run its container.
LEMMA TypeStep == TypeOK /\ PlaceInv /\ [Next]_vars => TypeOK' /\ PlaceInv'
<1> SUFFICES ASSUME TypeOK, PlaceInv, [Next]_vars PROVE TypeOK' /\ PlaceInv'
  OBVIOUS
<1> USE DEF TypeOK, PlaceInv
<1>1. CASE NewTurn \/ TurnEnds
  <2>1. bound' \in BOOLEAN
    BY <1>1, Zenon DEF NewTurn, TurnEnds
  <2>2. QED
    BY <1>1, <2>1 DEF NewTurn, TurnEnds
<1>2. CASE RefusedByGate \/ RefusedByRunner
  BY <1>2 DEF RefusedByGate, RefusedByRunner, Asks, Allows
<1>3. CASE CreateIssued
  <2>1. PICK c \in Fresh : name' = c /\ Issued("create", c)
    BY <1>3 DEF CreateIssued
  <2>2. c \in Containers
    BY DEF Fresh
  <2>3. requests' \subseteq Requests
    BY <2>1, <2>2, IssuedTypes DEF Issued
  <2>4. QED
    BY <1>3, <2>1, <2>2, <2>3 DEF CreateIssued, Asks, Allows
<1>4. CASE CreateFails
  BY <1>4, ReapTypes DEF CreateFails
<1>5. CASE CreateReturns
  BY <1>5, IssuedTypes DEF CreateReturns, Issued
<1>6. CASE RunEnds \/ RunRaises
  BY <1>6, ReapTypes DEF RunEnds, RunRaises, Leaves
<1>7. CASE RunTimesOut
  BY <1>7, IssuedTypes DEF RunTimesOut, Issued
<1>8. CASE KillReturns \/ ReapReturns \/ Written
  BY <1>8 DEF KillReturns, ReapReturns, Written
<1>9. CASE SessionBound \/ InterruptReturns
  <2>1. bound' \in BOOLEAN
    BY <1>9, Zenon DEF SessionBound, InterruptReturns
  <2>2. /\ pc' \in {"reap", "idle", "turn"} /\ exc' \in {"no", "error", "cancelled"}
        /\ active' \in Containers \cup {None}
        /\ requests' \subseteq Requests /\ excused' \subseteq Containers
    BY <1>9, CancelledTypes DEF SessionBound, InterruptReturns
  <2>3. /\ UNCHANGED <<passes, runs, name, hooks, box>>
        /\ barge' \in {"no", "fired", "done"}
    BY <1>9 DEF SessionBound, InterruptReturns
  <2>4. name \in Containers \/ pc' # "reap"
    BY <1>9 DEF SessionBound, InterruptReturns, Cancelled, Leaves, Reap
  <2>5. QED
    BY <2>1, <2>2, <2>3, <2>4
<1>10. CASE Interrupt
  BY <1>10 DEF Interrupt
<1>11. CASE HookRuns
  BY <1>11, IssuedTypes DEF HookRuns
<1>12. ASSUME NEW r \in Requests, Serve(r) PROVE TypeOK' /\ PlaceInv'
  BY <1>12, AfterTypes DEF Serve
<1>13. ASSUME NEW r \in Requests, ServeFails(r) PROVE TypeOK' /\ PlaceInv'
  BY <1>13 DEF ServeFails
<1>14. ASSUME NEW c \in Containers, ProgramEnds(c) PROVE TypeOK' /\ PlaceInv'
  BY <1>14 DEF ProgramEnds
<1>15. CASE UNCHANGED vars
  BY <1>15 DEF vars
<1> QED
  BY <1>1, <1>2, <1>3, <1>4, <1>5, <1>6, <1>7, <1>8, <1>9, <1>10, <1>11, <1>12,
     <1>13, <1>14, <1>15 DEF Next, RunStep

-----------------------------------------------------------------------------
(* The containers *)

\* The rm is issued and a wait begins, or the container is excused: either way
\* nothing is left unaccounted for.
LEMMA ReapRuns ==
  ASSUME TypeOK, PlaceInv, CreateInv, NothingIsLeft, pc \in InRun, Reap,
         pc = "create" => Answered("create"), name' = name, box' = box
  PROVE  RunInv'
<1> USE DEF TypeOK, PlaceInv, CreateInv, NothingIsLeft, RunInv, ReapInv, Answered, Left
<1>1. CASE Issued("rm", name) /\ pc' = "reap" /\ UNCHANGED excused
  BY <1>1 DEF Issued
<1>2. CASE /\ pc' = (IF exc' = "cancelled" THEN "idle" ELSE "turn")
           /\ excused' = excused \cup {name} /\ UNCHANGED requests
  BY <1>2
<1> QED
  BY <1>1, <1>2 DEF Reap

\* A cancellation leaves a container to its reap, or excuses it.
LEMMA CancelRuns ==
  ASSUME TypeOK, PlaceInv, RunInv, Cancelled, name' = name, box' = box
  PROVE  RunInv'
<1>1. CASE pc \in {"turn", "create", "reap"}
  BY <1>1 DEF Cancelled, TypeOK, PlaceInv, RunInv, CreateInv, ReapInv, NothingIsLeft,
              Answered, Left
<1>2. CASE pc \in {"write", "read", "kill", "drain"}
  <2>1. Leaves("cancelled")
    BY <1>2 DEF Cancelled
  <2>2. QED
    BY <1>2, <2>1, ReapRuns DEF Leaves, RunInv
<1> QED
  BY <1>1, <1>2 DEF Cancelled

\* What the daemon does to a container, by its command and its state.
LEMMA AfterRuns ==
  ASSUME NEW command \in Commands, NEW state \in BoxStates
  PROVE  /\ After(command, state) \in Left =>
              state \in Left \/ (command = "create" /\ state = "none")
         /\ command = "rm" => After(command, state) \notin Left
BY DEF After, Left

\* The containers keep their account in every step.
LEMMA RunStays ==
  TypeOK /\ PlaceInv /\ RunInv /\ [Next]_vars => RunInv'
<1> SUFFICES ASSUME TypeOK, PlaceInv, RunInv, [Next]_vars PROVE RunInv'
  OBVIOUS
<1> USE DEF TypeOK, PlaceInv, RunInv, CreateInv, ReapInv, NothingIsLeft, Answered
<1>1. CASE NewTurn \/ TurnEnds \/ RefusedByGate \/ RefusedByRunner
  BY <1>1 DEF NewTurn, TurnEnds, RefusedByGate, RefusedByRunner, Asks
<1>2. CASE CreateIssued
  <2>1. PICK c \in Fresh : name' = c /\ Issued("create", c)
    BY <1>2 DEF CreateIssued
  <2>2. c \in Containers /\ box[c] = "none"
    BY DEF Fresh
  <2>3. pc = "turn" /\ pc' = "create" /\ box' = box /\ excused' = excused
    BY <1>2 DEF CreateIssued, Asks
  <2>4. QED
    BY <2>1, <2>2, <2>3 DEF Issued
<1>3. CASE CreateFails
  BY <1>3, ReapRuns DEF CreateFails
<1>4. CASE CreateReturns
  BY <1>4 DEF CreateReturns, Issued
<1>5. CASE RunEnds \/ RunRaises
  BY <1>5, ReapRuns DEF RunEnds, RunRaises, Leaves
<1>6. CASE RunTimesOut
  BY <1>6 DEF RunTimesOut, Issued
<1>7. CASE KillReturns \/ Written
  BY <1>7 DEF KillReturns, Written
<1>8. CASE ReapReturns
  BY <1>8 DEF ReapReturns, Left
<1>9. CASE SessionBound \/ InterruptReturns
  BY <1>9, CancelRuns DEF SessionBound, InterruptReturns
<1>10. CASE Interrupt \/ HookRuns
  BY <1>10 DEF Interrupt, HookRuns
<1>11. ASSUME NEW r \in Requests, Serve(r) PROVE RunInv'
  <2>1. PICK command \in Commands, c \in Containers : r = <<command, c>>
    OBVIOUS
  <2>2. /\ <<command, c>> \in requests /\ requests' = requests \ {<<command, c>>}
        /\ box' = [box EXCEPT ![c] = After(command, box[c])]
        /\ UNCHANGED <<turnVars, excused>>
    BY <1>11, <2>1 DEF Serve
  <2>3. CreateInv'
    BY <2>2
  <2>4. NothingIsLeft'
    BY <2>1, <2>2, AfterRuns DEF Left
  <2>5. ReapInv'
    BY <2>1, <2>2, AfterRuns DEF Left
  <2>6. QED
    BY <2>3, <2>4, <2>5
<1>12. ASSUME NEW r \in Requests, ServeFails(r) PROVE RunInv'
  <2>1. PICK command \in Commands, c \in Containers : r = <<command, c>>
    OBVIOUS
  <2>2. /\ requests' = requests \ {<<command, c>>}
        /\ excused' = IF command = "rm" THEN excused \cup {c} ELSE excused
        /\ UNCHANGED <<turnVars, box>>
    BY <1>12, <2>1 DEF ServeFails
  <2>3. QED
    BY <2>1, <2>2
<1>13. ASSUME NEW c \in Containers, ProgramEnds(c) PROVE RunInv'
  BY <1>13 DEF ProgramEnds, Left
<1>14. CASE UNCHANGED vars
  BY <1>14 DEF vars
<1> QED
  BY <1>1, <1>2, <1>3, <1>4, <1>5, <1>6, <1>7, <1>8, <1>9, <1>10, <1>11, <1>12,
     <1>13, <1>14 DEF Next, RunStep

-----------------------------------------------------------------------------
(* Theorems *)

\* The inductive invariant holds in every reachable state.
THEOREM SandboxInvariant == Spec => []IInv
<1>1. Init => IInv
  <2>1. Init => bound \in BOOLEAN
    BY Zenon DEF Init
  <2>2. QED
    BY <2>1 DEF Init, IInv, TypeOK, PlaceInv, RunInv, CreateInv, ReapInv, NothingIsLeft,
                Left
<1>2. IInv /\ [Next]_vars => IInv'
  BY TypeStep, RunStays DEF IInv
<1>3. QED
  BY <1>1, <1>2, PTL DEF Spec

\* Type correctness: the run limit of a turn is never passed (SandboxGate.consume)
\* and only containers that a run made are announced.
THEOREM SandboxTypes == Spec => []TypeOK
<1>1. IInv => TypeOK
  BY DEF IInv
<1>2. QED
  BY <1>1, SandboxInvariant, PTL

\* No cancellation, timeout, failed command or hook, in any order, leaves a
\* container behind a run that is over, unless its removal failed or was cut, or
\* its creation was (SandboxRunner._lifecycle and its finally).
THEOREM NothingIsEverLeft == Spec => []NothingIsLeft
<1>1. IInv => NothingIsLeft
  BY DEF IInv, RunInv
<1>2. QED
  BY <1>1, SandboxInvariant, PTL
=============================================================================
