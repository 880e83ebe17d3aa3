----------------------------- MODULE SandboxRun -----------------------------
(***************************************************************************)
(* The life of a sandbox container: SandboxRunner (sandbox_exec/runner.py) *)
(* under the run limit of a turn (sandbox_gate.py, service.py), the        *)
(* barge-in hooks, each on a thread of its own (kernel/interrupt_hooks.py),*)
(* the session bound, cancellations and a docker that fails.               *)
(*                                                                         *)
(* The coroutine awaits docker commands; the daemon serves them in any     *)
(* order and any of them may fail.  A cancellation abandons the await, not *)
(* the command: it stays with the daemon.                                  *)
(***************************************************************************)
EXTENDS Naturals, FiniteSets

CONSTANTS
  MaxRuns,        \* MAX_SANDBOX_RUNS
  MaxPasses,      \* passes of a turn that may ask for a run
  MaxHooks,       \* bound: hook threads that have not read _active yet
  Containers      \* bound: the container names of a behaviour

ASSUME SandboxAssumption ==
  /\ MaxRuns \in Nat \ {0} /\ MaxPasses \in Nat \ {0} /\ MaxHooks \in Nat
  /\ IsFiniteSet(Containers)

CONSTANT None
ASSUME NoneAssumption == None \notin Containers

VARIABLES
  (* the turn's coroutine *)
  pc,             \* where it is
  passes,         \* passes of this turn that have asked for a run
  runs,           \* SandboxGate.runs
  name,           \* the container of the run in progress
  exc,            \* an exception waits for the reap: "no", "error", "cancelled"
  bound,          \* the session bound has expired in this turn
  barge,          \* "no", "fired" (interrupt_turn is under way) or "done"
  (* what it drives *)
  active,         \* SandboxService._active
  hooks,          \* hook threads that have not read _active yet
  requests,       \* docker commands issued and not served
  box,            \* the state of each container
  (* history, read by the properties only *)
  excused         \* the command that should have removed it was lost or cut

turnVars == <<pc, passes, runs, name, exc, bound, barge>>
vars     == <<turnVars, active, hooks, requests, box, excused>>

InRun     == {"create", "write", "read", "kill", "drain", "reap"}
Positions == InRun \cup {"idle", "turn"}

Commands == {"create", "start", "kill", "rm"}
Requests == Commands \X Containers
BoxStates == {"none", "created", "running", "exited", "removed"}

\* The state has the types of the fields it stands for.
TypeOK ==
  /\ pc \in Positions /\ passes \in 0 .. MaxPasses /\ runs \in 0 .. MaxRuns
  /\ name \in Containers \cup {None} /\ active \in Containers \cup {None}
  /\ exc \in {"no", "error", "cancelled"} /\ bound \in BOOLEAN
  /\ barge \in {"no", "fired", "done"}
  /\ hooks \in 0 .. MaxHooks /\ requests \subseteq Requests
  /\ box \in [Containers -> BoxStates]
  /\ excused \subseteq Containers

Init ==
  /\ pc = "idle" /\ passes = 0 /\ runs = 0 /\ name = None /\ exc = "no"
  /\ bound = FALSE /\ barge = "no" /\ active = None /\ hooks = 0
  /\ requests = {} /\ box = [c \in Containers |-> "none"]
  /\ excused = {}

\* new_container_name: never used before.
Fresh == {c \in Containers : box[c] = "none" /\ \A r \in requests : r[2] # c} \ excused

Issued(command, c) == requests' = requests \cup {<<command, c>>}
Answered(command)  == <<command, name>> \notin requests

-----------------------------------------------------------------------------
(* The turn *)

\* run_turn: new_turn_voice resets the gate.
NewTurn ==
  /\ pc = "idle" /\ pc' = "turn"
  /\ passes' = 0 /\ runs' = 0 /\ exc' = "no" /\ bound' = FALSE /\ barge' = "no"
  /\ UNCHANGED <<name, active, hooks, requests, box, excused>>

TurnEnds ==
  /\ pc = "turn" /\ pc' = "idle"
  /\ UNCHANGED <<passes, runs, name, exc, bound, barge, active, hooks, requests,
                 box, excused>>

\* SandboxGate.consume
Allows == runs < MaxRuns

\* A pass asks for a run.
Asks == pc = "turn" /\ passes < MaxPasses /\ passes' = passes + 1

\* The gate refuses, without counting.
RefusedByGate ==
  /\ Asks /\ ~Allows
  /\ UNCHANGED <<pc, runs, name, exc, bound, barge, active, hooks, requests, box,
                 excused>>

\* Unknown language, no code, files too large or refused by the file gate; or
\* docker cannot be spawned: the run is counted and no container exists.
RefusedByRunner ==
  /\ Asks /\ Allows
  /\ runs' = runs + 1
  /\ UNCHANGED <<pc, name, exc, bound, barge, active, hooks, requests, box,
                 excused>>

CreateIssued ==
  /\ Asks /\ Allows
  /\ runs' = runs + 1
  /\ \E c \in Fresh : name' = c /\ Issued("create", c)
  /\ pc' = "create"
  /\ UNCHANGED <<exc, bound, barge, active, hooks, box, excused>>

-----------------------------------------------------------------------------
(* The lifecycle *)

\* The rm of the finally; a docker that cannot be spawned is ignored.
Reap ==
  \/ Issued("rm", name) /\ pc' = "reap" /\ UNCHANGED excused
  \/ pc' = (IF exc' = "cancelled" THEN "idle" ELSE "turn")
     /\ excused' = excused \cup {name} /\ UNCHANGED requests

\* docker create returned non-zero: reaped, never announced.
CreateFails ==
  /\ pc = "create" /\ Answered("create")
  /\ UNCHANGED exc /\ Reap
  /\ UNCHANGED <<passes, runs, name, bound, barge, active, hooks, box>>

\* It returned zero: the container is announced and started.
CreateReturns ==
  /\ pc = "create" /\ Answered("create") /\ box[name] = "created"
  /\ active' = name
  /\ pc' = "write" /\ Issued("start", name)
  /\ UNCHANGED <<passes, runs, name, exc, bound, barge, hooks, box, excused>>

\* The pipe has taken the program and its files.  No clock runs before: docker need
\* not read them.
Written ==
  /\ pc = "write" /\ pc' = "read"
  /\ UNCHANGED <<passes, runs, name, exc, bound, barge, active, hooks, requests,
                 box, excused>>

\* The streams of docker start -ai end when the container does, or when it was
\* never started.
StreamsEnded == Answered("start") /\ box[name] # "running"

\* Mutated form: an exception leaves without the finally.
LeavesUnreaped(why) ==
  /\ exc' = why /\ active' = None
  /\ IF why = "no" THEN Reap
     ELSE pc' = "turn" /\ UNCHANGED <<requests, excused>>

\* The finally of the run: nothing is live, then the reap.
Leaves(why) == exc' = why /\ active' = None /\ Reap

RunEnds ==
  /\ pc \in {"read", "drain"} /\ StreamsEnded
  /\ Leaves("no")
  /\ UNCHANGED <<passes, runs, name, bound, barge, hooks, box>>

\* The wall clock of the run: the container is killed ...
RunTimesOut ==
  /\ pc = "read" /\ pc' = "kill" /\ Issued("kill", name)
  /\ UNCHANGED <<passes, runs, name, exc, bound, barge, active, hooks, box,
                 excused>>

\* ... and its streams are awaited to their end.
KillReturns ==
  /\ pc = "kill" /\ Answered("kill") /\ pc' = "drain"
  /\ UNCHANGED <<passes, runs, name, exc, bound, barge, active, hooks, requests,
                 box, excused>>

\* docker start or docker kill cannot be spawned, or the pipe to it breaks.
RunRaises ==
  /\ pc \in {"write", "read", "kill"}
  /\ Leaves("error")
  /\ UNCHANGED <<passes, runs, name, bound, barge, hooks, box>>

ReapReturns ==
  /\ pc = "reap" /\ Answered("rm")
  /\ pc' = IF exc = "cancelled" THEN "idle" ELSE "turn"
  /\ UNCHANGED <<passes, runs, name, exc, bound, barge, active, hooks, requests,
                 box, excused>>

-----------------------------------------------------------------------------
(* Cancellation *)

\* task.cancel() at an await: a running container is reaped on the way out; an
\* await of create or of rm is simply left.
Cancelled ==
  \/ /\ pc = "turn" /\ pc' = "idle"
     /\ UNCHANGED <<exc, active, requests, excused>>
  \/ /\ pc \in {"create", "reap"} /\ pc' = "idle"
     /\ excused' = excused \cup {name}
     /\ UNCHANGED <<exc, active, requests>>
  \/ /\ pc \in {"write", "read", "kill", "drain"}
     /\ Leaves("cancelled")

SessionBound ==
  /\ pc # "idle" /\ ~bound /\ bound' = TRUE
  /\ Cancelled
  /\ UNCHANGED <<passes, runs, name, barge, hooks, box>>

\* interrupt_turn starts: each hook gets a thread.
Interrupt ==
  /\ pc # "idle" /\ barge = "no" /\ barge' = "fired"
  /\ hooks < MaxHooks /\ hooks' = hooks + 1
  /\ UNCHANGED <<pc, passes, runs, name, exc, bound, active, requests, box,
                 excused>>

\* ... and returns: the turn's task is cancelled.
InterruptReturns ==
  /\ pc # "idle" /\ barge = "fired" /\ barge' = "done"
  /\ Cancelled
  /\ UNCHANGED <<passes, runs, name, bound, hooks, box>>

\* kill_active, on a hook's thread.
HookRuns ==
  /\ hooks > 0 /\ hooks' = hooks - 1
  /\ requests' = IF active = None THEN requests
                 ELSE requests \cup {<<"kill", active>>}
  /\ UNCHANGED <<turnVars, active, box, excused>>

-----------------------------------------------------------------------------
(* The daemon *)

After(command, state) ==
  CASE command = "create" /\ state = "none"     -> "created"
    [] command = "start" /\ state = "created"   -> "running"
    [] command = "kill" /\ state = "running"    -> "exited"
    [] command = "rm" /\ state # "none"         -> "removed"
    [] OTHER                                    -> state

Serve(r) ==
  /\ r \in requests /\ requests' = requests \ {r}
  /\ box' = [box EXCEPT ![r[2]] = After(r[1], @)]
  /\ UNCHANGED <<turnVars, active, hooks, excused>>

\* A command fails, or its client is gone before it reached the daemon.
ServeFails(r) ==
  /\ r \in requests /\ requests' = requests \ {r}
  /\ excused' = IF r[1] = "rm" THEN excused \cup {r[2]} ELSE excused
  /\ UNCHANGED <<turnVars, active, hooks, box>>

\* The program ends by itself; it need not.
ProgramEnds(c) ==
  /\ box[c] = "running"
  /\ box' = [box EXCEPT ![c] = "exited"]
  /\ UNCHANGED <<turnVars, active, hooks, requests, excused>>

-----------------------------------------------------------------------------

RunStep ==
  \/ CreateFails \/ CreateReturns \/ RunEnds \/ RunTimesOut
  \/ KillReturns \/ ReapReturns

Next ==
  \/ NewTurn \/ TurnEnds
  \/ RefusedByGate \/ RefusedByRunner \/ CreateIssued
  \/ RunStep \/ Written \/ RunRaises
  \/ SessionBound \/ Interrupt \/ InterruptReturns \/ HookRuns
  \/ \E r \in Requests : Serve(r) \/ ServeFails(r)
  \/ \E c \in Containers : ProgramEnds(c)

\* The wall clocks fire, the daemon answers, and the coroutine goes on; no program
\* ever has to end, no docker to read what it is sent, and no user to interrupt.
Fairness ==
  /\ WF_vars(RunStep)
  /\ WF_vars(SessionBound) /\ WF_vars(InterruptReturns)
  /\ \A r \in Requests : WF_vars(Serve(r) \/ ServeFails(r))

Spec == Init /\ [][Next]_vars /\ Fairness

-----------------------------------------------------------------------------
(* Properties *)

\* When no run is in progress, docker holds nothing of the runs that were: no
\* cancellation, timeout or failure leaves a container, except where the
\* removal itself failed or was cut, or the creation was.
NothingIsLeft ==
  \A c \in Containers :
    box[c] \in {"created", "running", "exited"} =>
      c \in excused \/ (c = name /\ pc \in InRun)

\* Every run returns, whatever the program does and whether or not it can be
\* killed, so that the tool call is answered or its turn is over; and no
\* program outlives its run for good: it ends, or its removal failed.
RunsAndProgramsEnd ==
  /\ pc \in InRun ~> pc \notin InRun
  /\ \A c \in Containers : box[c] = "running" ~> box[c] # "running" \/ c \in excused
=============================================================================
