------------------------------ MODULE McpHost ------------------------------
(***************************************************************************)
(* One external plugin: McpHost (broker/mcp/host.py) with its strikes and  *)
(* its quarantine, and its sessions (client.py), each a child process with *)
(* a reader task on the stdout of the process.                             *)
(*                                                                         *)
(* A turn services one call at a time; the reader of every session that    *)
(* was ever started runs beside it on the same event loop.  A server says  *)
(* what it likes, when it likes, and may die at any time.  The requests of *)
(* a session are numbered, and a call awaits the last one of its session.  *)
(***************************************************************************)
EXTENDS Naturals, FiniteSets

CONSTANTS
  Procs,        \* child processes at one time: bounds the orphans
  MaxStrikes,   \* MAX_STRIKES
  MaxAsked,     \* requests of one session, a bound of the model
  NoProc

ASSUME McpAssumption ==
  MaxStrikes \in Nat \ {0} /\ MaxAsked \in Nat \ {0, 1} /\ NoProc \notin Procs

VARIABLES
  (* _ServerState *)
  mounted,      \* "no", "yes", "skipped", or "down": the application is torn down
  session, strikes, disabled, quarantined,
  announced,    \* how often the user was told that the plugin is disabled
  (* the call, or the fetch of the catalog, in progress *)
  pc,           \* "idle", or what it awaits: a write or an answer
  at,           \* its session
  got,          \* its future: a result, an error, or an exception
  (* the sessions *)
  state,        \* "free", "up", "dead": the child process
  reader,       \* "off", "on", or "bridge": it serves a request of the server
  asked,        \* _next_id
  unanswered,   \* what the server was asked and has not answered
  closing,      \* close tasks that have not run
  spinning      \* a reader that never gives the loop back

hostVars == <<mounted, session, strikes, disabled, quarantined, announced>>
callVars == <<pc, at, got>>
procVars == <<state, reader, asked, unanswered, closing>>
mcpVars     == <<hostVars, callVars, procVars, spinning>>

RequestIds == 1 .. MaxAsked

\* What a call goes through: "initialize" is sent and answered, "initialized" is sent,
\* and the request is sent and answered.
Writes == {"opening", "greeting", "writing"}
Awaits == {"handshake", "answer"}

\* The state has the types of the fields it stands for.
McpTypeOK ==
  /\ mounted \in {"no", "yes", "skipped", "down"}
  /\ session \in Procs \cup {NoProc} /\ strikes \in 0 .. MaxStrikes
  /\ disabled \in BOOLEAN /\ quarantined \in BOOLEAN /\ spinning \in BOOLEAN
  /\ announced \in 0 .. 1
  /\ pc \in {"idle"} \cup Writes \cup Awaits
  /\ at \in Procs \cup {NoProc} /\ (at = NoProc <=> pc = "idle")
  /\ got \in [what : {"none", "result", "error", "exception"}, id : RequestIds \cup {0}]
  /\ state \in [Procs -> {"free", "up", "dead"}]
  /\ reader \in [Procs -> {"off", "on", "bridge"}]
  /\ asked \in [Procs -> 0 .. MaxAsked] /\ unanswered \in [Procs -> SUBSET RequestIds]
  /\ closing \subseteq Procs

Nothing == [what |-> "none", id |-> 0]

McpInit ==
  /\ mounted = "no" /\ session = NoProc /\ strikes = 0 /\ disabled = FALSE
  /\ quarantined = FALSE /\ announced = 0
  /\ pc = "idle" /\ at = NoProc /\ got = Nothing
  /\ state = [p \in Procs |-> "free"] /\ reader = [p \in Procs |-> "off"]
  /\ asked = [p \in Procs |-> 0] /\ unanswered = [p \in Procs |-> {}]
  /\ closing = {} /\ spinning = FALSE

-----------------------------------------------------------------------------
(* The end of a call *)

Idle == pc' = "idle" /\ at' = NoProc /\ got' = Nothing

\* The catalog is fetched before the mount, tools are called after it.
kind == IF mounted = "no" THEN "list" ELSE "tool"

\* McpSession.close: the reader is cancelled, the process terminated or killed.
Closed(ps) ==
  /\ state'  = [p \in Procs |-> IF p \in ps THEN "free" ELSE state[p]]
  /\ reader' = [p \in Procs |-> IF p \in ps THEN "off" ELSE reader[p]]
  /\ asked'  = [p \in Procs |-> IF p \in ps THEN 0 ELSE asked[p]]
  /\ unanswered' = [p \in Procs |-> IF p \in ps THEN {} ELSE unanswered[p]]

\* _strike: the session is dropped, a task closes it, and the last strike
\* disables the plugin aloud.
Strike ==
  /\ strikes' = strikes + 1
  /\ disabled' = (strikes' >= MaxStrikes)
  /\ announced' = announced + (IF disabled' THEN 1 ELSE 0)
  /\ closing' = IF session = NoProc THEN closing ELSE closing \cup {session}
  /\ session' = NoProc
  /\ UNCHANGED <<mounted, quarantined>>

\* mount_all skips a server whose catalog fails; what _fetch_catalog had opened is
\* closed, unless it is warm.
Skip(ps) ==
  /\ mounted' = "skipped" /\ session' = NoProc
  /\ Closed(ps) /\ UNCHANGED closing
  /\ UNCHANGED <<strikes, disabled, quarantined, announced>>

\* The call raises McpSessionError, its session closed before (ps) or not.
Fails(ps) ==
  /\ Idle
  /\ \/ kind = "tool" /\ Strike /\ Closed(ps)
     \/ kind = "list" /\ Skip(ps)
     \/ kind = "list" /\ pc = "answer" /\ Skip(ps \cup {at})
  /\ UNCHANGED spinning

\* Any other exception: the router makes a note of it and nothing else changes; at
\* the mount it ends the start of the application.
Escapes ==
  /\ Idle
  /\ mounted' = IF kind = "list" THEN "down" ELSE mounted
  /\ \/ UNCHANGED <<session, procVars>>
     \/ /\ kind = "list" /\ pc = "writing" /\ session' = NoProc
        /\ Closed({at}) /\ UNCHANGED closing
  /\ UNCHANGED <<strikes, disabled, quarantined, announced, spinning>>

-----------------------------------------------------------------------------
(* A call *)

Request(p, stage) ==
  /\ pc' = stage /\ at' = p /\ got' = Nothing
  /\ asked' = [asked EXCEPT ![p] = @ + 1]
  /\ unanswered' = [unanswered EXCEPT ![p] = @ \cup {asked[p] + 1}]

\* Mutated form: a server in quarantine is called.
MayCallDespiteQuarantine == mounted = "no" \/ (mounted = "yes" /\ ~disabled)

\* mount_all fetches the catalog; _call lets no call of a disabled or quarantined
\* server through.
MayCall == mounted = "no" \/ (mounted = "yes" /\ ~disabled /\ ~quarantined)

\* start: the process, its reader, and the handshake.
Spawns(p) ==
  /\ ~spinning /\ pc = "idle" /\ session = NoProc /\ state[p] = "free"
  /\ MayCall
  /\ state' = [state EXCEPT ![p] = "up"] /\ reader' = [reader EXCEPT ![p] = "on"]
  /\ Request(p, "opening")
  /\ UNCHANGED <<hostVars, closing, spinning>>

SpawnFails == ~spinning /\ pc = "idle" /\ session = NoProc /\ MayCall /\ Fails({})

\* The session of the last call is used again.
CallsOn(p) ==
  /\ ~spinning /\ pc = "idle" /\ session = p /\ asked[p] < MaxAsked
  /\ MayCall /\ Request(p, "writing")
  /\ UNCHANGED <<hostVars, state, reader, closing, spinning>>

\* The pipe has taken what was sent.  No clock runs before: a server that does not
\* read holds the write up.  After the greeting the session is the server's, and the
\* request is sent.
Written ==
  /\ ~spinning
  /\ \/ /\ \/ pc = "opening" /\ pc' = "handshake"
           \/ pc = "writing" /\ pc' = "answer"
        /\ UNCHANGED <<session, at, got, asked, unanswered>>
     \/ pc = "greeting" /\ session' = at /\ Request(at, "writing")
  /\ UNCHANGED <<mounted, strikes, disabled, quarantined, announced, state, reader,
                 closing, spinning>>

\* The process is dead, and its pipe refuses what is sent.
NotWritten == ~spinning /\ pc \in Writes /\ state[at] = "dead" /\ Escapes

HandshakeEnds ==
  /\ ~spinning /\ pc = "handshake" /\ got.what = "result"
  /\ pc' = "greeting" /\ got' = Nothing
  /\ UNCHANGED <<hostVars, at, procVars, spinning>>

\* A protocol version we do not speak: closed.
VersionRefused ==
  /\ ~spinning /\ pc = "handshake" /\ got.what = "result"
  /\ Fails({at})

\* An answer ends a row of strikes.  After the catalog a session is kept if the
\* plugin is warm.
Answered ==
  /\ ~spinning /\ pc = "answer" /\ got.what = "result"
  /\ Idle
  /\ \/ /\ kind = "tool" /\ strikes' = 0
        /\ UNCHANGED <<mounted, session, procVars>>
     \/ /\ kind = "list" /\ mounted' = "yes"
        /\ UNCHANGED <<session, strikes, procVars>>
     \/ /\ kind = "list" /\ mounted' = "yes" /\ session' = NoProc
        /\ Closed({at}) /\ UNCHANGED <<strikes, closing>>
  /\ UNCHANGED <<disabled, quarantined, announced, spinning>>

CallFails ==
  /\ ~spinning /\ pc \in Awaits /\ got.what \in {"error", "exception"}
  /\ Fails({})

\* Mutated form: only a tool call is timed.
TimesOutAfterHandshake ==
  /\ ~spinning /\ pc = "answer" /\ got = Nothing
  /\ Fails({})

TimesOut ==
  /\ ~spinning /\ pc \in Awaits /\ got = Nothing
  /\ Fails({})

\* The turn is cut.
Cut ==
  /\ ~spinning /\ pc # "idle" /\ kind = "tool"
  /\ Idle
  /\ UNCHANGED <<hostVars, procVars, spinning>>

\* shutdown: only the session in use is closed.
Shutdown ==
  /\ ~spinning /\ mounted \in {"yes", "skipped"} /\ mounted' = "down"
  /\ Idle /\ session' = NoProc
  /\ Closed(IF mounted = "yes" /\ session # NoProc THEN {session} ELSE {})
  /\ UNCHANGED <<strikes, disabled, quarantined, announced, closing, spinning>>

CloseRuns(p) ==
  /\ ~spinning /\ p \in closing /\ closing' = closing \ {p}
  /\ Closed({p})
  /\ UNCHANGED <<hostVars, callVars, spinning>>

-----------------------------------------------------------------------------
(* The server and its reader *)

\* The future of a call is in _pending, from before its request is sent.
InFlight(p) == at = p /\ pc # "greeting" /\ got = Nothing

\* _fail_pending: the future of a call in flight gets an exception.
FailPending(p) ==
  got' = IF InFlight(p) THEN [what |-> "exception", id |-> asked[p]] ELSE got

Dies(p) ==
  /\ state[p] = "up" /\ state' = [state EXCEPT ![p] = "dead"]
  /\ UNCHANGED <<hostVars, callVars, reader, asked, unanswered, closing, spinning>>

\* Mutated form: any response settles what is pending.
ForTheCallOfAny(p, id) == InFlight(p)

ForTheCall(p, id) == InFlight(p) /\ id = asked[p]

\* A response settles the future of its id, if there is one; an answer that comes
\* after its call timed out or was cut has none.
Responds(p, id) ==
  /\ ~spinning /\ state[p] = "up" /\ reader[p] = "on" /\ id \in unanswered[p]
  /\ unanswered' = [unanswered EXCEPT ![p] = @ \ {id}]
  /\ IF ForTheCall(p, id)
     THEN \E what \in {"result", "error"} : got' = [what |-> what, id |-> id]
     ELSE UNCHANGED got
  /\ UNCHANGED <<hostVars, pc, at, state, reader, asked, closing, spinning>>

\* notifications/tools/list_changed, of this session or of one left behind.
ListChanged(p) ==
  /\ ~spinning /\ state[p] = "up" /\ reader[p] = "on" /\ ~quarantined
  /\ quarantined' = TRUE
  /\ UNCHANGED <<mounted, session, strikes, disabled, announced, callVars, procVars,
                 spinning>>

\* The reader ends at the end of the stream, and at a line that is not UTF-8.
ReaderEnds(p) ==
  /\ ~spinning /\ reader[p] = "on"
  /\ reader' = [reader EXCEPT ![p] = "off"] /\ FailPending(p)
  /\ UNCHANGED <<hostVars, pc, at, state, asked, unanswered, closing, spinning>>

\* A line over the limit of the stream is refused and stays in its buffer, where
\* the reader finds it again without an await.
LineTooLong(p) ==
  /\ ~spinning /\ state[p] = "up" /\ reader[p] = "on" /\ spinning' = TRUE
  /\ UNCHANGED <<hostVars, callVars, procVars>>

\* A request of the server is served by the reader itself, through the bridge.
BridgeBegins(p) ==
  /\ ~spinning /\ state[p] = "up" /\ reader[p] = "on"
  /\ reader' = [reader EXCEPT ![p] = "bridge"]
  /\ UNCHANGED <<hostVars, callVars, state, asked, unanswered, closing, spinning>>

\* A dead pipe takes neither the result nor the error, and ends the reader.
BridgeEnds(p) ==
  /\ ~spinning /\ reader[p] = "bridge"
  /\ \/ reader' = [reader EXCEPT ![p] = "on"] /\ UNCHANGED got
     \/ /\ state[p] = "dead"
        /\ reader' = [reader EXCEPT ![p] = "off"] /\ FailPending(p)
  /\ UNCHANGED <<hostVars, pc, at, state, asked, unanswered, closing, spinning>>

-----------------------------------------------------------------------------

CallStep ==
  \/ NotWritten \/ HandshakeEnds \/ VersionRefused
  \/ Answered \/ CallFails \/ TimesOut

McpNext ==
  \/ SpawnFails \/ Written \/ CallStep \/ Cut \/ Shutdown
  \/ \E p \in Procs :
       \/ Spawns(p) \/ CallsOn(p) \/ CloseRuns(p)
       \/ Dies(p) \/ ReaderEnds(p) \/ ListChanged(p) \/ LineTooLong(p)
       \/ BridgeBegins(p) \/ BridgeEnds(p)
       \/ \E id \in RequestIds : Responds(p, id)

\* A call that can go on does, and the clock runs: no server has to answer, or to
\* read what it is sent.
McpFairness == WF_mcpVars(CallStep)

McpSpec == McpInit /\ [][McpNext]_mcpVars /\ McpFairness

\* The same with servers that read what they are sent.
ReadingSpec == McpSpec /\ WF_mcpVars(Written)

-----------------------------------------------------------------------------
(* Properties *)

\* A call takes only the answer to its own request, on the session in use, and
\* that session is none that failed before: late answers, of calls that timed out
\* or were cut, reach nobody (McpSession.call, _dispatch, _strike).
AnswersAreTheCallsOwn ==
  /\ got # Nothing => got.id = asked[at]
  /\ pc \in {"writing", "answer"} => at = session
  /\ session \notin closing

\* A disabled server is asked nothing, nor is one in quarantine by a call that
\* begins after it; the user is told once (_call).
ContainedServerIsLeftAlone ==
  [][/\ pc = "idle" /\ mounted = "yes" /\ (disabled \/ quarantined) => pc' = "idle"
     /\ disabled => /\ pc = "idle" /\ pc' = "idle" /\ announced' = announced]_mcpVars

\* A call ends, whatever its server does short of a line over the limit; or it is
\* held up for good in a write, by a server that lives and does not read
\* (McpSession.call, _send and close).
HeldUp == pc \in Writes /\ state[at] = "up"
CallReturns == []<>(pc = "idle" \/ spinning) \/ <>[]HeldUp

\* "Every outgoing request carries a timeout" (client.py:8); a broken frame is
\* skipped (client.py:204).  A line over the stream's limit is not, and the loop
\* that would time the call is never given back, also where every write goes through.
EveryCallReturns == pc # "idle" ~> pc = "idle"
=============================================================================
