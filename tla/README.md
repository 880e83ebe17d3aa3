# Mut'his in TLA+

Mut'his (مطحس) is an Arabic voice companion that looks at the user's screen,
explains and points, and never acts. This directory holds a formal model of
the parts of the program whose correctness depends on order: on the
interleaving of its threads and tasks, on cancellations at every await, on
failures between two steps, and on long sequences of legal calls. TLC checks
the models on small instances; TLAPS proves the central theorems for every
value of the constants.

Source paths in this file are relative to `src/src/muthis/` unless they begin
with another root.

## 1. The system

One asyncio loop runs everything that decides. Around it: pynput's keyboard
thread (F9), sounddevice's callback threads, one worker thread per playback,
`asyncio.to_thread` workers (microphone close, screen grab, buffered
playback), and the Tk thread of the overlay, which is reached through a queue.

| Component | State it keeps | Operations | Talks to |
|---|---|---|---|
| activation (`activation.py`, `hotkey.py`, `mic.py`) | `_is_processing`, `_interrupting`, `_deferred_release`, the turn's task, the hold, the open stream | `on_press`, `on_activate`, `_do_interrupt`, `reset_turn_state`, key events, `Mic.start/stop/reset` | orchestrator (`handle_activation`, `interrupt_turn`) |
| confirm gate (`trust/`) | the pending call, its approval, the turn's grant, the built request, the miss note | `observe`, `refusal_for`, `take_spoken_request` | turn pass (looks), router (asks), loop (the brake) |
| tool router (`kernel/tool_router.py`, `session_taint.py`) | mounted tools, session taint, plugin ledger | `service`, `_execute_route` | gate, plugins, budget |
| agentic turn loop (`kernel/orchestrator.py`, `turn_pass.py`, `pass_servicing.py`, `highlight_gate.py`, `tool_result_pairing.py`, `history_hygiene.py`, `frame_capture.py`, `overlay_autohide.py`) | the history, the draw gate, the auto-hide task | `run_turn`, `interrupt_turn`, the pass, the pairing | reasoner, overlay, voice, budget |
| turn voice (`turn_voice.py`, `tts_session.py`, `tts_ws_player.py`, `voice_out.py`, `tts*.py`) | one session per turn, fed and unplayed texts, the player's queue | `begin_open`, `speak_or_feed`, `push_stream`, `finish`, `interrupt`, `abandon` | speech service, sound device |
| budget (`kernel/budget.py`) | today's ledger, on disk | `can_afford`, `record_turn`, `record_plugin_call` | loop, router |
| navigator mode (`kernel/session_mode.py`, `mode_transition.py`, `plan.py`, `step_verification.py`, `navigator_service.py`, `turn_prelude.py`) | the mode and its grace, the plan, the verification in flight | mode verbs, plan, verification, expiry | loop, overlay badge |
| sandbox (`muthis_plugins/sandbox_exec/`) | the container in flight, runs of the turn | `run`, interrupt hook | docker |
| network broker (`broker/net/`, `muthis_plugins/web_research/`) | session policy, pools, robots cache, provenance | fetch with redirects | web |
| document broker (`broker/docs/`, `muthis_plugins/doc_rag/`) | the open document, index, read marks | open, sections, search | files |
| grants and MCP (`broker/`, `broker/mcp/`) | grants on disk, child processes | mount, call, revoke | MCP servers |
| overlay (`overlay/`) | command queue, widgets | draw, hide, badge | Tk |
| reasoner clients, search clients, stt, persona, SDK, scripts | - | wire formats, wording, tooling | providers |

What is hard in it: the keyboard thread's check-then-act on the loop's flags; a
turn that can be cancelled at every await, in its drain and before its first
step; work in worker threads, child processes and containers that outlives the
turn that started it; state that must expire with a turn or must survive it
(the pending confirmation, the history, the auto-hide, the list of pages read,
the open document); one forced choice (`tool_choice="none"`) that three
mechanisms share; two audio paths that must never both speak; a window that four
actors command and that has timers of its own; a ledger that must survive the
death of the process between any two steps of a save. `PROJECT.json` lists these
as hazards, each at its line.

What makes each component correct:

* activation: one turn at a time; a barge-in cancels exactly the turn it
  interrupts, silences first, keeps its own recording, and F9 comes back;
* gate: in a tainted session nothing leaves without an approval of this very
  call in this very turn, used once; a question reaches the voice, and once; the
  brake never gags the approved call;
* loop: it ends, in an answer; one drawing; requests the provider takes, with no
  frame of an earlier turn; bounded spend; drawings go away;
* voice: no text twice, none lost without a failure, never two voices, silence
  after a barge-in, and every resource released;
* navigator: one judgement of the step the turn began on, a fallback that holds,
  a chip that shows the kernel's step and never enters a frame, and a mode that
  lapses before it is renewed;
* budget: every charge counts until the day is over, over crashes, failed writes
  and restarts, and a day passes its limit by one pass and its paid calls at most;
* sandbox: no container outlives its run, whatever docker, the program and the
  user do;
* network broker: the badge names exactly the hosts that were read; each request
  goes through its host's client; a page the model asks for is allowed by its
  host's rules;
* document broker: a query answers from what the model was handed last, never
  from another document, and no open path loses its index;
* MCP: a call takes only its own answer, a contained server is left alone, and
  a call comes back;
* overlay: no frame shows what we drew, captions end with the voice, and the
  screen is given back.

## 2. The modules

| Module | Models | Theorems |
|---|---|---|
| `Approval` | the promise of the confirm gate (abstract) | - |
| `ConfirmGate` | gate, router and the turn around them; implements `Approval` | `ConfirmGateProofs` |
| `Activation` | F9, the controller, the microphone, the interrupt task | `ActivationProofs` |
| `TurnLoop` | one turn of the orchestrator, the draw gate, the history, the auto-hide, the budget's gate | `TurnLoopProofs` |
| `TurnVoice` | the voice of a turn, session, player, buffered engines, barge-in | `OutputProofs` |
| `NavigatorMode` | a walkthrough over turns: mode, verification, prelude, the chip on the screen | `NavigatorModeProofs` |
| `Ledger` | the daily ledger, its file, midnight, crashes and restarts | `LedgerProofs` |
| `SandboxRun` | the life of a container, the hook threads, the docker daemon | `SandboxRunProofs` |
| `Overlay` | the command queue, the Tk thread and its timers, the widgets, and those who draw | `OutputProofs` |
| `Fetcher` | one fetch: robots, rate, cache, clients, redirects, provenance | `BrokerProofs` |
| `DocService` | open documents, ingestion threads, the encoders they build and share | `BrokerProofs` |
| `McpHost` | one external plugin: strikes, quarantine, sessions, readers, child processes | `BrokerProofs` |
| `MC*` | the same modules with values for TLC | - |

The modelling modules do not extend one another (the names of the overlay's, the
host's and the fetcher's specification, `OverlaySpec`, `McpSpec` and `WebSpec`,
let one module of proofs extend several): each contains as much of its
neighbours as its properties need (`TurnLoop` has a voice that only awaits,
`NavigatorMode` a turn that only passes, `SandboxRun`, `Fetcher` and `McpHost` a
turn that calls and may be cut). Where two modules meet, one assumes what the
other shows: `NavigatorMode` lets overlay commands act at once and in order,
which is what `Overlay`'s queue delivers at the moments a frame is taken;
`TurnLoop`'s `spent` is `Ledger`'s column of one day without restarts;
`TurnLoop` and `Overlay` both hold the rule that arms the auto-hide.

`PROJECT.json` maps every definition to its lines. An action is one atomic step
of the program: on the loop, the code from one await to the next; on a thread,
one statement or one call that another thread can observe. Definitions marked
"Mutated form" are not part of the model: each is a plausible bug in the
definition that follows it, and the properties are tried against it.

**Activation.** The keyboard thread's `on_press` is split where the loop can
run between its statements: `PressReads` (it reads `_is_processing`),
`PressIgnored` / `PressClaims` (it sets `_interrupting`), `OpenRecording`,
`ScheduleInterrupt`. `Activate`, `BeginInterrupt`, `Interrupt` and
`ResetBranches`..`Release` are the loop's callbacks. `TurnStarts` and `MicStops`
are the two halves of `Mic.stop`: the call and its worker thread, of which the
turns of `stopping` have one each. The history
variable `raced` records that an `on_press` and a `reset_turn_state` have
overlapped in time. No lock excludes that, so the model allows it; the
properties of the race armour name it, which separates what the armour
guarantees from what it cannot. `kept` is the recording of a barge-in.

**ConfirmGate.** A turn is `NewTurn`, then passes: `BeginPass` (the look at the
utterance, `observe`), `StreamCompletes`, `Service` for each requested call
(`refusal_for`), `Execute`/`Return`, `HandOver` (`take_spoken_request`),
`NextPass`. An utterance is what the detector returns for it: an approval, an
approval for the whole turn, a miss, or none. Calls are model values; `ToolOf`
says which tool they bind to. A turn may be cancelled at every await. `question`
is a history: where the question of the pending call is (held by the gate, handed
to the voice, asked by it, or lost with it).
`Approval` has three variables (what waits, what is approved, what executed);
the refinement mapping is in `ConfirmGate`.

**TurnLoop.** `pc` is the await at which the turn's coroutine stands. A pass
returns any member of `Contents`: a draw call, valid or not, up to two refresh
calls, tools answered by name, unknown tools. The history is reduced to two
facts: whether its last `tool_use` still lacks its result (`asked`; the provider
then refuses the request, `IsAccepted`), and whether it carries an image of this
turn or of an earlier one (`image`). `CutShort` is the exit through an exception at
any await: the session bound, a failure, a cancellation. `RefreshStarts` /
`RefreshReturns` are the capture between the stored call and its stored result.

**TurnVoice.** Texts are numbered. `heard` counts how often each has sounded,
`excused` collects those that a dead socket, player or buffered call took with
it. The open task, the turn's task, the service, the player's thread and the
interrupt task interleave freely. `ghost` is a playback that a cancellation left
behind; it outlives its turn. The session bound may fire in the pipeline
(`TimeoutInPipeline`) and so in `abandon()`, which is called there: its close
swallows the cut (`TimeoutInClose`), the join of the player does not
(`TimeoutInDrain`).

**NavigatorMode.** `mode` is the frame (total steps, current step,
verification), `chip` the indicator's remembered text and the one on the screen.
`BeginTurn` is `TurnPrelude.begin_turn` in its order: expiry, activity, exit
word, reply length, cycle boundary. The `Service*` actions are the navigator
tools, one call a pass, refused in the toolless last pass; a plan of more than
`MaxSteps` steps is cut to them. A capture is `HideForCapture`, `Grab`,
`CaptureReturns`: between them the auto-hide, a barge-in or the session bound
may strike. Nothing in the program edits a plan after it is built, so its steps
are numbers. The notes the model receives are wording and left out.

**Ledger.** Money is counted in units. `ledger` is `Budget._ledger` (both
columns of each day), `file` and `tmp` are `budget.json` and its sibling,
`charged` the true spend. A save is `Write` (the sibling) and `Replace`
(`os.replace`), each of which may fail, and `Stop` may come between them; nothing
else can, because the save is synchronous on the loop. `Start` reads the file,
`StartUnread` meets one it cannot read. `unsaved`, `unread` and `lost` say where
a charge is that the ledger does not show; the identity between them is what the
property states. `NextDay` is midnight, between any two steps.

**SandboxRun.** `pc` is the docker command that `SandboxRunner.run` awaits:
`create`, `write` (the program goes to the stdin of `docker start -ai`, and no clock
runs), `read` (its streams), `kill` after the run's own timeout, `drain`, `reap` (the
rm in the finally). `requests` are the commands
with the daemon: an await may be abandoned, its command is not, and the daemon
serves them in any order. `HookRuns` is `kill_active` on the thread that
`interrupt_hooks` gave it, so it may read `_active` long after the barge-in.

**Overlay.** A verb of the overlay is a put of one or more commands (`Puts`);
`Drain` takes one and `Dispatch` is `dispatch_command`, branch by branch, on the
`view`: what is on the canvas, the chip's remembered text, the glide, the paced
captions, the whiteboard and the status dot. `GlideArrives`, `CaptionFires` and
`FadeEnds` are the timers of the Tk thread, between any two commands. The turn
puts what the orchestrator, the voice and the capture put at each await; a press,
a barge-in and the auto-hide put theirs from outside. `CaughtUp` is the one
assumption on time: where the turn has waited for a delay, a model or a player,
a window that is up has taken what was queued before. `left` is a history: the
bound cut the `abandon()` that was to clear a caption.

**Fetcher.** One fetch at a time, as a turn services one call at a time.
`Starts` / `CacheHit` is the tool with its gate, `RobotsSays` /
`RobotsUnreachable` the robots check and `RateAllows` the limiter. A hop is
`Connects` (the client of the host, taken from or put into the pool),
`CloseReturns` when an older client had to go, then an answer: `Redirected`,
`PageIsHtml`, `PageRead`, `PageFails`. `BudgetEnds` is the total time limit. The
servers choose every answer. `said` and `read` are histories: what a host last
said of its rules, and whose text the model got.

**DocService.** A thread goes through extraction, `_encoder_once`, the load of what
that returned, chunking and encoding; the open that started it may be cut, the
thread may not. `FindsNone`, `Builds` and `Gets` are the check, the assignment and
the return of `_encoder_once`, between which another thread may do the same, so
that an encoder goes by the thread that built it; `latest` is the one in
`_encoder`. `parts` are the fields each has by now, assigned one after the other
without a lock. `Answers` is what a query made now may answer, `QueryLoads` a query
that has to load the encoder itself. `Edits` changes a file under the service. `handed` is the history: what the
model was given last.

**McpHost.** The host's state is `_ServerState`; a session is a child process
with its reader, the numbers of its requests and those unanswered. A call is
`Spawns` (handshake) or `CallsOn`, and ends in `Answered`, `CallFails`,
`TimesOut` or `Cut`. Every write is an await of its own, which `Written` ends when
the pipe has taken it; the timer runs only after it. The reader's steps (`Responds`, `ListChanged`, `ReaderEnds`,
`LineTooLong`, `BridgeBegins`, `BridgeEnds`) run for every session that was ever
started and not yet closed, those a strike left behind included. `Fails` is
every `McpSessionError` (a strike, or a skipped mount), `Escapes` every other
exception. `spinning` is a reader that never gives the loop back.

## 3. The runs

| Run | States | Question |
|---|---|---|
| `gate` | 17 357 | does the gate release only what was approved, once, in its turn, does it hand each question over, once, and does it implement `Approval`? |
| `activation` | 15 563 | one turn at a time, deferred key-ups fired, silence first, a barge-in's recording kept, F9 back |
| `loop` | 252 078 | the turn under every cut: one drawing, an answer, bounded spend, when a request is refused and when it carries a stale frame, drawings that go away |
| `voice` | 22 048 | nothing twice, nothing lost, one voice, everything released, the turn out of it |
| `navigator` | 72 866 | one verdict a turn that stands, a chip for the user and not for the model, modes and lengths that lapse |
| `ledger` | 77 414 | what does the ledger forget, and by how much is a day overspent, over crashes and failed writes? |
| `sandbox` | 183 688 | is a container ever left, and do runs and programs end, under any order of docker's answers? |
| `overlay` | 940 986 | clean frames, captions with the voice, the screen at rest, with four actors and the Tk thread's timers |
| `web` | 70 314 | a true badge, one client for a host, pages only as robots.txt allows |
| `docs` | 540 312 | does a query answer from what was handed over, do indexes stay, do opens return? |
| `mcp` | 192 067 | a call's own answer, a contained server left alone, calls that return |
| `mcp_frame` | violation | "Every outgoing request carries a timeout (default 20 s)" (`broker/mcp/client.py:8`), for a server that sends a line over the stream's limit |

`mcp_frame` checks what the docstrings say and stops at its counterexample:
asyncio refuses a line longer than the stream's limit (64 KiB) and leaves it in
the buffer; `_read_loop` says "skip the frame" and reads it again, without ever
suspending. The loop is never given back, and the timer of the call is on that
loop. The finding in `PROJECT.json` quotes the lines. `CallReturns`, in `mcp`,
is the same property with this case excepted, and that of a server that lives but
does not read what it is sent: the write of a request is awaited before its timer
starts (`client.py:174`). So that the counterexample is not that second one,
`mcp_frame` assumes that every write goes through (`ReadingSpec`).

**Bounds.** Each is a CONSTANT of its module, or the code's own.

* `gate`: two search and two fetch argument sets, one pending slot, so that
  rebinding, another call of the same tool and a call of another tool all occur;
  the real four passes; any number of turns.
* `activation`: three key-downs, because the longest interplay needs three
  presses (a turn, its barge-in, and the press that meets the barge-in's own
  turn).
* `loop`: the real four passes and one refresh, a limit of two units with a pass
  and a paid call of at most one each, so that the limit is met exactly, passed by
  a pass, and passed by a tool; any number of turns.
* `voice`: three texts, so that one can be heard, one in flight and one unsent.
* `navigator`: three steps (a first, a last and one between), the real four passes
  and one refresh, a timeout of two ticks (young, half lapsed, lapsed); any number
  of turns.
* `ledger`: two days, so that midnight falls between any two steps; a limit of
  two with passes up to two and one paid call of one; two faults, so that one can
  follow another (a torn sibling and then a crash); any number of restarts.
* `sandbox`: two containers, so that a late command or hook of the first meets the
  second; two runs and three passes, so that the limit is met and refused (the code
  has three and four: the refusal needs one pass more than runs); one hook thread
  that has not read `_active` yet.
* `overlay`: the Tk thread is behind by at most three commands: the longest verb
  puts two, so that a third, of another actor, can stand before or between them;
  any number of turns; the spotlight off.
* `web`: two hosts, one with two pages, a pool and a cache of one entry each (the
  code: 8 and 50), so that every other host evicts; one redirect (the code: 5); two
  fetches a turn (the code: 3); an interval of one tick.
* `docs`: two files of one name, so that ids collide; a text for each zone; two
  threads, so that an abandoned one meets the next open and both may build an
  encoder.
* `mcp`: two child processes (the one in use and one left behind), the real three
  strikes, three requests of a session (the handshake and two calls).

**Fairness.** Only what the code bounds.

* `Activation`, `TurnLoop`, `TurnVoice`: every await of a turn returns (the session
  bound, the socket's and the close's timeouts), callbacks scheduled on the loop
  run, the abort returns, a sleep ends, the player plays what it has.
* `SandboxRun`: the coroutine goes on, the wall clocks and the session bound fire,
  `interrupt_turn` returns, and the daemon serves a command or fails it. No
  program ends by itself, and docker need not read what it is sent: a run held up in
  that write ends with the session bound.
* `Overlay`: the Tk thread drains its queue and its timers fire, the turn's awaits
  return, `interrupt_turn` goes on, the auto-hide's sleep ends. `TurnFails` is
  strongly fair: the session bound fires in a turn that loops through its passes
  for ever, and is not enabled in each of its states.
* `DocService`: a thread that was started runs. Nothing bounds an open otherwise.
* `McpHost`: a call that can go on does, and its clock runs. No server has to answer,
  or to read.
* `ConfirmGate`, `NavigatorMode`, `Ledger` and `Fetcher` have safety properties only.

Users owe nothing: no press, turn or barge-in is fair. Deadlock is checked
except where the system really stops: after the last key-up of `activation`,
and after the shutdown that `overlay`, `web`, `docs` and `mcp` model.

**Liveness.** `HotkeyComesBack`, `DrawingsGoAway`, `TurnComesOut`,
`RunsAndProgramsEnd`, `ScreenComesToRest`, `OpenReturns`, `CallReturns`.

## 4. Observed while modelling

Behaviours of the code that the models contain and the properties have to allow.
Where a docstring says otherwise it is quoted.

*Gate.* A pending call whose turn was cancelled before its request was spoken can
be approved by a later turn, though "an approval must never travel to a call the
user never heard" (`trust/confirm_gate.py:244`). The gate looks at an utterance
only inside a pass, so that a turn refused by the budget or cut before its first
pass does not expire it, though "the pending state EXPIRES at the first turn that
carries no approval" (`trust/confirm_gate.py:41`). The pending request may be
spoken by a later turn than the one that built it. Once the request is handed to
the voice its slot is empty (`trust/confirm_gate_state.py:163`): when the turn is
cut in the await that follows, or the voice is closed already, nothing is asked,
and the call stays approvable by the next turn (`question = "lost"`).

*Activation.* An interrupted turn that is still in `Mic.stop` closes, on its
worker thread, whatever stream is open by then, that of the barge-in included
(`activation.py:23`: a barge-in "PRESERVES the barge-in mic + the live hold").
A task cancelled before its first step never enters the function whose finally
resets the state, and F9 stays busy (`activation.py:187`); a key-up deferred behind
it is never fired. A press that overlaps
a reset can leave `_interrupting` set, and its interrupt may cancel the next turn
(`raced`).

*Loop.* A cut inside the capture of a refresh leaves an assistant message with a
`tool_use` and no result, though the pairing is to happen "NOW ... or the next
turn 400s on an orphan" (`kernel/orchestrator.py:267`). The orphan stays in the
history, so that every later turn is refused and fails, until the application is
started again. A barge-in or a failure leaves the turn's screenshot in the history,
and it is sent again with the next turn. A second refresh in one pass, and an
unknown tool, fall to the draw branch of the pairing and close the draw gate for
the turn. A draw call is acknowledged as drawn although a barge-in may have wiped
it.

*Voice.* A cancellation that lands in the finally of the buffered stream leaves
its tail sounding (`tts_elevenlabs.py:96`). While `interrupt()` awaits an open in
flight, the turn's own pass may begin a buffered call, though the voice is to
"go SILENT now" (`turn_voice.py:213`). `abandon()` runs under the session bound
(`kernel/orchestrator.py:201`, `256`): where that fires while the player is joined,
the turn is over and its tail sounds on; the voice is closed, so that `finish()` does
nothing, no turn is active for F9 to silence, and caption and light are left to the
next capture. The text a dying session took with it is
not repeated.

*Navigator.* A jump to the current step ends FALLBACK without moving the step
(`kernel/session_mode.py:235`). A capture that is cut leaves the chip wiped; a
barge-in during the settle puts it back into the frame of the turn it cancels. An
exact reply length survives a turn that failed or was cancelled.

*Ledger.* A pass that is cut before its `TurnComplete` is never charged. A file
that cannot be read at the start counts as nothing spent, and the next save
overwrites the day's spend. Two instances of the app would lose each other's
charges; the model has one.

*Sandbox.* A cut during `docker create` leaves a container that was never
announced and is never removed. The run's own clock does not cover the write of its
program (`sandbox_exec/runner.py:204`). A `docker start` that fails is reported as the
program's own exit code. A late hook thread may kill a later turn's container. With
four passes, of which the last has no tools, the refusal of a fourth run is out of
reach in production.

*Overlay.* A highlight's `show`, and the arrival of its glide, delete everything
on the canvas (`overlay/rectangle_widget.py:73`): the chip, the caption and the
badge go until a later command restores them, though the chip is "an element that
must SURVIVE ACROSS TURNS" (`overlay/window_commands.py:118`). An exception in a
command ends `_drain` for good. After buffered speech the badge stays up until the
next capture. A capture that is cut between hide and restore leaves the chip off.

*Web.* A client that was taken out of the pool and whose close is cut is neither
pooled nor closed (`broker/net/client_pool.py:153`). Rules are kept for the process
and by host. A redirect is followed without asking the rules of the host it leads to,
and without a slot of that host's interval: both hold for the host that was asked
(`broker/net/transport.py:96`). `urlsplit` stands outside
the try of a function that never raises (`broker/net/fetcher.py:154`).

*Documents.* A document that is opened again is answered from its index although
it changed ("the document has not changed", `broker/docs/service.py:138`). An open
that was cut runs beside the next one, so that the concurrency that "stays
unreachable" (`broker/docs/ingest.py:217`) is reached. Both threads may find no
encoder and build one, though there is to be "ONE encoder per process"
(`broker/docs/service.py:111`); the later takes the place of the earlier, and a query
that meets it with its session and not yet its tokenizer raises. An encoder may also
be loaded twice, and a failure after its session was made leaves it half loaded for
good. A failed open keeps the earlier selection.

*MCP.* A server that dies between two calls makes the write of the next raise an
error that is no `McpSessionError`: no strike, no new session, at the mount the end
of the start (`Escapes`). A server that lives and does not read holds a write up
once its pipe is full (the results of its own requests, a capture among them, fill
it): no timer runs and no strike falls, though "every outgoing request carries a
timeout" (`broker/mcp/client.py:8`); in a turn the session bound cuts the call, at
the mount nothing does. A handshake that times out or is cut leaves its child
running. A notification during the handshake quarantines the plugin but does not
stop the call that is past its check. A running app does not read its grants again.

## 5. What is proved

Every safety property that a passing run checks is a theorem, for every value of
the constants; so are the type invariants, the inductive invariants, and the
refinement of `Approval`. Eight modules hold them. They assume what the modules
name as assumptions on their constants and nothing else: bounds are positive (or
natural numbers), `Host`, `Name`, `Zone` and `ToolOf` are functions into their
sets, and the values that stand for "nothing" (`None`, `NoProc`, `Injected`,
`Unset`, `Unreachable`) are not among those they could be confused with.

For each component an inductive invariant (`IInv`; where one module proves about
several, `DocInv`, `McpInv`, `WebInv`, `VoiceInv` and `ScreenInv`) is made of the
type invariant and named parts that make the properties inductive; step lemmas have one step per
action of `Next`; every theorem ends in `Init => IInv`, `IInv /\ [Next]_vars =>
IInv'` and `IInv => ` the property. Each inductive invariant was model-checked on
the run's instance before it was proved.

`ConfirmGateProofs`: for every set of calls, of tools and of pass bounds.
`IInv` relates pending, grant and released answer (`PendingInv`, `FreshInv`), the
place in the turn (`PlaceInv`), the look at the utterance (`LookedInv`) and what a
turn refused and executed (`BrakeInv`). The refinement is `Init => A!Init` and one
lemma per action group that maps it to a step of `Approval` or a stutter.

`TurnLoopProofs`: for every bound on passes and refreshes, every limit and all
prices. `PlaceInv` ties the loop's index to the passes serviced, which makes the
last pass toolless, which leaves it without a reason to go on; `DrawInv` says that
a drawing the gate has not been told of stands in the pass at hand; `SpendInv`
bounds the day at each position of a pass; `ScreenInv` says that a visible drawing
is one its drain will arm a timer for; `HistoryInv` ties an unpaired `tool_use` to the
refresh in progress or to one that was cut, and a frame to the turn that took it or to
an earlier one that was cancelled or failed.

`NavigatorModeProofs`: for every plan length, pass and refresh bound and timeout.
Every tool call is first reduced to what it does to the frame (`CallEffect`,
`MoveEffect`). `ChipInv` follows the chip through a capture: wiped between hide and
restore, unless a barge-in restored it, and only a cut keeps it wiped.
`ModesLapse` is an invariant and an action property from it.

`LedgerProofs`: for every set of days, all prices and any number of faults.
`FileInv` says that the file is always whole (or the sibling is what may be torn)
and that the sibling is the ledger before it replaces the file; `MoneyInv` is the
identity of the property and its twin for the file (file + unsaved + lost =
charged), without which a restart could not be shown to lose nothing else;
`RoomInv` reserves what the pass and its calls may still cost.

`SandboxRunProofs`: for any number of containers, runs and hook threads.
`PlaceInv` ties the name and the announcement to the await, `CreateInv` says that a
create with the daemon belongs to the run at that await or was cut, and `ReapInv`
that an answered rm removed its container or failed; late kills and starts change
no container that is gone.

`ActivationProofs`: for any number of key-downs. That two turns never overlap is a
matter of counting: a turn needs a key-up that no other turn had, and the key-ups
waiting on the loop, the deferred one and the one the physical key still owes are,
with the turns so far, never more than the key-downs (`PressesInv`). `RunInv` ties
a turn that lives to `_is_processing`; `DeferInv` ties a deferred key-up to the
teardown that fires it, the only step that clears it, or to the turn that was
cancelled before its first step. `RaceInv` is what the race armour guarantees and
holds as long as no `on_press` overlapped a reset (`raced`): a claimed barge-in names a turn that still runs and was barged, so that the cancel
hits that one and the microphone it opened is kept. `TurnsNeverOverlap` and
`DeferredKeyUpIsFired` hold also where presses and resets overlapped; the second
excepts the turn that was cancelled before its first step, which has no teardown.

`BrokerProofs`, documents: for any number of files, texts and threads. `HandedInv`
says that what was handed is what is selected, `EncoderInv` that an index implies
a whole encoder, whichever is in use now (the fields are assigned in order and never
taken back, and what a thread uses was built), `RegistryInv` that ids and paths stay paired. That a free suffix exists is a
pigeonhole argument (`FreeId`).

`BrokerProofs`, the external plugin: for any number of processes and every bound on
strikes. `SessionInv` keeps the session in use, the one awaited and those to be
closed apart; `FutureInv` says whose answer a future holds; `StrikeInv` ties
strikes, the disabling and its announcement.

`BrokerProofs`, the web: for any pages, hosts and redirects and every size of cache
and pool. Pool and cache are ordered dictionaries, sequences without repetition,
of which a use moves an entry to the end and an insertion drops the first; the
lemmas `UsedKeeps`, `AppendKeeps`, `TailKeeps` and `NewestKeeps` say what that does
to their elements. `PoolInv` says that a host has one client in the pool also
while the close of an evicted one is awaited, which is the window in which a second
could be made. `PoliteInv` says that rules kept are what the host last said, and that
a fetch that waits for its slot, a page under way and one in the cache were allowed by
them.

`OutputProofs`, the voice: for any number of texts. `SessionInv` and `EndInv` say
what is open, closed and interrupted at each place of the turn and of its
interrupt. `PlaceInv` says that a text is with the service, in the player, kept
for the end or in the buffered call, and in one of them only; `HeardInv` that a text
in one of these places has not sounded, whence none sounds twice; `CoverInv` that a
text that has not sounded has such a place or died with one, whence none is lost.

`OutputProofs`, the overlay: for every bound on what the Tk thread is behind by. A
verb takes effect when the queue comes to it, so that no property can be stated of
the view alone. Each part of the invariant has the form: the view is as it should
be and the queue holds only commands that keep it so, or the queue holds a command
that makes it so, with only such behind it (`Only`, `Comes`). `Dispatch*` say what
each branch of `dispatch_command` does to the canvas, the light and the caption;
`TakenFrom` and `PutBehind` what draining one command and putting some does to a
queue of that form. `FrameInv` is the instance for a capture between its hide and
its grab (nobody puts a drawing meanwhile, and the auto-hide is disarmed),
`CaptionInv` the one for a caption: whoever still has to clear it (`Owed`) has not
done so, or the clearing is done or queued.

Only model-checked: the seven liveness properties. They need fairness, and with it
ENABLED, which the prover does not handle.

## 6. The plan

1. The core (activation, gate, loop, voice, navigator) and the proofs about gate,
   loop and navigator. Done.
2. Ledger, sandbox, overlay, web, documents, MCP; proofs about ledger, sandbox,
   documents and MCP; deeper properties in place of shallow ones. Done.
3. Proofs about activation, web, voice and overlay: every safety property of the
   runs is a theorem. Done.
4. Composition, checked first and then proved: `Ledger` as the refinement of
   `TurnLoop`'s `spent` (one day, no restarts); an abstract voice that `TurnVoice`
   implements (each text once, then silence), which is what `TurnLoop` and
   `Activation` assume of it; the gate with the loop's brake.
5. Five hazards without a property: a turn cancelled before its first step
   (`activation.py:161`), a pending that outlives a turn which never looked
   (`kernel/turn_pass.py:162`), the tail of a cut buffered call
   (`tts_elevenlabs.py:149`), a document that changes under its index
   (`broker/docs/service.py:147`) and the write of a request outside its try and its
   timer (`broker/mcp/client.py:174`). All are in the models and in section 4; the
   code has them, so that a property waits for the code to promise otherwise. Other
   hazards are covered in part; their notes in `PROJECT.json` say what is excepted.

## 7. Not modelled

* Grants: a file that is read at start and written by a command of its own. Worth
  knowing: the digest the user confirms is not the one that is stored but is
  computed again (`grants.py:70`), a waiting command writes back what another
  revoked, and success is reported even if the save failed.
* The reasoner, search and speech-to-text clients: they translate wire formats; a
  stream, a search and a transcript are inputs of the models.
* Splitting, diacritics, echo guard and captions' wording (`speech_stream.py`), the
  file reader, prompts, persona, notes: text. Ranking, chunk sizes, tokenizers and
  the extraction of documents and pages: data, abstracted to success or failure.
* Pixels, audio samples, layout, styling, the pulse of the light.
* `src/scripts` (measurements and diagnostics, about a third of the
  repository's lines, run beside the program and never by it) and the plugin SDK's
  interfaces.

The map covers about 13 % of all implementation lines and a little under half of
the lines of `src/src` that are statements of functions: scripts, docstrings,
comments, declarations and texts make up most of the rest.
