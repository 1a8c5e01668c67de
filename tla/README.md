# vmo_pipecat in TLA+

A verification project for `src/vmo_pipecat`, the process that puts AI voice
agents on telephone calls: Asterisk sends calls into a Stasis application, the
process answers them over ARI (HTTP and a WebSocket per Asterisk node), carries
their audio over AudioSocket (TCP) and runs a PipeCat pipeline for each.

The program is one asyncio event loop. Nothing runs in parallel, but every ARI
event, every AudioSocket connection and every pipeline has a task of its own,
and any `await` of a request may let any of the others run. Almost everything
that is hard here is about *what may happen during an await*; the models
therefore cut the code exactly at its suspensions: **an action is what one task
does from one suspension to the next**.

## 1. Inventory

| component (code) | state | operations | made correct by |
|---|---|---|---|
| Call setup (`call/lifecycle.py`) | where `_on_caller_channel` is suspended, `_pending_audio` | setup of a caller, AudioSocket channel, StasisEnd, ChannelDestroyed | a call is registered before Asterisk can dial in; no error path strands a caller |
| Call controller (`call/controller.py`) | `_shutdown_event`, `_task`, `_audio_channel_id`, `_echo_mode` | `start`, `shutdown`, `bind_audio_conn`, `on_audio` | one teardown whatever triggers it, all of it done |
| Router, registry (`call/router.py`, `call/registry.py`) | `_pending`, `_by_conn`, `_by_vmo_call_id`, `_by_channel`, controllers | register, bind, dispatch, remove | the maps agree; nothing lost, nothing left |
| AudioSocket server (`audio/audiosocket_server.py`) | `_writers`, `_connection_tasks`, a task per connection, a gauge | accept, handshake, audio, disconnect, stop | a UUID is worth one connection; a closed one is reported once; a stopped server holds nothing |
| Actions (`actions/asterisk_actions.py`, `tool_schemas.py`) | `_transfer_done`, requests in flight | transfer, hangup, play, dtmf | one transfer is tried at most, and the caller is not hung up for it; the model is told, and not told of what was not |
| ARI client and pool (`ari/client.py`, `ari/pool.py`) | WebSocket, session, flags, supervisor task | connect, listen, back off, disconnect, stop_all, commands | reconnects while wanted, stops for good when told |
| Process (`runtime.py`) | shutdown event, tasks | start-up, reload, `_drain_calls`, stop | active calls torn down before ARI goes away; the process stops |
| Agentic bus LLM (`providers/agentic_bus_llm.py`, `bus/`) | one queue per turn, subscription | turn, tool call, timeout, cancel | every turn ends; answers whole and in order; no slot leaks |
| Configuration (`config/`) | snapshot, version, validity, debounce timer | load, validate, swap, mark invalid, watch | a file that does not load changes nothing for calls; an edit is loaded or reported |
| Tenancy (`tenancy/resolver.py`) | none (pure) | resolve tenant, route, overrides | defaults are applied, a call keeps its snapshot |
| HTTP (`http/server.py`) | none | health, ready, metrics, reload | reports the truth of the others |
| Transport (`transport/`) | bound connection | push audio, write audio, cancel | agrees with the server about the line; drops nothing while it is served |
| Pipelines (`pipelines/`) | the processors between two interruptions | assemble, greet, run | what an interruption leaves behind belongs to the turn it begins |
| Per-call metrics (`call/metrics.py`, `observability/pipeline_metrics.py`) | three marks, a `_first` per stage, lists of latencies | first frame, output, interruption | a turn is measured by its own marks, and no list outgrows the one before |
| Full-agent providers (`providers/*_fullagent.py`) | WebSocket, receive task, voice detection | connect, receive, disconnect, microphone frame | WebSocket and receive task end with the call; only sustained speech interrupts |
| Other providers, resampler, logs, traces and exporters, event bus | none read back | pass-through | |

How they interact: the ARI client starts a task for each event and calls the
lifecycle; the lifecycle registers a controller with router and registry, asks
Asterisk to originate an AudioSocket channel, and spawns `controller.start()`.
Asterisk dials the AudioSocket server, whose handshake asks the router for the
controller of the UUID; audio and the disconnect reach it by the same way. A
controller ends by `shutdown()`, which five parties may call: StasisEnd,
ChannelDestroyed, the dropped connection, the end of its own pipeline, and the
drain of `runtime.py`. Pipelines reach Asterisk through the actions, and an
external agent through the bus; the three metrics stages of a pipeline share the
`CallMetrics` that the controller's `shutdown()` summarises in `vmo.call.ended`.

What is hard: five concurrent teardown triggers; a handshake that races the
request that caused it; setups that lose their caller half way; requests that
fail, time out, or take effect although they are reported as failed; events
lost with the WebSocket; a drain that runs while calls arrive; messages that
come early, late, never, or to somebody else; interruptions that overtake one stage
of a pipeline and not yet the next, while tools wait for Asterisk; a configuration file that is edited
while timers, forced reloads and calls read it. `PROJECT.json` lists each at its
line (`hazards`) with the properties that cover it.

## 2. Modules

| module | models | composed with |
|---|---|---|
| `CallContract` | abstract: what a call promises to the rest of the process | |
| `CallControl` | lifecycle, controller, router, registry, AudioSocket connection, transfer; Asterisk as environment | refines `CallContract` |
| `CallControlProofs` | theorems about `CallControl` | extends it |
| `RuntimeDrain` | signal, `_drain_calls`, stop of the pool and of the process | extends `CallContract`: calls at their contract |
| `RuntimeDrainProofs` | theorems about `RuntimeDrain` | extends it |
| `DrainedCalls` | the same shutdown, beside calls in full detail | extends `CallControl`; refines `RuntimeDrain` |
| `DrainedCallsProofs` | theorems about the composition | extends it and `CallControlProofs`, instantiates `RuntimeDrainProofs` |
| `ARIPool` | ARI supervisors of all nodes, `start_all_listening`, `stop_all` | |
| `ARIPoolProofs` | theorems about `ARIPool` | extends it |
| `AnswerStream` | abstract: what a turn of the LLM service is to the pipeline | |
| `AgenticBus` | turns of the bus LLM service, correlation routers, NATS, backend | refines `AnswerStream` |
| `AgenticBusProofs` | theorems about `AgenticBus` | extends it |
| `TenantConfig` | the validator of `tenants.yaml` and the tenant resolver, as operators | |
| `ConfigReload` | file, watcher, reload, store, forced reload, start and stop of `main()`, snapshots of calls | extends `TenantConfig` |
| `ConfigReloadProofs` | theorems about both | extends `ConfigReload` |
| `AudioSocket` | the AudioSocket server: connections, books, `stop()` | |
| `FullAgent` | the Deepgram and ElevenLabs full-agent providers | |
| `MediaPath` | output transport, router binding and the teardown of one call, around both | extends `AudioSocket` and `FullAgent` |
| `MediaPathProofs` | theorems about the three | extends `MediaPath` |
| `TurnMetrics` | `CallMetrics` and its three `MetricsFrameProcessor`s | |
| `ToolCalls` | `AsteriskActions`, the tools of the language model, and the answers of ARI | |
| `ModularPipeline` | the modular pipeline of a call: turns, answers, interruptions | extends `TurnMetrics` and `ToolCalls` |
| `ModularPipelineProofs` | theorems about the three | extends `ModularPipeline` |
| `MCCallControl`, `MCConfigReload` | symmetry sets and documents for TLC | |

A definition marked *Seeded defect* is not part of a model: it is the definition
after it with one plausible mistake, and documents that a property notices it
(`mutants` in `PROJECT.json`).

### CallControl

One call stands for its caller channel, `vmo_call_id`, audio UUID, AudioSocket
channel and TCP connection, all of them created fresh for it, so the
dictionaries keyed by them are sets of calls.

* `setup` is where `_on_caller_channel` is suspended: `StasisStart`, `VarsRead`,
  `Answered`, `BridgeCreated`, `Register` (everything between the bridge and the
  originate request has no suspension that can block: the locks are never
  contended), `OriginateSucceeds`, `OriginateFails`, `SetupHangupReturns`;
  `SetupRaises` is an exception the client does not swallow (only
  `aiohttp.ClientError` is turned into a status).
* `attach` is `_on_audiosocket_channel`; `conn` is the connection loop of the
  AudioSocket server with the router's `bind_uuid` (`Handshake`) and
  `dispatch_disconnect` (`Disconnected`).
* `task` is `start()`: `Start`, `StartEcho` (PipeCat cannot be imported),
  `StartFails`, `PipelineEnds`; `TransferCall` is the LLM's transfer.
* `shut` is `shutdown()`: `Shutdown` up to its first suspension, then
  `CancelReturns`, `AudioHangupReturns`, `CallerHangupReturns`; `Reach` emits
  `vmo.call.ended` at the end. The early return on `_shutdown_event` is the
  first disjunct of `Shutdown`.
* `StasisEnd` and `ChannelDestroyed` are the two handlers (`EndEvent`).
* Environment: a caller hangs up at any time; Asterisk executes an originate at
  any time before its answer, even one whose answer is a failure; an AudioSocket
  channel ends at any time. `Faults` lets every request fail, `EventLoss` lets
  any event be lost.

`CallContract` sees of this only a phase per call and the registry's count:
`idle -> setup -> refused | active`, `active -> dropped` (setup undone),
`active | dropped -> closing -> ended`, counted from the registration to the
teardown. `ImplementsContract` is that refinement, the completion of teardowns
included (checked with all faults); `KeepsContract` is its safety part (proved). The
mapping is `PhaseOf`.

### RuntimeDrain and DrainedCalls

In `RuntimeDrain` calls are taken at their contract, so the drain faces everything a call may do
and nothing that `CallControl` does not allow. The drain sees the registry's
count only (`BeginDrain`, `Poll`), copies the list of controllers when its
deadline has passed (`Poll` to `forcing`), shuts the listed calls down one by
one and awaits each (`ForceOne`, `Forced`), and leaves the loop without a second
look (`ForcingDone`). Callers keep arriving until the pool is stopped. `awaiting` is
the call whose shutdown is awaited, as a set of at most one.

`DrainedCalls` runs the same steps of `main()` (`MainStep`, which leaves every call
alone) beside the calls of `CallControl`. Two steps of the shutdown meet a call in its
details: `ForceOne` calls its `shutdown()` (`ForcedShutdown`, which also meets a call
whose setup has dropped it since the list was copied), and `audiosocket.stop()` ends its
connection (`ServerStops`); a task that `stop()` cancels in its `finally`, and a `shutdown()`
running on it, go no further, which is a call that takes no more steps. No assumption is made about the calls: they fail requests,
lose events and arrive as everywhere else.

### ARIPool

A supervisor per node is suspended in the HTTP probe, the dial, the close of a
failed session, the listener, the close of a WebSocket, or a backoff;
`disconnect()` runs in another task and finds the fields as they are at that
moment. Task cancellation is a step of its own: the flag is set by `stop_all`,
the task ends when it next runs. Asterisk fails and comes back at any time.

### AgenticBus

Turns are named by correlation id. `queue` outlives its entry in `_queues`
(`open`), because the consumer holds a reference to it: that is what makes the
cancellation interesting. The backend may answer before `publish()` returned,
may send at most one tool call and one terminal message, may fall silent, and
need not heed a cancel. `AnswerStream` is what the pipeline sees of a turn: a stream that
emits the texts of the answer in their order, the next one each time if none was lost, ends
once, and says nothing afterwards; `ImplementsStream` is the refinement, with `StateOf` as
its mapping. The bus keeps the order of one subject and delivers at most
once. `Lose` stands for every way a message misses its call's router: NATS drops it,
it cannot be parsed, or `inbound.group` makes a queue group of the calls'
subscriptions and NATS hands it to the router of another call, which discards it.
Such a turn is as good as without a backend; that it ends is `TurnEnds`.

### TenantConfig and ConfigReload

`TenantConfig` translates `_validate_cross_references` (`Validates`, one conjunct
per block of the validator) and `TenantResolver.resolve` (`Resolve`, the set of
what it returns: one plan, or none where it raises). The two are written apart
in the code, and `Routable` says that they agree. A configuration is abstracted
to the names and references by which a call is routed, with the overrides.

`ConfigReload` has the file and an editor who may write anything at any time; the
observer thread (`Observe` posts to the loop), the debounce timer (`ScheduleReload`,
`TimerFires`), the reload task it starts, which no later timer cancels
(`ReloadDue`), and `POST /admin/reload`. `Reload` is `_do_reload`: it does not
suspend between reading the file and swapping the snapshot. `Boot` and `Wire` are
the two moments of `main()` at which the file is looked at, with the suspensions of
the start-up between them: an edit in that gap is seen by nobody. `Stop` joins the
observer, not the timer, so a reload may still run during the drain. `Arrive` freezes
a plan and the version of the store.

### AudioSocket, FullAgent and MediaPath

`AudioSocket` has, per connection, the stage of `_connection_loop` and of the
`_handle_client` around it: `accepted` (its task has not run yet), `handshake`, `bound`,
`closing` (in `wait_closed`), `reporting` (in an `on_disconnect` that runs a shutdown),
`done` (task ended, handler not yet resumed), `gone`. `stop()` is `Stop` (list tasks and
writers, empty the maps), one `CancelNext` and `Awaited` per listed task, and `StopDone`
when the listed writers are closed; connections end, report and are accepted meanwhile.
`Cancelled` has the three cases that matter: a task that has not run yet never enters its
`try`, one that reads goes through its `finally`, one that is in its `finally` already
leaves it, because `suppress(Exception)` does not hold back a `CancelledError`.

`waiter` is the future of asyncio's stream protocol that every `wait_closed()` on a
connection awaits. It is set when the transport is gone, which is up to the peer
(`PeerTakes`) and which no code limits, neither in the `finally` clause nor in the loop of
`stop()`. Cancelling a task in its `wait_closed()` cancels this future; the next one
to await it is `stop()` itself, which then raises (`StopRaises`). `StopDone` follows Python
3.11, which the Dockerfile installs: from 3.12 on `Server.wait_closed` waits for every
connection, and a connection accepted during `stop()`, which nobody cancels, would hold it
up for good (this is the defect seeded for `StopCompletes`).

`FullAgent` is both providers, chosen at the start: `url` and the two dial stages are the
requests of `_connect`, `hello` its first message; Deepgram starts its receive task after
that message, ElevenLabs before. The receive task ends in three ways (`ReceiveEnds`,
`ReceiveFails`); `Disconnect`, `Joined` and `WsClosed` are `_disconnect`. `MicFrame` is
the local voice detection.

`MediaPath` composes them with the output transport and with the part of the
call's teardown that concerns them: who runs `shutdown()` (the connection's own task,
or another), and when the `CancelFrame` reaches agent and output. It is the detail
behind two steps of `CallControl`, the cancellation of a pipeline and the disconnect
of a connection. `PipelineStarts` does not look at the teardown, as `start()` does not: a
pipeline that starts after the shutdown has looked for one (`late`) is not among those the
shutdown `Found`, and nobody cancels it but PipeCat (`PipelineStops`). A pipeline may be
cancelled before any shutdown as well, when PipeCat does so by itself. The output has
`cancel()` only: its `stop()`, for an `EndFrame`, unbinds before what waits is played, but
nothing in the repository sends an `EndFrame`. A handshake may come after the teardown: `CallRouter.remove` leaves the
UUID pending, so the line binds (`LineBinds`) to a call that is over, and its own end, or
`stop()`, is what closes it. What PipeCat does on an interruption (cancel the audio task,
discard what waits) is external and taken as one step with its cause.

### TurnMetrics, ToolCalls and ModularPipeline

`TurnMetrics` has the marks of `CallMetrics` and the `_first` of each stage. A mark is
the user turn of the frame that set it, so that `TurnMeasured` can say of a latency
that it does not mix two turns; the lists of latencies are their lengths. `Baseline`,
`InterruptionPasses` and `OutputPasses` are the branches of `process_frame`.

`ToolCalls` has, per tool call, where its handler is, what the model was told and what
became of the request in Asterisk: `TransferCall` (with the guard that is set before
the request and never reset) and `OtherCall` send, or raise before anything is sent
(`SendRequest`: no client for the node, or no HTTP session); `Outcomes` is what
`send_command` can come back with (a status, the 500 it makes of a `ClientError`, an
exception), and `Result` what each handler makes of it: only `continue_in_dialplan`
reads a status, the other three tools answer "ok" to a refusal. A request whose handler
was cancelled, or whose answer was lost, may be executed all the same (`Executes`).

`ModularPipeline` runs the processors in the order `build_modular_pipeline` gives them.
PipeCat's part is external and taken for what the code relies on: a user turn begins
when speech is detected (`SpeechDetected`: Silero, or `on_talking_started` for
`asterisk_talk_detect`) or, outside a turn, by a transcription; its `InterruptionFrame`
goes from the aggregator up to STT and down to LLM and TTS, and passes each stage at its
own time (`InterruptStt`, `InterruptLlm`, `InterruptTts`), discarding there what belongs
to earlier turns, running tools included. Everything else may happen between the three.
If PipeCat does not take the talking events of Asterisk for a turn, such a pipeline is
the case `vad = "none"`, which is in the model too.

What the model shows beside its properties, without a doc that says otherwise: an
interruption that reaches a stage late erases the marks of the turn that has begun
meanwhile, and without a detector the transcription that begins a turn is erased by the
interruption it causes, so such turns are not measured (`TurnMeasured` is stated for the
others); one interruption counts as three barge-ins; after a transfer that failed, was
cancelled or could not be sent each further one is answered "already_transferred". In
`MediaPath`: a `stop()` that meets a connection in `wait_closed()` raises a
`CancelledError` at its own `wait_closed()`, so that `main()` goes no further and
the event bus is not closed, and a live peer that does not read holds `stop()` up without limit. In
`ConfigReload`: a file that an editor has truncated is valid and replaces a good
configuration until the next event.

## 3. Runs

| run | checks | bounds |
|---|---|---|
| `call_one` | a call with faults and lost events. Safety: `EndedOnce`, `RegistryExact`, `BindExact`, `UuidServesOnce` (`NeverRejected` and `NeverBack`), `CallerReleased` (`TransferredCallerKept` and `NoStrandedCaller`); liveness: `CallEnds` (`StasisEndEndsCall` and `DisconnectEndsCall`), `ImplementsContract` | one call |
| `call_zombie`, `call_orphan`, `call_pending` | what three comments say and the code does not do | one call |
| `drain` | `ActiveCallsTornDown`, `ForcedCallsEnded`, `DrainTerminates` | three calls |
| `drain_left` | what the comments of the shutdown say, of a call in full detail | one call, no fault, no lost event |
| `bus` | `SlotExact`, `AnswerWhole`, `ImplementsStream`, `TurnEnds` | one turn, three texts, one tool call |
| `bus_cancel` | what a docstring says | one turn, two texts |
| `ari` | `ConnectedMeansServed`, `StopIsFinal`, `Reconnects`, `StopCompletes` | two nodes |
| `media` | `BookExact`, `ReportedOnce`, `StopReaches`, `BargeInSustained`, `AudioKept`; liveness: `AgentReleased`, `StopCompletes` | two connections, one audio frame of one chunk at a time, two loud frames to interrupt, one quiet one to arm again |
| `pipeline` | `TurnMeasured`, `CountsNested`, `TransferSound`; liveness: `ToolAnswered` | two user turns, two tool calls, three of them together |
| `config` | `ServiceRoutes`, `SessionsCoherent`, `EditNeverForgotten`; liveness: `EditsLoaded` | one call, two edits over eight documents, forced reloads up to version 2 |

Why the bounds are enough:

* `CallControl`, one call. Two calls share no key, no channel and no lock, and
  no action reads the state of another call; what one call does is independent
  of the others, and the interleavings that matter are those of the tasks *of*
  a call. Two calls give more than 30 million states and no new behaviour; the
  theorems hold for any number.
* `RuntimeDrain`, three calls: one forced and awaited, one still listed, one
  arriving meanwhile. `DrainedCalls`: one call is enough to be left; what is claimed of
  any number of them is proved.
* `ARIPool`, two nodes: one being closed while the other's supervisor is at any
  stage. There are no counters; the length of a backoff is left out.
* `AgenticBus`: three texts let two chunks be queued, a third be on the wire and
  a tool call fall between them. Turns share neither slots nor queues,
  so one turn shows the races of a turn with itself, its cancel and its deadlines.
  `MaxTurns` and `MaxTexts` are the only bounds that cut a behaviour of the program; the
  invariants and the refinement of `AnswerStream` are proved for any value of them.
* `ConfigReload`: two edits put one event behind another at every stage of timer
  and reload. The eight documents are a good one with a pipeline of each kind, a
  variant of it, an empty file, and one for each thing the validator can find wrong
  or lets through blank; `MaxEdits` and `MaxVersion` bound edits and forced reloads.
  Deadlock is not checked, because a system whose file nobody edits any more rests.
* `MediaPath`, two connections: the call's, and one that is accepted, sent away or
  ended at any moment, `stop()` included. One frame (`MaxAudio`) of one chunk is enough to be
  waiting, being written, or dropped at each stage of the rest; the safety
  properties are proved for any number of connections, thresholds and lengths, so
  these bounds limit only the two liveness properties, which depend on none of them.

* `ModularPipeline`: two user turns (`MaxTurns`) put the interruption of one behind,
  beside and ahead of the output of another at every stage; two requests run side by side,
  or one after the other's failure, with two turns for an interruption of either
  (`MaxEvents` bounds turns and tool calls together, so that two of one kind meet one of
  the other). The invariants are proved for any number of both. `send_dtmf` behaves as
  `play_audio_file` and is left out of `Configured`. Deadlock is not checked: a caller who
  hangs up ends the pipeline.

The violation runs are disagreements between a comment or docstring and the
code, explained in `PROJECT.json` under `findings`:

1. `call_zombie`: a shutdown that comes before the first step of `start()` does
   not prevent the pipeline from being built and run on an ended call.
2. `call_orphan`: a shutdown that comes before the AudioSocket channel's
   StasisStart leaves that channel up, answered and bridged.
3. `call_pending`: a failed originate leaves its UUID in `CallRouter._pending`.
4. `drain_left`: "Stop accepting new calls" stops the configuration watcher; calls
   that are in their setup, or arrive, are still counted when the process stops.
5. `bus_cancel`: text queued before a cancel is emitted after it.

## 4. Fairness

* `CallControl`: every ready task runs; a request to Asterisk is answered or fails
  (`aiohttp` bounds the wait); Asterisk executes an originate it accepted; a
  *cancelled* pipeline ends; a closed connection takes its channel with it, and
  Asterisk lets go of it, so that its disconnect is reported (`Disconnected`).
  No fairness for callers, for models (`PipelineEnds` of a pipeline nobody
  cancelled, `TransferCall`), nor for `ForcedShutdown`.
* `RuntimeDrain`: `main()` runs on and time passes; a teardown that began
  completes, which is the contract's own fairness and what `ImplementsContract`
  shows of `CallControl`. The exception is a pipeline whose cancellation never
  returns: PipeCat's promise, taken as such. That `audiosocket.stop()` comes to an end is
  `StopCompletes` of `MediaPath`, and needs its premise.
* `ARIPool`: supervisors and closes progress; a WebSocket to an Asterisk that is
  gone is noticed. Nothing is assumed of Asterisk, except in the premise of
  `Reconnects`.
* `MediaPath`: the server's tasks, the provider's requests (each has a timeout) and
  the call's shutdown get on. Peers need not speak, end, complete a handshake, for
  which the code has no timeout, or take what is buffered for them: that they do is the
  premise `PeersTake` of `StopCompletes` alone. The remote agent need not answer.
* `ConfigReload`: the observer thread and the event loop run; nobody need edit,
  force a reload, or stop the process.
* `ModularPipeline`: every ARI request comes back, because `aiohttp` bounds its time
  (`Replies`); no caller need speak, no service need answer, Asterisk need execute
  nothing.
* `AgenticBus`: coroutines, publications and tool callbacks return and deadlines
  pass; nothing is assumed of bus and backend.

## 5. Proofs

All theorems are for any set of calls or nodes and any value of the other
constants. The only assumptions are that `Faults` and `EventLoss` are Booleans
(`CallControlAssumption`), that the stand-ins for an unreadable file, a missing file
and no configuration are not documents (`ConfigReloadAssumption`), that the
connections are finitely many and the call's is one of them
(`AudioSocketAssumption`), that the thresholds and the length of a frame are
positive (`FullAgentAssumption`, `MediaAssumption`), and that the bounds of turns and
texts are numbers (`AgenticBusAssumption`, `PipelineAssumption`).

**CallControl.** None of the properties is inductive: `NeverRejected` needs to know
that a dialing connection has its UUID pending, which needs that it was made
pending at the registration and never removed in between; `EndedOnce` needs that
a call that was not registered has no controller anybody could shut down. `IInv`
adds, per call: before the registration a call has left no trace (`NoTraceBefore`);
a UUID waits for its connection from the registration on (`UuidWaits`); only a
call that is up has a pipeline or a transfer (`UpWhenServed`); a teardown with
reason `stasis_end` does not go on to the caller (`SparesLeft`). `TypeStep` and
`InvStep` go through `Next` action by action. The four actions that contain a call of
`shutdown()` are handled by one pair of lemmas, `ShutdownEnds` (what such a step does)
and `EndsKeeps` (that this keeps the invariant). The state properties follow; the
action properties `NeverRejected`, `NeverBack` and `TransferredCallerKept` are proved
step by step from `IInv`, and `NoStrandedCaller` with one more invariant
(`LeftForGood`: a caller that is spared has left, and does not come back).
`UuidAlwaysServesOnce` and `CallerAlwaysReleased` join these
in the form the run checks.
`ContractKept` shows that each step moves the phase of one call along an edge of the
contract or leaves it (`SeenAllowed`, `ContractStep`). `StepSeen` says so per call and
of any composition: a step of one call is a step of its contract and leaves the phase of
every other call alone.

**RuntimeDrain.** The invariant relates the call that is awaited, the calls still
listed and the calls counted at the beginning: whoever was counted is listed,
awaited, or not active any more.

**DrainedCalls.** `RuntimeDrain` stands on calls at their contract; here the two are put
together. A step of `main()` is the drain's own and leaves the calls alone; a step of a
call, a forced shutdown and the end of a connection move one phase along the contract
(`StepSeen`), which the drain allows (`CallStep`, `ForceOne`). So the composition
implements `RuntimeDrain` (`DrainImplemented`), and its invariant is the one of the calls
and the one of the drain together (`DrainedInvariant`). Each theorem about either part
holds of the whole: `CallsAlwaysSound` carries over the call's invariants, and the three
others say of calls in full detail what neither module could say alone: a counted call is
not left in the registry untouched (`CountedAlwaysTornDown`), a call the drain ended has
been reported exactly once, out of every map, before the event bus closes
(`ForcedAlwaysReported`), and the drain waits for nothing that was not begun
(`DrainWaitsForShutdowns`). The calls the finding `drain_left` is about are the ones these
theorems leave out: those that were not counted.

**ARIPool.** The invariant ties each flag to the stage of the supervisor and says
that a node `stop_all` has passed holds nothing that is not being closed, and that
its supervisor, cancelled, cannot open anything again.

**ConfigReload.** The invariant is that what is in service was validated, and that a
session's version is at most the store's and, if it is the store's, its plan resolves
from the store's configuration. `ReloadKeeps` and `ReloadCoherent` do the work for the
three actions that reload. `ServiceAlwaysRoutes` rests on `ValidRoutes`, which proves
for *any* configuration, caller and DID that what `Validates` accepts `Resolve` routes,
provided that no route has a blank name; the premise is needed, because the validator
skips blank names on purpose and the resolver looks them up. `EditIsNeverForgotten` needs
of the invariant only that `due` is a number; its work is that no step takes the last of
`unseen`, `posted`, an armed timer and a due reload away without a reload
(`ReloadReflects`).

**MediaPath.** The server's part of the invariant (`ServerInv`) is kept by every step of
the server whoever composes it (`ServerMove`): the gauge is the cardinality of the open
connections, which needs that an accepted one was not among them and a reaped one
was (`OpenMore`, `OpenLess`); during `stop()` each open connection is still listed, is the
one awaited, has ended, or was accepted meanwhile and is on the books (`Reach`), whether
`stop()` returns or raises. The
other part (`AgentInv`) says that an agent that has ended receives nothing and leaves the
output empty, and that the output of a bound line is unbound only by such an agent;
`AudioKept` needs both. `BargeInSustained` follows from the detection's counters being
the runs of frames they stand for.

**AgenticBus.** An answer is in three places: emitted, queued, on the wire. `OrderInv`
says that the numbers grow along each and from one to the next, which is `TextInOrder`
and survives any loss. `SlotInv` puts the sentinel last in the queue of a turn whose entry
is gone, and nowhere else. `TerminalInv` says that the terminal message is the last one
sent, so that behind it there is at most the sentinel. `WholeInv` is about turns that lost
nothing: what they emitted is 1, 2, 3, ..., and every text still missing is queued, on the
wire (while the entry is open), or comes after all the turn will take, in which case no
terminal message is queued either. `NextText` concludes that the first queued text is the
next one, and `AnsweredKeeps` that nothing is missing when the terminal message is taken.
The steps that touch the sequences have a lemma each (`ArriveKeeps`, `TakenKeeps`,
`CancelKeeps`, `BackendKeeps`); a turn that a step does not touch keeps its part
(`SameKeeps`). `StreamImplemented` maps each step to one of `AnswerStream` or to a stutter:
receiving, losing a copy and the router's work are invisible to it, a text taken from the queue
is `Hear` (which needs `NextText`), the terminal message is `Finish` (which needs that
nothing is missing), every other way out is `Break`. `CancelledTurnAlwaysDrains` bounds the finding
`bus_cancel`: what is emitted after a cancel was delivered before it, because a
cancelled turn has no entry that a later message could reach (`CancelInv`).

**ModularPipeline.** Metrics and tools have an invariant each over their own steps
(`CountsInv`, `TransferInv`: the guard is set exactly when one call of the tool has passed
it, and a handler that waits has told nothing), kept whatever the pipeline does in them (`MetricsMove`,
`ToolMove`). `CountsNested` is not inductive: it needs that a mark is set only after the
mark before it, and that a list is strictly ahead of the next one while only the earlier
mark is set. `TurnMeasured` needs `FlowInv` (what the interruption of the current turn has
passed holds nothing older) and `MarksInv` (once all three interruptions are through, the
marks and `_first` say how far the turn has come).

**What liveness rests on.** Liveness is out of the prover's reach, but each of the liveness
properties rests on a safety property that could fail by itself: that the task which
must get on is there, and waits for something that comes. These are proved:

| liveness (model-checked) | what it rests on (proved) |
|---|---|
| `CallEnds` | `ClosedLineAlwaysEndsCall`: a connection that closed after its handshake has begun the call's shutdown; in the finer steps of `MediaPath`, `LineAlwaysEndsCall`: unless `stop()` cut its report short |
| `DrainTerminates` | `DrainAwaitsTeardowns`, `DrainWaitsForShutdowns`: what is awaited is a teardown under way or over |
| `TurnEnds` | `SlotAlwaysExact`: a turn whose entry is gone has the sentinel in its queue |
| `Reconnects` | `SupervisorNeverGivesUp`: until its node is stopped a supervisor is in its loop |
| `StopCompletes` (pool) | `NoneEverLeftRunning`: every supervisor has ended or is cancelled |
| `StopCompletes` (server) | `WaitsAlwaysEnd`: `stop()` awaits tasks that end without it, the one that runs the shutdown of its call included, and raises only over a connection it cut |
| `AgentReleased` | `ReleasedAlwaysHoldsNothing`: an agent that ended holds no WebSocket and no task, and a shutdown that left its pipeline untold was cut by `stop()` |
| `EditsLoaded` | `EditIsNeverForgotten` (`EditNeverForgotten`, checked as well): an edit is owed a reload until one reflects the file |
| `ToolAnswered` | `SentIsAlwaysAwaited`: a request that is out belongs to an answer that waits for it |

Only model-checked: the liveness properties of the left column themselves, and with them
the fair part of `ImplementsContract` (`ENABLED` and fairness are beyond the prover).

## 6. Not modelled

Packet framing, resampling and the pacing of output audio; what an interruption does
inside PipeCat, of which only the order of frames is taken; DTMF events, which only
forward a frame; bridges, which nothing reads back and nothing destroys; what the
configuration says about providers beyond their mode, and the other providers, which are
builders without state; `ARIPool.reload`, which has no caller; logs, traces and the
exporters of metrics, which are written and never read back. The gauge
`vmo.calls.active` is one of these: `start()` counts up, `shutdown()` down, so a call
whose setup raised counts down only. A remote agent that closes its WebSocket leaves a
call silent until the caller hangs up: the model has it (`RemoteFails`), and no doc
promises otherwise, so no property is stated. Cancelling the task of `run_turn` while it
publishes has no caller in the repository. The process stop ends what still runs
(`asyncio.run`); what Asterisk does to the channels it leaves behind is outside.

## 7. Plan

Done: call control, its contract, the drain, the ARI pool, the bus, the configuration
with its reload and the resolver, the audio path with the full-agent providers, and the
modular pipeline with its tools and metrics, in that order, with proofs of all safety
properties the runs check; the composition of calls and drain, and the refinement of
`AnswerStream`, proved; the safety cores of the liveness properties. What would come next:

1. `MediaPath` below `CallControl`: that the connection and the pipeline `CallControl`
   takes at one step each are what `MediaPath` does in several. The pair
   `ClosedLineAlwaysEndsCall` and `LineAlwaysEndsCall` states what both promise of a line;
   the mapping has to answer for a report that `stop()` cuts short, which `CallControl`
   alone does not know, and for the late handshake.
2. `ToolCalls` below `CallControl` in the same way: its `TransferCall` is a tool call that
   was sent and executed.
3. `AnswerStream` below the language model of `ModularPipeline`, whose answers it would be.
