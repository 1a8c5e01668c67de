---------------------------- MODULE CallControl ----------------------------
(***************************************************************************)
(* One telephone call inside vmo_pipecat: CallLifecycle (setup, ARI event  *)
(* handlers), CallController (start, shutdown), CallRouter, CallRegistry   *)
(* and the AudioSocket server, composed with the part of Asterisk they     *)
(* talk to.                                                                *)
(*                                                                         *)
(* The program is a single asyncio event loop.  Every ARI event runs in a  *)
(* task of its own, every AudioSocket connection in another, and every     *)
(* call's pipeline in a third; an action below is the code a task runs     *)
(* from one suspension (an HTTP request to Asterisk, the cancellation of   *)
(* the pipeline, the close of a socket) to the next.  The locks of the     *)
(* router, the registry and the server never suspend inside a critical     *)
(* section, so they are never contended and add no step.                   *)
(*                                                                         *)
(* A call stands for its vmo_call_id, its caller channel, its audio UUID,  *)
(* its AudioSocket channel and that channel's TCP connection, which are    *)
(* all created fresh for it; hence the dictionaries keyed by them are      *)
(* sets of calls.                                                          *)
(*                                                                         *)
(* An operator marked "Seeded defect" is no part of the model: it is the   *)
(* definition after it with one plausible mistake, kept to show that a     *)
(* property notices the mistake.                                           *)
(***************************************************************************)
EXTENDS Naturals, FiniteSets

CONSTANTS
    Calls,      \* the calls that may enter Stasis
    Faults,     \* TRUE: an ARI request may fail or raise
    EventLoss   \* TRUE: ARI events may be lost (the WebSocket was down)

ASSUME CallControlAssumption == Faults \in BOOLEAN /\ EventLoss \in BOOLEAN

VARIABLES
    \* --- Asterisk
    caller,         \* the caller channel: absent, in the Stasis app, left by a transfer, gone
    events,         \* ARI events about the caller channel not yet handled
    aud,            \* the AudioSocket channel: none, up, gone
    \* --- CallLifecycle
    setup,          \* where _on_caller_channel is suspended
    attach,         \* where _on_audiosocket_channel is suspended
    pendingAudio,   \* keys of CallLifecycle._pending_audio
    \* --- CallRouter and CallRegistry
    pending,        \* keys of CallRouter._pending
    byConn,         \* controllers in CallRouter._by_conn
    routed,         \* controllers in CallRouter._by_vmo_call_id and ._by_channel
    registry,       \* controllers in CallRegistry
    \* --- AudioSocketServer
    conn,           \* the TCP connection of the AudioSocket channel
    \* --- CallController
    task,           \* where start() is suspended
    built,          \* calls whose _task is set
    cancelled,      \* calls whose pipeline task was cancelled
    transferred,    \* calls whose AsteriskActions._transfer_done is set
    audioId,        \* calls whose _audio_channel_id is set
    shut,           \* where shutdown() is suspended; "idle": _shutdown_event clear
    reason,         \* the reason shutdown() was given
    ended           \* vmo.call.ended events emitted

asterisk == <<caller, events, aud>>
maps     == <<pending, byConn, routed, registry>>
teardown == <<routed, registry, cancelled, shut, reason, ended>>
pipeline == <<task, built, transferred>>
vars == <<caller, events, aud, setup, attach, pendingAudio, pending, byConn, routed,
          registry, conn, task, built, cancelled, transferred, audioId, shut, reason, ended>>

SetupStages  == {"idle", "vars", "answer", "bridge", "add", "originate", "hangup", "up", "failed"}
AttachStages == {"idle", "var", "attach", "done"}
ConnStages   == {"none", "dialing", "bound", "closing", "closed"}
TaskStages   == {"none", "spawned", "running", "echo", "done"}
ShutStages   == {"idle", "cancel", "hangAudio", "hangCaller", "ended"}
CallerStates == {"absent", "inApp", "left", "gone"}
CallerEvents == {"StasisEnd", "ChannelDestroyed"}
Reasons == {"stasis_end", "channel_destroyed", "audiosocket_disconnect",
            "pipeline_ended", "forced_shutdown"}
NoReason == "none"

TypeOK ==
    /\ caller \in [Calls -> CallerStates]
    /\ events \in [Calls -> SUBSET CallerEvents]
    /\ aud \in [Calls -> {"none", "up", "gone"}]
    /\ setup \in [Calls -> SetupStages]
    /\ attach \in [Calls -> AttachStages]
    /\ pendingAudio \subseteq Calls
    /\ pending \subseteq Calls
    /\ byConn \subseteq Calls
    /\ routed \subseteq Calls
    /\ registry \subseteq Calls
    /\ conn \in [Calls -> ConnStages]
    /\ task \in [Calls -> TaskStages]
    /\ built \subseteq Calls
    /\ cancelled \subseteq Calls
    /\ transferred \subseteq Calls
    /\ audioId \subseteq Calls
    /\ shut \in [Calls -> ShutStages]
    /\ reason \in [Calls -> Reasons \cup {NoReason}]
    /\ ended \in [Calls -> Nat]

Init ==
    /\ caller = [c \in Calls |-> "absent"]
    /\ events = [c \in Calls |-> {}]
    /\ aud = [c \in Calls |-> "none"]
    /\ setup = [c \in Calls |-> "idle"]
    /\ attach = [c \in Calls |-> "idle"]
    /\ conn = [c \in Calls |-> "none"]
    /\ task = [c \in Calls |-> "none"]
    /\ shut = [c \in Calls |-> "idle"]
    /\ reason = [c \in Calls |-> NoReason]
    /\ ended = [c \in Calls |-> 0]
    /\ pendingAudio = {} /\ pending = {} /\ byConn = {} /\ routed = {} /\ registry = {}
    /\ built = {} /\ cancelled = {} /\ transferred = {} /\ audioId = {}

-----------------------------------------------------------------------------
(* Asterisk's side of a caller channel.                                    *)

\* Asterisk reports the events `due` of c; a broken WebSocket may lose any of them.
Report(c, due) ==
    \E lost \in (IF EventLoss THEN SUBSET due ELSE {{}}) :
        events' = [events EXCEPT ![c] = @ \cup (due \ lost)]

\* The caller channel of c is destroyed, whoever asked for it; a DELETE of a
\* channel that is already gone answers 404, which the client tolerates.
CallerGone(c) ==
    IF caller[c] \in {"inApp", "left"}
    THEN /\ caller' = [caller EXCEPT ![c] = "gone"]
         /\ Report(c, IF caller[c] = "inApp" THEN CallerEvents ELSE {"ChannelDestroyed"})
    ELSE UNCHANGED <<caller, events>>

\* The DELETE of c's caller channel has answered: done, or (Faults) without effect.
HangupCallerReply(c) ==
    \/ CallerGone(c)
    \/ Faults /\ UNCHANGED <<caller, events>>

\* The caller, or the SBC, hangs up on its own.
CallerHangsUp(c) ==
    /\ caller[c] \in {"inApp", "left"}
    /\ CallerGone(c)
    /\ UNCHANGED <<aud, setup, attach, pendingAudio, maps, conn, pipeline, cancelled, audioId,
                   shut, reason, ended>>

\* Asterisk executes the originate request: the AudioSocket channel exists, its
\* StasisStart and its TCP connection to the server are under way, in any order.
AsteriskOriginates(c) ==
    /\ setup[c] = "originate"
    /\ aud[c] = "none"
    /\ aud' = [aud EXCEPT ![c] = "up"]
    /\ attach' = [attach EXCEPT ![c] = "var"]
    /\ conn' = [conn EXCEPT ![c] = "dialing"]
    /\ UNCHANGED <<caller, events, setup, pendingAudio, maps, pipeline, cancelled, audioId,
                   shut, reason, ended>>

\* The AudioSocket channel ends, on its own or because its connection was closed.
AudioChannelEnds(c) ==
    /\ aud[c] = "up"
    /\ aud' = [aud EXCEPT ![c] = "gone"]
    /\ UNCHANGED <<caller, events, setup, attach, pendingAudio, maps, conn, pipeline, cancelled,
                   audioId, shut, reason, ended>>

-----------------------------------------------------------------------------
(* CallController.shutdown.                                                *)

\* What shutdown() does when it reaches a stage: the last one emits vmo.call.ended.
Reach(c, stage) ==
    /\ shut' = [shut EXCEPT ![c] = stage]
    /\ ended' = IF stage = "ended" THEN [ended EXCEPT ![c] = @ + 1] ELSE ended

\* Seeded defect: a caller that left is hung up as well.
AfterAudioAlwaysHangup(r) == "hangCaller"

\* The caller is hung up unless the reason says that it already left.
AfterAudio(r) == IF r \in {"hangup", "stasis_end"} THEN "ended" ELSE "hangCaller"

\* Seeded defect: shutdown() forgets the registry.
RemoveAndHangupKeepsCount(c, r) ==
    /\ routed' = routed \ {c}
    /\ UNCHANGED registry
    /\ Reach(c, IF c \in audioId THEN "hangAudio" ELSE AfterAudio(r))

\* shutdown() removes the call from the maps and goes on to its first request.
RemoveAndHangup(c, r) ==
    /\ routed' = routed \ {c}
    /\ registry' = registry \ {c}
    /\ Reach(c, IF c \in audioId THEN "hangAudio" ELSE AfterAudio(r))

\* Seeded defect: shutdown() is not idempotent.
ShutdownRepeats(c, r) ==
    /\ reason' = [reason EXCEPT ![c] = r]
    /\ RemoveAndHangup(c, r)
    /\ UNCHANGED cancelled

\* shutdown(reason=r) up to its first suspension.  The event is the guard that
\* makes every call but the first return at once.
Shutdown(c, r) ==
    \/ /\ shut[c] # "idle"
       /\ UNCHANGED teardown
    \/ /\ shut[c] = "idle"
       /\ reason' = [reason EXCEPT ![c] = r]
       /\ \/ /\ c \in built
             /\ cancelled' = cancelled \cup {c}
             /\ Reach(c, "cancel")
             /\ UNCHANGED <<routed, registry>>
          \/ /\ c \notin built
             /\ RemoveAndHangup(c, r)
             /\ UNCHANGED cancelled

\* task.cancel() has returned.
CancelReturns(c) ==
    /\ shut[c] = "cancel"
    /\ RemoveAndHangup(c, reason[c])
    /\ UNCHANGED <<asterisk, setup, attach, pendingAudio, pending, byConn, conn, pipeline,
                   cancelled, audioId, reason>>

\* The hangup of the AudioSocket channel has answered.
AudioHangupReturns(c) ==
    /\ shut[c] = "hangAudio"
    /\ \/ aud' = [aud EXCEPT ![c] = "gone"]
       \/ Faults /\ UNCHANGED aud
    /\ Reach(c, AfterAudio(reason[c]))
    /\ UNCHANGED <<caller, events, setup, attach, pendingAudio, maps, conn, pipeline, cancelled,
                   audioId, reason>>

\* The hangup of the caller channel has answered.
CallerHangupReturns(c) ==
    /\ shut[c] = "hangCaller"
    /\ HangupCallerReply(c)
    /\ Reach(c, "ended")
    /\ UNCHANGED <<aud, setup, attach, pendingAudio, maps, conn, pipeline, cancelled, audioId,
                   reason>>

\* _drain_calls gives up waiting and shuts down a call that it listed: one that was
\* registered, even if its setup has failed since and dropped it from the registry.
ForcedShutdown(c) ==
    /\ c \in registry \cup pending \/ conn[c] # "none"
    /\ shut[c] = "idle"
    /\ Shutdown(c, "forced_shutdown")
    /\ UNCHANGED <<asterisk, setup, attach, pendingAudio, pending, byConn, conn, pipeline, audioId>>

-----------------------------------------------------------------------------
(* CallLifecycle._on_caller_channel: the setup of a call.                  *)

\* What a step of the setup leaves alone, besides the maps.
SetupFrame == <<aud, attach, byConn, conn, built, cancelled, transferred, audioId,
                shut, reason, ended>>

\* StasisStart of a caller channel: the handler starts to read channel variables.
StasisStart(c) ==
    /\ setup[c] = "idle"
    /\ caller' = [caller EXCEPT ![c] = "inApp"]
    /\ setup' = [setup EXCEPT ![c] = "vars"]
    /\ UNCHANGED <<SetupFrame, events, pendingAudio, pending, routed, registry, task>>

\* The variables are read; the tenant resolves, or the caller is to be hung up.
VarsRead(c) ==
    /\ setup[c] = "vars"
    /\ \E next \in {"answer", "hangup"} : setup' = [setup EXCEPT ![c] = next]
    /\ UNCHANGED <<SetupFrame, caller, events, pendingAudio, pending, routed, registry, task>>

\* answer_channel has returned; its status is ignored, so a dead caller goes on.
Answered(c) ==
    /\ setup[c] = "answer"
    /\ setup' = [setup EXCEPT ![c] = "bridge"]
    /\ UNCHANGED <<SetupFrame, caller, events, pendingAudio, pending, routed, registry, task>>

\* create_bridge has returned a bridge, or None.
BridgeCreated(c) ==
    /\ setup[c] = "bridge"
    /\ \/ setup' = [setup EXCEPT ![c] = "add"]
       \/ Faults /\ setup' = [setup EXCEPT ![c] = "hangup"]
    /\ UNCHANGED <<SetupFrame, caller, events, pendingAudio, pending, routed, registry, task>>

\* The caller is in the bridge, or not: nobody looks.  The controller is created
\* and registered everywhere before the originate request is sent.
Register(c) ==
    /\ setup[c] = "add"
    /\ pending' = pending \cup {c}
    /\ routed' = routed \cup {c}
    /\ registry' = registry \cup {c}
    /\ pendingAudio' = pendingAudio \cup {c}
    /\ setup' = [setup EXCEPT ![c] = "originate"]
    /\ UNCHANGED <<SetupFrame, caller, events, task>>

\* Seeded defect: the call is registered when the originate has answered.
OriginateSucceedsRegisters(c) ==
    /\ setup[c] = "originate"
    /\ aud[c] # "none"
    /\ setup' = [setup EXCEPT ![c] = "up"]
    /\ task' = [task EXCEPT ![c] = "spawned"]
    /\ routed' = routed \cup {c}
    /\ registry' = registry \cup {c}
    /\ UNCHANGED <<SetupFrame, caller, events, pendingAudio, pending>>

\* The originate request succeeded: start() is spawned as a task.
OriginateSucceeds(c) ==
    /\ setup[c] = "originate"
    /\ aud[c] # "none"
    /\ setup' = [setup EXCEPT ![c] = "up"]
    /\ task' = [task EXCEPT ![c] = "spawned"]
    /\ UNCHANGED <<SetupFrame, caller, events, pendingAudio, pending, routed, registry>>

\* Seeded defect: a failed originate leaves the call in the registry.
OriginateFailsKeepsCall(c) ==
    /\ Faults
    /\ setup[c] = "originate"
    /\ routed' = routed \ {c}
    /\ pendingAudio' = pendingAudio \ {c}
    /\ setup' = [setup EXCEPT ![c] = "hangup"]
    /\ UNCHANGED <<SetupFrame, caller, events, pending, registry, task>>

\* It failed, or its answer was lost (status 500) after Asterisk had executed it.
OriginateFails(c) ==
    /\ Faults
    /\ setup[c] = "originate"
    /\ routed' = routed \ {c}
    /\ registry' = registry \ {c}
    /\ pendingAudio' = pendingAudio \ {c}
    /\ setup' = [setup EXCEPT ![c] = "hangup"]
    /\ UNCHANGED <<SetupFrame, caller, events, pending, task>>

\* The hangup that ends a failed setup has answered.
SetupHangupReturns(c) ==
    /\ setup[c] = "hangup"
    /\ HangupCallerReply(c)
    /\ setup' = [setup EXCEPT ![c] = "failed"]
    /\ UNCHANGED <<SetupFrame, pendingAudio, pending, routed, registry, task>>

\* A request raises something other than aiohttp.ClientError (a timeout): the
\* exception leaves _on_caller_channel and is logged by _on_stasis_start.
SetupRaises(c) ==
    /\ Faults
    /\ setup[c] \in {"answer", "originate", "hangup"}
    /\ setup' = [setup EXCEPT ![c] = "failed"]
    /\ UNCHANGED <<SetupFrame, caller, events, pendingAudio, pending, routed, registry, task>>

-----------------------------------------------------------------------------
(* CallLifecycle._on_audiosocket_channel.                                  *)

\* The UUID variable is read (or, Faults, cannot be found): the entry is popped,
\* the controller learns its channel id, and the channel is answered and bridged.
AudioStasisStart(c) ==
    /\ attach[c] = "var"
    /\ \/ /\ c \in pendingAudio
          /\ pendingAudio' = pendingAudio \ {c}
          /\ audioId' = audioId \cup {c}
          /\ attach' = [attach EXCEPT ![c] = "attach"]
       \/ /\ c \notin pendingAudio \/ Faults
          /\ attach' = [attach EXCEPT ![c] = "done"]
          /\ UNCHANGED <<pendingAudio, audioId>>
    /\ UNCHANGED <<asterisk, setup, maps, conn, pipeline, cancelled, shut, reason, ended>>

\* answer_channel and add_channel_to_bridge have returned, or raised.
AudioAttached(c) ==
    /\ attach[c] = "attach"
    /\ attach' = [attach EXCEPT ![c] = "done"]
    /\ UNCHANGED <<asterisk, setup, pendingAudio, maps, conn, pipeline, cancelled, audioId,
                   shut, reason, ended>>

-----------------------------------------------------------------------------
(* AudioSocketServer._connection_loop and the router's dispatch.           *)

\* Seeded defect: the UUID stays pending after it was bound.
HandshakeKeepsPending(c) ==
    /\ conn[c] = "dialing"
    /\ c \in pending
    /\ byConn' = byConn \cup {c}
    /\ conn' = [conn EXCEPT ![c] = "bound"]
    /\ UNCHANGED <<asterisk, setup, attach, pendingAudio, pending, pipeline, audioId, teardown>>

\* The UUID frame arrives: CallRouter.bind_uuid accepts it once, or rejects it.
Handshake(c) ==
    /\ conn[c] = "dialing"
    /\ \/ /\ c \in pending
          /\ pending' = pending \ {c}
          /\ byConn' = byConn \cup {c}
          /\ conn' = [conn EXCEPT ![c] = "bound"]
       \/ /\ c \notin pending
          /\ conn' = [conn EXCEPT ![c] = "closing"]
          /\ UNCHANGED <<pending, byConn>>
    /\ UNCHANGED <<asterisk, setup, attach, pendingAudio, pipeline, audioId, teardown>>

\* The peer closed the connection, sent TERMINATE, or vanished before its UUID.
ConnectionLost(c) ==
    /\ conn[c] \in {"dialing", "bound"}
    /\ aud[c] = "gone"
    /\ conn' = [conn EXCEPT ![c] = "closing"]
    /\ UNCHANGED <<asterisk, setup, attach, pendingAudio, maps, pipeline, cancelled, audioId,
                   shut, reason, ended>>

\* Audio that arrives while the controller still echoes (no pipeline built) calls
\* an output method that not every PipeCat release has: the loop ends with it.
AudioRaises(c) ==
    /\ conn[c] = "bound"
    /\ attach[c] \in {"attach", "done"} /\ aud[c] = "up"
    /\ c \notin built
    /\ conn' = [conn EXCEPT ![c] = "closing"]
    /\ UNCHANGED <<asterisk, setup, attach, pendingAudio, maps, pipeline, cancelled, audioId,
                   shut, reason, ended>>

\* The socket is closed: dispatch_disconnect tells the bound controller, if any.
Disconnected(c) ==
    /\ conn[c] = "closing"
    /\ conn' = [conn EXCEPT ![c] = "closed"]
    /\ byConn' = byConn \ {c}
    /\ \/ c \in byConn /\ Shutdown(c, "audiosocket_disconnect")
       \/ c \notin byConn /\ UNCHANGED teardown
    /\ UNCHANGED <<asterisk, setup, attach, pendingAudio, pending, pipeline, audioId>>

-----------------------------------------------------------------------------
(* CallController.start and the pipeline it runs.                          *)

StartFrame == <<asterisk, setup, attach, pendingAudio, pending, byConn, conn, transferred, audioId>>

\* The pipeline is built and run.  start() does not look at _shutdown_event first.
Start(c) ==
    /\ task[c] = "spawned"
    /\ built' = built \cup {c}
    /\ task' = [task EXCEPT ![c] = "running"]
    /\ UNCHANGED <<StartFrame, teardown>>

\* PipeCat cannot be imported: echo mode, until shutdown.
StartEcho(c) ==
    /\ task[c] = "spawned"
    /\ task' = [task EXCEPT ![c] = "echo"]
    /\ UNCHANGED <<StartFrame, built, teardown>>

\* The pipeline cannot be built: vmo.call.error, and the call is shut down.
StartFails(c) ==
    /\ task[c] = "spawned"
    /\ task' = [task EXCEPT ![c] = "done"]
    /\ Shutdown(c, "pipeline_ended")
    /\ UNCHANGED <<StartFrame, built>>

\* runner.run returns or raises, or the echo wait is over: shutdown if not done.
PipelineEnds(c) ==
    /\ \/ task[c] = "running"
       \/ task[c] = "echo" /\ shut[c] # "idle"
    /\ task' = [task EXCEPT ![c] = "done"]
    /\ Shutdown(c, "pipeline_ended")
    /\ UNCHANGED <<StartFrame, built>>

\* The model calls transfer_call: once, whatever becomes of the first attempt.
TransferCall(c) ==
    /\ task[c] = "running"
    /\ c \notin transferred
    /\ transferred' = transferred \cup {c}
    /\ \/ /\ caller[c] = "inApp"
          /\ caller' = [caller EXCEPT ![c] = "left"]
          /\ Report(c, {"StasisEnd"})
       \/ /\ caller[c] # "inApp" \/ Faults
          /\ UNCHANGED <<caller, events>>
    /\ UNCHANGED <<aud, setup, attach, pendingAudio, maps, conn, task, built, cancelled, audioId,
                   shut, reason, ended>>

-----------------------------------------------------------------------------
(* The ARI events that end a call.                                         *)

\* Seeded defect: the handler calls shutdown() with its default reason.
EndEventDefaultReason(c, e, r) ==
    /\ events' = [events EXCEPT ![c] = @ \ {e}]
    /\ \/ c \in registry /\ Shutdown(c, "normal")
       \/ c \notin registry /\ UNCHANGED teardown
    /\ UNCHANGED <<caller, aud, setup, attach, pendingAudio, pending, byConn, conn, pipeline,
                   audioId>>

\* Seeded defect: the handler looks the call up among the bound connections.
EndEventByConn(c, e, r) ==
    /\ events' = [events EXCEPT ![c] = @ \ {e}]
    /\ \/ c \in byConn /\ Shutdown(c, r)
       \/ c \notin byConn /\ UNCHANGED teardown
    /\ UNCHANGED <<caller, aud, setup, attach, pendingAudio, pending, byConn, conn, pipeline,
                   audioId>>

\* The handler of event `e` finds the call by its caller channel, or ignores it.
EndEvent(c, e, r) ==
    /\ events' = [events EXCEPT ![c] = @ \ {e}]
    /\ \/ c \in registry /\ Shutdown(c, r)
       \/ c \notin registry /\ UNCHANGED teardown
    /\ UNCHANGED <<caller, aud, setup, attach, pendingAudio, pending, byConn, conn, pipeline,
                   audioId>>

StasisEnd(c) ==
    /\ "StasisEnd" \in events[c]
    /\ EndEvent(c, "StasisEnd", "stasis_end")

\* The WebSocket is FIFO and tasks start in order: StasisEnd was handled before.
ChannelDestroyed(c) ==
    /\ "ChannelDestroyed" \in events[c] /\ "StasisEnd" \notin events[c]
    /\ EndEvent(c, "ChannelDestroyed", "channel_destroyed")

-----------------------------------------------------------------------------
SetupStep(c) ==
    \/ VarsRead(c) \/ Answered(c) \/ BridgeCreated(c) \/ Register(c)
    \/ OriginateSucceeds(c) \/ OriginateFails(c) \/ SetupHangupReturns(c) \/ SetupRaises(c)

AttachStep(c) == AudioStasisStart(c) \/ AudioAttached(c)

ConnStep(c) == Handshake(c) \/ ConnectionLost(c) \/ AudioRaises(c) \/ Disconnected(c)

StartStep(c) == Start(c) \/ StartEcho(c) \/ StartFails(c)

ShutdownStep(c) == CancelReturns(c) \/ AudioHangupReturns(c) \/ CallerHangupReturns(c)

EventStep(c) == StasisEnd(c) \/ ChannelDestroyed(c)

EnvStep(c) == StasisStart(c) \/ CallerHangsUp(c) \/ AsteriskOriginates(c) \/ AudioChannelEnds(c)

\* What a call does by itself.
CallStep(c) ==
    \/ SetupStep(c) \/ AttachStep(c) \/ ConnStep(c) \/ StartStep(c)
    \/ ShutdownStep(c) \/ EventStep(c) \/ EnvStep(c)
    \/ PipelineEnds(c) \/ TransferCall(c)

Next == \E c \in Calls : CallStep(c) \/ ForcedShutdown(c)

\* The event loop runs every ready task; Asterisk answers every request (aiohttp
\* bounds the wait) and executes an originate; a cancelled pipeline ends; a closed
\* connection takes its channel with it.  Callers and models may do nothing.
Fairness ==
    \A c \in Calls :
        /\ WF_vars(SetupStep(c)) /\ WF_vars(AttachStep(c)) /\ WF_vars(StartStep(c))
        /\ WF_vars(Handshake(c)) /\ WF_vars(ConnectionLost(c)) /\ WF_vars(Disconnected(c))
        /\ WF_vars(ShutdownStep(c)) /\ WF_vars(EventStep(c)) /\ WF_vars(AsteriskOriginates(c))
        /\ WF_vars(PipelineEnds(c) /\ (c \in cancelled \/ task[c] = "echo"))
        /\ WF_vars(AudioChannelEnds(c) /\ conn[c] \in {"closing", "closed"})

Spec == Init /\ [][Next]_vars

FairSpec == Spec /\ Fairness

-----------------------------------------------------------------------------
(* Properties.                                                             *)

\* However many of the handlers, the connection, the pipeline and the drain end a
\* call, vmo.call.ended is emitted at most once, and exactly by a completed shutdown.
EndedOnce ==
    \A c \in Calls : ended[c] = (IF shut[c] = "ended" THEN 1 ELSE 0)

\* The router and the registry always hold the same calls.  A call whose setup went
\* past the registration can be found until its teardown removes it (or its end event
\* would be missed), and never afterwards (or the drain would wait for it forever).
RegistryExact ==
    /\ registry = routed
    /\ \A c \in registry : shut[c] \in {"idle", "cancel"}
    /\ \A c \in Calls :
          setup[c] \in {"originate", "up"} /\ shut[c] \in {"idle", "cancel"} => c \in registry

\* An audio UUID is worth one connection: it is pending or bound, never both, and the
\* server loop that reads audio is exactly one whose controller the router knows.
BindExact ==
    /\ pending \cap byConn = {}
    /\ \A c \in byConn : conn[c] \in {"bound", "closing"}
    /\ \A c \in Calls : conn[c] = "bound" => c \in byConn

\* The connection Asterisk opens for an originate is never rejected for an unknown
\* UUID, however early it comes (lifecycle.py registers before it originates).
NeverRejected ==
    [][\A c \in Calls : conn[c] = "dialing" /\ conn'[c] = "closing" => aud[c] = "gone"]_vars

\* Once removed, a call is never registered again, and its UUID never pends again.
NeverBack ==
    [][/\ \A c \in registry' \ registry : setup[c] = "add"
       /\ \A c \in pending' \ pending : conn[c] = "none"]_vars

\* The UUID of a call serves one connection, however early or late that comes.
UuidServesOnce == NeverRejected /\ NeverBack

\* A caller that was transferred is not hung up by the platform when the call was
\* torn down because it left the application.
TransferredCallerKept ==
    [][\A c \in Calls :
          /\ caller[c] = "left" /\ caller'[c] = "gone"
          /\ <<setup, shut>>' # <<setup, shut>>
          => reason[c] # "stasis_end"]_vars

\* A teardown never ends with the caller still in the application, where nobody serves
\* or releases it, unless its last request was to release it and failed: those that
\* spare the caller do so because it is really gone.
NoStrandedCaller ==
    [][\A c \in Calls :
          ended'[c] > ended[c] /\ caller'[c] = "inApp" => Faults /\ shut[c] = "hangCaller"]_vars

\* shutdown() hangs up the callers it must, and only those.
CallerReleased == TransferredCallerKept /\ NoStrandedCaller

\* A call that is up when its caller leaves is ended, whatever else is going on.
StasisEndEndsCall ==
    \A c \in Calls :
        (c \in registry /\ setup[c] = "up" /\ "StasisEnd" \in events[c]) ~> ended[c] = 1

\* A bound connection that closes ends its call, even one whose originate failed.
DisconnectEndsCall ==
    \A c \in Calls : (c \in byConn /\ conn[c] = "closing") ~> ended[c] = 1

\* The two events of Asterisk that end a call do end it.
CallEnds == StasisEndEndsCall /\ DisconnectEndsCall

\* controller.py:44 "shutdown() cancels everything": once a call has ended, a pipeline
\* that still runs is one that was told to stop.
EndedMeansCancelled ==
    \A c \in Calls : ended[c] = 1 /\ task[c] = "running" => c \in cancelled

\* controller.py:266 "Always hang up the AudioSocket channel": the AudioSocket channel
\* of an ended call does not stay up.
AudioChannelReleased ==
    \A c \in Calls : ended[c] = 1 ~> aud[c] # "up"

\* router.py:134 "_pending entries expire naturally when UUID is received or call is
\* abandoned": the entry of a call whose setup failed goes away.
PendingExpires ==
    \A c \in Calls : setup[c] = "failed" ~> c \notin pending

-----------------------------------------------------------------------------
(* The contract this module implements.                                    *)

\* Where the contract sees a call.
PhaseOf(c) ==
    CASE shut[c] = "ended" -> "ended"
      [] shut[c] \notin {"idle", "ended"} -> "closing"
      [] shut[c] = "idle" /\ setup[c] = "idle" -> "idle"
      [] shut[c] = "idle" /\ setup[c] \in {"vars", "answer", "bridge", "add"} -> "setup"
      [] shut[c] = "idle" /\ c \in registry -> "active"
      [] OTHER -> IF aud[c] = "none" /\ c \notin pending THEN "refused" ELSE "dropped"

Phase == [c \in Calls |-> PhaseOf(c)]

Contract == INSTANCE CallContract WITH phase <- Phase, counted <- registry

\* Whatever fails and whichever events are lost, every step of a call is a step the
\* contract allows, or invisible to it.
KeepsContract == Contract!Spec

\* The component keeps its contract, teardown completion included.
ImplementsContract == Contract!FairSpec

=============================================================================
