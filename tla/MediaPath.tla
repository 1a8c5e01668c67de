------------------------------ MODULE MediaPath ------------------------------
(***************************************************************************)
(* The audio path of one full-agent call: AudioSocket connection, output   *)
(* transport, provider, and the teardown of the call, each on its own      *)
(* task.  The call's teardown is taken at what it does to this path: it    *)
(* cancels the pipeline and, begun by the disconnect of the line, is       *)
(* awaited by the connection's task (CallControl has the rest of it).      *)
(***************************************************************************)
EXTENDS AudioSocket, FullAgent

CONSTANT Chunks     \* 20 ms chunks of one output frame

ASSUME MediaAssumption == Chunks \in Nat \ {0}

VARIABLES
    teardown,   \* shutdown() of the call: not begun, run by the line's task ("conn"), run by
                \* another task or over ("away"), or cut before it told the pipeline ("cut")
    cancelled,  \* the pipeline was told to cancel itself
    late,       \* history: the pipeline started after the shutdown had looked for one
    routed,     \* the router has tied the line to the call
    line,       \* the output transport's _conn_id is set (to Line)
    queue,      \* frames that wait for write_audio_frame
    writing     \* chunks left of the frame that it writes

outVars == <<line, queue, writing>>
callVars == <<teardown, cancelled, late>>
mediaVars == <<serverVars, agentVars, callVars, routed, outVars>>

MediaTypeOK ==
    /\ ServerTypeOK /\ AgentTypeOK
    /\ teardown \in {"none", "conn", "away", "cut"}
    /\ cancelled \in BOOLEAN /\ late \in BOOLEAN
    /\ routed \in BOOLEAN /\ line \in BOOLEAN
    /\ queue \in 0..MaxAudio /\ writing \in 0..Chunks

MediaInit ==
    /\ ServerInit /\ AgentInit
    /\ teardown = "none" /\ cancelled = FALSE /\ late = FALSE /\ routed = FALSE
    /\ line = FALSE /\ queue = 0 /\ writing = 0

\* What InterruptionFrame and CancelFrame make PipeCat's output do: the audio task, with
\* the frame it writes, is cancelled, and what waits is discarded.
Silence == queue' = 0 /\ writing' = 0

-----------------------------------------------------------------------------
(* The connections                                                         *)

\* bind_uuid finds the UUID pending (no shutdown takes it back) and binds the transport,
\* before the handshake counts as complete.
LineBinds ==
    /\ ~routed
    /\ Handshake(Line, TRUE)
    /\ routed' = TRUE /\ line' = TRUE
    /\ UNCHANGED <<agentVars, callVars, queue, writing>>

\* The first frame is missing or wrong, or its UUID is: the teardown removes the line's.
SentAway(k) ==
    /\ Handshake(k, FALSE)
    /\ UNCHANGED <<agentVars, callVars, routed, outVars>>

\* dispatch_disconnect: the call of this connection is shut down, unless it is already.
Disconnected(k) ==
    LET ends == k = Line /\ routed /\ teardown = "none" IN
    /\ Closed(k, ends)
    /\ teardown' = IF ends THEN "conn" ELSE teardown
    /\ UNCHANGED <<agentVars, cancelled, late, routed, outVars>>

\* The shutdown that on_disconnect began has returned.
DisconnectReturns(k) ==
    /\ teardown # "conn"
    /\ Reported(k)
    /\ UNCHANGED <<agentVars, callVars, routed, outVars>>

\* stop() cancels the task of a connection: a shutdown that runs on it is cut short,
\* whether it has told the pipeline to cancel itself or not.
StopCancels(k) ==
    /\ CancelNext(k)
    /\ teardown' = IF loop[k] = "reporting" /\ teardown = "conn"
                     THEN IF cancelled THEN "away" ELSE "cut"
                     ELSE teardown
    /\ UNCHANGED <<agentVars, cancelled, late, routed, outVars>>

ServerStep ==
    \/ \E k \in Conns : Disconnected(k) \/ DisconnectReturns(k) \/ StopCancels(k)
    \/ /\ \/ \E k \in Conns : LoopStarts(k) \/ LoopEnds(k) \/ Reaped(k)
          \/ Awaited \/ StopDone \/ StopRaises
       /\ UNCHANGED <<agentVars, callVars, routed, outVars>>

ServerInput ==
    \/ LineBinds
    \/ \E k \in Conns : SentAway(k)
    \/ /\ (\E k \in Conns : Accept(k) \/ PeerEnds(k) \/ PeerTakes(k)) \/ Stop
       /\ UNCHANGED <<agentVars, callVars, routed, outVars>>

-----------------------------------------------------------------------------
(* The teardown of the call                                                *)

\* Anything else begins the call's shutdown(): StasisEnd, the drain, the pipeline's end.
ShutdownElsewhere ==
    /\ teardown = "none"
    /\ teardown' = "away"
    /\ UNCHANGED <<serverVars, agentVars, cancelled, late, routed, outVars>>

\* shutdown() found a pipeline task when it began.
Found == agent # "idle" /\ ~late

\* Its first await: the pipeline task, if there is one, is told to cancel itself.
ShutdownCancels ==
    /\ teardown \in {"conn", "away"} /\ Found /\ ~cancelled
    /\ cancelled' = TRUE
    /\ UNCHANGED <<serverVars, agentVars, teardown, late, routed, outVars>>

\* The shutdown that the line's task runs returns; the end of the pipeline it need not wait
\* for.  Nobody here waits for one that another task runs.
TeardownDone ==
    /\ teardown = "conn" /\ (Found => cancelled)
    /\ teardown' = "away"
    /\ UNCHANGED <<serverVars, agentVars, cancelled, late, routed, outVars>>

TeardownStep == ShutdownCancels \/ TeardownDone

-----------------------------------------------------------------------------
(* The agent and the output                                                *)

\* start() builds the pipeline and runs it, and does not look whether the call is over.
PipelineStarts ==
    /\ AgentStart
    /\ late' = (teardown # "none")
    /\ UNCHANGED <<serverVars, teardown, cancelled, routed, outVars>>

\* External: PipeCat cancels the pipeline by itself (it was idle, or a processor failed).
PipelineStops ==
    /\ agent # "idle" /\ ~cancelled
    /\ cancelled' = TRUE
    /\ UNCHANGED <<serverVars, agentVars, teardown, late, routed, outVars>>

\* The frame that cancels the pipeline reaches the agent, whoever sent it.
PipelineCancelled ==
    /\ cancelled
    /\ Disconnect
    /\ UNCHANGED <<serverVars, callVars, routed, outVars>>

\* The agent has disconnected, and the frame reaches the output: cancel() unbinds it.
OutputCancelled ==
    /\ WsClosed
    /\ line' = FALSE /\ Silence
    /\ UNCHANGED <<serverVars, callVars, routed>>

AgentStep ==
    \/ PipelineCancelled \/ OutputCancelled
    \/ /\ UrlFetched \/ Dialed \/ Greeted \/ ReceiveEnds \/ Joined
       /\ UNCHANGED <<serverVars, callVars, routed, outVars>>

\* The remote agent speaks: the receive loop pushes a frame.
AgentSpeaks ==
    /\ recv = "reading" /\ queue + writing < MaxAudio
    /\ queue' = queue + 1
    /\ UNCHANGED <<serverVars, agentVars, callVars, routed, line, writing>>

\* The remote agent has heard the caller begin to speak.
RemoteInterrupts ==
    /\ recv = "reading"
    /\ Silence
    /\ UNCHANGED <<serverVars, agentVars, callVars, routed, line>>

\* Audio of the line reaches the agent, whose own detection may interrupt.
CallerSpeaks(loud) ==
    /\ routed
    /\ MicFrame(loud)
    /\ IF BargesIn THEN Silence ELSE UNCHANGED <<queue, writing>>
    /\ UNCHANGED <<serverVars, callVars, routed, line>>

RemoteFails ==
    /\ RemoteCloses \/ ReceiveFails
    /\ UNCHANGED <<serverVars, callVars, routed, outVars>>

\* write_audio_frame: an output that is not bound drops the frame.
TakeFrame ==
    /\ queue > 0 /\ writing = 0
    /\ queue' = queue - 1
    /\ writing' = IF line THEN Chunks ELSE 0
    /\ UNCHANGED <<serverVars, agentVars, callVars, routed, line>>

\* send_audio: a chunk for a connection that is not in _writers is dropped.
WriteChunk ==
    /\ writing > 0
    /\ writing' = writing - 1
    /\ UNCHANGED <<serverVars, agentVars, callVars, routed, line, queue>>

-----------------------------------------------------------------------------
MediaNext ==
    \/ ServerStep \/ ServerInput
    \/ ShutdownElsewhere \/ TeardownStep
    \/ PipelineStarts \/ PipelineStops \/ AgentStep
    \/ AgentSpeaks \/ RemoteInterrupts \/ RemoteFails
    \/ \E loud \in BOOLEAN : CallerSpeaks(loud)
    \/ TakeFrame \/ WriteChunk

\* The event loop runs every ready task; the provider's requests end (each has a
\* timeout), and so does the shutdown of a call.  No peer need speak, end, or take what is
\* buffered for it.
MediaSpec ==
    /\ MediaInit /\ [][MediaNext]_mediaVars
    /\ WF_mediaVars(ServerStep) /\ WF_mediaVars(AgentStep) /\ WF_mediaVars(TeardownStep)

-----------------------------------------------------------------------------
\* The line is served: the server reads it, and the peer is there.
Listening == server = "up" /\ loop[Line] = "bound" /\ Line \notin lost

\* Nothing the agent says is dropped on a line that is served, neither for want of a
\* binding nor for want of a writer: what a caller misses was interrupted, or came
\* before the handshake or after the end.
AudioKept ==
    [][/\ TakeFrame /\ ~line => ~Listening
       /\ WriteChunk /\ Line \notin writers => ~Listening]_mediaVars

\* A shutdown makes the pipeline it found let go of the provider's WebSocket and receive
\* task, whatever stage of connecting they were in, whatever the remote does, and also if
\* the pipeline was ending by itself.  Only a stop() that met the line while it was ending
\* may cut that.  A pipeline that starts after the shutdown has looked is not promised
\* anything: nobody releases it, which run call_zombie reports.
AgentReleased ==
    teardown # "none" /\ Found
        ~> (agent = "ended" /\ ws = "none" /\ recv = "none") \/ Line \in cut

\* Every closed connection gets rid of what was buffered for its peer.
PeersTake ==
    WF_mediaVars((\E k \in Conns : PeerTakes(k)) /\ UNCHANGED <<agentVars, callVars, routed, outVars>>)

\* If every peer takes what was sent to it (wait_closed() has no limit of its own), stop()
\* returns whatever its connections, and the shutdowns they report to, are doing.  It raises
\* instead only if it cancelled a connection that was in wait_closed().
StopCompletes ==
    PeersTake => (server = "stopping" ~> server = "closed" \/ \E k \in Conns : waiter[k] = "cancelled")

=============================================================================
