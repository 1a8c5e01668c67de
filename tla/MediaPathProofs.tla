--------------------------- MODULE MediaPathProofs ---------------------------
(***************************************************************************)
(* The safety of the audio path for any number of connections, any         *)
(* thresholds of the voice detection and any length of a frame.  The       *)
(* server's part of the invariant says where each connection stands in the *)
(* books and in stop()'s list; the other part says that an agent that has  *)
(* ended feeds nobody, and that a bound line is unbound by that only.      *)
(***************************************************************************)
EXTENDS MediaPath, FiniteSetTheorems, TLAPS

\* The steps of the server, whoever composes them.
ServerMove ==
    \/ \E k \in Conns :
          \/ Accept(k) \/ LoopStarts(k) \/ PeerEnds(k) \/ LoopEnds(k) \/ PeerTakes(k) \/ Reported(k) \/ Reaped(k) \/ CancelNext(k)
          \/ \E b \in BOOLEAN : Handshake(k, b) \/ Closed(k, b)
    \/ Stop \/ Awaited \/ StopDone \/ StopRaises
    \/ UNCHANGED serverVars

\* A connection is reported when its finally clause says so, and not before.
Reports ==
    \A k \in Conns :
        /\ loop[k] \in {"none", "accepted", "handshake", "bound", "closing"} => reports[k] = 0
        /\ loop[k] = "reporting" => reports[k] = 1
        /\ reports[k] <= 1
        /\ loop[k] \in {"done", "gone"} /\ reports[k] = 0 => k \in cut

\* Whom stop() has still to see, sees now, or need not see.
Reach ==
    /\ server # "stopping" => listed = {} /\ awaited = NoConn
    /\ server # "up" => \A k \in Open : k \in tasks \/ k \in listed \/ k = awaited \/ loop[k] = "done"

ServerInv == ServerTypeOK /\ BookExact /\ Reports /\ Reach

\* The agent has nothing left to say once it is disconnected, and only then may the
\* output of a bound line have been unbound.
AgentInv ==
    /\ agent \in {"closing", "ended"} => recv = "none"
    /\ agent = "ended" => queue = 0 /\ writing = 0
    /\ loop[Line] = "bound" => line \/ agent = "ended"
    /\ speech = loudRun /\ silence = quietRun

MediaInv == MediaTypeOK /\ ServerInv /\ AgentInv

-----------------------------------------------------------------------------
(* The server                                                              *)

\* The open connections are finitely many.
LEMMA OpenFinite == IsFiniteSet(Open) /\ Open \subseteq Conns
  BY AudioSocketAssumption, FS_Subset DEF Open

\* A move between two stages of an open connection leaves the open ones alone.
LEMMA OpenSame ==
    ASSUME ServerTypeOK, NEW k \in Conns, NEW stage \in Stages \ {"none", "gone"},
           k \in Open, Move(k, stage)
    PROVE  Open' = Open /\ loop' \in [Conns -> Stages]
  BY DEF ServerTypeOK, Open, Move, Stages

\* An accepted connection is one more.
LEMMA OpenMore ==
    ASSUME ServerTypeOK, NEW k \in Conns, loop[k] = "none", Move(k, "accepted")
    PROVE  /\ Open' = Open \cup {k} /\ loop' \in [Conns -> Stages]
           /\ Cardinality(Open') = Cardinality(Open) + 1
<1>1. Open' = Open \cup {k} /\ k \notin Open /\ loop' \in [Conns -> Stages]
  BY DEF ServerTypeOK, Open, Move, Stages
<1> QED
  BY <1>1, OpenFinite, FS_AddElement

\* A reaped connection is one less.
LEMMA OpenLess ==
    ASSUME ServerTypeOK, NEW k \in Conns, loop[k] = "done", Move(k, "gone")
    PROVE  /\ Open' = Open \ {k} /\ loop' \in [Conns -> Stages]
           /\ Cardinality(Open') = Cardinality(Open) - 1
<1>1. Open' = Open \ {k} /\ k \in Open /\ loop' \in [Conns -> Stages]
  BY DEF ServerTypeOK, Open, Move, Stages
<1> QED
  BY <1>1, OpenFinite, FS_RemoveElement

\* The server starts with no connection.
LEMMA ServerInvInit == ServerInit => ServerInv
<1> SUFFICES ASSUME ServerInit PROVE ServerInv
  OBVIOUS
<1>1. Open = {}
  BY DEF ServerInit, Open
<1>2. ServerTypeOK
  BY DEF ServerInit, ServerTypeOK, Stages
<1>3. BookExact
  BY <1>1, FS_EmptySet DEF ServerInit, BookExact
<1> QED
  BY <1>1, <1>2, <1>3 DEF ServerInv, ServerInit, Reports, Reach

\* A connection that moves between open stages keeps the books.
LEMMA BookSame ==
    ASSUME ServerInv, Open' = Open, UNCHANGED <<server, writers, tasks, gauge>>
    PROVE  BookExact'
  BY DEF ServerInv, BookExact

\* Every step of the server keeps its invariant.
LEMMA ServerInvStep == ServerInv /\ ServerMove => ServerInv'
<1> SUFFICES ASSUME ServerInv, ServerMove PROVE ServerInv'
  OBVIOUS
<1> USE DEF ServerInv
<1>1. CASE UNCHANGED serverVars
  BY <1>1 DEF serverVars, ServerTypeOK, BookExact, Reports, Reach, Open
<1>2. ASSUME NEW k \in Conns, Accept(k) PROVE ServerInv'
  <2>1. Open' = Open \cup {k} /\ loop' \in [Conns -> Stages] /\ Cardinality(Open') = Cardinality(Open) + 1
    BY <1>2, OpenMore DEF Accept
  <2>2. ServerTypeOK' /\ BookExact'
    BY <1>2, <2>1 DEF Accept, ServerTypeOK, BookExact
  <2>3. Reports'
    BY <1>2 DEF Accept, Move, ServerTypeOK, Reports
  <2>4. Reach'
    BY <1>2, <2>1 DEF Accept, Move, ServerTypeOK, Reach, Open
  <2> QED
    BY <2>2, <2>3, <2>4
<1>3. ASSUME NEW k \in Conns, Reaped(k) PROVE ServerInv'
  <2>1. Open' = Open \ {k} /\ loop' \in [Conns -> Stages] /\ Cardinality(Open') = Cardinality(Open) - 1
    BY <1>3, OpenLess DEF Reaped
  <2>2. gauge' \in Nat
    <3>1. Cardinality(Open') \in Nat
      BY <2>1, OpenFinite, FS_Subset, FS_CardinalityType
    <3> QED
      BY <1>3, <2>1, <3>1 DEF Reaped, BookExact
  <2>3. ServerTypeOK' /\ BookExact'
    BY <1>3, <2>1, <2>2 DEF Reaped, ServerTypeOK, BookExact
  <2>4. Reports'
    BY <1>3 DEF Reaped, Move, ServerTypeOK, Reports
  <2>5. Reach'
    BY <1>3, <2>1 DEF Reaped, Move, ServerTypeOK, Reach, Open
  <2> QED
    BY <2>3, <2>4, <2>5
<1>4. ASSUME NEW k \in Conns, PeerEnds(k) \/ PeerTakes(k) PROVE ServerInv'
  BY <1>4 DEF PeerEnds, PeerTakes, ServerTypeOK, BookExact, Reports, Reach, Open
<1>5. ASSUME NEW k \in Conns, LoopEnds(k) PROVE ServerInv'
  <2>1. Open' = Open /\ loop' \in [Conns -> Stages]
    BY <1>5, OpenSame DEF LoopEnds, Open, Stages
  <2> QED
    BY <1>5, <2>1, BookSame DEF LoopEnds, Move, ServerTypeOK, Reports, Reach, Open
<1>5a. ASSUME NEW k \in Conns, LoopStarts(k) PROVE ServerInv'
  <2>1. Open' = Open /\ loop' \in [Conns -> Stages]
    BY <1>5a, OpenSame DEF LoopStarts, Open, Stages
  <2> QED
    BY <1>5a, <2>1, BookSame DEF LoopStarts, Move, ServerTypeOK, Reports, Reach, Open
<1>6. ASSUME NEW k \in Conns, NEW b \in BOOLEAN, Handshake(k, b) PROVE ServerInv'
  <2>1. Open' = Open /\ loop' \in [Conns -> Stages]
    BY <1>6, OpenSame DEF Handshake, Open, Stages
  <2> QED
    BY <1>6, <2>1, BookSame DEF Handshake, Move, ServerTypeOK, Reports, Reach, Open
<1>7. ASSUME NEW k \in Conns, NEW b \in BOOLEAN, Closed(k, b) PROVE ServerInv'
  <2>1. Open' = Open /\ loop' \in [Conns -> Stages]
    BY <1>7, OpenSame DEF Closed, Open, Stages
  <2>2. ServerTypeOK' /\ Reports'
    BY <1>7, <2>1 DEF Closed, Move, ServerTypeOK, Reports
  <2> QED
    BY <1>7, <2>1, <2>2, BookSame DEF Closed, Move, ServerTypeOK, Reach, Open
<1>8. ASSUME NEW k \in Conns, Reported(k) PROVE ServerInv'
  <2>1. Open' = Open /\ loop' \in [Conns -> Stages]
    BY <1>8, OpenSame DEF Reported, Open, Stages
  <2> QED
    BY <1>8, <2>1, BookSame DEF Reported, Move, ServerTypeOK, Reports, Reach, Open
<1>9. ASSUME NEW k \in Conns, CancelNext(k) PROVE ServerInv'
  <2>1. /\ server = "stopping" /\ awaited = NoConn /\ k \in listed
        /\ listed' = listed \ {k} /\ awaited' = k
        /\ UNCHANGED <<server, writers, tasks, gauge, held, reports>>
    BY <1>9 DEF CancelNext
  <2>2. \A j \in Conns : j # awaited
    BY <2>1, AudioSocketAssumption
  <2>3. lost' \subseteq Conns /\ waiter' \in [Conns -> {"pending", "set", "cancelled"}]
    BY <1>9 DEF CancelNext, Cancelled, ServerTypeOK
  <2>4. CASE k \in Reading /\ Move(k, "closing") /\ UNCHANGED cut
    <3>1. Open' = Open /\ loop' \in [Conns -> Stages]
      BY <2>4, OpenSame DEF Reading, Open, Stages
    <3>2. ServerTypeOK' /\ BookExact'
      BY <2>1, <2>3, <2>4, <3>1, BookSame DEF ServerTypeOK
    <3>3. Reports'
      BY <2>1, <2>4 DEF Reading, Move, ServerTypeOK, Reports
    <3>4. Reach'
      BY <2>1, <2>2, <2>4, <3>1 DEF Reading, Move, ServerTypeOK, Reach, Open
    <3> QED
      BY <3>2, <3>3, <3>4
  <2>5. CASE /\ loop[k] \in {"accepted", "closing", "reporting"}
             /\ Move(k, "done") /\ cut' = cut \cup {k}
    <3>1. Open' = Open /\ loop' \in [Conns -> Stages]
      BY <2>5, OpenSame DEF Open, Stages
    <3>2. ServerTypeOK' /\ BookExact'
      BY <2>1, <2>3, <2>5, <3>1, BookSame DEF ServerTypeOK
    <3>3. Reports'
      BY <2>1, <2>5 DEF Move, ServerTypeOK, Reports
    <3>4. Reach'
      BY <2>1, <2>2, <2>5, <3>1 DEF Move, ServerTypeOK, Reach, Open
    <3> QED
      BY <3>2, <3>3, <3>4
  <2>6. CASE loop[k] \in {"done", "gone"} /\ UNCHANGED <<loop, cut>>
    <3>1. Open' = Open
      BY <2>6 DEF Open
    <3>2. ServerTypeOK' /\ BookExact' /\ Reports'
      BY <2>1, <2>3, <2>6, <3>1, BookSame DEF ServerTypeOK, Reports
    <3>3. Reach'
      BY <2>1, <2>2, <2>6, <3>1 DEF Reach, Open
    <3> QED
      BY <3>2, <3>3
  <2> QED
    BY <1>9, <2>4, <2>5, <2>6 DEF CancelNext, Cancelled
<1>10. CASE Stop
  BY <1>10 DEF Stop, ServerTypeOK, BookExact, Reports, Reach, Open
<1>11. CASE Awaited
  BY <1>11, AudioSocketAssumption DEF Awaited, ServerTypeOK, BookExact, Reports, Reach, Open
<1>12. CASE StopDone \/ StopRaises
  BY <1>12 DEF StopDone, StopRaises, WritersClosed, ServerTypeOK, BookExact, Reports, Reach, Open
<1> QED
  BY <1>1, <1>2, <1>3, <1>4, <1>5, <1>5a, <1>6, <1>7, <1>8, <1>9, <1>10, <1>11, <1>12 DEF ServerMove

-----------------------------------------------------------------------------
(* The agent, the output, and the two together                             *)

\* Every step of the composition is a step of the server or leaves the server alone.
LEMMA StepIsServerMove == [MediaNext]_mediaVars => ServerMove
<1> SUFFICES ASSUME [MediaNext]_mediaVars PROVE ServerMove
  OBVIOUS
<1>1. CASE ServerStep
  BY <1>1, Zenon DEF ServerStep, Disconnected, DisconnectReturns, StopCancels, ServerMove
<1>2. CASE ServerInput
  <2>1. CASE LineBinds
    BY <2>1, AudioSocketAssumption DEF LineBinds, ServerMove
  <2>2. CASE \E k \in Conns : SentAway(k)
    BY <2>2 DEF SentAway, ServerMove
  <2> QED
    BY <1>2, <2>1, <2>2, Zenon DEF ServerInput, ServerMove
<1>3. CASE UNCHANGED serverVars
  BY <1>3 DEF ServerMove
<1>4. CASE AgentStep
  BY <1>3, <1>4 DEF AgentStep, PipelineCancelled, OutputCancelled
<1>5. CASE UNCHANGED mediaVars
  BY <1>3, <1>5 DEF mediaVars
<1>6. CASE \E loud \in BOOLEAN : CallerSpeaks(loud)
  BY <1>3, <1>6 DEF CallerSpeaks
<1> QED
  BY <1>1, <1>2, <1>3, <1>4, <1>5, <1>6 DEF MediaNext, ShutdownElsewhere, TeardownStep,
     ShutdownCancels, TeardownDone, PipelineStarts, PipelineStops, AgentSpeaks, RemoteInterrupts, RemoteFails, TakeFrame, WriteChunk

\* The invariant holds initially.
LEMMA MediaInvInit == MediaInit => MediaInv
<1> SUFFICES ASSUME MediaInit PROVE MediaInv
  OBVIOUS
<1>1. ServerInv
  BY ServerInvInit DEF MediaInit
<1>2. AgentInv
  BY AudioSocketAssumption DEF MediaInit, AgentInit, ServerInit, AgentInv
<1>3. MediaTypeOK
  <2>1. AgentTypeOK
    <3>1. 0 \in 0..StartFrames /\ 0 \in 0..StopFrames
      BY FullAgentAssumption
    <3> QED
      BY <3>1, Zenon DEF MediaInit, AgentInit, AgentTypeOK
  <2>2. queue \in 0..MaxAudio /\ writing \in 0..Chunks
    BY FullAgentAssumption, MediaAssumption DEF MediaInit
  <2> QED
    BY <1>1, <2>1, <2>2 DEF MediaInit, ServerInv, MediaTypeOK
<1> QED
  BY <1>1, <1>2, <1>3 DEF MediaInv

\* What the two invariants say beside the server's.
MediaRest ==
    /\ AgentTypeOK
    /\ teardown \in {"none", "conn", "away", "cut"}
    /\ cancelled \in BOOLEAN /\ late \in BOOLEAN
    /\ routed \in BOOLEAN /\ line \in BOOLEAN
    /\ queue \in 0..MaxAudio /\ writing \in 0..Chunks
    /\ AgentInv

\* A step of the server binds no line, but for the handshake of LineBinds.
LEMMA ServerKeepsRest ==
    ASSUME MediaInv, UNCHANGED <<agentVars, cancelled, late, routed, outVars>>,
           teardown' \in {"none", "conn", "away", "cut"},
           loop'[Line] = "bound" => loop[Line] = "bound"
    PROVE  MediaRest'
  BY DEF MediaInv, MediaTypeOK, AgentTypeOK, AgentInv, MediaRest, agentVars, vadVars, outVars

\* Every step keeps the agent's side and the output's.
LEMMA RestStep == MediaInv /\ [MediaNext]_mediaVars => MediaRest'
<1> SUFFICES ASSUME MediaInv, [MediaNext]_mediaVars PROVE MediaRest'
  OBVIOUS
<1>t. loop \in [Conns -> Stages] /\ teardown \in {"none", "conn", "away", "cut"}
  BY DEF MediaInv, MediaTypeOK, ServerTypeOK
<1>1. CASE ServerStep
  <2>1. ASSUME NEW k \in Conns, Disconnected(k) \/ DisconnectReturns(k) \/ StopCancels(k)
        PROVE  MediaRest'
    <3>1. UNCHANGED <<agentVars, cancelled, late, routed, outVars>> /\ teardown' \in {"none", "conn", "away", "cut"}
      BY <1>t, <2>1 DEF Disconnected, DisconnectReturns, StopCancels, callVars
    <3>2. loop'[Line] = "bound" => loop[Line] = "bound"
      BY <1>t, <2>1, AudioSocketAssumption
         DEF Disconnected, DisconnectReturns, StopCancels, Closed, Reported, CancelNext, Cancelled, Move
    <3> QED
      BY <3>1, <3>2, ServerKeepsRest
  <2>2. ASSUME UNCHANGED <<agentVars, callVars, routed, outVars>>,
               (\E k \in Conns : LoopStarts(k) \/ LoopEnds(k) \/ Reaped(k)) \/ Awaited \/ StopDone \/ StopRaises
        PROVE  MediaRest'
    <3>1. loop'[Line] = "bound" => loop[Line] = "bound"
      BY <1>t, <2>2, AudioSocketAssumption DEF LoopStarts, LoopEnds, Reaped, Awaited, StopDone, StopRaises, WritersClosed, Move
    <3> QED
      BY <1>t, <2>2, <3>1, ServerKeepsRest DEF callVars
  <2> QED
    BY <1>1, <2>1, <2>2 DEF ServerStep
<1>2. CASE ServerInput
  <2>1. CASE LineBinds
    BY <2>1 DEF LineBinds, MediaInv, MediaTypeOK, MediaRest, AgentTypeOK, AgentInv, agentVars, callVars, vadVars
  <2>2. ASSUME NEW k \in Conns, SentAway(k) PROVE MediaRest'
    <3>1. loop'[Line] = "bound" => loop[Line] = "bound"
      BY <1>t, <2>2, AudioSocketAssumption DEF SentAway, Handshake, Move
    <3> QED
      BY <1>t, <2>2, <3>1, ServerKeepsRest DEF SentAway, callVars
  <2>3. ASSUME UNCHANGED <<agentVars, callVars, routed, outVars>>,
               (\E k \in Conns : Accept(k) \/ PeerEnds(k) \/ PeerTakes(k)) \/ Stop
        PROVE  MediaRest'
    <3>1. loop'[Line] = "bound" => loop[Line] = "bound"
      BY <1>t, <2>3, AudioSocketAssumption DEF Accept, PeerEnds, PeerTakes, Stop, Move
    <3> QED
      BY <1>t, <2>3, <3>1, ServerKeepsRest DEF callVars
  <2> QED
    BY <1>2, <2>1, <2>2, <2>3 DEF ServerInput
<1>3. CASE UNCHANGED mediaVars
  BY <1>3, <1>t, ServerKeepsRest DEF mediaVars, serverVars, callVars
<1> USE DEF MediaInv, MediaTypeOK, MediaRest, AgentTypeOK, AgentInv, serverVars, callVars, outVars, agentVars, vadVars
<1>4. CASE ShutdownElsewhere \/ TeardownStep
  <2>1. /\ UNCHANGED <<serverVars, agentVars, late, routed, outVars>>
        /\ cancelled' \in BOOLEAN /\ teardown' \in {"none", "conn", "away", "cut"}
    BY <1>4, <1>t, Zenon DEF ShutdownElsewhere, TeardownStep, ShutdownCancels, TeardownDone
  <2> QED
    BY <2>1
<1>5. CASE PipelineStarts \/ PipelineStops
  BY <1>5 DEF PipelineStarts, PipelineStops, AgentStart
<1>6. CASE AgentStep
  <2>1. CASE PipelineCancelled
    BY <2>1 DEF PipelineCancelled, Disconnect
  <2>2. CASE OutputCancelled
    <3>1. queue' \in 0..MaxAudio /\ writing' \in 0..Chunks
      BY <2>2, FullAgentAssumption, MediaAssumption DEF OutputCancelled, Silence
    <3>2. queue' = 0 /\ writing' = 0
      BY <2>2 DEF OutputCancelled, Silence
    <3> QED
      BY <2>2, <3>1, <3>2 DEF OutputCancelled, WsClosed
  <2>3. CASE UrlFetched /\ UNCHANGED <<serverVars, callVars, routed, outVars>>
    BY <2>3 DEF UrlFetched
  <2>4. CASE Dialed /\ UNCHANGED <<serverVars, callVars, routed, outVars>>
    BY <2>4 DEF Dialed
  <2>5. CASE Greeted /\ UNCHANGED <<serverVars, callVars, routed, outVars>>
    BY <2>5 DEF Greeted
  <2>6. CASE ReceiveEnds /\ UNCHANGED <<serverVars, callVars, routed, outVars>>
    BY <2>6 DEF ReceiveEnds
  <2>7. CASE Joined /\ UNCHANGED <<serverVars, callVars, routed, outVars>>
    BY <2>7 DEF Joined
  <2> QED
    BY <1>6, <2>1, <2>2, <2>3, <2>4, <2>5, <2>6, <2>7 DEF AgentStep
<1>7. CASE AgentSpeaks
  BY <1>7, FullAgentAssumption DEF AgentSpeaks
<1>8. CASE RemoteInterrupts
  BY <1>8, FullAgentAssumption, MediaAssumption DEF RemoteInterrupts, Silence
<1>9. CASE RemoteFails
  <2>1. CASE RemoteCloses
    BY <1>9, <2>1 DEF RemoteFails, RemoteCloses
  <2>2. CASE ReceiveFails
    BY <1>9, <2>2 DEF RemoteFails, ReceiveFails
  <2> QED
    BY <1>9, <2>1, <2>2 DEF RemoteFails
<1>10. ASSUME NEW loud \in BOOLEAN, CallerSpeaks(loud) PROVE MediaRest'
  <2>1. queue' \in 0..MaxAudio /\ writing' \in 0..Chunks
    BY <1>10, FullAgentAssumption, MediaAssumption DEF CallerSpeaks, Silence
  <2>2. /\ speech' \in 0..StartFrames /\ silence' \in 0..StopFrames
        /\ loudRun' = speech' /\ quietRun' = silence'
    BY <1>10, FullAgentAssumption DEF CallerSpeaks, MicFrame, Upto
  <2>3. active' \in BOOLEAN
    BY <1>10, Zenon DEF CallerSpeaks, MicFrame
  <2> QED
    BY <1>10, <2>1, <2>2, <2>3 DEF CallerSpeaks, MicFrame
<1>11. CASE TakeFrame
  BY <1>11, FullAgentAssumption, MediaAssumption DEF TakeFrame
<1>12. CASE WriteChunk
  BY <1>12, MediaAssumption DEF WriteChunk
<1> QED
  BY <1>1, <1>2, <1>3, <1>4, <1>5, <1>6, <1>7, <1>8, <1>9, <1>10, <1>11, <1>12 DEF MediaNext

\* Every step keeps the whole of it.
LEMMA MediaInvStep == MediaInv /\ [MediaNext]_mediaVars => MediaInv'
<1> SUFFICES ASSUME MediaInv, [MediaNext]_mediaVars PROVE MediaInv'
  OBVIOUS
<1>1. ServerInv'
  BY StepIsServerMove, ServerInvStep DEF MediaInv
<1>2. MediaRest'
  BY RestStep
<1> QED
  BY <1>1, <1>2 DEF MediaInv, MediaRest, MediaTypeOK, ServerInv

\* The invariant holds in every reachable state.
THEOREM MediaInvariant == MediaSpec => []MediaInv
  BY MediaInvInit, MediaInvStep, PTL DEF MediaSpec

-----------------------------------------------------------------------------
(* What follows from it                                                    *)

\* Whatever peers, provider and teardown do, the variables keep their types.
THEOREM MediaTypeCorrect == MediaSpec => []MediaTypeOK
<1>1. MediaInv => MediaTypeOK
  BY DEF MediaInv
<1> QED
  BY <1>1, MediaInvariant, PTL

\* The maps and the gauge of AudioSocketServer name the open connections.
THEOREM BookAlwaysExact == MediaSpec => []BookExact
<1>1. MediaInv => BookExact
  BY DEF MediaInv, ServerInv
<1> QED
  BY <1>1, MediaInvariant, PTL

\* on_disconnect is called once for each connection that ends, but for those stop() cut.
THEOREM ReportedAlwaysOnce == MediaSpec => []ReportedOnce
<1>1. MediaInv => ReportedOnce
  BY DEF MediaInv, ServerInv, Reports, ReportedOnce
<1> QED
  BY <1>1, MediaInvariant, PTL

\* stop() leaves nothing running that was open when it began, even if it raises.
THEOREM StopAlwaysReaches == MediaSpec => []StopReaches
<1>1. MediaInv => StopReaches
  <2> SUFFICES ASSUME MediaInv, server \in {"closed", "raised"}, NEW k \in Open
               PROVE  loop[k] = "done" \/ k \in tasks
    BY DEF StopReaches
  <2>1. k \in Conns /\ listed = {} /\ awaited = NoConn
    BY DEF MediaInv, ServerInv, Reach, Open
  <2> QED
    BY <2>1, AudioSocketAssumption DEF MediaInv, ServerInv, Reach
<1> QED
  BY <1>1, MediaInvariant, PTL

\* Only a sustained run of loud frames interrupts the agent, and only a sustained run of
\* quiet ones lets the next one do so.
THEOREM BargeInAlwaysSustained == MediaSpec => BargeInSustained
<1>1. ASSUME MediaInv, [MediaNext]_mediaVars
      PROVE  [/\ BargesIn => loudRun' >= StartFrames
              /\ active /\ ~active' => quietRun' >= StopFrames]_agentVars
  <2>1. CASE \E loud \in BOOLEAN : CallerSpeaks(loud)
    <3>1. PICK loud \in BOOLEAN : MicFrame(loud)
      BY <2>1 DEF CallerSpeaks
    <3>2. loudRun' = speech' /\ quietRun' = silence'
      BY <1>1, <3>1 DEF MicFrame, MediaInv, AgentInv
    <3>3. silence' \in Nat /\ speech' \in Nat
      BY <1>1, <3>1, FullAgentAssumption DEF MicFrame, Upto, MediaInv, MediaTypeOK, AgentTypeOK
    <3>4. BargesIn => speech' = StartFrames
      BY <3>1 DEF MicFrame, BargesIn
    <3>5. active /\ ~active' => ~(silence' < StopFrames)
      BY <3>1 DEF MicFrame
    <3> QED
      BY <3>2, <3>3, <3>4, <3>5, FullAgentAssumption
  <2>2. CASE UNCHANGED vadVars
    BY <2>2 DEF vadVars, BargesIn
  <2> QED
    BY <1>1, <2>1, <2>2 DEF MediaNext, ServerStep, ServerInput, LineBinds, SentAway, Disconnected,
       DisconnectReturns, StopCancels, ShutdownElsewhere, TeardownStep,
       ShutdownCancels, TeardownDone, PipelineStarts, PipelineStops, AgentStep,
       PipelineCancelled, OutputCancelled, AgentSpeaks, RemoteInterrupts, RemoteFails, TakeFrame,
       WriteChunk, AgentStart, UrlFetched, Dialed, Greeted, ReceiveEnds, ReceiveFails, Joined,
       Disconnect, WsClosed, RemoteCloses, agentVars, mediaVars
<1> QED
  BY <1>1, MediaInvariant, PTL DEF MediaSpec, BargeInSustained

\* Transport and server agree on a served line: no frame and no chunk is dropped there.
THEOREM AudioAlwaysKept == MediaSpec => AudioKept
<1>1. ASSUME MediaInv
      PROVE  [/\ TakeFrame /\ ~line => ~Listening
              /\ WriteChunk /\ Line \notin writers => ~Listening]_mediaVars
  <2>1. TakeFrame /\ ~line => ~Listening
    BY <1>1 DEF TakeFrame, Listening, MediaInv, MediaTypeOK, AgentInv
  <2>2. Listening => Line \in writers
    BY <1>1, AudioSocketAssumption DEF Listening, MediaInv, ServerInv, BookExact, Open
  <2> QED
    BY <2>1, <2>2
<1> QED
  BY <1>1, MediaInvariant, PTL DEF MediaSpec, AudioKept

-----------------------------------------------------------------------------
(* What AgentReleased and StopCompletes rest on                            *)

\* An agent that has ended, or has not connected yet, holds nothing of the provider; the
\* receive task is cancelled by the agent that joins it, and what it reads is a WebSocket.
\* A shutdown that no longer tells the pipeline it found to cancel itself was cut by stop().
ReleasedHoldsNothing ==
    /\ agent \in {"idle", "url", "dial_elevenlabs", "dial_deepgram", "ended"} => ws = "none" /\ recv = "none"
    /\ recv = "cancelled" => agent = "joining"
    /\ agent = "joining" => recv \in {"cancelled", "done"}
    /\ recv = "reading" => ws # "none"
    /\ teardown = "cut" => Line \in cut

\* stop() awaits only tasks that end without it: a task in its finally clause, or one
\* whose report waits for the shutdown of the call, and the call is then in the shutdown
\* that this very task runs, or has been through it.  After that it waits for peers alone,
\* and it raises only over a connection that it met while that one was closing.
WaitsEnd ==
    /\ awaited # NoConn => loop[awaited] \in {"closing", "reporting", "done", "gone"}
    /\ \A k \in Conns : loop[k] = "reporting" => k = Line /\ teardown \in {"conn", "away"}
    /\ teardown = "conn" => loop[Line] = "reporting"
    /\ \A k \in Conns : waiter[k] = "cancelled" =>
          k \in cut /\ reports[k] = 0 /\ loop[k] \in {"done", "gone"}
    /\ server = "raised" => \E k \in cut : waiter[k] = "cancelled"

\* A line that was bound and has been reported has begun the teardown of its call, or found
\* it begun; only a report that stop() cut short may be missing.
LineEndsCall ==
    /\ loop[Line] = "bound" => routed
    /\ routed /\ loop[Line] \in {"reporting", "done", "gone"} => teardown # "none" \/ Line \in cut

EndInv == ReleasedHoldsNothing /\ WaitsEnd /\ LineEndsCall

\* Every step keeps the three of them.
LEMMA EndStep == MediaInv /\ EndInv /\ [MediaNext]_mediaVars => EndInv'
<1> SUFFICES ASSUME MediaInv, EndInv, [MediaNext]_mediaVars PROVE EndInv'
  OBVIOUS
<1>t. /\ loop \in [Conns -> Stages] /\ awaited \in Conns \cup {NoConn} /\ Line \in Conns
      /\ NoConn \notin Conns /\ listed \subseteq Conns
      /\ agent \in {"closing", "ended"} => recv = "none"
      /\ waiter \in [Conns -> {"pending", "set", "cancelled"}] /\ held \subseteq Conns
      /\ reports \in [Conns -> Nat]
      /\ \A k \in Conns : loop[k] = "closing" => reports[k] = 0
  BY AudioSocketAssumption DEF MediaInv, MediaTypeOK, ServerTypeOK, AgentInv, ServerInv, Reports
<1> USE DEF EndInv, ReleasedHoldsNothing, WaitsEnd, LineEndsCall, callVars
<1>1. CASE ServerStep
  <2>1. ASSUME NEW k \in Conns, Disconnected(k)
        PROVE  EndInv'
    <3>1. ReleasedHoldsNothing'
      BY <2>1 DEF Disconnected, Closed, agentVars
    <3>2. CASE k = Line /\ routed /\ teardown = "none"
      BY <1>t, <2>1, <3>1, <3>2 DEF Disconnected, Closed, Move
    <3>3. CASE ~(k = Line /\ routed /\ teardown = "none")
      BY <1>t, <2>1, <3>1, <3>3 DEF Disconnected, Closed, Move
    <3> QED
      BY <3>2, <3>3
  <2>2. ASSUME NEW k \in Conns, DisconnectReturns(k)
        PROVE  EndInv'
    BY <1>t, <2>2 DEF DisconnectReturns, Reported, Move, agentVars
  <2>3. ASSUME NEW k \in Conns, StopCancels(k)
        PROVE  EndInv'
    <3>0. /\ UNCHANGED <<agent, ws, recv>> /\ cut \subseteq cut'
          /\ loop[k] = "reporting" => k \in cut'
          /\ teardown' = "cut" => teardown = "cut" \/ loop[k] = "reporting"
      BY <2>3, Zenon DEF StopCancels, CancelNext, Cancelled, Reading, agentVars
    <3>1. ReleasedHoldsNothing'
      BY <3>0
    <3>2. CASE loop[k] = "reporting" /\ teardown = "conn"
      BY <1>t, <2>3, <3>1, <3>2 DEF StopCancels, CancelNext, Cancelled, Move, Reading
    <3>3. CASE ~(loop[k] = "reporting" /\ teardown = "conn")
      BY <1>t, <2>3, <3>1, <3>3 DEF StopCancels, CancelNext, Cancelled, Move, Reading
    <3> QED
      BY <3>2, <3>3
  <2>4. ASSUME UNCHANGED <<agentVars, callVars, routed, outVars>>,
               (\E k \in Conns : LoopStarts(k) \/ LoopEnds(k) \/ Reaped(k)) \/ Awaited \/ StopDone \/ StopRaises
        PROVE  EndInv'
    BY <1>t, <2>4 DEF LoopStarts, LoopEnds, Reaped, Awaited, StopDone, StopRaises, WritersClosed, Move, agentVars
  <2> QED
    BY <1>1, <2>1, <2>2, <2>3, <2>4 DEF ServerStep
<1>2. CASE ServerInput
  <2>1. CASE LineBinds
    BY <1>t, <2>1 DEF LineBinds, Handshake, Move, agentVars
  <2>2. ASSUME NEW k \in Conns, SentAway(k) PROVE EndInv'
    BY <1>t, <2>2 DEF SentAway, Handshake, Move, agentVars
  <2>3. ASSUME UNCHANGED <<agentVars, callVars, routed, outVars>>,
               (\E k \in Conns : Accept(k) \/ PeerEnds(k) \/ PeerTakes(k)) \/ Stop
        PROVE  EndInv'
    <3>1. CASE \E k \in Conns : Accept(k) \/ PeerEnds(k)
      BY <1>t, <2>3, <3>1 DEF Accept, PeerEnds, Move, agentVars
    <3>2. ASSUME NEW k \in Conns, PeerTakes(k) PROVE EndInv'
      BY <1>t, <2>3, <3>2 DEF PeerTakes, agentVars
    <3>3. CASE Stop
      BY <1>t, <2>3, <3>3 DEF Stop, agentVars
    <3> QED
      BY <2>3, <3>1, <3>2, <3>3
  <2> QED
    BY <1>2, <2>1, <2>2, <2>3 DEF ServerInput
<1>3. CASE UNCHANGED mediaVars
  BY <1>3 DEF mediaVars, serverVars, agentVars
<1>4. CASE ShutdownElsewhere \/ TeardownStep
  <2>1. CASE ShutdownElsewhere
    BY <1>t, <2>1 DEF ShutdownElsewhere, serverVars, agentVars
  <2>2. CASE ShutdownCancels
    BY <1>t, <2>2 DEF ShutdownCancels, serverVars, agentVars
  <2>3. CASE TeardownDone
    BY <1>t, <2>3 DEF TeardownDone, serverVars, agentVars
  <2> QED
    BY <1>4, <2>1, <2>2, <2>3 DEF TeardownStep
<1>5. CASE PipelineStarts \/ PipelineStops
  <2>1. CASE PipelineStarts
    BY <1>t, <2>1 DEF PipelineStarts, AgentStart, serverVars
  <2>2. CASE PipelineStops
    BY <1>t, <2>2 DEF PipelineStops, serverVars, agentVars
  <2> QED
    BY <1>5, <2>1, <2>2
<1>6. CASE AgentStep
  <2>1. CASE PipelineCancelled
    BY <2>1 DEF PipelineCancelled, Disconnect, serverVars, MediaInv, MediaTypeOK, AgentTypeOK
  <2>2. CASE OutputCancelled
    BY <1>t, <2>2 DEF OutputCancelled, WsClosed, serverVars
  <2>3. CASE /\ UrlFetched \/ Dialed \/ Greeted \/ ReceiveEnds \/ Joined
             /\ UNCHANGED <<serverVars, callVars, routed, outVars>>
    BY <1>t, <2>3 DEF UrlFetched, Dialed, Greeted, ReceiveEnds, Joined, serverVars
  <2> QED
    BY <1>6, <2>1, <2>2, <2>3 DEF AgentStep
<1>7. CASE AgentSpeaks \/ RemoteInterrupts \/ RemoteFails \/ TakeFrame \/ WriteChunk
  BY <1>7 DEF AgentSpeaks, RemoteInterrupts, RemoteFails, RemoteCloses, ReceiveFails,
     TakeFrame, WriteChunk, serverVars, agentVars
<1>8. ASSUME NEW loud \in BOOLEAN, CallerSpeaks(loud) PROVE EndInv'
  BY <1>8 DEF CallerSpeaks, MicFrame, serverVars
<1> QED
  BY <1>1, <1>2, <1>3, <1>4, <1>5, <1>6, <1>7, <1>8 DEF MediaNext

\* They hold in every reachable state.
LEMMA EndInvariant == MediaSpec => []EndInv
<1>1. MediaInit => EndInv
  BY AudioSocketAssumption DEF MediaInit, AgentInit, ServerInit, EndInv, ReleasedHoldsNothing,
     WaitsEnd, LineEndsCall
<1> QED
  BY <1>1, EndStep, MediaInvariant, PTL DEF MediaSpec

\* Whatever stage of connecting a teardown meets, an agent that has come to its end has
\* closed the provider's WebSocket and joined its receive task: the safety part of
\* AgentReleased.
THEOREM ReleasedAlwaysHoldsNothing == MediaSpec => []ReleasedHoldsNothing
  BY EndInvariant, PTL DEF EndInv

\* stop() never awaits a task that waits for stop(): the safety part of StopCompletes.
THEOREM WaitsAlwaysEnd == MediaSpec => []WaitsEnd
  BY EndInvariant, PTL DEF EndInv

\* No bound line of a call ends without ending the call: the connection and the router
\* carry a hangup on the line to the teardown, whenever stop() comes.
THEOREM LineAlwaysEndsCall == MediaSpec => []LineEndsCall
  BY EndInvariant, PTL DEF EndInv

=============================================================================
