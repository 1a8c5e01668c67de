------------------------------ MODULE FullAgent ------------------------------
(***************************************************************************)
(* A full-agent provider (DeepgramVoiceAgentService and                    *)
(* ElevenLabsConversationalService): its connect on StartFrame, its        *)
(* receive loop, its disconnect on EndFrame and CancelFrame, and the local *)
(* voice detection that interrupts the agent.  PipeCat hands a processor   *)
(* one frame at a time, so nothing is processed during connect.  What      *)
(* becomes of the frames it pushes is in MediaPath.  The frames that       *)
(* announce the begin and the end of its speech change nothing here.       *)
(***************************************************************************)
EXTENDS Naturals

CONSTANTS
    StartFrames,    \* _vad_start_frames
    StopFrames,     \* _vad_stop_frames
    MaxAudio        \* bound: what of the agent's speech waits for the output at once

ASSUME FullAgentAssumption ==
    StartFrames \in Nat \ {0} /\ StopFrames \in Nat \ {0} /\ MaxAudio \in Nat

VARIABLES
    agent,      \* how far the service is in its life: the stages up to the dial say
                \* which of the two providers it is
    ws,         \* _ws, and whether the peer still holds it
    recv,       \* _receive_task
    speech, silence, active,    \* the counters and the flag of the voice detection
    loudRun, quietRun           \* history: the run of loud or quiet frames that goes on

vadVars == <<speech, silence, active, loudRun, quietRun>>
agentVars == <<agent, ws, recv, vadVars>>

\* Counts are read by comparing them with a threshold: they stop there.
Upto(n, limit) == IF n < limit THEN n ELSE limit

AgentTypeOK ==
    /\ agent \in {"idle", "url", "dial_elevenlabs", "dial_deepgram", "hello", "ready", "joining", "closing", "ended"}
    /\ ws \in {"none", "open", "lost"}
    /\ recv \in {"none", "reading", "cancelled", "done"}
    /\ active \in BOOLEAN
    /\ speech \in 0..StartFrames /\ loudRun \in 0..StartFrames
    /\ silence \in 0..StopFrames /\ quietRun \in 0..StopFrames

AgentInit ==
    /\ agent = "idle" /\ ws = "none" /\ recv = "none"
    /\ speech = 0 /\ silence = 0 /\ active = FALSE /\ loudRun = 0 /\ quietRun = 0

\* StartFrame: ElevenLabs asks for a signed URL first, if it has an agent_id.
AgentStart ==
    /\ agent = "idle"
    /\ agent' \in {"url", "dial_elevenlabs", "dial_deepgram"}
    /\ UNCHANGED <<ws, recv, vadVars>>

\* A URL in any case: the signed one, or the direct one on any failure.
UrlFetched ==
    /\ agent = "url"
    /\ agent' = "dial_elevenlabs"
    /\ UNCHANGED <<ws, recv, vadVars>>

\* ws_connect raises, which is logged and leaves a processor that only forwards, or
\* returns; ElevenLabs begins to receive at once.
Dialed ==
    /\ agent \in {"dial_elevenlabs", "dial_deepgram"}
    /\ \/ agent' = "ready" /\ UNCHANGED <<ws, recv>>
       \/ agent' = "hello" /\ ws' = "open"
          /\ recv' = IF agent = "dial_elevenlabs" THEN "reading" ELSE recv
    /\ UNCHANGED <<vadVars>>

\* The first message is sent, or raises on a connection that is lost; Deepgram, which has
\* no receive task yet, begins to receive only after it.
Greeted ==
    /\ agent = "hello"
    /\ agent' = "ready"
    /\ recv' = IF recv = "none" /\ ws = "open" THEN "reading" ELSE recv
    /\ UNCHANGED <<ws, vadVars>>

\* External: the peer, or the network, ends the connection.
RemoteCloses ==
    /\ ws = "open"
    /\ ws' = "lost"
    /\ UNCHANGED <<agent, recv, vadVars>>

\* The receive loop ends: its connection is lost, or its task was cancelled.
ReceiveEnds ==
    /\ recv = "cancelled" \/ (recv = "reading" /\ ws = "lost")
    /\ recv' = "done"
    /\ UNCHANGED <<agent, ws, vadVars>>

\* A message that its handler cannot read ends the loop as well, and only the loop.
ReceiveFails ==
    /\ recv = "reading"
    /\ recv' = "done"
    /\ UNCHANGED <<agent, ws, vadVars>>

\* Seeded defect: a receive task that has ended by itself is awaited as if cancelled.
DisconnectWaits ==
    /\ agent = "ready"
    /\ IF recv = "none" THEN agent' = "closing" /\ UNCHANGED recv
                        ELSE recv = "reading" /\ agent' = "joining" /\ recv' = "cancelled"
    /\ UNCHANGED <<ws, vadVars>>

\* CancelFrame or EndFrame: the receive task, if there is one, is cancelled and awaited.
Disconnect ==
    /\ agent = "ready"
    /\ IF recv = "none" THEN agent' = "closing" /\ UNCHANGED recv
                        ELSE agent' = "joining" /\ recv' = IF recv = "done" THEN recv ELSE "cancelled"
    /\ UNCHANGED <<ws, vadVars>>

\* The task has ended.
Joined ==
    /\ agent = "joining" /\ recv = "done"
    /\ agent' = "closing" /\ recv' = "none"
    /\ UNCHANGED <<ws, vadVars>>

\* The WebSocket, if there is one, is closed, and the frame goes on downstream.
WsClosed ==
    /\ agent = "closing"
    /\ agent' = "ended" /\ ws' = "none"
    /\ UNCHANGED <<recv, vadVars>>

\* Seeded defect: a quiet frame does not interrupt a run of loud ones.
MicFrameSums(loud) ==
    /\ agent = "ready"
    /\ speech' = IF loud THEN Upto(speech + 1, StartFrames) ELSE speech
    /\ silence' = IF loud THEN 0 ELSE Upto(silence + 1, StopFrames)
    /\ active' = \/ active /\ silence' < StopFrames
                 \/ loud /\ speech' = StartFrames
    /\ loudRun' = IF loud THEN Upto(loudRun + 1, StartFrames) ELSE 0
    /\ quietRun' = IF loud THEN 0 ELSE Upto(quietRun + 1, StopFrames)
    /\ UNCHANGED <<agent, ws, recv>>

\* A frame from the caller: enough loud ones in a row switch the detection on, enough
\* quiet ones switch it off.
MicFrame(loud) ==
    /\ agent = "ready"
    /\ speech' = IF loud THEN Upto(speech + 1, StartFrames) ELSE 0
    /\ silence' = IF loud THEN 0 ELSE Upto(silence + 1, StopFrames)
    /\ active' = \/ active /\ silence' < StopFrames
                 \/ loud /\ speech' = StartFrames
    /\ loudRun' = IF loud THEN Upto(loudRun + 1, StartFrames) ELSE 0
    /\ quietRun' = IF loud THEN 0 ELSE Upto(quietRun + 1, StopFrames)
    /\ UNCHANGED <<agent, ws, recv>>

\* An InterruptionFrame is pushed at the moment the detection switches on.
BargesIn == active' /\ ~active

-----------------------------------------------------------------------------
\* The detection switches on only after StartFrames loud frames in a row, so that a
\* cough does not silence the agent, and is armed again only by StopFrames quiet ones
\* in a row, so that one utterance interrupts once.
BargeInSustained ==
    [][/\ BargesIn => loudRun' >= StartFrames
       /\ active /\ ~active' => quietRun' >= StopFrames]_agentVars

=============================================================================
