--------------------------- MODULE ModularPipeline ---------------------------
(***************************************************************************)
(* The modular pipeline of a call (build_modular_pipeline): STT, LLM and   *)
(* TTS, each with its metrics stage behind it, and the tools of the LLM.   *)
(* The services, the aggregator that decides on user turns, and the way    *)
(* frames travel are PipeCat's, modelled by what the pipeline relies on:   *)
(* the start of a user turn sends an InterruptionFrame up and down from    *)
(* the aggregator, between STT and LLM; it overtakes the frames that wait  *)
(* at a processor and discards those of earlier turns.                     *)
(*                                                                         *)
(*   STT -> [stt] -> aggregator -> LLM -> [llm] -> TTS -> [tts] -> output  *)
(***************************************************************************)
EXTENDS TurnMetrics, ToolCalls

CONSTANTS
    MaxTurns,   \* bound: user turns of a call
    MaxEvents   \* bound: user turns and tool calls together

ASSUME PipelineAssumption == MaxTurns \in Nat /\ MaxEvents \in Nat

VARIABLES
    pipe,       \* the PipelineTask
    vad,        \* pipeline.vad: something detects speech (silero, asterisk_talk_detect), or not
    turn,       \* user turns begun so far
    inTurn,     \* the aggregator is in a user turn
    heard,      \* it has a transcription of this turn
    asked,      \* turns whose context waits at the LLM
    answering,  \* the turn the LLM answers (0: none)
    speaking,   \* turns with text at the TTS or audio on its way (0: the greeting)
    interrupts, \* [stage -> turns whose InterruptionFrame is on its way to it]
    clean,      \* history: since this turn began by speech, no output has passed a stage
                \* while one of its interruptions was on the way
    voiced      \* history: the turn of the last audio that passed the TTS stage

flowVars == <<pipe, vad, turn, inTurn, heard, asked, answering, speaking, interrupts>>
pipeVars == <<flowVars, clean, voiced, metricsVars, toolVars>>

Turns == 0..MaxTurns

PipelineTypeOK ==
    /\ pipe \in {"built", "running", "ended"}
    /\ vad \in {"detector", "none"}
    /\ turn \in Turns /\ inTurn \in BOOLEAN /\ heard \in BOOLEAN
    /\ asked \in SUBSET Turns /\ answering \in Turns /\ speaking \in SUBSET Turns
    /\ interrupts \in [Stages -> SUBSET Turns]
    /\ clean \in BOOLEAN /\ voiced \in Turns
    /\ MetricsTypeOK(Turns) /\ ToolTypeOK

PipelineInit ==
    /\ pipe = "built"
    /\ vad \in {"detector", "none"}
    /\ turn = 0 /\ inTurn = FALSE /\ heard = FALSE
    /\ asked = {} /\ answering = 0 /\ speaking = {}
    /\ interrupts = [s \in Stages |-> {}]
    /\ clean = FALSE /\ voiced = 0
    /\ MetricsInit /\ ToolInit

-----------------------------------------------------------------------------
(* User turns                                                              *)

Quiet == \A s \in Stages : interrupts[s] = {}

\* StartFrame passes, and emit_greeting queues the greeting, if the context has one.
PipelineStarts ==
    /\ pipe = "built"
    /\ pipe' = "running"
    /\ OtherPasses("stt")
    /\ speaking' \in {{}, {0}}
    /\ UNCHANGED <<vad, turn, inTurn, heard, asked, answering, interrupts, clean, voiced,
                   toolVars>>

\* A turn begins: the aggregator sends the interruption up to STT and down to LLM.
BeginTurn ==
    /\ turn < MaxTurns /\ turn + CallsMade < MaxEvents
    /\ turn' = turn + 1
    /\ inTurn' = TRUE
    /\ interrupts' = [interrupts EXCEPT !["stt"] = @ \cup {turn + 1},
                                        !["llm"] = @ \cup {turn + 1}]

\* Silero, or ChannelTalkingStarted of Asterisk, hears the caller begin to speak.
SpeechDetected ==
    /\ pipe = "running" /\ vad # "none" /\ ~inTurn
    /\ BeginTurn
    /\ heard' = FALSE /\ clean' = TRUE
    /\ UNCHANGED <<pipe, vad, asked, answering, speaking, voiced, metricsVars, toolVars>>

\* STT transcribes.  Outside a turn, a transcription begins one.
Transcription ==
    /\ pipe = "running"
    /\ IF inTurn
         THEN /\ OutputPasses("stt", turn)
              /\ clean' = (clean /\ Quiet)
              /\ UNCHANGED <<turn, inTurn, interrupts>>
         ELSE /\ BeginTurn
              /\ OutputPasses("stt", turn + 1)
              /\ clean' = FALSE
    /\ heard' = TRUE
    /\ UNCHANGED <<pipe, vad, asked, answering, speaking, voiced, toolVars>>

\* The caller stops; what was said, if anything, goes to the LLM.
TurnEnds ==
    /\ pipe = "running" /\ inTurn
    /\ inTurn' = FALSE /\ heard' = FALSE
    /\ asked' = IF heard THEN asked \cup {turn} ELSE asked
    /\ UNCHANGED <<pipe, vad, turn, answering, speaking, interrupts, clean, voiced,
                   metricsVars, toolVars>>

-----------------------------------------------------------------------------
(* Answers                                                                 *)

\* Only frames of later turns' interruptions are still to come where turn t is handled.
Reached(s, t) == \A u \in interrupts[s] : t < u

LLMBegins ==
    /\ pipe = "running" /\ answering = 0
    /\ \E t \in asked :
          /\ \A u \in asked : t <= u
          /\ Reached("llm", t)
          /\ answering' = t
          /\ asked' = asked \ {t}
    /\ UNCHANGED <<pipe, vad, turn, inTurn, heard, speaking, interrupts, clean, voiced,
                   metricsVars, toolVars>>

LLMText ==
    /\ pipe = "running" /\ answering # 0
    /\ OutputPasses("llm", answering)
    /\ speaking' = speaking \cup {answering}
    /\ clean' = (clean /\ Quiet)
    /\ UNCHANGED <<pipe, vad, turn, inTurn, heard, asked, answering, interrupts, voiced,
                   toolVars>>

\* The answer uses a tool; the results of its tools are part of the answer.
LLMCallsTool(r) ==
    /\ pipe = "running" /\ answering # 0
    /\ turn + CallsMade < MaxEvents
    /\ CallTool(r)
    /\ UNCHANGED <<flowVars, clean, voiced, metricsVars>>

LLMEnds ==
    /\ pipe = "running" /\ answering # 0 /\ NoneInFlight
    /\ answering' = 0
    /\ UNCHANGED <<pipe, vad, turn, inTurn, heard, asked, speaking, interrupts, clean, voiced,
                   metricsVars, toolVars>>

\* Audio of the earliest text goes out.
Speaks(t) == t \in speaking /\ \A u \in speaking : t <= u

Audio ==
    /\ pipe = "running"
    /\ \E t \in speaking :
          /\ Speaks(t) /\ Reached("tts", t)
          /\ OutputPasses("tts", t)
          /\ voiced' = t
    /\ clean' = (clean /\ Quiet)
    /\ UNCHANGED <<flowVars, toolVars>>

AudioEnds ==
    /\ pipe = "running"
    /\ \E t \in speaking : Speaks(t) /\ speaking' = speaking \ {t}
    /\ UNCHANGED <<pipe, vad, turn, inTurn, heard, asked, answering, interrupts, clean, voiced,
                   metricsVars, toolVars>>

-----------------------------------------------------------------------------
(* Interruptions                                                           *)

\* The earliest of the interruptions on their way to a stage.
Earliest(s, u) == u \in interrupts[s] /\ \A v \in interrupts[s] : u <= v

InterruptStt ==
    /\ pipe = "running"
    /\ \E u \in interrupts["stt"] :
          Earliest("stt", u) /\ interrupts' = [interrupts EXCEPT !["stt"] = @ \ {u}]
    /\ InterruptionPasses("stt")
    /\ UNCHANGED <<pipe, vad, turn, inTurn, heard, asked, answering, speaking, clean, voiced,
                   toolVars>>

\* The LLM drops the answers of earlier turns, with the tools they wait for.
InterruptLlm ==
    /\ pipe = "running"
    /\ \E u \in interrupts["llm"] :
          /\ Earliest("llm", u)
          /\ interrupts' = [interrupts EXCEPT !["llm"] = @ \ {u}, !["tts"] = @ \cup {u}]
          /\ asked' = {t \in asked : u <= t}
    /\ answering' = 0
    /\ tool' = Dropped
    /\ InterruptionPasses("llm")
    /\ UNCHANGED <<pipe, vad, turn, inTurn, heard, speaking, clean, voiced, transferDone>>

\* What earlier turns had to say, the greeting included, is discarded.
InterruptTts ==
    /\ pipe = "running"
    /\ \E u \in interrupts["tts"] :
          /\ Earliest("tts", u)
          /\ interrupts' = [interrupts EXCEPT !["tts"] = @ \ {u}]
          /\ speaking' = {t \in speaking : u <= t}
    /\ InterruptionPasses("tts")
    /\ UNCHANGED <<pipe, vad, turn, inTurn, heard, asked, answering, clean, voiced, toolVars>>

\* The task of the pipeline ends or is cancelled (CallControl has the reasons), and all
\* that waits in it is lost; the metrics are the controller's.
PipelineEnds ==
    /\ pipe = "running"
    /\ pipe' = "ended"
    /\ inTurn' = FALSE /\ heard' = FALSE
    /\ asked' = {} /\ answering' = 0 /\ speaking' = {}
    /\ interrupts' = [s \in Stages |-> {}]
    /\ clean' = FALSE
    /\ tool' = Dropped
    /\ UNCHANGED <<vad, turn, voiced, metricsVars, transferDone>>

-----------------------------------------------------------------------------
Replies == (\E r \in Requests : Reply(r)) /\ UNCHANGED <<flowVars, clean, voiced, metricsVars>>

AsteriskStep ==
    /\ \E r \in Requests : Executes(r)
    /\ UNCHANGED <<flowVars, clean, voiced, metricsVars>>

PipelineNext ==
    \/ PipelineStarts \/ SpeechDetected \/ Transcription \/ TurnEnds
    \/ LLMBegins \/ LLMText \/ LLMEnds \/ (\E r \in Requests : LLMCallsTool(r))
    \/ Audio \/ AudioEnds
    \/ InterruptStt \/ InterruptLlm \/ InterruptTts \/ PipelineEnds
    \/ Replies \/ AsteriskStep

\* Every ARI request comes back: the HTTP session bounds its time.  Nothing else need
\* happen: no caller speaks, no service answers, Asterisk may execute nothing.
PipelineSpec == PipelineInit /\ [][PipelineNext]_pipeVars /\ WF_pipeVars(Replies)

-----------------------------------------------------------------------------
(* Properties                                                              *)

\* CallMetrics tracks the latencies across all turns of a call: in a turn that speech
\* began and whose interruptions were through before anything it said was heard, no mark
\* is left of an earlier turn, and once its answer sounds all three marks are its own, so
\* that each of its latencies is recorded and none mixes two turns.
TurnMeasured ==
    clean /\ Quiet =>
        /\ {cm.sttEnd, cm.llmStart, cm.ttsFirst} \subseteq {None, turn}
        /\ voiced = turn => cm.sttEnd = turn /\ cm.llmStart = turn /\ cm.ttsFirst = turn

\* Whatever the order of interruptions and output, a first token is counted only for a
\* transcription counted before it, a first audio only for a first token, and the whole
\* turn with it: summary() never averages more answers than there were questions.
CountsNested ==
    /\ cm.tts <= cm.llm /\ cm.llm <= cm.stt
    /\ cm.turns = cm.tts

\* However many transfers the model asks for, side by side or one after another, one of
\* them at most is tried, so that the caller's channel is sent on once at most; a model told
\* "ok" was told the truth, though the request is executed by another party and may be
\* executed after its answer was lost; and one told "already_transferred" comes after a
\* call that passed the guard, whose request may have failed, or never have been made.
TransferSound ==
    LET tried == {r \in Requests : /\ tool[r].name = "transfer_call"
                                   /\ tool[r].told # "already_transferred"}
    IN
    /\ Cardinality(tried) <= 1
    /\ \A r \in Requests : tool[r].name = "transfer_call" =>
          /\ tool[r].told = "ok" => tool[r].effect = "done"
          /\ tool[r].told = "already_transferred" => tried # {}

\* Every tool that waits for Asterisk tells the model something, unless the caller
\* interrupts or the pipeline ends first: a lost answer does not silence the assistant.
ToolAnswered == \A r \in Requests : tool[r].at = "sent" ~> tool[r].at # "sent"

=============================================================================
