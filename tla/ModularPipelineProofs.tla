------------------------ MODULE ModularPipelineProofs ------------------------
(***************************************************************************)
(* The safety of the modular pipeline for any number of turns and tool     *)
(* calls.  The metrics and the tools have an invariant each over their own *)
(* steps; that the marks are those of the turn needs one more, which says  *)
(* what the interruption of the current turn has cleared so far.           *)
(***************************************************************************)
EXTENDS ModularPipeline, FiniteSetTheorems, TLAPS

\* The steps of the metrics and of the tools, whatever else the pipeline does in them.
MetricsMove ==
    \/ \E s \in Stages : \/ OtherPasses(s) \/ InterruptionPasses(s)
                         \/ \E t \in Turns : OutputPasses(s, t)
    \/ UNCHANGED metricsVars

ToolMove ==
    \/ \E r \in Requests : CallTool(r) \/ Reply(r) \/ Executes(r)
    \/ tool' = Dropped /\ UNCHANGED transferDone
    \/ UNCHANGED toolVars

\* A mark of a stage needs the mark of the stage before, and a list is ahead of the next
\* one where only the earlier mark is set.
CountsInv ==
    /\ cm.llmStart # None => cm.sttEnd # None
    /\ cm.ttsFirst # None => cm.llmStart # None
    /\ cm.llm <= cm.stt /\ cm.tts <= cm.llm /\ cm.turns = cm.tts
    /\ cm.sttEnd # None /\ cm.llmStart = None => cm.llm < cm.stt
    /\ cm.llmStart # None /\ cm.ttsFirst = None => cm.tts < cm.llm

TriedTransfer(r) == tool[r].name = "transfer_call" /\ tool[r].told # "already_transferred"

\* The guard is set exactly when a call of the tool has passed it, which one did at most.
TransferInv ==
    /\ \A q, r \in Requests : TriedTransfer(q) /\ TriedTransfer(r) => q = r
    /\ transferDone <=> \E r \in Requests : TriedTransfer(r)
    /\ \A r \in Requests :
          /\ tool[r].name = "transfer_call" => transferDone
          /\ tool[r].name = "transfer_call" /\ tool[r].told = "ok" => tool[r].effect = "done"
          /\ tool[r].at = "free" => tool[r].name # "transfer_call"
          /\ tool[r].at = "sent" => tool[r].told = "nothing"

\* Where the interruption of the current turn has been, nothing older is left.
FlowInv ==
    /\ \A t \in asked \cup speaking : t <= turn
    /\ answering <= turn /\ voiced <= turn
    /\ pipe = "built" => turn = 0
    /\ \A s \in Stages : \A u \in interrupts[s] : u <= turn
    /\ turn \notin interrupts["llm"] => asked \subseteq {turn} /\ answering \in {0, turn}
    /\ turn > 0 /\ turn \notin interrupts["llm"] \cup interrupts["tts"] => speaking \subseteq {turn}

\* A turn that speech began: until its interruptions are through nothing of it was heard,
\* asked or said; from then on the marks and _first tell how far it has come.
MarksInv ==
    clean =>
      /\ turn > 0
      /\ Quiet =>
            /\ cm.sttEnd   = IF first["stt"] THEN turn ELSE None
            /\ cm.llmStart = IF first["llm"] THEN turn ELSE None
            /\ cm.ttsFirst = IF first["tts"] THEN turn ELSE None
            /\ heard \/ turn \in asked \/ answering = turn => first["stt"]
            /\ turn \in speaking => first["llm"]
            /\ first["llm"] => first["stt"]
            /\ first["tts"] => first["llm"]
            /\ voiced = turn => first["tts"]
      /\ ~Quiet =>
            /\ ~heard /\ turn \notin asked /\ answering # turn /\ turn \notin speaking
            /\ voiced # turn
            /\ turn \notin interrupts["stt"] => ~first["stt"]
            /\ turn \notin interrupts["llm"] => ~first["llm"]
            /\ turn \notin interrupts["llm"] \cup interrupts["tts"] => ~first["tts"]

\* The clock was started by the first frame.
StartedInv == pipe # "built" => cm.started

PipeInv == PipelineTypeOK /\ CountsInv /\ TransferInv /\ FlowInv /\ StartedInv /\ MarksInv

-----------------------------------------------------------------------------
(* The metrics                                                             *)

\* Every step of the pipeline is one of the metrics, and one of the tools.
LEMMA MetricsMoves == PipelineTypeOK /\ [PipelineNext]_pipeVars => MetricsMove
<1> SUFFICES ASSUME PipelineTypeOK, [PipelineNext]_pipeVars PROVE MetricsMove
  OBVIOUS
<1>1. CASE PipelineStarts
  BY <1>1 DEF PipelineStarts, MetricsMove, Stages
<1>2. CASE Transcription
  <2>1. turn \in Turns /\ (turn < MaxTurns => turn + 1 \in Turns)
    BY PipelineAssumption DEF PipelineTypeOK, Turns
  <2> QED
    BY <1>2, <2>1 DEF Transcription, BeginTurn, MetricsMove, Stages
<1>3. CASE LLMText
  BY <1>3 DEF LLMText, MetricsMove, Stages, PipelineTypeOK
<1>4. CASE Audio
  BY <1>4 DEF Audio, MetricsMove, Stages, PipelineTypeOK
<1>5. CASE InterruptStt \/ InterruptLlm \/ InterruptTts
  BY <1>5 DEF InterruptStt, InterruptLlm, InterruptTts, MetricsMove, Stages
<1>6. CASE SpeechDetected \/ TurnEnds \/ LLMBegins \/ LLMEnds \/ AudioEnds \/ PipelineEnds
           \/ (\E r \in Requests : LLMCallsTool(r)) \/ Replies \/ AsteriskStep
           \/ UNCHANGED pipeVars
  BY <1>6 DEF SpeechDetected, TurnEnds, LLMBegins, LLMEnds, AudioEnds, PipelineEnds,
              LLMCallsTool, Replies, AsteriskStep, pipeVars, MetricsMove
<1> QED
  BY <1>1, <1>2, <1>3, <1>4, <1>5, <1>6 DEF PipelineNext

LEMMA ToolMoves == [PipelineNext]_pipeVars => ToolMove
<1> SUFFICES ASSUME [PipelineNext]_pipeVars PROVE ToolMove
  OBVIOUS
<1>1. CASE \/ PipelineStarts \/ SpeechDetected \/ Transcription \/ TurnEnds \/ LLMBegins
           \/ LLMText \/ LLMEnds \/ Audio \/ AudioEnds \/ InterruptStt \/ InterruptTts
           \/ UNCHANGED pipeVars
  BY <1>1 DEF PipelineStarts, SpeechDetected, Transcription, TurnEnds, LLMBegins, LLMText,
              LLMEnds, Audio, AudioEnds, InterruptStt, InterruptTts, pipeVars, ToolMove
<1>2. CASE InterruptLlm \/ PipelineEnds
  BY <1>2 DEF InterruptLlm, PipelineEnds, ToolMove
<1>3. CASE (\E r \in Requests : LLMCallsTool(r)) \/ Replies \/ AsteriskStep
  BY <1>3 DEF LLMCallsTool, Replies, AsteriskStep, ToolMove
<1> QED
  BY <1>1, <1>2, <1>3 DEF PipelineNext

\* What each hook makes of a CallMetrics is one again.
LEMMA HooksTyped ==
    ASSUME NEW m \in CallMetrics(Turns), NEW s \in Stages, NEW t \in Turns
    PROVE  /\ SttStart(m) \in CallMetrics(Turns)
           /\ RecordBargeIn(m) \in CallMetrics(Turns)
           /\ Marked(s, m, t) \in CallMetrics(Turns)
<1> USE DEF CallMetrics
<1>1. /\ m.stt + 1 \in Nat /\ m.llm + 1 \in Nat /\ m.tts + 1 \in Nat
      /\ m.turns + 1 \in Nat /\ m.bargeIns + 1 \in Nat
  OBVIOUS
<1>2. SttStart(m) \in CallMetrics(Turns)
  BY DEF SttStart
<1>3. RecordBargeIn(m) \in CallMetrics(Turns)
  BY <1>1 DEF RecordBargeIn
<1>4. SttFinal(m, t) \in CallMetrics(Turns)
  BY <1>1 DEF SttFinal
<1>5. LlmFirstToken(m, t) \in CallMetrics(Turns)
  BY <1>1 DEF LlmFirstToken
<1>6. TtsFirstAudio(m, t) \in CallMetrics(Turns)
  BY <1>1 DEF TtsFirstAudio
<1> QED
  BY <1>2, <1>3, <1>4, <1>5, <1>6 DEF Marked, Stages

\* The marks and the lengths of the lists keep their types.
LEMMA MetricsTypeStep == MetricsTypeOK(Turns) /\ MetricsMove => MetricsTypeOK(Turns)'
<1> SUFFICES ASSUME MetricsTypeOK(Turns), MetricsMove PROVE MetricsTypeOK(Turns)'
  OBVIOUS
<1> USE DEF MetricsTypeOK
<1>0. 0 \in Turns /\ \A s : Baseline(s) \in CallMetrics(Turns)
  BY PipelineAssumption, HooksTyped DEF Baseline, Turns, Stages
<1>1. ASSUME NEW s \in Stages, OtherPasses(s) PROVE MetricsTypeOK(Turns)'
  BY <1>0, <1>1 DEF OtherPasses
<1>2. ASSUME NEW s \in Stages, InterruptionPasses(s) PROVE MetricsTypeOK(Turns)'
  BY <1>0, <1>2, HooksTyped DEF InterruptionPasses
<1>3. ASSUME NEW s \in Stages, NEW t \in Turns, OutputPasses(s, t) PROVE MetricsTypeOK(Turns)'
  BY <1>0, <1>3, HooksTyped DEF OutputPasses
<1>4. CASE UNCHANGED metricsVars
  BY <1>4 DEF metricsVars
<1> QED
  BY <1>1, <1>2, <1>3, <1>4 DEF MetricsMove

\* A mark is None or a turn, and turns are not None.
LEMMA TurnsNotNone == None \notin Turns /\ 0 \in Turns
  BY PipelineAssumption DEF None, Turns

\* No frame, in whatever order, makes a list longer than the one before it.
LEMMA CountsStep == MetricsTypeOK(Turns) /\ CountsInv /\ MetricsMove => CountsInv'
<1> SUFFICES ASSUME MetricsTypeOK(Turns), CountsInv, MetricsMove PROVE CountsInv'
  OBVIOUS
<1> USE DEF MetricsTypeOK, CallMetrics, CountsInv, Baseline, SttStart
<1>1. ASSUME NEW s \in Stages, OtherPasses(s) PROVE CountsInv'
  BY <1>1 DEF OtherPasses
<1>2. ASSUME NEW s \in Stages, InterruptionPasses(s) PROVE CountsInv'
  BY <1>2 DEF InterruptionPasses, RecordBargeIn
<1>3. ASSUME NEW s \in Stages, NEW t \in Turns, OutputPasses(s, t) PROVE CountsInv'
  <2>1. CASE s = "stt"
    BY <1>3, <2>1, TurnsNotNone DEF OutputPasses, Marked, SttFinal
  <2>2. CASE s = "llm"
    BY <1>3, <2>2, TurnsNotNone DEF OutputPasses, Marked, LlmFirstToken
  <2>3. CASE s = "tts"
    BY <1>3, <2>3, TurnsNotNone DEF OutputPasses, Marked, TtsFirstAudio
  <2> QED
    BY <2>1, <2>2, <2>3 DEF Stages
<1>4. CASE UNCHANGED metricsVars
  BY <1>4 DEF metricsVars
<1> QED
  BY <1>1, <1>2, <1>3, <1>4 DEF MetricsMove

-----------------------------------------------------------------------------
(* The tools                                                               *)

LEMMA ToolTypeStep == ToolTypeOK /\ ToolMove => ToolTypeOK'
<1> SUFFICES ASSUME ToolTypeOK, ToolMove PROVE ToolTypeOK'
  OBVIOUS
<1> USE DEF ToolTypeOK, Told
<1>1. ASSUME NEW r \in Requests, CallTool(r) PROVE ToolTypeOK'
  <2> USE DEF TransferCall, OtherCall, SendRequest, AnswerAtOnce
  <2>1. PICK name \in SchemasForTools \cap Registered :
           IF name = "transfer_call" THEN TransferCall(r) ELSE OtherCall(r, name)
    BY <1>1 DEF CallTool
  <2>2. name \in ActionMap
    BY DEF Registered
  <2>3. CASE name = "transfer_call"
    BY <2>1, <2>2, <2>3
  <2>4. CASE name # "transfer_call"
    BY <2>1, <2>2, <2>4
  <2> QED
    BY <2>3, <2>4
<1>2. ASSUME NEW r \in Requests, Reply(r) PROVE ToolTypeOK'
  <2>1. PICK outcome \in Outcomes(tool[r].effect) :
           tool' = [tool EXCEPT ![r].at = "answered",
                                ![r].told = Result(tool[r].name, outcome)]
    BY <1>2 DEF Reply
  <2>2. Result(tool[r].name, outcome) \in {"ok", "failed", "error"}
    BY DEF Result
  <2>3. UNCHANGED transferDone
    BY <1>2 DEF Reply
  <2> QED
    BY <2>1, <2>2, <2>3
<1>3. ASSUME NEW r \in Requests, Executes(r) PROVE ToolTypeOK'
  BY <1>3 DEF Executes
<1>4. CASE tool' = Dropped /\ UNCHANGED transferDone
  BY <1>4 DEF Dropped
<1>5. CASE UNCHANGED toolVars
  BY <1>5 DEF toolVars
<1> QED
  BY <1>1, <1>2, <1>3, <1>4, <1>5 DEF ToolMove

\* A step that changes neither names nor who met the guard keeps the invariant.
LEMMA TransferSame ==
    ASSUME TransferInv, UNCHANGED transferDone,
           \A r \in Requests : /\ tool'[r].name = tool[r].name
                               /\ tool'[r].told = "already_transferred"
                                     <=> tool[r].told = "already_transferred"
                               /\ tool'[r].at = "free" => tool[r].at = "free"
                               /\ tool'[r].at = "sent" => tool'[r].told = "nothing"
                               /\ tool[r].name = "transfer_call" /\ tool'[r].told = "ok"
                                     => tool'[r].effect = "done"
    PROVE  TransferInv'
  BY DEF TransferInv, TriedTransfer

\* However the calls of tools interleave, one transfer is tried.
LEMMA TransferStep == ToolTypeOK /\ TransferInv /\ ToolMove => TransferInv'
<1> SUFFICES ASSUME ToolTypeOK, TransferInv, ToolMove PROVE TransferInv'
  OBVIOUS
<1> USE DEF ToolTypeOK
<1>1. ASSUME NEW r \in Requests, CallTool(r) PROVE TransferInv'
  <2> USE DEF TransferInv, TriedTransfer
  <2>1. PICK name \in SchemasForTools \cap Registered :
           IF name = "transfer_call" THEN TransferCall(r) ELSE OtherCall(r, name)
    BY <1>1 DEF CallTool
  <2>2. tool[r].at = "free" /\ ~TriedTransfer(r)
    BY <1>1 DEF CallTool
  <2>3. CASE name = "transfer_call" /\ transferDone
    BY <2>1, <2>2, <2>3 DEF TransferCall, AnswerAtOnce
  <2>4. CASE name = "transfer_call" /\ ~transferDone
    BY <2>1, <2>2, <2>4 DEF TransferCall, SendRequest, AnswerAtOnce
  <2>5. CASE name # "transfer_call"
    BY <2>1, <2>2, <2>5 DEF OtherCall, SendRequest, AnswerAtOnce
  <2> QED
    BY <2>3, <2>4, <2>5
<1>2. ASSUME NEW r \in Requests, Reply(r) PROVE TransferInv'
  <2>1. PICK outcome \in Outcomes(tool[r].effect) :
           tool' = [tool EXCEPT ![r].at = "answered",
                                ![r].told = Result(tool[r].name, outcome)]
    BY <1>2 DEF Reply
  <2>2. tool[r].name = "transfer_call" /\ Result(tool[r].name, outcome) = "ok"
           => tool[r].effect = "done"
    BY DEF Outcomes, Result
  <2>3. Result(tool[r].name, outcome) # "already_transferred"
    BY DEF Result
  <2>4. tool[r].at = "sent" /\ tool[r].told = "nothing"
    BY <1>2 DEF Reply, TransferInv
  <2> QED
    BY <1>2, <2>1, <2>2, <2>3, <2>4, TransferSame DEF Reply, TransferInv
<1>3. ASSUME NEW r \in Requests, Executes(r) PROVE TransferInv'
  <2>1. PICK effect \in {"done", "refused"} : tool' = [tool EXCEPT ![r].effect = effect]
    BY <1>3 DEF Executes
  <2> QED
    BY <1>3, <2>1, TransferSame DEF Executes, TransferInv
<1>4. CASE tool' = Dropped /\ UNCHANGED transferDone
  BY <1>4, TransferSame DEF Dropped, TransferInv
<1>5. CASE UNCHANGED toolVars
  BY <1>5, TransferSame DEF toolVars, TransferInv
<1> QED
  BY <1>1, <1>2, <1>3, <1>4, <1>5 DEF ToolMove

-----------------------------------------------------------------------------
(* The flow of the turns                                                   *)

FlowTypeOK ==
    /\ pipe \in {"built", "running", "ended"} /\ vad \in {"detector", "none"}
    /\ turn \in Turns /\ inTurn \in BOOLEAN /\ heard \in BOOLEAN
    /\ asked \in SUBSET Turns /\ answering \in Turns /\ speaking \in SUBSET Turns
    /\ interrupts \in [Stages -> SUBSET Turns]
    /\ clean \in BOOLEAN /\ voiced \in Turns

LEMMA TypeParts == PipelineTypeOK <=> FlowTypeOK /\ MetricsTypeOK(Turns) /\ ToolTypeOK
  BY DEF PipelineTypeOK, FlowTypeOK

\* What a turn adds is one turn more, and a next interruption to STT and to LLM.
LEMMA TurnBegun ==
    ASSUME FlowTypeOK, BeginTurn
    PROVE  /\ turn' \in Turns /\ turn' = turn + 1 /\ turn < turn' /\ turn' > 0 /\ turn >= 0
           /\ inTurn' = TRUE /\ interrupts' \in [Stages -> SUBSET Turns]
           /\ interrupts'["stt"] = interrupts["stt"] \cup {turn'}
           /\ interrupts'["llm"] = interrupts["llm"] \cup {turn'}
           /\ interrupts'["tts"] = interrupts["tts"]
  BY PipelineAssumption DEF FlowTypeOK, BeginTurn, Turns, Stages

LEMMA FlowTypeStep == FlowTypeOK /\ [PipelineNext]_pipeVars => FlowTypeOK'
<1> SUFFICES ASSUME FlowTypeOK, [PipelineNext]_pipeVars PROVE FlowTypeOK'
  OBVIOUS
<1> USE DEF FlowTypeOK
<1>0. 0 \in Turns
  BY TurnsNotNone
<1>1. CASE PipelineStarts
  BY <1>0, <1>1 DEF PipelineStarts
<1>2. CASE SpeechDetected
  BY <1>2, TurnBegun DEF SpeechDetected
<1>3. CASE Transcription
  <2>1. CASE inTurn
    BY <1>3, <2>1 DEF Transcription, Quiet
  <2>2. CASE ~inTurn
    BY <1>3, <2>2, TurnBegun DEF Transcription, BeginTurn
  <2> QED
    BY <2>1, <2>2
<1>4. CASE TurnEnds \/ LLMBegins \/ LLMEnds \/ AudioEnds
  BY <1>0, <1>4 DEF TurnEnds, LLMBegins, LLMEnds, AudioEnds
<1>5. CASE LLMText \/ Audio
  BY <1>5 DEF LLMText, Audio, flowVars, Quiet
<1>6. CASE InterruptStt \/ InterruptLlm \/ InterruptTts
  BY <1>0, <1>6 DEF InterruptStt, InterruptLlm, InterruptTts, Stages
<1>7. CASE PipelineEnds
  BY <1>0, <1>7 DEF PipelineEnds
<1>8. CASE (\E r \in Requests : LLMCallsTool(r)) \/ Replies \/ AsteriskStep \/ UNCHANGED pipeVars
  BY <1>8 DEF LLMCallsTool, Replies, AsteriskStep, flowVars, pipeVars
<1> QED
  BY <1>1, <1>2, <1>3, <1>4, <1>5, <1>6, <1>7, <1>8 DEF PipelineNext

\* An interruption leaves nothing older behind it, and reaches the stages in order.
LEMMA FlowStep == FlowTypeOK /\ FlowInv /\ [PipelineNext]_pipeVars => FlowInv'
<1> SUFFICES ASSUME FlowTypeOK, FlowInv, [PipelineNext]_pipeVars PROVE FlowInv'
  OBVIOUS
<1> USE DEF FlowInv
<1>0. turn \in Nat /\ answering \in Nat /\ voiced \in Nat /\ asked \subseteq Nat /\ speaking \subseteq Nat
      /\ \A s \in Stages : interrupts[s] \subseteq Nat
      /\ interrupts["llm"] \subseteq Nat /\ interrupts["tts"] \subseteq Nat
  BY PipelineAssumption DEF FlowTypeOK, Turns, Stages
<1>1. CASE PipelineStarts
  BY <1>0, <1>1 DEF PipelineStarts
<1>2. CASE SpeechDetected
  BY <1>0, <1>2, TurnBegun DEF SpeechDetected, Stages
<1>3. CASE Transcription
  <2>1. CASE inTurn
    BY <1>3, <2>1 DEF Transcription
  <2>2. CASE ~inTurn
    <3>1. pipe = "running" /\ BeginTurn /\ UNCHANGED <<pipe, asked, answering, speaking, voiced>>
      BY <1>3, <2>2 DEF Transcription
    <3> QED
      BY <1>0, <3>1, TurnBegun DEF Stages
  <2> QED
    BY <2>1, <2>2
<1>4. CASE TurnEnds
  BY <1>0, <1>4 DEF TurnEnds
<1>5. CASE LLMBegins
  BY <1>0, <1>5 DEF LLMBegins
<1>6. CASE LLMText
  BY <1>0, <1>6 DEF LLMText
<1>7. CASE Audio
  BY <1>0, <1>7 DEF Audio, flowVars
<1>8. CASE LLMEnds
  BY <1>0, <1>8 DEF LLMEnds
<1>14. CASE AudioEnds
  <2>1. speaking' \subseteq speaking
        /\ UNCHANGED <<pipe, turn, asked, answering, interrupts, voiced>>
    BY <1>14 DEF AudioEnds
  <2> QED
    BY <1>0, <2>1
<1>9. CASE InterruptStt
  BY <1>0, <1>9 DEF InterruptStt, Stages, FlowTypeOK
<1>10. CASE InterruptLlm
  <2>1. PICK u \in interrupts["llm"] :
           /\ Earliest("llm", u)
           /\ interrupts' = [interrupts EXCEPT !["llm"] = @ \ {u}, !["tts"] = @ \cup {u}]
           /\ asked' = {t \in asked : u <= t}
    BY <1>10 DEF InterruptLlm
  <2>2. /\ interrupts'["llm"] = interrupts["llm"] \ {u}
        /\ interrupts'["tts"] = interrupts["tts"] \cup {u}
        /\ interrupts'["stt"] = interrupts["stt"]
    BY <2>1 DEF FlowTypeOK, Stages
  <2>3. answering' = 0 /\ UNCHANGED <<pipe, turn, speaking, voiced>>
    BY <1>10 DEF InterruptLlm
  <2>4. turn \notin interrupts'["llm"] => asked' \subseteq {turn}
    <3>1. CASE turn \in interrupts["llm"] /\ u = turn
      <4> SUFFICES ASSUME NEW t \in asked, u <= t PROVE t = turn
        BY <2>1
      <4> QED
        BY <1>0, <3>1
    <3>2. CASE turn \notin interrupts["llm"]
      BY <2>1, <3>2
    <3> QED
      BY <2>2, <3>1, <3>2
  <2>5. \A s \in Stages : \A v \in interrupts'[s] : v <= turn
    BY <2>1, <2>2 DEF Stages
  <2>6. turn > 0 /\ turn \notin interrupts'["llm"] \cup interrupts'["tts"] => speaking \subseteq {turn}
    BY <2>2
  <2>7. 0 <= turn /\ asked' \subseteq asked
    BY <1>0, <2>1
  <2> QED
    BY <2>3, <2>4, <2>5, <2>6, <2>7
<1>11. CASE InterruptTts
  <2>1. PICK u \in interrupts["tts"] :
           /\ Earliest("tts", u)
           /\ interrupts' = [interrupts EXCEPT !["tts"] = @ \ {u}]
           /\ speaking' = {t \in speaking : u <= t}
    BY <1>11 DEF InterruptTts
  <2>2. /\ interrupts'["tts"] = interrupts["tts"] \ {u}
        /\ interrupts'["llm"] = interrupts["llm"]
        /\ interrupts'["stt"] = interrupts["stt"]
    BY <2>1 DEF FlowTypeOK, Stages
  <2>3. UNCHANGED <<pipe, turn, asked, answering, voiced>>
    BY <1>11 DEF InterruptTts
  <2>4. \A s \in Stages : \A v \in interrupts'[s] : v <= turn
    BY <2>1, <2>2 DEF Stages
  <2>5. turn \notin interrupts'["llm"] \cup interrupts'["tts"] /\ turn > 0 => speaking' \subseteq {turn}
    <3>1. CASE turn \in interrupts["tts"] /\ u = turn
      <4> SUFFICES ASSUME NEW t \in speaking, u <= t PROVE t = turn
        BY <2>1
      <4> QED
        BY <1>0, <3>1
    <3>2. CASE turn \notin interrupts["tts"]
      BY <2>1, <2>2, <3>2
    <3> QED
      BY <2>2, <3>1, <3>2
  <2>6. speaking' \subseteq speaking
    BY <2>1
  <2> QED
    BY <2>2, <2>3, <2>4, <2>5, <2>6
<1>12. CASE PipelineEnds
  BY <1>0, <1>12 DEF PipelineEnds, Stages
<1>13. CASE (\E r \in Requests : LLMCallsTool(r)) \/ Replies \/ AsteriskStep \/ UNCHANGED pipeVars
  BY <1>13 DEF LLMCallsTool, Replies, AsteriskStep, flowVars, pipeVars
<1> QED
  BY <1>1, <1>2, <1>3, <1>4, <1>5, <1>6, <1>7, <1>8, <1>9, <1>10, <1>11, <1>12, <1>13,
     <1>14
     DEF PipelineNext

-----------------------------------------------------------------------------
(* The marks of a turn                                                     *)

LEMMA StartedStep ==
    MetricsTypeOK(Turns) /\ PipelineTypeOK /\ StartedInv /\ [PipelineNext]_pipeVars => StartedInv'
<1> SUFFICES ASSUME MetricsTypeOK(Turns), PipelineTypeOK, StartedInv, [PipelineNext]_pipeVars
             PROVE  StartedInv'
  OBVIOUS
<1> USE DEF StartedInv
<1>1. cm.started => cm'.started
  <2> USE DEF MetricsTypeOK, CallMetrics, Baseline, SttStart
  <2>1. ASSUME NEW s \in Stages, OtherPasses(s) PROVE cm.started => cm'.started
    BY <2>1 DEF OtherPasses
  <2>2. ASSUME NEW s \in Stages, InterruptionPasses(s) PROVE cm.started => cm'.started
    BY <2>2 DEF InterruptionPasses, RecordBargeIn
  <2>3. ASSUME NEW s \in Stages, NEW t \in Turns, OutputPasses(s, t)
        PROVE  cm.started => cm'.started
    BY <2>3 DEF OutputPasses, Marked, SttFinal, LlmFirstToken, TtsFirstAudio, Stages
  <2>4. CASE UNCHANGED metricsVars
    BY <2>4 DEF metricsVars
  <2> QED
    BY <2>1, <2>2, <2>3, <2>4, MetricsMoves DEF MetricsMove
<1>2. CASE PipelineStarts
  BY <1>2 DEF PipelineStarts, OtherPasses, Baseline, SttStart, MetricsTypeOK, CallMetrics
<1>3. pipe' = "built" \/ pipe # "built" \/ PipelineStarts
  BY DEF PipelineNext, SpeechDetected, Transcription, TurnEnds, LLMBegins, LLMText, LLMEnds,
         LLMCallsTool, Audio, AudioEnds, InterruptStt, InterruptLlm, InterruptTts, PipelineEnds,
         Replies, AsteriskStep, flowVars, pipeVars
<1> QED
  BY <1>1, <1>2, <1>3

\* An interruption leaves no mark, and the next output of the stage is a first one.
LEMMA Unmarked ==
    ASSUME MetricsTypeOK(Turns), NEW s \in Stages, InterruptionPasses(s)
    PROVE  /\ cm'.sttEnd = None /\ cm'.llmStart = None /\ cm'.ttsFirst = None
           /\ first' = [first EXCEPT ![s] = FALSE]
  BY DEF MetricsTypeOK, CallMetrics, InterruptionPasses, Baseline, SttStart, RecordBargeIn

\* Once the clock runs, an output sets at most the mark of its stage.
LEMMA Mark ==
    ASSUME MetricsTypeOK(Turns), cm.started, NEW s \in Stages, NEW t \in Turns, OutputPasses(s, t)
    PROVE  /\ first' = [first EXCEPT ![s] = TRUE]
           /\ first[s] => cm' = cm
           /\ ~first[s] /\ s = "stt" => cm' = SttFinal(cm, t)
           /\ ~first[s] /\ s = "llm" => cm' = LlmFirstToken(cm, t)
           /\ ~first[s] /\ s = "tts" => cm' = TtsFirstAudio(cm, t)
  BY DEF OutputPasses, Baseline, Marked

LEMMA MarksStep ==
    PipelineTypeOK /\ FlowInv /\ StartedInv /\ MarksInv /\ [PipelineNext]_pipeVars => MarksInv'
<1> SUFFICES ASSUME PipelineTypeOK, FlowInv, StartedInv, MarksInv, [PipelineNext]_pipeVars,
                    clean'
             PROVE  MarksInv'
  BY DEF MarksInv
<1>0. FlowTypeOK /\ MetricsTypeOK(Turns)
  BY TypeParts
<1>a. /\ turn \in Nat /\ answering \in Nat /\ voiced \in Nat /\ asked \subseteq Nat
      /\ speaking \subseteq Nat /\ None \notin Nat
      /\ first \in [Stages -> BOOLEAN] /\ cm \in CallMetrics(Turns)
      /\ interrupts \in [Stages -> SUBSET Turns]
  BY <1>0, PipelineAssumption DEF FlowTypeOK, MetricsTypeOK, Turns, None
<1>1. CASE PipelineStarts
  BY <1>1 DEF PipelineStarts, FlowInv, MarksInv
<1>2. CASE SpeechDetected
  <2>1. BeginTurn /\ heard' = FALSE /\ UNCHANGED <<asked, answering, speaking, voiced, first>>
    BY <1>2 DEF SpeechDetected, metricsVars
  <2>2. ~Quiet'
    BY <1>0, <2>1, TurnBegun DEF Quiet, Stages
  <2>3. turn' \notin asked /\ answering # turn' /\ turn' \notin speaking /\ voiced # turn'
    BY <1>0, <1>a, <2>1, TurnBegun DEF FlowInv
  <2> QED
    BY <1>0, <2>1, <2>2, <2>3, TurnBegun DEF MarksInv
<1>3. CASE Transcription
  <2>1. inTurn /\ clean /\ Quiet /\ OutputPasses("stt", turn) /\ cm.started
    BY <1>3 DEF Transcription, StartedInv
  <2>2. UNCHANGED <<turn, interrupts, asked, answering, speaking, voiced>>
    BY <1>3, <2>1 DEF Transcription
  <2>3. /\ first' = [first EXCEPT !["stt"] = TRUE]
        /\ cm' = IF first["stt"] THEN cm ELSE SttFinal(cm, turn)
    BY <1>0, <2>1, Mark DEF FlowTypeOK, Stages
  <2>4. Quiet' /\ turn > 0
    BY <2>1, <2>2 DEF Quiet, MarksInv
  <2>5. /\ cm'.sttEnd = turn /\ cm'.llmStart = cm.llmStart /\ cm'.ttsFirst = cm.ttsFirst
    BY <1>a, <2>1, <2>3 DEF MarksInv, SttFinal, CallMetrics
  <2>6. first'["stt"] /\ first'["llm"] = first["llm"] /\ first'["tts"] = first["tts"]
    BY <1>a, <2>3 DEF Stages
  <2> QED
    BY <2>1, <2>2, <2>4, <2>5, <2>6 DEF MarksInv
<1>4. CASE TurnEnds
  BY <1>4 DEF TurnEnds, MarksInv, metricsVars, Quiet
<1>5. CASE LLMBegins
  BY <1>5 DEF LLMBegins, MarksInv, metricsVars, Quiet
<1>6. CASE LLMText
  <2>1. /\ clean /\ Quiet /\ OutputPasses("llm", answering) /\ cm.started /\ answering # 0
        /\ speaking' = speaking \cup {answering}
        /\ UNCHANGED <<turn, heard, interrupts, asked, answering, voiced>>
    BY <1>6 DEF LLMText, StartedInv
  <2>2. answering = turn /\ first["stt"] /\ cm.sttEnd = turn /\ turn > 0
    BY <2>1 DEF FlowInv, Quiet, MarksInv, Stages
  <2>3. /\ first' = [first EXCEPT !["llm"] = TRUE]
        /\ cm' = IF first["llm"] THEN cm ELSE LlmFirstToken(cm, turn)
    BY <1>0, <2>1, <2>2, Mark DEF FlowTypeOK, Stages
  <2>4. Quiet'
    BY <2>1 DEF Quiet
  <2>5. cm'.sttEnd = turn /\ cm'.llmStart = turn /\ cm'.ttsFirst = cm.ttsFirst
    BY <1>a, <2>1, <2>2, <2>3 DEF MarksInv, LlmFirstToken, CallMetrics
  <2>6. first'["llm"] /\ first'["stt"] = first["stt"] /\ first'["tts"] = first["tts"]
    BY <1>a, <2>3 DEF Stages
  <2> QED
    BY <2>1, <2>2, <2>4, <2>5, <2>6 DEF MarksInv
<1>7. CASE Audio
  <2>1. PICK t \in speaking : OutputPasses("tts", t) /\ voiced' = t
    BY <1>7 DEF Audio
  <2>2. /\ clean /\ Quiet /\ cm.started
        /\ UNCHANGED <<turn, heard, interrupts, asked, answering, speaking>>
    BY <1>7 DEF Audio, StartedInv, flowVars
  <2>3. t = turn /\ first["llm"] /\ cm.llmStart = turn /\ turn > 0
    BY <2>1, <2>2 DEF FlowInv, Quiet, MarksInv, Stages
  <2>4. /\ first' = [first EXCEPT !["tts"] = TRUE]
        /\ cm' = IF first["tts"] THEN cm ELSE TtsFirstAudio(cm, turn)
    BY <1>0, <2>1, <2>2, <2>3, Mark DEF FlowTypeOK, Stages
  <2>5. Quiet'
    BY <2>2 DEF Quiet
  <2>6. cm'.sttEnd = cm.sttEnd /\ cm'.llmStart = turn /\ cm'.ttsFirst = turn
    BY <1>a, <2>2, <2>3, <2>4 DEF MarksInv, TtsFirstAudio, CallMetrics
  <2>7. first'["tts"] /\ first'["stt"] = first["stt"] /\ first'["llm"] = first["llm"]
    BY <1>a, <2>4 DEF Stages
  <2> QED
    BY <2>2, <2>3, <2>5, <2>6, <2>7 DEF MarksInv
<1>8. CASE LLMEnds
  BY <1>8 DEF LLMEnds, MarksInv, metricsVars, Quiet
<1>9. CASE AudioEnds
  <2>1. /\ speaking' \subseteq speaking
        /\ UNCHANGED <<turn, heard, asked, answering, interrupts, clean, voiced, cm, first>>
    BY <1>9 DEF AudioEnds, metricsVars
  <2> QED
    BY <2>1 DEF MarksInv, Quiet
<1>10. CASE InterruptStt
  <2>1. PICK u \in interrupts["stt"] : interrupts' = [interrupts EXCEPT !["stt"] = @ \ {u}]
    BY <1>10 DEF InterruptStt
  <2>2. /\ clean /\ ~Quiet
        /\ UNCHANGED <<turn, heard, asked, answering, speaking, voiced>>
    BY <1>10, <2>1 DEF InterruptStt, Quiet, Stages
  <2>3. /\ cm'.sttEnd = None /\ cm'.llmStart = None /\ cm'.ttsFirst = None
        /\ first' = [first EXCEPT !["stt"] = FALSE]
    BY <1>0, <1>10, Unmarked DEF InterruptStt, Stages
  <2>4. ~first'["stt"] /\ first'["llm"] = first["llm"] /\ first'["tts"] = first["tts"]
    BY <1>a, <2>3 DEF Stages
  <2>5. interrupts'["llm"] = interrupts["llm"] /\ interrupts'["tts"] = interrupts["tts"]
    BY <1>a, <2>1 DEF Stages
  <2>6. Quiet' => interrupts["llm"] = {} /\ interrupts["tts"] = {}
    BY <2>5 DEF Quiet, Stages
  <2> QED
    BY <2>2, <2>3, <2>4, <2>5, <2>6 DEF MarksInv
<1>11. CASE InterruptLlm
  <2>1. PICK u \in interrupts["llm"] :
           /\ interrupts' = [interrupts EXCEPT !["llm"] = @ \ {u}, !["tts"] = @ \cup {u}]
           /\ asked' = {t \in asked : u <= t}
    BY <1>11 DEF InterruptLlm
  <2>2. /\ clean /\ ~Quiet /\ answering' = 0
        /\ UNCHANGED <<turn, heard, speaking, voiced>>
    BY <1>11, <2>1 DEF InterruptLlm, Quiet, Stages
  <2>3. first' = [first EXCEPT !["llm"] = FALSE]
    BY <1>0, <1>11, Unmarked DEF InterruptLlm, Stages
  <2>4. ~first'["llm"] /\ first'["stt"] = first["stt"] /\ first'["tts"] = first["tts"]
    BY <1>a, <2>3 DEF Stages
  <2>5. /\ interrupts'["llm"] = interrupts["llm"] \ {u}
        /\ interrupts'["tts"] = interrupts["tts"] \cup {u}
        /\ interrupts'["stt"] = interrupts["stt"]
    BY <1>a, <2>1 DEF Stages
  <2>6. ~Quiet'
    BY <2>5 DEF Quiet, Stages
  <2>7. turn \notin asked' /\ answering' # turn /\ turn > 0
    BY <1>a, <2>1, <2>2 DEF MarksInv
  <2> QED
    BY <2>2, <2>4, <2>5, <2>6, <2>7 DEF MarksInv
<1>12. CASE InterruptTts
  <2>1. PICK u \in interrupts["tts"] :
           /\ interrupts' = [interrupts EXCEPT !["tts"] = @ \ {u}]
           /\ speaking' = {t \in speaking : u <= t}
    BY <1>12 DEF InterruptTts
  <2>2. /\ clean /\ ~Quiet
        /\ UNCHANGED <<turn, heard, asked, answering, voiced>>
    BY <1>12, <2>1 DEF InterruptTts, Quiet, Stages
  <2>3. /\ cm'.sttEnd = None /\ cm'.llmStart = None /\ cm'.ttsFirst = None
        /\ first' = [first EXCEPT !["tts"] = FALSE]
    BY <1>0, <1>12, Unmarked DEF InterruptTts, Stages
  <2>4. ~first'["tts"] /\ first'["stt"] = first["stt"] /\ first'["llm"] = first["llm"]
    BY <1>a, <2>3 DEF Stages
  <2>5. interrupts'["stt"] = interrupts["stt"] /\ interrupts'["llm"] = interrupts["llm"]
    BY <1>a, <2>1 DEF Stages
  <2>6. Quiet' => interrupts["stt"] = {} /\ interrupts["llm"] = {}
    BY <2>5 DEF Quiet, Stages
  <2>7. turn \notin speaking'
    BY <2>1, <2>2 DEF MarksInv
  <2> QED
    BY <2>2, <2>3, <2>4, <2>5, <2>6, <2>7 DEF MarksInv
<1>13. CASE PipelineEnds
  BY <1>13 DEF PipelineEnds
<1>14. CASE (\E r \in Requests : LLMCallsTool(r)) \/ Replies \/ AsteriskStep \/ UNCHANGED pipeVars
  <2>1. UNCHANGED <<turn, heard, asked, answering, speaking, interrupts, clean, voiced, cm, first>>
    BY <1>14 DEF LLMCallsTool, Replies, AsteriskStep, flowVars, metricsVars, pipeVars
  <2> QED
    BY <2>1 DEF MarksInv, Quiet
<1> QED
  BY <1>1, <1>2, <1>3, <1>4, <1>5, <1>6, <1>7, <1>8, <1>9, <1>10, <1>11, <1>12, <1>13, <1>14
     DEF PipelineNext

-----------------------------------------------------------------------------
(* The theorems                                                            *)

LEMMA PipeInvInit == PipelineInit => PipeInv
<1> SUFFICES ASSUME PipelineInit PROVE PipeInv
  OBVIOUS
<1> USE DEF PipelineInit, MetricsInit, ToolInit
<1>1. FlowTypeOK
  BY TurnsNotNone DEF FlowTypeOK
<1>4. FlowInv
  BY DEF FlowInv, Stages
<1>2. MetricsTypeOK(Turns) /\ CountsInv
  BY DEF MetricsTypeOK, CallMetrics, CountsInv
<1>3. ToolTypeOK /\ TransferInv
  BY DEF ToolTypeOK, Told, TransferInv, TriedTransfer
<1> QED
  BY <1>1, <1>2, <1>3, <1>4, TypeParts DEF PipeInv, StartedInv, MarksInv

\* The invariant of the pipeline is inductive, for any number of turns and tool calls.
THEOREM PipelineInvariant == PipelineSpec => []PipeInv
<1>1. PipeInv /\ [PipelineNext]_pipeVars => PipeInv'
  <2> SUFFICES ASSUME PipeInv, [PipelineNext]_pipeVars PROVE PipeInv'
    OBVIOUS
  <2> USE DEF PipeInv
  <2>1. MetricsMove /\ ToolMove /\ FlowTypeOK /\ MetricsTypeOK(Turns) /\ ToolTypeOK
    BY MetricsMoves, ToolMoves, TypeParts
  <2>2. FlowTypeOK' /\ MetricsTypeOK(Turns)' /\ ToolTypeOK'
    BY <2>1, FlowTypeStep, MetricsTypeStep, ToolTypeStep
  <2>3. PipelineTypeOK'
    BY <2>2 DEF PipelineTypeOK, FlowTypeOK
  <2>4. CountsInv' /\ TransferInv' /\ FlowInv' /\ StartedInv' /\ MarksInv'
    BY <2>1, CountsStep, TransferStep, FlowStep, StartedStep, MarksStep
  <2> QED
    BY <2>3, <2>4
<1> QED
  BY <1>1, PipeInvInit, PTL DEF PipelineSpec

\* Every variable of the pipeline keeps its type.
THEOREM PipelineTypeCorrect == PipelineSpec => []PipelineTypeOK
  BY PipelineInvariant, PTL DEF PipeInv

\* summary() counts a first token per transcription at most, and a first audio and a turn
\* per first token, in whatever order frames and interruptions pass the stages.
THEOREM CountsAlwaysNested == PipelineSpec => []CountsNested
<1>1. PipeInv => CountsNested
  BY DEF PipeInv, CountsInv, CountsNested
<1> QED
  BY <1>1, PipelineInvariant, PTL

\* A turn that was not disturbed is measured by its own marks, all three of them once its
\* answer sounds.
THEOREM TurnAlwaysMeasured == PipelineSpec => []TurnMeasured
<1>1. PipeInv => TurnMeasured
  BY DEF PipeInv, MarksInv, TurnMeasured
<1> QED
  BY <1>1, PipelineInvariant, PTL

\* One transfer is tried, whatever becomes of its request, and a model told "ok" was told
\* the truth.
THEOREM TransferAlwaysSound == PipelineSpec => []TransferSound
<1>1. PipeInv => TransferSound
  <2> SUFFICES ASSUME PipeInv PROVE TransferSound
    OBVIOUS
  <2> DEFINE tried == {r \in Requests : /\ tool[r].name = "transfer_call"
                                        /\ tool[r].told # "already_transferred"}
  <2>1. TransferInv /\ ToolTypeOK
    BY TypeParts DEF PipeInv
  <2>2. Cardinality(tried) <= 1
    <3>1. CASE tried = {}
      BY <3>1, FS_EmptySet
    <3>2. ASSUME NEW r \in tried PROVE Cardinality(tried) <= 1
      <4>1. tried = {r}
        BY <2>1, <3>2 DEF TransferInv, TriedTransfer
      <4>2. Cardinality({r}) = 1
        BY FS_Singleton
      <4> HIDE DEF tried
      <4>3. Cardinality(tried) = 1
        BY <4>1, <4>2
      <4> QED
        BY <4>3
    <3> QED
      BY <3>1, <3>2
  <2>3. \A r \in Requests : tool[r].name = "transfer_call" =>
          /\ tool[r].told = "ok" => tool[r].effect = "done"
          /\ tool[r].told = "already_transferred" => tried # {}
    BY <2>1 DEF TransferInv, TriedTransfer
  <2> QED
    BY <2>2, <2>3 DEF TransferSound
<1> QED
  BY <1>1, PipelineInvariant, PTL

-----------------------------------------------------------------------------
(* What ToolAnswered rests on                                              *)

\* A request that a tool waits for belongs to the answer that the LLM gives now, in a
\* pipeline that runs: no end of the answer, no interruption and no end of the pipeline
\* leaves a handler waiting for a model that has gone on.
SentIsAwaited ==
    \A r \in Requests : tool[r].at = "sent" => pipe = "running" /\ answering # 0

\* An answer ends, and an interruption passes, with no request left waiting.
LEMMA SentStep ==
    PipelineTypeOK /\ SentIsAwaited /\ [PipelineNext]_pipeVars => SentIsAwaited'
<1> SUFFICES ASSUME PipelineTypeOK, SentIsAwaited, [PipelineNext]_pipeVars,
                    NEW r \in Requests, tool'[r].at = "sent"
             PROVE  pipe' = "running" /\ answering' # 0
  BY DEF SentIsAwaited
<1>1. ToolTypeOK /\ ToolMove
  BY TypeParts, ToolMoves
<1>2. CASE \E q \in Requests : LLMCallsTool(q)
  BY <1>2 DEF LLMCallsTool, flowVars
<1>3. CASE InterruptLlm \/ PipelineEnds
  <2>1. tool' = Dropped
    BY <1>3 DEF InterruptLlm, PipelineEnds
  <2> QED
    BY <1>1, <2>1 DEF Dropped, ToolTypeOK
<1>4. CASE \/ PipelineStarts \/ SpeechDetected \/ Transcription \/ TurnEnds \/ LLMBegins \/ LLMText
           \/ LLMEnds \/ Audio \/ AudioEnds \/ InterruptStt \/ InterruptTts \/ UNCHANGED pipeVars
  <2>1. UNCHANGED toolVars
    BY <1>4 DEF PipelineStarts, SpeechDetected, Transcription, TurnEnds, LLMBegins, LLMText,
                LLMEnds, Audio, AudioEnds, InterruptStt, InterruptTts, pipeVars
  <2>2. tool[r].at = "sent"
    BY <2>1 DEF toolVars
  <2>3. pipe = "running" /\ answering # 0
    BY <2>2 DEF SentIsAwaited
  <2>4. ~LLMEnds
    BY <2>2 DEF LLMEnds, NoneInFlight
  <2> QED
    BY <1>4, <2>3, <2>4 DEF PipelineStarts, SpeechDetected, Transcription, TurnEnds, LLMBegins,
       LLMText, Audio, AudioEnds, InterruptStt, InterruptTts, flowVars, pipeVars
<1>5. CASE Replies \/ AsteriskStep
  <2>1. UNCHANGED flowVars
    BY <1>5 DEF Replies, AsteriskStep
  <2>2. tool[r].at = "sent"
    BY <1>1, <1>5 DEF Replies, AsteriskStep, Reply, Executes, ToolTypeOK
  <2> QED
    BY <2>1, <2>2 DEF SentIsAwaited, flowVars
<1> QED
  BY <1>2, <1>3, <1>4, <1>5 DEF PipelineNext

\* No handler is left waiting for a model that has gone on: the safety part of
\* ToolAnswered.
THEOREM SentIsAlwaysAwaited == PipelineSpec => []SentIsAwaited
<1>1. PipelineInit => SentIsAwaited
  BY DEF PipelineInit, ToolInit, SentIsAwaited
<1>2. PipeInv => PipelineTypeOK
  BY DEF PipeInv
<1> QED
  BY <1>1, <1>2, SentStep, PipelineInvariant, PTL DEF PipelineSpec

=============================================================================
