----------------------------- MODULE TurnMetrics -----------------------------
(***************************************************************************)
(* CallMetrics, the latencies of one call, and the three                   *)
(* MetricsFrameProcessors that feed it from behind STT, LLM and TTS.  A    *)
(* time mark is the user turn of the frame that set it, or None, so that   *)
(* two marks can be told to be of different turns; a list of latencies is  *)
(* its length.  The trace spans follow the marks and are left out, as are  *)
(* the count of errors and the texts.                                      *)
(***************************************************************************)
EXTENDS Integers

VARIABLES
    cm,     \* the CallMetrics of the call
    first   \* [stage -> _first]: an output frame has passed since the last interruption

metricsVars == <<cm, first>>

Stages == {"stt", "llm", "tts"}
None == -1

CallMetrics(turns) ==
    [started : BOOLEAN, sttEnd : turns \cup {None},
     llmStart : turns \cup {None}, ttsFirst : turns \cup {None},
     stt : Nat, llm : Nat, tts : Nat, turns : Nat, bargeIns : Nat]

MetricsTypeOK(turns) == cm \in CallMetrics(turns) /\ first \in [Stages -> BOOLEAN]

MetricsInit ==
    /\ cm = [started |-> FALSE, sttEnd |-> None, llmStart |-> None, ttsFirst |-> None,
             stt |-> 0, llm |-> 0, tts |-> 0, turns |-> 0, bargeIns |-> 0]
    /\ first = [s \in Stages |-> FALSE]

-----------------------------------------------------------------------------
(* CallMetrics                                                             *)

\* Seeded defect: the mark of the LLM outlives the turn.
SttStartKeepsLlm(m) == [m EXCEPT !.started = TRUE, !.sttEnd = None, !.ttsFirst = None]

SttStart(m) == [m EXCEPT !.started = TRUE, !.sttEnd = None, !.llmStart = None, !.ttsFirst = None]

SttFinal(m, t) ==
    IF m.sttEnd = None THEN [m EXCEPT !.sttEnd = t, !.stt = @ + 1] ELSE m

LlmFirstToken(m, t) ==
    IF m.llmStart = None /\ m.sttEnd # None THEN [m EXCEPT !.llmStart = t, !.llm = @ + 1] ELSE m

TtsFirstAudio(m, t) ==
    IF m.ttsFirst = None /\ m.llmStart # None
      THEN [m EXCEPT !.ttsFirst = t, !.tts = @ + 1,
                     !.turns = IF m.sttEnd # None THEN @ + 1 ELSE @]
      ELSE m

RecordBargeIn(m) == [m EXCEPT !.bargeIns = @ + 1]

-----------------------------------------------------------------------------
(* MetricsFrameProcessor.process_frame                                     *)

\* The first frame of all to pass the STT stage starts the clock.
Baseline(s) == IF s = "stt" /\ ~cm.started THEN SttStart(cm) ELSE cm

\* A frame that is nobody's output: StartFrame, and all the others.
OtherPasses(s) ==
    /\ cm' = Baseline(s)
    /\ UNCHANGED first

\* Seeded defect: the next turn's output does not count as a first one.
InterruptionKeepsFirst(s) ==
    /\ cm' = SttStart(RecordBargeIn(Baseline(s)))
    /\ UNCHANGED first

\* An InterruptionFrame, in whichever direction it goes.
InterruptionPasses(s) ==
    /\ cm' = SttStart(RecordBargeIn(Baseline(s)))
    /\ first' = [first EXCEPT ![s] = FALSE]

Marked(s, m, t) ==
    CASE s = "stt" -> SttFinal(m, t)
      [] s = "llm" -> LlmFirstToken(m, t)
      [] s = "tts" -> TtsFirstAudio(m, t)

\* An output frame of the service before the stage: transcription, text, audio.
OutputPasses(s, t) ==
    /\ cm' = IF first[s] THEN Baseline(s) ELSE Marked(s, Baseline(s), t)
    /\ first' = [first EXCEPT ![s] = TRUE]

=============================================================================
