------------------------- MODULE CallControlProofs -------------------------
(***************************************************************************)
(* What the runs of call_one check on one call, proved for every set of    *)
(* calls, with or without faults and lost events.  The inductive invariant *)
(* adds to the properties what each call's stages exclude: before its      *)
(* registration a call has left no trace anywhere, a UUID pends from the   *)
(* registration until its connection is bound, and only a call that is up  *)
(* has a pipeline.                                                         *)
(***************************************************************************)
EXTENDS CallControl, TLAPS

\* Before the registration nothing refers to the call, so nothing can end it.
NoTraceBefore(c) ==
    setup[c] \in {"idle", "vars", "answer", "bridge", "add"} =>
        /\ aud[c] = "none" /\ shut[c] = "idle" /\ task[c] = "none"
        /\ c \notin pending /\ c \notin registry

\* The connection is dialed for an AudioSocket channel, and its UUID waits for it.
UuidWaits(c) ==
    /\ aud[c] = "none" => conn[c] = "none"
    /\ setup[c] = "originate" /\ conn[c] = "none" => c \in pending
    /\ conn[c] = "dialing" => c \in pending

\* Pipelines belong to calls that are up, and so do transfers.
UpWhenServed(c) ==
    /\ task[c] # "none" => setup[c] = "up"
    /\ caller[c] = "left" => setup[c] = "up"

\* The teardown of a call that left does not go on to hang up its caller.
SparesLeft(c) == shut[c] = "hangCaller" => reason[c] # "stasis_end"

IInv ==
    /\ TypeOK
    /\ EndedOnce
    /\ RegistryExact
    /\ BindExact
    /\ \A c \in Calls : NoTraceBefore(c) /\ UuidWaits(c) /\ UpWhenServed(c) /\ SparesLeft(c)

\* Every action keeps the types.
LEMMA TypeStep ==
    TypeOK /\ [Next]_vars => TypeOK'
<1> SUFFICES ASSUME TypeOK, [Next]_vars PROVE TypeOK'
  OBVIOUS
<1> USE DEF TypeOK, CallerStates, CallerEvents, SetupStages, AttachStages, ConnStages,
   TaskStages, ShutStages, Reasons, NoReason
<1>1. ASSUME NEW c \in Calls, SetupStep(c) PROVE TypeOK'
  <2>1. CASE VarsRead(c)
    BY <2>1 DEF VarsRead, SetupFrame
  <2>2. CASE Answered(c)
    BY <2>2 DEF Answered, SetupFrame
  <2>3. CASE BridgeCreated(c)
    BY <2>3 DEF BridgeCreated, SetupFrame
  <2>4. CASE Register(c)
    BY <2>4 DEF Register, SetupFrame
  <2>5. CASE OriginateSucceeds(c)
    BY <2>5 DEF OriginateSucceeds, SetupFrame
  <2>6. CASE OriginateFails(c)
    BY <2>6 DEF OriginateFails, SetupFrame
  <2>7. CASE SetupHangupReturns(c)
    BY <2>7 DEF SetupHangupReturns, SetupFrame, HangupCallerReply, CallerGone, Report
  <2>8. CASE SetupRaises(c)
    BY <2>8 DEF SetupRaises, SetupFrame
  <2> QED
    BY <1>1, <2>1, <2>2, <2>3, <2>4, <2>5, <2>6, <2>7, <2>8 DEF SetupStep
<1>2. ASSUME NEW c \in Calls, AttachStep(c) PROVE TypeOK'
  <2>1. CASE AudioStasisStart(c)
    BY <2>1 DEF AudioStasisStart, pipeline, maps, asterisk
  <2>2. CASE AudioAttached(c)
    BY <2>2 DEF AudioAttached, pipeline, maps, asterisk
  <2> QED
    BY <1>2, <2>1, <2>2 DEF AttachStep
<1>3. ASSUME NEW c \in Calls, ConnStep(c) PROVE TypeOK'
  <2>1. CASE Handshake(c)
    BY <2>1 DEF Handshake, teardown, pipeline, asterisk
  <2>2. CASE ConnectionLost(c)
    BY <2>2 DEF ConnectionLost, pipeline, maps, asterisk
  <2>3. CASE AudioRaises(c)
    BY <2>3 DEF AudioRaises, pipeline, maps, asterisk
  <2>4. CASE Disconnected(c)
    BY <2>4 DEF Disconnected, pipeline, asterisk, teardown, Shutdown, RemoveAndHangup,
       AfterAudio, Reach
  <2> QED
    BY <1>3, <2>1, <2>2, <2>3, <2>4 DEF ConnStep
<1>4. ASSUME NEW c \in Calls, StartStep(c) PROVE TypeOK'
  <2>1. CASE Start(c)
    BY <2>1 DEF Start, teardown, StartFrame, asterisk
  <2>2. CASE StartEcho(c)
    BY <2>2 DEF StartEcho, teardown, StartFrame, asterisk
  <2>3. CASE StartFails(c)
    BY <2>3 DEF StartFails, StartFrame, asterisk, Shutdown, RemoveAndHangup, AfterAudio,
       Reach, teardown
  <2> QED
    BY <1>4, <2>1, <2>2, <2>3 DEF StartStep
<1>5. ASSUME NEW c \in Calls, ShutdownStep(c) PROVE TypeOK'
  <2>1. CASE CancelReturns(c)
    BY <2>1 DEF CancelReturns, pipeline, asterisk, RemoveAndHangup, AfterAudio, Reach
  <2>2. CASE AudioHangupReturns(c)
    BY <2>2 DEF AudioHangupReturns, pipeline, maps, AfterAudio, Reach
  <2>3. CASE CallerHangupReturns(c)
    BY <2>3 DEF CallerHangupReturns, pipeline, maps, Reach, HangupCallerReply,
       CallerGone, Report
  <2> QED
    BY <1>5, <2>1, <2>2, <2>3 DEF ShutdownStep
<1>6. ASSUME NEW c \in Calls, EventStep(c) PROVE TypeOK'
  <2>1. CASE StasisEnd(c)
    BY <2>1 DEF StasisEnd, EndEvent, pipeline, teardown, Shutdown, RemoveAndHangup,
       AfterAudio, Reach
  <2>2. CASE ChannelDestroyed(c)
    BY <2>2 DEF ChannelDestroyed, EndEvent, pipeline, teardown, Shutdown,
       RemoveAndHangup, AfterAudio, Reach
  <2> QED
    BY <1>6, <2>1, <2>2 DEF EventStep
<1>7. ASSUME NEW c \in Calls, EnvStep(c) PROVE TypeOK'
  <2>1. CASE StasisStart(c)
    BY <2>1 DEF StasisStart, SetupFrame
  <2>2. CASE CallerHangsUp(c)
    BY <2>2 DEF CallerHangsUp, pipeline, maps, CallerGone, Report
  <2>3. CASE AsteriskOriginates(c)
    BY <2>3 DEF AsteriskOriginates, pipeline, maps
  <2>4. CASE AudioChannelEnds(c)
    BY <2>4 DEF AudioChannelEnds, pipeline, maps
  <2> QED
    BY <1>7, <2>1, <2>2, <2>3, <2>4 DEF EnvStep
<1>8. ASSUME NEW c \in Calls, PipelineEnds(c) PROVE TypeOK'
  BY <1>8 DEF PipelineEnds, StartFrame, asterisk, Shutdown, RemoveAndHangup, AfterAudio,
     Reach, teardown
<1>9. ASSUME NEW c \in Calls, TransferCall(c) PROVE TypeOK'
  BY <1>9 DEF TransferCall, maps, Report
<1>10. ASSUME NEW c \in Calls, ForcedShutdown(c) PROVE TypeOK'
  BY <1>10 DEF ForcedShutdown, pipeline, asterisk, Shutdown, RemoveAndHangup,
     AfterAudio, Reach, teardown
<1>11. CASE UNCHANGED vars
  BY <1>11 DEF vars
<1> QED
  BY <1>1, <1>2, <1>3, <1>4, <1>5, <1>6, <1>7, <1>8, <1>9, <1>10, <1>11 DEF Next, CallStep

\* What a call of shutdown() may do up to its first suspension: nothing, if another
\* one began, or take the call to the stage of its first request.
Ends(c) ==
    \/ UNCHANGED <<routed, registry, shut, reason, ended>>
    \/ \E s \in ShutStages \ {"idle"}, r \in Reasons :
          /\ shut[c] = "idle"
          /\ shut' = [shut EXCEPT ![c] = s]
          /\ reason' = [reason EXCEPT ![c] = r]
          /\ ended' = IF s = "ended" THEN [ended EXCEPT ![c] = @ + 1] ELSE ended
          /\ s = "hangCaller" => r # "stasis_end"
          /\ routed' = IF s = "cancel" THEN routed ELSE routed \ {c}
          /\ registry' = IF s = "cancel" THEN registry ELSE registry \ {c}

\* shutdown() up to its first suspension is such a step.
LEMMA ShutdownEnds ==
    ASSUME NEW c \in Calls, NEW r \in Reasons, Shutdown(c, r)
    PROVE  Ends(c)
<1>1. CASE shut[c] # "idle" /\ UNCHANGED teardown
  BY <1>1 DEF Ends, teardown
<1>2. CASE shut[c] = "idle" /\ c \in built
  BY <1>2 DEF Shutdown, Reach, Ends, ShutStages
<1>3. CASE shut[c] = "idle" /\ c \notin built
  BY <1>3 DEF Shutdown, RemoveAndHangup, AfterAudio, Reach, Ends, ShutStages
<1> QED
  BY <1>1, <1>2, <1>3 DEF Shutdown

\* It keeps what the invariant says of teardowns.
LEMMA EndsKeeps ==
    ASSUME IInv, TypeOK', NEW c \in Calls, Ends(c), UNCHANGED setup
    PROVE  EndedOnce' /\ RegistryExact' /\ \A d \in Calls : SparesLeft(d)'
<1>1. CASE UNCHANGED <<routed, registry, shut, reason, ended>>
  BY <1>1 DEF IInv, EndedOnce, RegistryExact, SparesLeft
<1>2. CASE ~UNCHANGED <<routed, registry, shut, reason, ended>>
  <2>1. PICK s \in ShutStages \ {"idle"}, r \in Reasons :
          /\ shut[c] = "idle"
          /\ shut' = [shut EXCEPT ![c] = s]
          /\ reason' = [reason EXCEPT ![c] = r]
          /\ ended' = IF s = "ended" THEN [ended EXCEPT ![c] = @ + 1] ELSE ended
          /\ s = "hangCaller" => r # "stasis_end"
          /\ routed' = IF s = "cancel" THEN routed ELSE routed \ {c}
          /\ registry' = IF s = "cancel" THEN registry ELSE registry \ {c}
    BY <1>2 DEF Ends
  <2>2. EndedOnce'
    BY <2>1 DEF IInv, TypeOK, EndedOnce, ShutStages
  <2>3. RegistryExact'
    BY <2>1 DEF IInv, TypeOK, RegistryExact, ShutStages
  <2>4. \A d \in Calls : SparesLeft(d)'
    BY <2>1 DEF IInv, TypeOK, SparesLeft
  <2> QED
    BY <2>2, <2>3, <2>4
<1> QED
  BY <1>1, <1>2

\* Every action keeps the inductive invariant.
LEMMA InvStep ==
    IInv /\ [Next]_vars => IInv'
<1> SUFFICES ASSUME IInv, [Next]_vars PROVE IInv'
  OBVIOUS
<1>0. TypeOK /\ TypeOK'
  BY TypeStep DEF IInv
<1> USE <1>0 DEF IInv, EndedOnce, RegistryExact, BindExact, NoTraceBefore, UuidWaits,
   UpWhenServed, SparesLeft
<1>1. ASSUME NEW c \in Calls, SetupStep(c) PROVE IInv'
  <2>1. CASE VarsRead(c)
    BY <2>1 DEF TypeOK, VarsRead, SetupFrame
  <2>2. CASE Answered(c)
    BY <2>2 DEF TypeOK, Answered, SetupFrame
  <2>3. CASE BridgeCreated(c)
    BY <2>3 DEF TypeOK, BridgeCreated, SetupFrame
  <2>4. CASE Register(c)
    BY <2>4 DEF TypeOK, Register, SetupFrame
  <2>5. CASE OriginateSucceeds(c)
    BY <2>5 DEF TypeOK, OriginateSucceeds, SetupFrame
  <2>6. CASE OriginateFails(c)
    BY <2>6 DEF TypeOK, OriginateFails, SetupFrame
  <2>7. CASE SetupHangupReturns(c)
    BY <2>7 DEF TypeOK, SetupHangupReturns, SetupFrame, HangupCallerReply, CallerGone,
       Report
  <2>8. CASE SetupRaises(c)
    BY <2>8 DEF TypeOK, SetupRaises, SetupFrame
  <2> QED
    BY <1>1, <2>1, <2>2, <2>3, <2>4, <2>5, <2>6, <2>7, <2>8 DEF SetupStep
<1>2. ASSUME NEW c \in Calls, AttachStep(c) PROVE IInv'
  <2>1. CASE AudioStasisStart(c)
    BY <2>1 DEF TypeOK, AudioStasisStart, pipeline, maps, asterisk
  <2>2. CASE AudioAttached(c)
    BY <2>2 DEF TypeOK, AudioAttached, pipeline, maps, asterisk
  <2> QED
    BY <1>2, <2>1, <2>2 DEF AttachStep
<1>3. ASSUME NEW c \in Calls, ConnStep(c) PROVE IInv'
  <2>1. CASE Handshake(c)
    BY <2>1 DEF TypeOK, Handshake, teardown, pipeline, asterisk
  <2>2. CASE ConnectionLost(c)
    BY <2>2 DEF TypeOK, ConnectionLost, pipeline, maps, asterisk
  <2>3. CASE AudioRaises(c)
    BY <2>3 DEF TypeOK, AudioRaises, pipeline, maps, asterisk
  <2>4. CASE Disconnected(c)
    <3>1. Ends(c) /\ UNCHANGED setup
      BY <2>4, ShutdownEnds DEF Disconnected, teardown, Ends, Reasons
    <3>2. EndedOnce' /\ RegistryExact' /\ \A d \in Calls : SparesLeft(d)'
      BY <3>1, EndsKeeps
    <3>3. BindExact' /\ \A d \in Calls : UuidWaits(d)' /\ UpWhenServed(d)'
      BY <2>4 DEF BindExact, UuidWaits, UpWhenServed, TypeOK, Disconnected, pipeline,
         asterisk, teardown
    <3>4. \A d \in Calls : NoTraceBefore(d)'
      BY <2>4, <3>1 DEF Ends, NoTraceBefore, RegistryExact, BindExact, UuidWaits,
         UpWhenServed, TypeOK, Disconnected, pipeline, asterisk, teardown
    <3> QED
      BY <3>2, <3>3, <3>4
  <2> QED
    BY <1>3, <2>1, <2>2, <2>3, <2>4 DEF ConnStep
<1>4. ASSUME NEW c \in Calls, StartStep(c) PROVE IInv'
  <2>1. CASE Start(c)
    BY <2>1 DEF TypeOK, Start, teardown, StartFrame, asterisk
  <2>2. CASE StartEcho(c)
    BY <2>2 DEF TypeOK, StartEcho, teardown, StartFrame, asterisk
  <2>3. CASE StartFails(c)
    <3>1. Ends(c) /\ UNCHANGED setup
      BY <2>3, ShutdownEnds DEF StartFails, StartFrame, teardown, Ends, Reasons
    <3>2. EndedOnce' /\ RegistryExact' /\ \A d \in Calls : SparesLeft(d)'
      BY <3>1, EndsKeeps
    <3>3. BindExact' /\ \A d \in Calls : UuidWaits(d)' /\ UpWhenServed(d)'
      BY <2>3 DEF BindExact, UuidWaits, UpWhenServed, TypeOK, StartFails, StartFrame,
         asterisk, teardown
    <3>4. \A d \in Calls : NoTraceBefore(d)'
      BY <2>3, <3>1 DEF Ends, NoTraceBefore, RegistryExact, BindExact, UuidWaits,
         UpWhenServed, TypeOK, StartFails, StartFrame, asterisk, teardown
    <3> QED
      BY <3>2, <3>3, <3>4
  <2> QED
    BY <1>4, <2>1, <2>2, <2>3 DEF StartStep
<1>5. ASSUME NEW c \in Calls, ShutdownStep(c) PROVE IInv'
  <2>1. CASE CancelReturns(c)
    BY <2>1 DEF TypeOK, CancelReturns, pipeline, asterisk, RemoveAndHangup, AfterAudio,
       Reach
  <2>2. CASE AudioHangupReturns(c)
    BY <2>2 DEF TypeOK, AudioHangupReturns, pipeline, maps, AfterAudio, Reach
  <2>3. CASE CallerHangupReturns(c)
    BY <2>3 DEF TypeOK, CallerHangupReturns, pipeline, maps, Reach, HangupCallerReply,
       CallerGone, Report
  <2> QED
    BY <1>5, <2>1, <2>2, <2>3 DEF ShutdownStep
<1>6. ASSUME NEW c \in Calls, EventStep(c) PROVE IInv'
  <2>1. CASE StasisEnd(c)
    <3>1. Ends(c) /\ UNCHANGED setup
      BY <2>1, ShutdownEnds DEF StasisEnd, EndEvent, teardown, Ends, Reasons
    <3>2. EndedOnce' /\ RegistryExact' /\ \A d \in Calls : SparesLeft(d)'
      BY <3>1, EndsKeeps
    <3>3. BindExact' /\ \A d \in Calls : UuidWaits(d)' /\ UpWhenServed(d)'
      BY <2>1 DEF BindExact, UuidWaits, UpWhenServed, TypeOK, StasisEnd, EndEvent,
         pipeline, teardown
    <3>4. \A d \in Calls : NoTraceBefore(d)'
      BY <2>1, <3>1 DEF Ends, NoTraceBefore, RegistryExact, BindExact, UuidWaits,
         UpWhenServed, TypeOK, StasisEnd, EndEvent, pipeline, teardown
    <3> QED
      BY <3>2, <3>3, <3>4
  <2>2. CASE ChannelDestroyed(c)
    <3>1. Ends(c) /\ UNCHANGED setup
      BY <2>2, ShutdownEnds DEF ChannelDestroyed, EndEvent, teardown, Ends, Reasons
    <3>2. EndedOnce' /\ RegistryExact' /\ \A d \in Calls : SparesLeft(d)'
      BY <3>1, EndsKeeps
    <3>3. BindExact' /\ \A d \in Calls : UuidWaits(d)' /\ UpWhenServed(d)'
      BY <2>2 DEF BindExact, UuidWaits, UpWhenServed, TypeOK, ChannelDestroyed,
         EndEvent, pipeline, teardown
    <3>4. \A d \in Calls : NoTraceBefore(d)'
      BY <2>2, <3>1 DEF Ends, NoTraceBefore, RegistryExact, BindExact, UuidWaits,
         UpWhenServed, TypeOK, ChannelDestroyed, EndEvent, pipeline, teardown
    <3> QED
      BY <3>2, <3>3, <3>4
  <2> QED
    BY <1>6, <2>1, <2>2 DEF EventStep
<1>7. ASSUME NEW c \in Calls, EnvStep(c) PROVE IInv'
  <2>1. CASE StasisStart(c)
    BY <2>1 DEF TypeOK, StasisStart, SetupFrame
  <2>2. CASE CallerHangsUp(c)
    BY <2>2 DEF TypeOK, CallerHangsUp, pipeline, maps, CallerGone, Report
  <2>3. CASE AsteriskOriginates(c)
    BY <2>3 DEF TypeOK, AsteriskOriginates, pipeline, maps
  <2>4. CASE AudioChannelEnds(c)
    BY <2>4 DEF TypeOK, AudioChannelEnds, pipeline, maps
  <2> QED
    BY <1>7, <2>1, <2>2, <2>3, <2>4 DEF EnvStep
<1>8. ASSUME NEW c \in Calls, PipelineEnds(c) PROVE IInv'
  <2>1. Ends(c) /\ UNCHANGED setup
    BY <1>8, ShutdownEnds DEF PipelineEnds, StartFrame, teardown, Ends, Reasons
  <2>2. EndedOnce' /\ RegistryExact' /\ \A d \in Calls : SparesLeft(d)'
    BY <2>1, EndsKeeps
  <2>3. BindExact' /\ \A d \in Calls : UuidWaits(d)' /\ UpWhenServed(d)'
    BY <1>8 DEF BindExact, UuidWaits, UpWhenServed, TypeOK, PipelineEnds, StartFrame,
       asterisk, teardown
  <2>4. \A d \in Calls : NoTraceBefore(d)'
    BY <1>8, <2>1 DEF Ends, NoTraceBefore, RegistryExact, BindExact, UuidWaits,
       UpWhenServed, TypeOK, PipelineEnds, StartFrame, asterisk, teardown
  <2> QED
    BY <2>2, <2>3, <2>4
<1>9. ASSUME NEW c \in Calls, TransferCall(c) PROVE IInv'
  BY <1>9 DEF TypeOK, TransferCall, maps, Report
<1>10. ASSUME NEW c \in Calls, ForcedShutdown(c) PROVE IInv'
  <2>1. Ends(c) /\ UNCHANGED setup
    BY <1>10, ShutdownEnds DEF ForcedShutdown, teardown, Ends, Reasons
  <2>2. EndedOnce' /\ RegistryExact' /\ \A d \in Calls : SparesLeft(d)'
    BY <2>1, EndsKeeps
  <2>3. BindExact' /\ \A d \in Calls : UuidWaits(d)' /\ UpWhenServed(d)'
    BY <1>10 DEF BindExact, UuidWaits, UpWhenServed, TypeOK, ForcedShutdown, pipeline,
       asterisk, teardown
  <2>4. \A d \in Calls : NoTraceBefore(d)'
    BY <1>10, <2>1 DEF Ends, NoTraceBefore, RegistryExact, BindExact, UuidWaits,
       UpWhenServed, TypeOK, ForcedShutdown, pipeline, asterisk, teardown
  <2> QED
    BY <2>2, <2>3, <2>4
<1>11. CASE UNCHANGED vars
  BY <1>11 DEF vars
<1> QED
  BY <1>1, <1>2, <1>3, <1>4, <1>5, <1>6, <1>7, <1>8, <1>9, <1>10, <1>11 DEF Next, CallStep

\* A system without calls satisfies it.
LEMMA InvInit == Init => IInv
  BY DEF Init, IInv, TypeOK, EndedOnce, RegistryExact, BindExact, NoTraceBefore,
     UuidWaits, UpWhenServed, SparesLeft, CallerStates, SetupStages, AttachStages,
     ConnStages, TaskStages, ShutStages, Reasons, NoReason

\* The inductive invariant holds in every reachable state.
THEOREM Invariant == Spec => []IInv
  BY InvInit, InvStep, PTL DEF Spec

\* Every variable keeps its type: no stage or reason the code does not know is reached.
THEOREM TypeCorrect == Spec => []TypeOK
  BY Invariant, PTL DEF IInv

\* vmo.call.ended is emitted once by a completed shutdown(), whatever called it.
THEOREM EndedExactlyOnce == Spec => []EndedOnce
  BY Invariant, PTL DEF IInv

\* The router and the registry agree, and hold a call from its registration until its
\* teardown removes it.
THEOREM RegistryAlwaysExact == Spec => []RegistryExact
  BY Invariant, PTL DEF IInv

\* A UUID is pending or bound, never both, and audio is read for routed calls only.
THEOREM BindAlwaysExact == Spec => []BindExact
  BY Invariant, PTL DEF IInv

\* A connection that Asterisk dials for an originate always finds its UUID pending.
THEOREM NeverRejectedAlways == Spec => NeverRejected
<1> DEFINE Step == \A c \in Calls : conn[c] = "dialing" /\ conn'[c] = "closing" => aud[c] = "gone"
<1>1. IInv /\ [Next]_vars => [Step]_vars
  <2> SUFFICES ASSUME IInv, [Next]_vars PROVE [Step]_vars
    OBVIOUS
  <2> USE DEF IInv, TypeOK, UuidWaits
  <2>1. ASSUME NEW d \in Calls, SetupStep(d) PROVE Step
    BY <2>1 DEF SetupStep, VarsRead, SetupFrame, Answered, BridgeCreated, Register,
       OriginateSucceeds, OriginateFails, SetupHangupReturns, HangupCallerReply,
       CallerGone, Report, SetupRaises
  <2>2. ASSUME NEW d \in Calls, AttachStep(d) PROVE Step
    BY <2>2 DEF AttachStep, AudioStasisStart, pipeline, maps, asterisk, AudioAttached
  <2>3. ASSUME NEW d \in Calls, ConnStep(d) PROVE Step
    BY <2>3 DEF ConnStep, Handshake, teardown, pipeline, asterisk, ConnectionLost, maps,
       AudioRaises, Disconnected, Shutdown, RemoveAndHangup, AfterAudio, Reach
  <2>4. ASSUME NEW d \in Calls, StartStep(d) PROVE Step
    BY <2>4 DEF StartStep, Start, teardown, StartFrame, asterisk, StartEcho, StartFails,
       Shutdown, RemoveAndHangup, AfterAudio, Reach
  <2>5. ASSUME NEW d \in Calls, ShutdownStep(d) PROVE Step
    BY <2>5 DEF ShutdownStep, CancelReturns, pipeline, asterisk, RemoveAndHangup,
       AfterAudio, Reach, AudioHangupReturns, maps, CallerHangupReturns,
       HangupCallerReply, CallerGone, Report
  <2>6. ASSUME NEW d \in Calls, EventStep(d) PROVE Step
    BY <2>6 DEF EventStep, StasisEnd, EndEvent, pipeline, teardown, Shutdown,
       RemoveAndHangup, AfterAudio, Reach, ChannelDestroyed
  <2>7. ASSUME NEW d \in Calls, EnvStep(d) PROVE Step
    BY <2>7 DEF EnvStep, StasisStart, SetupFrame, CallerHangsUp, pipeline, maps,
       CallerGone, Report, AsteriskOriginates, AudioChannelEnds
  <2>8. ASSUME NEW d \in Calls, PipelineEnds(d) PROVE Step
    BY <2>8 DEF PipelineEnds, StartFrame, asterisk, Shutdown, RemoveAndHangup,
       AfterAudio, Reach, teardown
  <2>9. ASSUME NEW d \in Calls, TransferCall(d) PROVE Step
    BY <2>9 DEF TransferCall, maps, Report
  <2>10. ASSUME NEW d \in Calls, ForcedShutdown(d) PROVE Step
    BY <2>10 DEF ForcedShutdown, pipeline, asterisk, Shutdown, RemoveAndHangup,
       AfterAudio, Reach, teardown
  <2> QED
    BY <2>1, <2>2, <2>3, <2>4, <2>5, <2>6, <2>7, <2>8, <2>9, <2>10 DEF Next, CallStep
<1> QED
  BY <1>1, Invariant, PTL DEF Spec, NeverRejected

\* A call enters the registry, and its UUID the pending ones, at its registration only.
THEOREM NeverBackAlways == Spec => NeverBack
<1> DEFINE Step == /\ \A c \in registry' \ registry : setup[c] = "add"
                   /\ \A c \in pending' \ pending : conn[c] = "none"
<1>1. IInv /\ [Next]_vars => [Step]_vars
  <2> SUFFICES ASSUME IInv, [Next]_vars PROVE [Step]_vars
    OBVIOUS
  <2> USE DEF IInv, TypeOK, NoTraceBefore, UuidWaits
  <2>1. ASSUME NEW d \in Calls, SetupStep(d) PROVE Step
    BY <2>1 DEF SetupStep, VarsRead, SetupFrame, Answered, BridgeCreated, Register,
       OriginateSucceeds, OriginateFails, SetupHangupReturns, HangupCallerReply,
       CallerGone, Report, SetupRaises
  <2>2. ASSUME NEW d \in Calls, AttachStep(d) PROVE Step
    BY <2>2 DEF AttachStep, AudioStasisStart, pipeline, maps, asterisk, AudioAttached
  <2>3. ASSUME NEW d \in Calls, ConnStep(d) PROVE Step
    BY <2>3 DEF ConnStep, Handshake, teardown, pipeline, asterisk, ConnectionLost, maps,
       AudioRaises, Disconnected, Shutdown, RemoveAndHangup, AfterAudio, Reach
  <2>4. ASSUME NEW d \in Calls, StartStep(d) PROVE Step
    BY <2>4 DEF StartStep, Start, teardown, StartFrame, asterisk, StartEcho, StartFails,
       Shutdown, RemoveAndHangup, AfterAudio, Reach
  <2>5. ASSUME NEW d \in Calls, ShutdownStep(d) PROVE Step
    BY <2>5 DEF ShutdownStep, CancelReturns, pipeline, asterisk, RemoveAndHangup,
       AfterAudio, Reach, AudioHangupReturns, maps, CallerHangupReturns,
       HangupCallerReply, CallerGone, Report
  <2>6. ASSUME NEW d \in Calls, EventStep(d) PROVE Step
    BY <2>6 DEF EventStep, StasisEnd, EndEvent, pipeline, teardown, Shutdown,
       RemoveAndHangup, AfterAudio, Reach, ChannelDestroyed
  <2>7. ASSUME NEW d \in Calls, EnvStep(d) PROVE Step
    BY <2>7 DEF EnvStep, StasisStart, SetupFrame, CallerHangsUp, pipeline, maps,
       CallerGone, Report, AsteriskOriginates, AudioChannelEnds
  <2>8. ASSUME NEW d \in Calls, PipelineEnds(d) PROVE Step
    BY <2>8 DEF PipelineEnds, StartFrame, asterisk, Shutdown, RemoveAndHangup,
       AfterAudio, Reach, teardown
  <2>9. ASSUME NEW d \in Calls, TransferCall(d) PROVE Step
    BY <2>9 DEF TransferCall, maps, Report
  <2>10. ASSUME NEW d \in Calls, ForcedShutdown(d) PROVE Step
    BY <2>10 DEF ForcedShutdown, pipeline, asterisk, Shutdown, RemoveAndHangup,
       AfterAudio, Reach, teardown
  <2> QED
    BY <2>1, <2>2, <2>3, <2>4, <2>5, <2>6, <2>7, <2>8, <2>9, <2>10 DEF Next, CallStep
<1> QED
  BY <1>1, Invariant, PTL DEF Spec, NeverBack

\* No teardown that began because the caller left hangs up the caller.
THEOREM TransferredCallerAlwaysKept == Spec => TransferredCallerKept
<1> DEFINE Step == \A c \in Calls :
                        /\ caller[c] = "left" /\ caller'[c] = "gone"
                        /\ <<setup, shut>>' # <<setup, shut>>
                        => reason[c] # "stasis_end"
<1>1. IInv /\ [Next]_vars => [Step]_vars
  <2> SUFFICES ASSUME IInv, [Next]_vars PROVE [Step]_vars
    OBVIOUS
  <2> USE DEF IInv, TypeOK, UpWhenServed, SparesLeft
  <2>1. ASSUME NEW d \in Calls, SetupStep(d) PROVE Step
    BY <2>1 DEF SetupStep, VarsRead, SetupFrame, Answered, BridgeCreated, Register,
       OriginateSucceeds, OriginateFails, SetupHangupReturns, HangupCallerReply,
       CallerGone, Report, SetupRaises
  <2>2. ASSUME NEW d \in Calls, AttachStep(d) PROVE Step
    BY <2>2 DEF AttachStep, AudioStasisStart, pipeline, maps, asterisk, AudioAttached
  <2>3. ASSUME NEW d \in Calls, ConnStep(d) PROVE Step
    BY <2>3 DEF ConnStep, Handshake, teardown, pipeline, asterisk, ConnectionLost, maps,
       AudioRaises, Disconnected, Shutdown, RemoveAndHangup, AfterAudio, Reach
  <2>4. ASSUME NEW d \in Calls, StartStep(d) PROVE Step
    BY <2>4 DEF StartStep, Start, teardown, StartFrame, asterisk, StartEcho, StartFails,
       Shutdown, RemoveAndHangup, AfterAudio, Reach
  <2>5. ASSUME NEW d \in Calls, ShutdownStep(d) PROVE Step
    BY <2>5 DEF ShutdownStep, CancelReturns, pipeline, asterisk, RemoveAndHangup,
       AfterAudio, Reach, AudioHangupReturns, maps, CallerHangupReturns,
       HangupCallerReply, CallerGone, Report
  <2>6. ASSUME NEW d \in Calls, EventStep(d) PROVE Step
    BY <2>6 DEF EventStep, StasisEnd, EndEvent, pipeline, teardown, Shutdown,
       RemoveAndHangup, AfterAudio, Reach, ChannelDestroyed
  <2>7. ASSUME NEW d \in Calls, EnvStep(d) PROVE Step
    BY <2>7 DEF EnvStep, StasisStart, SetupFrame, CallerHangsUp, pipeline, maps,
       CallerGone, Report, AsteriskOriginates, AudioChannelEnds
  <2>8. ASSUME NEW d \in Calls, PipelineEnds(d) PROVE Step
    BY <2>8 DEF PipelineEnds, StartFrame, asterisk, Shutdown, RemoveAndHangup,
       AfterAudio, Reach, teardown
  <2>9. ASSUME NEW d \in Calls, TransferCall(d) PROVE Step
    BY <2>9 DEF TransferCall, maps, Report
  <2>10. ASSUME NEW d \in Calls, ForcedShutdown(d) PROVE Step
    BY <2>10 DEF ForcedShutdown, pipeline, asterisk, Shutdown, RemoveAndHangup,
       AfterAudio, Reach, teardown
  <2> QED
    BY <2>1, <2>2, <2>3, <2>4, <2>5, <2>6, <2>7, <2>8, <2>9, <2>10 DEF Next, CallStep
<1> QED
  BY <1>1, Invariant, PTL DEF Spec, TransferredCallerKept

\* A caller whose departure was reported, or for which a teardown spares the hangup,
\* is not in the application, and does not come back.
LeftForGood(c) ==
    /\ setup[c] = "idle" => caller[c] = "absent" /\ "StasisEnd" \notin events[c]
    /\ "StasisEnd" \in events[c] => caller[c] # "inApp"
    /\ shut[c] # "idle" /\ reason[c] = "stasis_end" => caller[c] # "inApp"

\* Every action keeps that.
LEMMA LeftStep ==
    IInv /\ (\A c \in Calls : LeftForGood(c)) /\ [Next]_vars => (\A c \in Calls : LeftForGood(c))'
<1> SUFFICES ASSUME IInv, \A c \in Calls : LeftForGood(c), [Next]_vars
             PROVE  \A c \in Calls : LeftForGood(c)'
  OBVIOUS
<1> USE DEF IInv, TypeOK, LeftForGood, NoTraceBefore, UpWhenServed
<1>1. ASSUME NEW d \in Calls, SetupStep(d) PROVE \A c \in Calls : LeftForGood(c)'
  BY <1>1 DEF SetupStep, VarsRead, SetupFrame, Answered, BridgeCreated, Register,
     OriginateSucceeds, OriginateFails, SetupHangupReturns, HangupCallerReply,
     CallerGone, Report, SetupRaises
<1>2. ASSUME NEW d \in Calls, AttachStep(d) PROVE \A c \in Calls : LeftForGood(c)'
  BY <1>2 DEF AttachStep, AudioStasisStart, pipeline, maps, asterisk, AudioAttached
<1>3. ASSUME NEW d \in Calls, ConnStep(d) PROVE \A c \in Calls : LeftForGood(c)'
  BY <1>3 DEF ConnStep, Handshake, teardown, pipeline, asterisk, ConnectionLost, maps,
     AudioRaises, Disconnected, Shutdown, RemoveAndHangup, AfterAudio, Reach
<1>4. ASSUME NEW d \in Calls, StartStep(d) PROVE \A c \in Calls : LeftForGood(c)'
  BY <1>4 DEF StartStep, Start, teardown, StartFrame, asterisk, StartEcho, StartFails,
     Shutdown, RemoveAndHangup, AfterAudio, Reach
<1>5. ASSUME NEW d \in Calls, ShutdownStep(d) PROVE \A c \in Calls : LeftForGood(c)'
  BY <1>5 DEF ShutdownStep, CancelReturns, pipeline, asterisk, RemoveAndHangup,
     AfterAudio, Reach, AudioHangupReturns, maps, CallerHangupReturns,
     HangupCallerReply, CallerGone, Report
<1>6. ASSUME NEW d \in Calls, EventStep(d) PROVE \A c \in Calls : LeftForGood(c)'
  BY <1>6 DEF EventStep, StasisEnd, EndEvent, pipeline, teardown, Shutdown,
     RemoveAndHangup, AfterAudio, Reach, ChannelDestroyed
<1>7. ASSUME NEW d \in Calls, EnvStep(d) PROVE \A c \in Calls : LeftForGood(c)'
  BY <1>7 DEF EnvStep, StasisStart, SetupFrame, CallerHangsUp, pipeline, maps,
     CallerGone, Report, AsteriskOriginates, AudioChannelEnds
<1>8. ASSUME NEW d \in Calls, PipelineEnds(d) PROVE \A c \in Calls : LeftForGood(c)'
  BY <1>8 DEF PipelineEnds, StartFrame, asterisk, Shutdown, RemoveAndHangup,
     AfterAudio, Reach, teardown
<1>9. ASSUME NEW d \in Calls, TransferCall(d) PROVE \A c \in Calls : LeftForGood(c)'
  BY <1>9 DEF TransferCall, maps, Report
<1>10. ASSUME NEW d \in Calls, ForcedShutdown(d) PROVE \A c \in Calls : LeftForGood(c)'
  BY <1>10 DEF ForcedShutdown, pipeline, asterisk, Shutdown, RemoveAndHangup,
     AfterAudio, Reach, teardown
<1>0. CASE UNCHANGED vars
  BY <1>0 DEF vars
<1> QED
  BY <1>0, <1>1, <1>2, <1>3, <1>4, <1>5, <1>6, <1>7, <1>8, <1>9, <1>10 DEF Next, CallStep

\* A teardown that ends with its caller in the application has asked ARI in vain.
THEOREM NoCallerStranded == Spec => NoStrandedCaller
<1> DEFINE Step == \A c \in Calls :
                        ended'[c] > ended[c] /\ caller'[c] = "inApp" =>
                            Faults /\ shut[c] = "hangCaller"
           Left == \A c \in Calls : LeftForGood(c)
<1>1. Init => Left
  BY DEF Init, LeftForGood
<1>2. IInv /\ Left /\ [Next]_vars => Left'
  BY LeftStep
<1>3. IInv /\ Left /\ [Next]_vars => [Step]_vars
  <2> SUFFICES ASSUME IInv, Left, [Next]_vars PROVE [Step]_vars
    OBVIOUS
  <2> USE DEF IInv, TypeOK, LeftForGood, Reasons, NoReason
  <2>1. ASSUME NEW d \in Calls, SetupStep(d) PROVE Step
    BY <2>1 DEF SetupStep, VarsRead, SetupFrame, Answered, BridgeCreated, Register,
       OriginateSucceeds, OriginateFails, SetupHangupReturns, HangupCallerReply,
       CallerGone, Report, SetupRaises
  <2>2. ASSUME NEW d \in Calls, AttachStep(d) PROVE Step
    BY <2>2 DEF AttachStep, AudioStasisStart, pipeline, maps, asterisk, AudioAttached
  <2>3. ASSUME NEW d \in Calls, ConnStep(d) PROVE Step
    BY <2>3 DEF ConnStep, Handshake, teardown, pipeline, asterisk, ConnectionLost, maps,
       AudioRaises, Disconnected, Shutdown, RemoveAndHangup, AfterAudio, Reach
  <2>4. ASSUME NEW d \in Calls, StartStep(d) PROVE Step
    BY <2>4 DEF StartStep, Start, teardown, StartFrame, asterisk, StartEcho, StartFails,
       Shutdown, RemoveAndHangup, AfterAudio, Reach
  <2>5. ASSUME NEW d \in Calls, ShutdownStep(d) PROVE Step
    BY <2>5 DEF ShutdownStep, CancelReturns, pipeline, asterisk, RemoveAndHangup,
       AfterAudio, Reach, AudioHangupReturns, maps, CallerHangupReturns,
       HangupCallerReply, CallerGone, Report
  <2>6. ASSUME NEW d \in Calls, EventStep(d) PROVE Step
    BY <2>6 DEF EventStep, StasisEnd, EndEvent, pipeline, teardown, Shutdown,
       RemoveAndHangup, AfterAudio, Reach, ChannelDestroyed
  <2>7. ASSUME NEW d \in Calls, EnvStep(d) PROVE Step
    BY <2>7 DEF EnvStep, StasisStart, SetupFrame, CallerHangsUp, pipeline, maps,
       CallerGone, Report, AsteriskOriginates, AudioChannelEnds
  <2>8. ASSUME NEW d \in Calls, PipelineEnds(d) PROVE Step
    BY <2>8 DEF PipelineEnds, StartFrame, asterisk, Shutdown, RemoveAndHangup,
       AfterAudio, Reach, teardown
  <2>9. ASSUME NEW d \in Calls, TransferCall(d) PROVE Step
    BY <2>9 DEF TransferCall, maps, Report
  <2>10. ASSUME NEW d \in Calls, ForcedShutdown(d) PROVE Step
    BY <2>10 DEF ForcedShutdown, pipeline, asterisk, Shutdown, RemoveAndHangup,
       AfterAudio, Reach, teardown
  <2> QED
    BY <2>1, <2>2, <2>3, <2>4, <2>5, <2>6, <2>7, <2>8, <2>9, <2>10 DEF Next, CallStep
<1> QED
  BY <1>1, <1>2, <1>3, Invariant, PTL DEF Spec, NoStrandedCaller

\* The phases of the other calls do not move.
OthersKeep(c) == \A d \in Calls \ {c} : PhaseOf(d)' = PhaseOf(d)

\* A step of one call that the contract sees as a move, or not at all.
LEMMA PhaseMoves ==
    ASSUME NEW c \in Calls, OthersKeep(c), NEW from, NEW to, PhaseOf(c) \in from, PhaseOf(c)' = to
    PROVE  Contract!Move(c, from, to)
<1>1. Phase' = [Phase EXCEPT ![c] = to]
  BY DEF OthersKeep, Phase
<1> QED
  BY <1>1 DEF Contract!Move, Phase

\* A step of one call that leaves its phase alone.
LEMMA PhaseStays ==
    ASSUME NEW c \in Calls, OthersKeep(c), PhaseOf(c)' = PhaseOf(c)
    PROVE  UNCHANGED Phase
  BY DEF OthersKeep, Phase

\* What a step of call c may look like to the contract.
Allowed(c, p, q, left) ==
    \/ p = q /\ registry' = registry
    \/ p = "idle" /\ q = "setup" /\ registry' = registry
    \/ p = "setup" /\ q = "refused" /\ registry' = registry
    \/ p = "setup" /\ q = "active" /\ registry' = registry \cup {c}
    \/ p = "active" /\ q = "dropped" /\ registry' = left
    \/ p \in {"active", "dropped"} /\ q = "closing" /\ registry' \in {registry, left}
    \/ p = "closing" /\ q = "closing" /\ registry' = left
    \/ p \in {"active", "dropped", "closing"} /\ q = "ended" /\ registry' = left

\* Every step of a call is one of these, and it moves no other call.
Seen(c) == OthersKeep(c) /\ Allowed(c, PhaseOf(c), PhaseOf(c)', registry \ {c})

\* The move of the contract that is seen of call c, if any.
CallMove(c) ==
    \/ Contract!Arrive(c) \/ Contract!Refuse(c) \/ Contract!Register(c) \/ Contract!Drop(c)
    \/ Contract!Close(c) \/ Contract!Release(c) \/ Contract!End(c)

\* The contract allows what is seen.
LEMMA SeenAllowed ==
    ASSUME NEW c \in Calls, Seen(c)
    PROVE  CallMove(c) \/ UNCHANGED Contract!vars
<1> DEFINE p == PhaseOf(c)
           q == PhaseOf(c)'
<1> USE DEF CallMove
<1>1. CASE p = q /\ registry' = registry
  BY <1>1, PhaseStays DEF Seen, Contract!vars
<1>2. CASE p = "idle" /\ q = "setup" /\ registry' = registry
  BY <1>2, PhaseMoves DEF Seen, Contract!Arrive
<1>3. CASE p = "setup" /\ q = "refused" /\ registry' = registry
  BY <1>3, PhaseMoves DEF Seen, Contract!Refuse
<1>4. CASE p = "setup" /\ q = "active" /\ registry' = registry \cup {c}
  BY <1>4, PhaseMoves DEF Seen, Contract!Register
<1>5. CASE p = "active" /\ q = "dropped" /\ registry' = registry \ {c}
  BY <1>5, PhaseMoves DEF Seen, Contract!Drop
<1>6. CASE p \in {"active", "dropped"} /\ q = "closing" /\ registry' \in {registry, registry \ {c}}
  BY <1>6, PhaseMoves DEF Seen, Contract!Close
<1>7. CASE p = "closing" /\ q = "closing" /\ registry' = registry \ {c}
  BY <1>7, PhaseStays DEF Seen, Contract!Release, Phase
<1>8. CASE p \in {"active", "dropped", "closing"} /\ q = "ended" /\ registry' = registry \ {c}
  BY <1>8, PhaseMoves DEF Seen, Contract!End
<1> QED
  BY <1>1, <1>2, <1>3, <1>4, <1>5, <1>6, <1>7, <1>8 DEF Seen, Allowed

\* Under the inductive invariant, whatever happens to a call is seen so.
LEMMA StepSeen ==
    ASSUME IInv, NEW c \in Calls, CallStep(c) \/ ForcedShutdown(c)
    PROVE  Seen(c)
<1> USE DEF Seen, OthersKeep, Allowed, PhaseOf, IInv, TypeOK, RegistryExact, BindExact,
   NoTraceBefore, UuidWaits, UpWhenServed, SetupStages, ShutStages
<1>1. CASE SetupStep(c)
  <2>1. CASE VarsRead(c)
    BY <2>1 DEF VarsRead, SetupFrame
  <2>2. CASE Answered(c)
    BY <2>2 DEF Answered, SetupFrame
  <2>3. CASE BridgeCreated(c)
    BY <2>3 DEF BridgeCreated, SetupFrame
  <2>4. CASE Register(c)
    BY <2>4 DEF Register, SetupFrame
  <2>5. CASE OriginateSucceeds(c)
    BY <2>5 DEF OriginateSucceeds, SetupFrame
  <2>6. CASE OriginateFails(c)
    BY <2>6 DEF OriginateFails, SetupFrame
  <2>7. CASE SetupHangupReturns(c)
    BY <2>7 DEF SetupHangupReturns, SetupFrame, HangupCallerReply, CallerGone, Report
  <2>8. CASE SetupRaises(c)
    BY <2>8 DEF SetupRaises, SetupFrame
  <2> QED
    BY <1>1, <2>1, <2>2, <2>3, <2>4, <2>5, <2>6, <2>7, <2>8 DEF SetupStep
<1>2. CASE AttachStep(c)
  <2>1. CASE AudioStasisStart(c)
    BY <2>1 DEF AudioStasisStart, pipeline, maps, asterisk
  <2>2. CASE AudioAttached(c)
    BY <2>2 DEF AudioAttached, pipeline, maps, asterisk
  <2> QED
    BY <1>2, <2>1, <2>2 DEF AttachStep
<1>3. CASE ConnStep(c)
  <2>1. CASE Handshake(c)
    BY <2>1 DEF Handshake, teardown, pipeline, asterisk
  <2>2. CASE ConnectionLost(c)
    BY <2>2 DEF ConnectionLost, pipeline, maps, asterisk
  <2>3. CASE AudioRaises(c)
    BY <2>3 DEF AudioRaises, pipeline, maps, asterisk
  <2>4. CASE Disconnected(c)
    BY <2>4 DEF Disconnected, pipeline, asterisk, teardown, Shutdown, RemoveAndHangup,
       AfterAudio, Reach
  <2> QED
    BY <1>3, <2>1, <2>2, <2>3, <2>4 DEF ConnStep
<1>4. CASE StartStep(c)
  <2>1. CASE Start(c)
    BY <2>1 DEF Start, teardown, StartFrame, asterisk
  <2>2. CASE StartEcho(c)
    BY <2>2 DEF StartEcho, teardown, StartFrame, asterisk
  <2>3. CASE StartFails(c)
    BY <2>3 DEF StartFails, StartFrame, asterisk, Shutdown, RemoveAndHangup, AfterAudio,
       Reach, teardown
  <2> QED
    BY <1>4, <2>1, <2>2, <2>3 DEF StartStep
<1>5. CASE ShutdownStep(c)
  <2>1. CASE CancelReturns(c)
    BY <2>1 DEF CancelReturns, pipeline, asterisk, RemoveAndHangup, AfterAudio, Reach
  <2>2. CASE AudioHangupReturns(c)
    BY <2>2 DEF AudioHangupReturns, pipeline, maps, AfterAudio, Reach
  <2>3. CASE CallerHangupReturns(c)
    BY <2>3 DEF CallerHangupReturns, pipeline, maps, Reach, HangupCallerReply,
       CallerGone, Report
  <2> QED
    BY <1>5, <2>1, <2>2, <2>3 DEF ShutdownStep
<1>6. CASE EventStep(c)
  <2>1. CASE StasisEnd(c)
    BY <2>1 DEF StasisEnd, EndEvent, pipeline, teardown, Shutdown, RemoveAndHangup,
       AfterAudio, Reach
  <2>2. CASE ChannelDestroyed(c)
    BY <2>2 DEF ChannelDestroyed, EndEvent, pipeline, teardown, Shutdown,
       RemoveAndHangup, AfterAudio, Reach
  <2> QED
    BY <1>6, <2>1, <2>2 DEF EventStep
<1>7. CASE EnvStep(c)
  <2>1. CASE StasisStart(c)
    BY <2>1 DEF StasisStart, SetupFrame
  <2>2. CASE CallerHangsUp(c)
    BY <2>2 DEF CallerHangsUp, pipeline, maps, CallerGone, Report
  <2>3. CASE AsteriskOriginates(c)
    BY <2>3 DEF AsteriskOriginates, pipeline, maps
  <2>4. CASE AudioChannelEnds(c)
    BY <2>4 DEF AudioChannelEnds, pipeline, maps
  <2> QED
    BY <1>7, <2>1, <2>2, <2>3, <2>4 DEF EnvStep
<1>8. CASE PipelineEnds(c)
  BY <1>8 DEF PipelineEnds, StartFrame, asterisk, Shutdown, RemoveAndHangup, AfterAudio,
     Reach, teardown
<1>9. CASE TransferCall(c)
  BY <1>9 DEF TransferCall, maps, Report
<1>10. CASE ForcedShutdown(c)
  BY <1>10 DEF ForcedShutdown, pipeline, asterisk, Shutdown, RemoveAndHangup,
     AfterAudio, Reach, teardown
<1> HIDE DEF Seen
<1> QED
  BY <1>1, <1>2, <1>3, <1>4, <1>5, <1>6, <1>7, <1>8, <1>9, <1>10 DEF CallStep

\* Under the inductive invariant, every step is one the contract allows.
LEMMA ContractStep ==
    IInv /\ [Next]_vars => [Contract!Next]_(Contract!vars)
<1> SUFFICES ASSUME IInv, [Next]_vars PROVE [Contract!Next]_(Contract!vars)
  OBVIOUS
<1>1. CASE UNCHANGED vars
  BY <1>1 DEF vars, Phase, PhaseOf, Contract!vars
<1>2. CASE Next
  <2>1. PICK c \in Calls : CallStep(c) \/ ForcedShutdown(c)
    BY <1>2 DEF Next
  <2>2. CallMove(c) \/ UNCHANGED Contract!vars
    BY <2>1, StepSeen, SeenAllowed
  <2> QED
    BY <2>2 DEF CallMove, Contract!Next
<1> QED
  BY <1>1, <1>2

\* Both halves of a UUID's life: its connection is accepted, and nothing revives it.
THEOREM UuidAlwaysServesOnce == Spec => UuidServesOnce
  BY NeverRejectedAlways, NeverBackAlways, PTL DEF UuidServesOnce

\* Both halves of a caller's release: a transferred one is kept, no other is stranded.
THEOREM CallerAlwaysReleased == Spec => CallerReleased
  BY TransferredCallerAlwaysKept, NoCallerStranded, PTL DEF CallerReleased

\* The detailed module implements the abstract contract, whatever fails.
THEOREM ContractKept == Spec => KeepsContract
<1>1. Init => Contract!Init
  BY DEF Init, Contract!Init, Phase, PhaseOf
<1> QED
  BY <1>1, ContractStep, Invariant, PTL DEF Spec, KeepsContract, Contract!Spec

-----------------------------------------------------------------------------
(* What CallEnds rests on.                                                 *)

\* A connection that closed has begun the shutdown of its call (or found it begun), unless
\* it closed before its UUID was bound; one that is closing is on its way to that.
ClosedLineEndsCall ==
    \A c \in Calls :
        /\ conn[c] = "closing" => c \in byConn \cup pending
        /\ conn[c] = "closed" => shut[c] # "idle" \/ c \in pending

\* Only the handshake takes a UUID from the pending ones, only dispatch_disconnect takes
\* a controller from the bound ones, and that begins its shutdown.
LEMMA ClosedLineStep == IInv /\ ClosedLineEndsCall /\ [Next]_vars => ClosedLineEndsCall'
<1> SUFFICES ASSUME IInv, ClosedLineEndsCall, [Next]_vars PROVE ClosedLineEndsCall'
  OBVIOUS
<1> USE DEF ClosedLineEndsCall
<1>t. /\ shut \in [Calls -> ShutStages] /\ conn \in [Calls -> ConnStages]
      /\ \A c \in Calls : conn[c] = "dialing" => c \in pending
      /\ \A c \in Calls : conn[c] = "bound" => c \in byConn
  BY DEF IInv, TypeOK, UuidWaits, BindExact
<1>1. ASSUME NEW d \in Calls, SetupStep(d) PROVE ClosedLineEndsCall'
  BY <1>t, <1>1 DEF SetupStep, VarsRead, SetupFrame, Answered, BridgeCreated, Register,
     OriginateSucceeds, OriginateFails, SetupHangupReturns, HangupCallerReply,
     CallerGone, Report, SetupRaises
<1>2. ASSUME NEW d \in Calls, AttachStep(d) PROVE ClosedLineEndsCall'
  BY <1>t, <1>2 DEF AttachStep, AudioStasisStart, pipeline, maps, asterisk, AudioAttached
<1>3. ASSUME NEW d \in Calls, ConnStep(d) PROVE ClosedLineEndsCall'
  BY <1>t, <1>3 DEF ConnStep, Handshake, teardown, pipeline, asterisk, ConnectionLost, maps,
     AudioRaises, Disconnected, Shutdown, RemoveAndHangup, AfterAudio, Reach
<1>4. ASSUME NEW d \in Calls, StartStep(d) PROVE ClosedLineEndsCall'
  BY <1>t, <1>4 DEF StartStep, Start, teardown, StartFrame, asterisk, StartEcho, StartFails,
     Shutdown, RemoveAndHangup, AfterAudio, Reach
<1>5. ASSUME NEW d \in Calls, ShutdownStep(d) PROVE ClosedLineEndsCall'
  BY <1>t, <1>5 DEF ShutdownStep, CancelReturns, pipeline, asterisk, RemoveAndHangup,
     AfterAudio, Reach, AudioHangupReturns, maps, CallerHangupReturns,
     HangupCallerReply, CallerGone, Report
<1>6. ASSUME NEW d \in Calls, EventStep(d) PROVE ClosedLineEndsCall'
  BY <1>t, <1>6 DEF EventStep, StasisEnd, EndEvent, pipeline, teardown, Shutdown,
     RemoveAndHangup, AfterAudio, Reach, ChannelDestroyed
<1>7. ASSUME NEW d \in Calls, EnvStep(d) PROVE ClosedLineEndsCall'
  BY <1>t, <1>7 DEF EnvStep, StasisStart, SetupFrame, CallerHangsUp, pipeline, maps,
     CallerGone, Report, AsteriskOriginates, AudioChannelEnds
<1>8. ASSUME NEW d \in Calls, PipelineEnds(d) PROVE ClosedLineEndsCall'
  BY <1>t, <1>8 DEF PipelineEnds, StartFrame, asterisk, Shutdown, RemoveAndHangup,
     AfterAudio, Reach, teardown
<1>9. ASSUME NEW d \in Calls, TransferCall(d) PROVE ClosedLineEndsCall'
  BY <1>t, <1>9 DEF TransferCall, maps, Report
<1>10. ASSUME NEW d \in Calls, ForcedShutdown(d) PROVE ClosedLineEndsCall'
  BY <1>t, <1>10 DEF ForcedShutdown, pipeline, asterisk, Shutdown, RemoveAndHangup,
     AfterAudio, Reach, teardown
<1>11. CASE UNCHANGED vars
  BY <1>11 DEF vars, maps
<1> QED
  BY <1>1, <1>2, <1>3, <1>4, <1>5, <1>6, <1>7, <1>8, <1>9, <1>10, <1>11 DEF Next, CallStep

\* No line of a call closes without ending it: the safety part of DisconnectEndsCall.
THEOREM ClosedLineAlwaysEndsCall == Spec => []ClosedLineEndsCall
<1>1. Init => ClosedLineEndsCall
  BY DEF Init, ClosedLineEndsCall
<1> QED
  BY <1>1, ClosedLineStep, Invariant, PTL DEF Spec

=============================================================================
