------------------------- MODULE DrainedCallsProofs -------------------------
(***************************************************************************)
(* Calls in full detail live under the drain of RuntimeDrain, for any      *)
(* number of calls, with or without faults: each step is one of the drain, *)
(* or one that the contract of calls allows.  What RuntimeDrainProofs      *)
(* proves of calls at their contract is then proved of these.              *)
(***************************************************************************)
EXTENDS DrainedCalls, CallControlProofs

\* The theorems on the drain, about the phases of these calls.
DrainProofs == INSTANCE RuntimeDrainProofs WITH phase <- Phase, counted <- registry

\* The server's end of a connection is invisible to the contract, and leaves a call as
\* sound as any other end of it does.
LEMMA ServerStopsKeeps ==
    ASSUME IInv, NEW c \in Calls, ServerStops(c)
    PROVE  IInv' /\ UNCHANGED <<Phase, registry>>
<1> USE DEF ServerStops, IInv, TypeOK, asterisk, maps, pipeline
<1>1. TypeOK'
  BY DEF ConnStages
<1>2. EndedOnce' /\ RegistryExact'
  BY DEF EndedOnce, RegistryExact
<1>3. BindExact'
  BY DEF BindExact
<1>4. \A d \in Calls : NoTraceBefore(d)' /\ UuidWaits(d)' /\ UpWhenServed(d)' /\ SparesLeft(d)'
  BY DEF NoTraceBefore, UuidWaits, UpWhenServed, SparesLeft
<1>5. UNCHANGED <<Phase, registry>>
  BY DEF Phase, PhaseOf
<1> QED
  BY <1>1, <1>2, <1>3, <1>4, <1>5

\* The calls' own invariant survives the drain, its forced shutdowns and the server's end.
LEMMA CallsStep == IInv /\ todo \subseteq Calls /\ [DrainedNext]_drainedVars => IInv'
<1> SUFFICES ASSUME IInv, todo \subseteq Calls, [DrainedNext]_drainedVars PROVE IInv'
  OBVIOUS
<1>1. CASE UNCHANGED vars
  BY <1>1, InvStep
<1>2. CASE \E c \in Calls : CallStep(c) \/ ForcedShutdown(c)
  BY <1>2, InvStep DEF Next
<1>3. CASE \E c \in Calls : ServerStops(c)
  BY <1>3, ServerStopsKeeps
<1>4. CASE ForceOne
  <2>1. PICK c \in todo : ForcedShutdown(c) \/ UNCHANGED vars
    BY <1>4 DEF ForceOne
  <2> QED
    BY <2>1, <1>1, <1>2
<1> QED
  BY <1>1, <1>2, <1>3, <1>4 DEF DrainedNext, MainStep, LiveStep, drainedVars

\* What the contract sees of one call is what the drain sees of it.
LEMMA LiveSeen ==
    ASSUME IInv, NEW c \in Calls, CallStep(c), stage # "stopped",
           stage = "poolStopped" => setup[c] # "idle", UNCHANGED drainVars
    PROVE  Drain!CallStep \/ UNCHANGED Drain!allVars
<1>1. CallMove(c) \/ UNCHANGED Contract!vars
  BY StepSeen, SeenAllowed
<1>2. CASE UNCHANGED Contract!vars
  BY <1>2 DEF Contract!vars, Drain!allVars, drainVars
<1>3. CASE CallMove(c)
  <2>1. Contract!Arrive(c) => stage # "poolStopped"
    BY DEF Contract!Arrive, Contract!Move, Phase, PhaseOf
  <2>2. \/ Drain!Arrive(c) /\ stage # "poolStopped"
        \/ Drain!Refuse(c) \/ Drain!Register(c) \/ Drain!Drop(c) \/ Drain!Close(c)
        \/ Drain!Release(c) \/ Drain!End(c)
    BY <1>3, <2>1 DEF CallMove, Contract!Move, Contract!Arrive, Contract!Refuse,
       Contract!Register, Contract!Drop, Contract!Close, Contract!Release, Contract!End,
       Drain!Move, Drain!Arrive, Drain!Refuse, Drain!Register, Drain!Drop, Drain!Close,
       Drain!Release, Drain!End
  <2> QED
    BY <2>2 DEF Drain!CallStep, Drain!drainVars, drainVars
<1> QED
  BY <1>1, <1>2, <1>3

\* The shutdown that the drain forces is a teardown that begins.
LEMMA ForceSeen ==
    ASSUME IInv, todo \subseteq Calls, ForceOne
    PROVE  Drain!ForceOne
<1>1. PICK c \in todo :
          /\ todo' = todo \ {c}
          /\ \/ ForcedShutdown(c) /\ awaiting' = {c} /\ forced' = forced \cup {c}
             \/ shut[c] # "idle" /\ UNCHANGED <<vars, awaiting, forced>>
  BY DEF ForceOne
<1>2. CASE ForcedShutdown(c) /\ awaiting' = {c} /\ forced' = forced \cup {c}
  <2>1. Seen(c)
    BY <1>2, StepSeen
  <2>2. PhaseOf(c) \in {"active", "dropped"} /\ PhaseOf(c)' = "closing"
    BY <1>2 DEF ForcedShutdown, Shutdown, Reach, RemoveAndHangup, AfterAudio, PhaseOf, IInv,
       TypeOK, NoTraceBefore, UuidWaits, SetupStages, ShutStages
  <2>3. registry' \in {registry, registry \ {c}}
    BY <2>1, <2>2 DEF Seen, Allowed
  <2>4. Contract!Move(c, {"active", "dropped"}, "closing")
    BY <2>1, <2>2, PhaseMoves DEF Seen
  <2>5. Drain!Close(c)
    BY <2>3, <2>4 DEF Contract!Move, Drain!Close, Drain!Move
  <2> QED
    BY <1>1, <1>2, <2>5 DEF ForceOne, Drain!ForceOne
<1>3. CASE shut[c] # "idle" /\ UNCHANGED <<vars, awaiting, forced>>
  <2>1. Phase[c] \in {"closing", "ended"}
    BY <1>3 DEF Phase, PhaseOf, IInv, TypeOK, ShutStages
  <2>2. UNCHANGED Drain!vars
    BY <1>3 DEF vars, Drain!vars, Phase, PhaseOf
  <2> QED
    BY <1>1, <1>3, <2>1, <2>2 DEF ForceOne, Drain!ForceOne
<1> QED
  BY <1>1, <1>2, <1>3

\* Every step is a step of the drain, or invisible to it.
LEMMA DrainStepSeen ==
    IInv /\ todo \subseteq Calls /\ [DrainedNext]_drainedVars
        => [Drain!DrainNext]_(Drain!allVars)
<1> SUFFICES ASSUME IInv, todo \subseteq Calls, [DrainedNext]_drainedVars
             PROVE  [Drain!DrainNext]_(Drain!allVars)
  OBVIOUS
<1>1. CASE MainStep
  BY <1>1 DEF MainStep, Drain!DrainNext, Drain!DrainStep
<1>2. CASE ForceOne
  BY <1>2, ForceSeen DEF Drain!DrainNext, Drain!DrainStep
<1>3. CASE LiveStep
  <2>1. PICK c \in Calls : \/ CallStep(c) /\ (stage = "poolStopped" => setup[c] # "idle")
                           \/ ServerStops(c)
    BY <1>3 DEF LiveStep
  <2>2. CASE ServerStops(c)
    BY <1>3, <2>2, ServerStopsKeeps DEF LiveStep, drainVars, Drain!allVars
  <2> QED
    BY <1>3, <2>1, <2>2, LiveSeen DEF LiveStep, Drain!DrainNext
<1>4. CASE UNCHANGED drainedVars
  BY <1>4 DEF drainedVars, drainVars, vars, Drain!allVars, Phase, PhaseOf
<1> QED
  BY <1>1, <1>2, <1>3, <1>4 DEF DrainedNext

\* The initial states, too.
LEMMA DrainInitSeen == DrainedInit => IInv /\ Drain!DrainInit
<1> SUFFICES ASSUME DrainedInit PROVE IInv /\ Drain!DrainInit
  OBVIOUS
<1>1. IInv
  BY InvInit DEF DrainedInit
<1>2. Drain!Init
  BY DEF DrainedInit, Init, Drain!Init, Phase, PhaseOf
<1> QED
  BY <1>1, <1>2 DEF DrainedInit, Drain!DrainInit

\* The list of the drain holds calls.
LEMMA ListedCalls == DrainProofs!DrainInv => todo \subseteq Calls
  BY DEF DrainProofs!DrainInv, DrainProofs!DrainTypeOK

\* The two ways to name the drain's steps.
LEMMA SameDrain ==
    /\ Drain!DrainInit => DrainProofs!DrainInit
    /\ [Drain!DrainNext]_(Drain!allVars) => [DrainProofs!DrainNext]_(DrainProofs!allVars)
  BY DEF Drain!DrainInit, DrainProofs!DrainInit, Drain!Init, DrainProofs!Init,
     Drain!Signal, DrainProofs!Signal, Drain!BeginDrain, DrainProofs!BeginDrain,
     Drain!Deadline, DrainProofs!Deadline, Drain!Poll, DrainProofs!Poll, Drain!ForceOne,
     DrainProofs!ForceOne, Drain!Forced, DrainProofs!Forced, Drain!ForcingDone,
     DrainProofs!ForcingDone, Drain!StopPool, DrainProofs!StopPool, Drain!Stop,
     DrainProofs!Stop, Drain!CallStep, DrainProofs!CallStep, Drain!DrainStep,
     DrainProofs!DrainStep, Drain!DrainNext, DrainProofs!DrainNext, Drain!allVars,
     DrainProofs!allVars, Drain!vars, DrainProofs!vars, Drain!drainVars,
     DrainProofs!drainVars, Drain!Arrive, DrainProofs!Arrive, Drain!Refuse,
     DrainProofs!Refuse, Drain!Register, DrainProofs!Register, Drain!Drop,
     DrainProofs!Drop, Drain!Close, DrainProofs!Close, Drain!Release, DrainProofs!Release,
     Drain!End, DrainProofs!End, Drain!Move, DrainProofs!Move

\* Both invariants hold together: that of the calls, and that of the drain about them.
THEOREM DrainedInvariant == DrainedSpec => [](IInv /\ DrainProofs!DrainInv)
<1>1. DrainedInit => IInv /\ DrainProofs!DrainInv
  BY DrainInitSeen, SameDrain, DrainProofs!DrainInvInit
<1>2. /\ IInv /\ DrainProofs!DrainInv
      /\ [DrainedNext]_drainedVars
      => (IInv /\ DrainProofs!DrainInv)'
  BY CallsStep, DrainStepSeen, ListedCalls, SameDrain, DrainProofs!DrainInvStep
<1> QED
  BY <1>1, <1>2, PTL DEF DrainedSpec

\* What holds of calls by themselves holds of them while the drain forces some, the server
\* is stopped under others, and the process ends.
THEOREM CallsAlwaysSound ==
    DrainedSpec => [](TypeOK /\ EndedOnce /\ RegistryExact /\ BindExact)
<1>1. IInv => TypeOK /\ EndedOnce /\ RegistryExact /\ BindExact
  BY DEF IInv
<1> QED
  BY <1>1, DrainedInvariant, PTL

\* The drain beside detailed calls is the drain beside calls at their contract.
THEOREM DrainImplemented == DrainedSpec => ImplementsDrain
<1>1. DrainedInit => Drain!DrainInit
  BY DrainInitSeen
<1>2. IInv /\ DrainProofs!DrainInv /\ [DrainedNext]_drainedVars
        => [Drain!DrainNext]_(Drain!allVars)
  BY DrainStepSeen, ListedCalls
<1> QED
  BY <1>1, <1>2, DrainedInvariant, PTL DEF DrainedSpec, ImplementsDrain, Drain!DrainSafety

\* No call that was counted when the drain began is still served when the pool stops.
THEOREM CountedAlwaysTornDown == DrainedSpec => []CountedTornDown
<1>1. IInv /\ DrainProofs!DrainInv => CountedTornDown
  <2> SUFFICES ASSUME IInv, DrainProofs!DrainInv,
                      stage \in {"drained", "poolStopped", "stopped"},
                      NEW c \in counted0, shut[c] = "idle", c \in registry
               PROVE  FALSE
    BY DEF CountedTornDown
  <2>1. c \in Calls /\ Phase[c] # "active"
    BY DEF DrainProofs!DrainInv, DrainProofs!DrainTypeOK, DrainProofs!StillActive,
       DrainProofs!Drained
  <2>2. PhaseOf(c) = "active"
    BY <2>1 DEF PhaseOf, IInv, NoTraceBefore
  <2> QED
    BY <2>1, <2>2 DEF Phase
<1> QED
  BY <1>1, DrainedInvariant, PTL

\* Every call whose shutdown the drain forced has ended, and was reported, by then.
THEOREM ForcedAlwaysReported == DrainedSpec => []ForcedReported
<1>1. IInv /\ DrainProofs!DrainInv => ForcedReported
  <2> SUFFICES ASSUME IInv, DrainProofs!DrainInv,
                      stage \in {"drained", "poolStopped", "stopped"},
                      NEW c \in forced
               PROVE  ended[c] = 1 /\ c \notin registry \cup routed
    BY DEF ForcedReported
  <2>1. c \in Calls /\ awaiting = {}
    BY DEF DrainProofs!DrainInv, DrainProofs!DrainTypeOK, DrainProofs!Awaited
  <2>2. Phase[c] = "ended"
    BY <2>1 DEF DrainProofs!DrainInv, DrainProofs!Awaited
  <2>3. shut[c] = "ended"
    BY <2>1, <2>2 DEF Phase, PhaseOf
  <2> QED
    BY <2>1, <2>3 DEF IInv, EndedOnce, RegistryExact
<1> QED
  BY <1>1, DrainedInvariant, PTL

\* main() awaits the shutdown of one call at a time, and that shutdown runs or has ended.
WaitsForShutdown == \A c \in awaiting : awaiting = {c} /\ shut[c] # "idle"

\* The drain never waits for a shutdown that nobody began: the safety part of
\* DrainTerminates, of the calls in detail.
THEOREM DrainWaitsForShutdowns == DrainedSpec => []WaitsForShutdown
<1>1. IInv /\ DrainProofs!DrainInv => WaitsForShutdown
  <2> SUFFICES ASSUME DrainProofs!DrainInv, NEW c \in awaiting
               PROVE  awaiting = {c} /\ shut[c] # "idle"
    BY DEF WaitsForShutdown
  <2>1. c \in Calls /\ awaiting = {c} /\ Phase[c] \in {"closing", "ended"}
    BY DEF DrainProofs!DrainInv, DrainProofs!DrainTypeOK, DrainProofs!Awaited
  <2> QED
    BY <2>1 DEF Phase, PhaseOf
<1> QED
  BY <1>1, DrainedInvariant, PTL

=============================================================================
