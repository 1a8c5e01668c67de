------------------------- MODULE RuntimeDrainProofs -------------------------
(***************************************************************************)
(* The drain keeps its promises for any number of calls.  The invariant    *)
(* carries, through the drain's stages, where the calls counted at its     *)
(* beginning can still be active: in the registry while it waits, in its   *)
(* list while it forces, nowhere afterwards.                               *)
(***************************************************************************)
EXTENDS RuntimeDrain, TLAPS

Drained == {"drained", "poolStopped", "stopped"}

\* The registry counts the active calls and may count a closing one; a call once counted never waits for
\* its setup again.
Counted ==
    /\ \A c \in Calls : phase[c] = "active" => c \in counted
    /\ \A c \in counted : phase[c] \in {"active", "closing"}
    /\ \A c \in counted0 : phase[c] \in {"active", "dropped", "closing", "ended"}

\* Where a call counted at the beginning of the drain can still be active.
StillActive ==
    /\ stage = "forcing" => \A c \in counted0 : phase[c] = "active" => c \in todo
    /\ stage \in Drained => \A c \in counted0 : phase[c] # "active"

\* The drain is never ahead of the one shutdown that it awaits, and awaits only what is
\* under way: an awaited call that was still to begin its teardown would block it.
Awaited ==
    /\ \A c \in awaiting : c \in forced /\ awaiting = {c}
    /\ awaiting # {} => stage = "forcing"
    /\ \A c \in forced : phase[c] = "ended" \/ (phase[c] = "closing" /\ c \in awaiting)

DrainInv == DrainTypeOK /\ Counted /\ StillActive /\ Awaited

\* The drain starts with nothing counted and nothing forced.
LEMMA DrainInvInit == DrainInit => DrainInv
  BY DEF DrainInit, Init, DrainInv, DrainTypeOK, Counted, StillActive, Awaited, Phases, Stages,
     Drained

\* A step of a call on its own.
LEMMA CallKeeps ==
    ASSUME DrainInv, NEW c \in Calls, UNCHANGED drainVars,
           \/ Arrive(c) \/ Refuse(c) \/ Register(c) \/ Drop(c) \/ Close(c) \/ Release(c) \/ End(c)
    PROVE  DrainInv'
<1> USE DEF DrainInv, DrainTypeOK, Counted, StillActive, Awaited, drainVars, Phases, Stages,
       Drained, Move
<1>1. CASE Arrive(c)
  BY <1>1 DEF Arrive
<1>2. CASE Refuse(c)
  BY <1>2 DEF Refuse
<1>3. CASE Register(c)
  BY <1>3 DEF Register
<1>4. CASE Drop(c)
  BY <1>4 DEF Drop
<1>5. CASE Close(c)
  BY <1>5 DEF Close
<1>6. CASE Release(c)
  BY <1>6 DEF Release
<1>7. CASE End(c)
  BY <1>7 DEF End
<1> QED
  BY <1>1, <1>2, <1>3, <1>4, <1>5, <1>6, <1>7

\* Every step of the drain and of the calls keeps the invariant.
LEMMA DrainInvStep == DrainInv /\ [DrainNext]_allVars => DrainInv'
<1> SUFFICES ASSUME DrainInv, [DrainNext]_allVars PROVE DrainInv'
  OBVIOUS
<1>1. CASE CallStep
  BY <1>1, CallKeeps DEF CallStep
<1>2. CASE ForceOne
  <2>1. PICK c \in todo :
          /\ todo' = todo \ {c}
          /\ \/ Close(c) /\ awaiting' = {c} /\ forced' = forced \cup {c}
             \/ End(c) /\ phase[c] # "closing" /\ forced' = forced \cup {c} /\ UNCHANGED awaiting
             \/ phase[c] \in {"closing", "ended"} /\ UNCHANGED <<vars, awaiting, forced>>
    BY <1>2 DEF ForceOne
  <2>2. c \in Calls /\ stage = "forcing" /\ awaiting = {} /\ UNCHANGED <<stage, expired, counted0>>
    BY <1>2, <2>1 DEF ForceOne, DrainInv, DrainTypeOK
  <2> USE DEF DrainInv, DrainTypeOK, Counted, StillActive, Awaited, vars, Phases, Stages, Drained
  <2>3. CASE Close(c) /\ awaiting' = {c} /\ forced' = forced \cup {c}
    BY <2>1, <2>2, <2>3 DEF Close, Move
  <2>4. CASE End(c) /\ forced' = forced \cup {c} /\ UNCHANGED awaiting
    BY <2>1, <2>2, <2>4 DEF End, Move
  <2>5. CASE phase[c] \in {"closing", "ended"} /\ UNCHANGED <<vars, awaiting, forced>>
    BY <2>1, <2>2, <2>5
  <2> QED
    BY <2>1, <2>3, <2>4, <2>5
<1> USE DEF DrainInv, DrainTypeOK, Counted, StillActive, Awaited, vars, Phases, Stages, Drained
<1>3. CASE Signal
  BY <1>3 DEF Signal
<1>4. CASE BeginDrain
  BY <1>4 DEF BeginDrain
<1>5. CASE Deadline
  BY <1>5 DEF Deadline
<1>6. CASE Poll
  BY <1>6 DEF Poll
<1>7. CASE Forced
  BY <1>7 DEF Forced
<1>8. CASE ForcingDone
  BY <1>8 DEF ForcingDone
<1>9. CASE StopPool
  BY <1>9 DEF StopPool
<1>10. CASE Stop
  BY <1>10 DEF Stop
<1>11. CASE UNCHANGED allVars
  BY <1>11 DEF allVars
<1> QED
  BY <1>1, <1>2, <1>3, <1>4, <1>5, <1>6, <1>7, <1>8, <1>9, <1>10, <1>11
     DEF DrainNext, DrainStep

\* The invariant holds in every reachable state, whether or not anything goes on.
THEOREM DrainInvariant == DrainSafety => []DrainInv
  BY DrainInvInit, DrainInvStep, PTL DEF DrainSafety

\* Whatever the calls do, the drain's own variables keep their types.
THEOREM DrainTypeCorrect == DrainSafety => []DrainTypeOK
  BY DrainInvariant, PTL DEF DrainInv

\* No call that was active when the drain began is active when the ARI pool stops.
THEOREM ActiveCallsAlwaysTornDown == DrainSafety => []ActiveCallsTornDown
<1>1. DrainInv => ActiveCallsTornDown
  BY DEF DrainInv, StillActive, ActiveCallsTornDown, Drained
<1> QED
  BY <1>1, DrainInvariant, PTL

\* Every shutdown the drain forced has completed by then.
THEOREM ForcedCallsAlwaysEnded == DrainSafety => []ForcedCallsEnded
<1>1. DrainInv => ForcedCallsEnded
  <2> SUFFICES ASSUME DrainInv, stage \in Drained, NEW c \in forced PROVE phase[c] = "ended"
    BY DEF ForcedCallsEnded, Drained
  <2>1. awaiting = {}
    BY DEF DrainInv, Awaited, Drained
  <2> QED
    BY <2>1 DEF DrainInv, DrainTypeOK, Awaited
<1> QED
  BY <1>1, DrainInvariant, PTL

\* The drain waits for one shutdown at a time, and for none that has yet to begin: a
\* teardown that never started could be awaited for ever.
AwaitsTeardown ==
    \A c \in awaiting : awaiting = {c} /\ phase[c] \in {"closing", "ended"}

\* What the drain awaits is a teardown that is under way, or over: the safety part of
\* DrainTerminates.
THEOREM DrainAwaitsTeardowns == DrainSafety => []AwaitsTeardown
<1>1. DrainInv => AwaitsTeardown
  BY DEF DrainInv, DrainTypeOK, Awaited, AwaitsTeardown
<1> QED
  BY <1>1, DrainInvariant, PTL

=============================================================================
