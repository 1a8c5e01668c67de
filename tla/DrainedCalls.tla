---------------------------- MODULE DrainedCalls ----------------------------
(***************************************************************************)
(* The shutdown of runtime.main beside calls in full detail: RuntimeDrain  *)
(* takes the calls at their contract, here they are those of CallControl.  *)
(* The steps of the drain are its own, on the registry; two of them meet   *)
(* the calls themselves, the shutdown it forces and audiosocket.stop().    *)
(***************************************************************************)
EXTENDS CallControl

VARIABLES stage, expired, todo, awaiting, counted0, forced     \* as in RuntimeDrain

Drain == INSTANCE RuntimeDrain WITH phase <- Phase, counted <- registry

drainVars == <<stage, expired, todo, awaiting, counted0, forced>>
drainedVars == <<vars, drainVars>>

DrainedInit ==
    /\ Init
    /\ stage = "serving" /\ expired = FALSE
    /\ todo = {} /\ awaiting = {} /\ counted0 = {} /\ forced = {}

\* The drain awaits shutdown("forced_shutdown") of the next call of its list, which
\* returns at once if the call's teardown began before.
ForceOne ==
    /\ stage = "forcing" /\ awaiting = {}
    /\ \E c \in todo :
          /\ todo' = todo \ {c}
          /\ \/ ForcedShutdown(c) /\ awaiting' = {c} /\ forced' = forced \cup {c}
             \/ shut[c] # "idle" /\ UNCHANGED <<vars, awaiting, forced>>
    /\ UNCHANGED <<stage, expired, counted0>>

\* What main() does without touching a call.
MainStep ==
    /\ UNCHANGED vars
    /\ \/ Drain!Signal \/ Drain!BeginDrain \/ Drain!Deadline \/ Drain!Poll \/ Drain!Forced
       \/ Drain!ForcingDone \/ Drain!StopPool \/ Drain!Stop

\* audiosocket.stop() ends the connections, of calls that the drain left as well.  A task
\* that it cancels in its finally clause goes no further, nor does a shutdown() that runs
\* on that task: such a call takes no more steps, as any may here.
ServerStops(c) ==
    /\ stage = "poolStopped"
    /\ conn[c] \in {"dialing", "bound"}
    /\ conn' = [conn EXCEPT ![c] = "closing"]
    /\ UNCHANGED <<asterisk, setup, attach, pendingAudio, maps, pipeline, cancelled, audioId,
                   shut, reason, ended>>

\* The calls go on while the process lives; no caller enters once the pool is stopped.
LiveStep ==
    /\ stage # "stopped"
    /\ \E c \in Calls :
          \/ CallStep(c) /\ (stage = "poolStopped" => setup[c] # "idle")
          \/ ServerStops(c)
    /\ UNCHANGED drainVars

DrainedNext == MainStep \/ ForceOne \/ LiveStep

DrainedSpec == DrainedInit /\ [][DrainedNext]_drainedVars

-----------------------------------------------------------------------------
(* Properties.                                                             *)

\* The drain that RuntimeDrain describes is the one these calls live under: whatever
\* requests fail and events are lost, each step here is a step there.
ImplementsDrain == Drain!DrainSafety

\* Once the drain is through, each call it counted has at least begun its teardown, or
\* was dropped by its own setup; none is left for a caller to talk to.
CountedTornDown ==
    stage \in {"drained", "poolStopped", "stopped"} =>
        \A c \in counted0 : shut[c] = "idle" => c \notin registry

\* The event bus closes after the pool: by then each call that the drain ended has been
\* reported ended, exactly once, and is gone from router and registry.
ForcedReported ==
    stage \in {"drained", "poolStopped", "stopped"} =>
        \A c \in forced : ended[c] = 1 /\ c \notin registry \cup routed

\* runtime.py:128 "Wait for active calls to finish; force-shutdown remaining after
\* timeout" behind runtime.py:301 "1. Stop accepting new calls": no call is left.
NothingLeft == stage = "stopped" => registry = {}

=============================================================================
