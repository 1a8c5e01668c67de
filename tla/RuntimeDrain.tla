---------------------------- MODULE RuntimeDrain ----------------------------
(***************************************************************************)
(* The graceful shutdown of runtime.main: a signal, _drain_calls, then the *)
(* ARI pool, the AudioSocket server and the process itself go away.  It    *)
(* runs beside the calls, which are taken at their contract (CallContract, *)
(* which CallControl implements): the drain only ever sees the registry.   *)
(***************************************************************************)
EXTENDS CallContract, FiniteSets

VARIABLES
    stage,      \* how far main() is in its shutdown
    expired,    \* the drain's deadline has passed
    todo,       \* what is left of list(registry.all_controllers())
    awaiting,   \* the call whose shutdown(reason="forced_shutdown") is awaited, if any
    counted0,   \* history: the calls counted when the drain began
    forced      \* history: the calls whose shutdown the drain itself began

drainVars == <<stage, expired, todo, awaiting, counted0, forced>>
allVars == <<phase, counted, stage, expired, todo, awaiting, counted0, forced>>

Stages == {"serving", "signalled", "waiting", "forcing", "drained", "poolStopped", "stopped"}

DrainTypeOK ==
    /\ phase \in [Calls -> Phases]
    /\ counted \subseteq Calls
    /\ stage \in Stages
    /\ expired \in BOOLEAN
    /\ todo \subseteq Calls
    /\ awaiting \subseteq Calls
    /\ counted0 \subseteq Calls
    /\ forced \subseteq Calls

DrainInit ==
    /\ Init
    /\ stage = "serving" /\ expired = FALSE
    /\ todo = {} /\ awaiting = {} /\ counted0 = {} /\ forced = {}

\* SIGTERM or SIGINT: main() stops the configuration watcher, and nothing else.
Signal ==
    /\ stage = "serving"
    /\ stage' = "signalled"
    /\ UNCHANGED <<vars, expired, todo, awaiting, counted0, forced>>

\* Seeded defect: the drain is entered whatever the registry holds, once.
BeginDrainOnce ==
    /\ stage = "signalled"
    /\ stage' = "drained"
    /\ counted0' = counted
    /\ UNCHANGED <<vars, expired, todo, awaiting, forced>>

\* _drain_calls begins: an empty registry is taken for a drained system.
BeginDrain ==
    /\ stage = "signalled"
    /\ stage' = IF counted = {} THEN "drained" ELSE "waiting"
    /\ counted0' = counted
    /\ UNCHANGED <<vars, expired, todo, awaiting, forced>>

\* loop.time() reaches the deadline.
Deadline ==
    /\ stage = "waiting" /\ ~expired
    /\ expired' = TRUE
    /\ UNCHANGED <<vars, stage, todo, awaiting, counted0, forced>>

\* Seeded defect: the loop has no deadline.
PollForever ==
    /\ stage = "waiting"
    /\ counted = {} /\ stage' = "drained"
    /\ UNCHANGED <<vars, expired, todo, awaiting, counted0, forced>>

\* Seeded defect: the calls left are listed in a stage that nothing continues.
PollUnhandled ==
    /\ stage = "waiting"
    /\ counted # {} /\ expired /\ stage' = "forced" /\ todo' = counted
    /\ UNCHANGED <<vars, expired, awaiting, counted0, forced>>

\* The loop wakes up: no call is left, or it is late and the calls left are listed.
Poll ==
    /\ stage = "waiting"
    /\ \/ counted = {} /\ stage' = "drained" /\ UNCHANGED todo
       \/ counted # {} /\ expired /\ stage' = "forcing" /\ todo' = counted
    /\ UNCHANGED <<vars, expired, awaiting, counted0, forced>>

\* Seeded defect: the shutdowns are spawned and not awaited.
ForceSpawned ==
    /\ stage = "forcing" /\ awaiting = {}
    /\ \E c \in todo :
          /\ todo' = todo \ {c}
          /\ \/ Close(c) /\ forced' = forced \cup {c}
             \/ phase[c] \in {"closing", "ended"} /\ UNCHANGED <<vars, forced>>
    /\ UNCHANGED <<stage, expired, awaiting, counted0>>

\* The next listed call is shut down: shutdown() begins (and may finish at once),
\* or returns at once because another one began.
ForceOne ==
    /\ stage = "forcing" /\ awaiting = {}
    /\ \E c \in todo :
          /\ todo' = todo \ {c}
          /\ \/ Close(c) /\ awaiting' = {c} /\ forced' = forced \cup {c}
             \/ End(c) /\ phase[c] # "closing" /\ forced' = forced \cup {c} /\ UNCHANGED awaiting
             \/ phase[c] \in {"closing", "ended"} /\ UNCHANGED <<vars, awaiting, forced>>
    /\ UNCHANGED <<stage, expired, counted0>>

\* The awaited shutdown has returned.
Forced ==
    /\ stage = "forcing" /\ awaiting # {}
    /\ \A c \in awaiting : phase[c] = "ended"
    /\ awaiting' = {}
    /\ UNCHANGED <<vars, stage, expired, todo, counted0, forced>>

\* Every listed call was shut down: a last sleep, and the loop is left by break.
ForcingDone ==
    /\ stage = "forcing" /\ awaiting = {} /\ todo = {}
    /\ stage' = "drained"
    /\ UNCHANGED <<vars, expired, todo, awaiting, counted0, forced>>

\* pool.stop_all: no ARI event and no ARI request from here on.
StopPool ==
    /\ stage = "drained"
    /\ stage' = "poolStopped"
    /\ UNCHANGED <<vars, expired, todo, awaiting, counted0, forced>>

\* audiosocket.stop cancelled the connections, the event bus and the tasks are
\* closed, and main() returns: asyncio.run ends whatever still runs.  So it does when stop()
\* raises; that stop() comes to an end at all is StopCompletes of MediaPath, with its
\* premise that every peer takes what was sent to it.
Stop ==
    /\ stage = "poolStopped"
    /\ stage' = "stopped"
    /\ UNCHANGED <<vars, expired, todo, awaiting, counted0, forced>>

\* The calls go on by themselves while the process lives; callers enter while the
\* ARI listeners run, drain or no drain.
CallStep ==
    /\ stage # "stopped"
    /\ \E c \in Calls :
          \/ Arrive(c) /\ stage # "poolStopped"
          \/ Refuse(c) \/ Register(c) \/ Drop(c) \/ Close(c) \/ Release(c) \/ End(c)
    /\ UNCHANGED drainVars

DrainStep == BeginDrain \/ Deadline \/ Poll \/ ForceOne \/ Forced \/ ForcingDone \/ StopPool \/ Stop

DrainNext == Signal \/ DrainStep \/ CallStep

\* The drain beside calls that keep their contract; nothing need happen.
DrainSafety == DrainInit /\ [][DrainNext]_allVars

\* main() is a task that is always run on, time passes, and a teardown completes
\* (the contract's own fairness).
DrainSpec ==
    /\ DrainSafety
    /\ WF_allVars(DrainStep)
    /\ \A c \in Calls : WF_allVars(stage # "stopped" /\ phase[c] = "closing" /\ End(c) /\ UNCHANGED drainVars)

-----------------------------------------------------------------------------
\* A call that was active when the drain began is not served by a process whose ARI
\* connections are gone: it was torn down first, on its own or by force.
ActiveCallsTornDown ==
    stage \in {"drained", "poolStopped", "stopped"} =>
        \A c \in counted0 : phase[c] # "active"

\* A forced shutdown has hung up its channels and reported the end of its call before
\* the ARI sessions close under it.
ForcedCallsEnded ==
    stage \in {"drained", "poolStopped", "stopped"} => \A c \in forced : phase[c] = "ended"

\* However the calls behave, and however many arrive meanwhile, the drain comes to its end
\* and the process stops (if its AudioSocket server can, see Stop).
DrainTerminates == stage = "signalled" ~> stage = "stopped"

=============================================================================
