---------------------------- MODULE ConfigReload ----------------------------
(***************************************************************************)
(* The hot reload of tenants.yaml: the file and whoever edits it, the      *)
(* ConfigWatcher (a thread that sees file events, a callback posted to the *)
(* event loop, a debounce timer), _do_reload and the ConfigStore, the HTTP *)
(* endpoint that forces a reload, the start and stop of main(), and the    *)
(* calls that take their SessionConfig from the store.                     *)
(*                                                                         *)
(* _do_reload and resolve() do not suspend: each is one step.              *)
(***************************************************************************)
EXTENDS TenantConfig, Naturals

CONSTANTS
    Calls,
    Documents,  \* what the file may hold that is YAML of the right schema
    Broken,     \* stands for a file that is not
    Missing,    \* stands for no file
    None,       \* no configuration, no session
    TenantIds, Dids,    \* what a caller's channel variables may say
    MaxEdits,   \* bound: edits of the file
    MaxVersion  \* bound: no forced reload from this version on

ASSUME ConfigReloadAssumption ==
    /\ {Broken, Missing, None} \cap Documents = {}
    /\ MaxEdits \in Nat /\ MaxVersion \in Nat

VARIABLES
    main,       \* boot, wiring (the file was read, the watcher not started), serving, stopping
    file,       \* what tenants.yaml holds
    edits,      \* how often it was edited
    watching,   \* the watcher's observer thread runs
    unseen,     \* a file event the observer has not handled
    posted,     \* _schedule_reload is posted to the event loop
    timer,      \* ConfigWatcher._debounce_handle: none, armed, fired
    due,        \* how many reloads that a timer has started did not run yet
    config, version, valid,     \* ConfigStore
    nodes,      \* the nodes of ARIPool: it is built once, from the configuration of the boot
    session     \* the SessionConfig of each call, with the request it was made for

store == <<config, version, valid>>
watcher == <<watching, unseen, posted, timer, due>>
vars == <<main, file, edits, watching, unseen, posted, timer, due, config, version, valid, nodes, session>>

TypeOK ==
    /\ main \in {"boot", "wiring", "serving", "stopping"}
    /\ file \in Documents \cup {Broken, Missing}
    /\ edits \in 0..MaxEdits
    /\ watching \in BOOLEAN /\ unseen \in BOOLEAN /\ posted \in BOOLEAN
    /\ timer \in {"none", "armed", "fired"} /\ due \in Nat
    /\ config \in Documents \cup {None} /\ version \in Nat /\ valid \in BOOLEAN
    /\ nodes \subseteq UNION {doc.asterisk_nodes : doc \in Documents}
    /\ DOMAIN session = Calls

Init ==
    /\ main = "boot" /\ edits = 0
    /\ file \in Documents \cup {Broken, Missing}
    /\ watching = FALSE /\ unseen = FALSE /\ posted = FALSE /\ timer = "none" /\ due = 0
    /\ config = None /\ version = 0 /\ valid = FALSE
    /\ nodes = {}
    /\ session = [c \in Calls |-> None]

-----------------------------------------------------------------------------
(* ConfigStore and _do_reload.                                             *)

\* Seeded defect: the snapshot changes under its old version.
SwapSameVersion(doc) == config' = doc /\ valid' = TRUE /\ version' = IF version = 0 THEN 1 ELSE version

Swap(doc) == config' = doc /\ valid' = TRUE /\ version' = version + 1

MarkInvalid == valid' = FALSE /\ UNCHANGED <<config, version>>

Loads(f) == f \in Documents /\ Validates(f)

\* Seeded defect: a file that cannot be used is only logged.
ReloadIgnoring ==
    \/ Loads(file) /\ Swap(file)
    \/ ~Loads(file) /\ UNCHANGED store

\* The file is read, validated and swapped in, or the store is marked invalid.
Reload ==
    \/ Loads(file) /\ Swap(file)
    \/ ~Loads(file) /\ MarkInvalid

-----------------------------------------------------------------------------
(* main(), the editor and the watcher.                                     *)

\* The initial load, if the file is there, and the pool made from it.
Boot ==
    /\ main = "boot"
    /\ main' = "wiring"
    /\ \/ file # Missing /\ Reload
       \/ file = Missing /\ UNCHANGED store
    /\ nodes' = UNION {doc.asterisk_nodes : doc \in {config'} \ {None}}
    /\ UNCHANGED <<file, edits, watcher, session>>

\* The AudioSocket server has started: the watcher starts, if the file is there.
Wire ==
    /\ main = "wiring"
    /\ main' = "serving"
    /\ watching' = (file # Missing)
    /\ UNCHANGED <<file, edits, unseen, posted, timer, due, store, nodes, session>>

\* The file is written (perhaps in several edits, the first of them leaving it empty or
\* cut short), created, moved into place, or deleted, which the handler does not watch.
Edit ==
    /\ edits < MaxEdits
    /\ edits' = edits + 1
    /\ file' \in Documents \cup {Broken, Missing}
    /\ unseen' = (unseen \/ (watching /\ file' # Missing))
    /\ UNCHANGED <<main, watching, posted, timer, due, store, nodes, session>>

\* The observer thread handles the file event.
Observe ==
    /\ watching /\ unseen
    /\ unseen' = FALSE /\ posted' = TRUE
    /\ UNCHANGED <<main, file, edits, watching, timer, due, store, nodes, session>>

\* Seeded defect: a timer that was set once is never set again.
ScheduleReloadOnce ==
    /\ posted
    /\ posted' = FALSE
    /\ timer' = IF timer = "none" THEN "armed" ELSE timer
    /\ UNCHANGED <<main, file, edits, watching, unseen, due, store, nodes, session>>

\* _schedule_reload: the timer starts anew, whatever became of the one before.
ScheduleReload ==
    /\ posted
    /\ posted' = FALSE /\ timer' = "armed"
    /\ UNCHANGED <<main, file, edits, watching, unseen, due, store, nodes, session>>

TimerFires ==
    /\ timer = "armed"
    /\ timer' = "fired" /\ due' = due + 1
    /\ UNCHANGED <<main, file, edits, watching, unseen, posted, store, nodes, session>>

\* Seeded defect: a reload runs although no timer has started one.
ReloadUnasked ==
    /\ due' = due - 1
    /\ Reload
    /\ UNCHANGED <<main, file, edits, watching, unseen, posted, timer, nodes, session>>

\* The task that the timer has started runs: no later timer cancels it.
ReloadDue ==
    /\ due > 0
    /\ due' = due - 1
    /\ Reload
    /\ UNCHANGED <<main, file, edits, watching, unseen, posted, timer, nodes, session>>

\* POST /admin/reload
AdminReload ==
    /\ main \in {"serving", "stopping"}
    /\ version < MaxVersion
    /\ Reload
    /\ UNCHANGED <<main, file, edits, watcher, nodes, session>>

\* A signal: the observer is joined, perhaps after the event it was handling; a timer
\* that is armed, or about to be, stays.
Stop ==
    /\ main = "serving"
    /\ main' = "stopping"
    /\ watching' = FALSE /\ unseen' = FALSE
    /\ posted' \in {posted, posted \/ unseen}
    /\ UNCHANGED <<file, edits, timer, due, store, nodes, session>>

-----------------------------------------------------------------------------
(* Calls.                                                                  *)

\* A caller enters Stasis and resolve() freezes what the call will use, or raises.
Arrive(c, t, d) ==
    /\ main \in {"serving", "stopping"} /\ nodes # {}
    /\ session[c] = None
    /\ config # None
    /\ \E plan \in Resolve(config, t, d) :
          session' = [session EXCEPT ![c] =
                         [tenant |-> t, did |-> d, version |-> version, plan |-> plan]]
    /\ UNCHANGED <<main, file, edits, watcher, store, nodes>>

-----------------------------------------------------------------------------
Next ==
    \/ Boot \/ Wire \/ Edit \/ Observe \/ ScheduleReload \/ TimerFires \/ ReloadDue
    \/ AdminReload \/ Stop
    \/ \E c \in Calls, t \in TenantIds, d \in Dids : Arrive(c, t, d)

Spec == Init /\ [][Next]_vars

\* The observer thread runs, and the event loop runs callbacks, timers and tasks.  Nobody
\* need edit the file, force a reload, or stop.
FairSpec == Spec /\ WF_vars(Observe) /\ WF_vars(ScheduleReload) /\ WF_vars(TimerFires)
            /\ WF_vars(ReloadDue)

-----------------------------------------------------------------------------
(* Properties.                                                             *)

\* Whatever the editor leaves in the file, a configuration that came into service (and
\* leaves no name blank) routes every caller it promises to route, to providers of the
\* right kind: the resolver never trips over what the validator let through.
ServiceRoutes ==
    config # None /\ NoBlankName(config) =>
        \A t \in TenantIds, d \in Dids : Routable(config, t, d)

\* The version a call carries names the snapshot its plan was made from, however many
\* reloads, good and bad, happened around it.
SessionsCoherent ==
    \A c \in Calls : session[c] # None =>
        /\ session[c].version <= version
        /\ session[c].version = version =>
              session[c].plan \in Resolve(config, session[c].tenant, session[c].did)

\* What the store says is what the file holds.
Reflected ==
    \/ Loads(file) /\ config = file /\ valid
    \/ ~Loads(file) /\ ~valid

\* A reload is on its way: from the observer thread to the task that runs it.
Owed == unseen \/ posted \/ timer = "armed" \/ due > 0

\* An edit that the watcher sees puts a reload on its way, and the way ends nowhere but in
\* a store that says what the file holds then, or in the shutdown: no hand-over between
\* thread, posted callback, timer and task drops it, no later timer takes it back, and a
\* file that cannot be used is not passed over in silence.
EditNeverForgotten ==
    [][/\ watching /\ file' # file /\ file' # Missing => Owed'
       /\ Owed /\ ~Owed' => Reflected' \/ main' = "stopping"]_vars

\* README.md, "Hot Reload": an edit that the observer has yet to see is picked up, even
\* one that falls between an earlier edit's timer and its reload.
EditsLoaded == watching /\ unseen ~> Reflected \/ main = "stopping"

=============================================================================
