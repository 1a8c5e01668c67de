---------------------------- MODULE CallContract ----------------------------
(***************************************************************************)
(* What the call component promises to the rest of the program (the drain  *)
(* of runtime.py, the HTTP endpoints, the readers of vmo.call events),     *)
(* without channels, sockets or pipelines: a call is counted by the        *)
(* registry from its registration until its teardown releases it, ends at  *)
(* most once, is never counted again, and a teardown that began completes. *)
(***************************************************************************)
CONSTANT Calls

VARIABLES
    phase,      \* where each call is in its life
    counted     \* the calls the registry counts (active_count)

vars == <<phase, counted>>

Phases == {"idle", "setup", "refused", "active", "dropped", "closing", "ended"}

Init == phase = [c \in Calls |-> "idle"] /\ counted = {}

Move(c, from, to) == phase[c] \in from /\ phase' = [phase EXCEPT ![c] = to]

\* The caller enters the application.
Arrive(c) == Move(c, {"idle"}, "setup") /\ UNCHANGED counted

\* The setup ends before the call was registered.
Refuse(c) == Move(c, {"setup"}, "refused") /\ UNCHANGED counted

Register(c) == Move(c, {"setup"}, "active") /\ counted' = counted \cup {c}

\* The setup ends after the call was registered: it is forgotten, not ended.
Drop(c) == Move(c, {"active"}, "dropped") /\ counted' = counted \ {c}

\* A teardown begins; the call may be counted for as long as its pipeline stops.
Close(c) == Move(c, {"active", "dropped"}, "closing") /\ counted' \in {counted, counted \ {c}}

Release(c) == phase[c] = "closing" /\ counted' = counted \ {c} /\ UNCHANGED phase

End(c) == Move(c, {"active", "dropped", "closing"}, "ended") /\ counted' = counted \ {c}

Next == \E c \in Calls : \/ Arrive(c) \/ Refuse(c) \/ Register(c) \/ Drop(c)
                         \/ Close(c) \/ Release(c) \/ End(c)

Spec == Init /\ [][Next]_vars

\* A teardown that began completes.
FairSpec == Spec /\ \A c \in Calls : WF_vars(phase[c] = "closing" /\ End(c))

=============================================================================
