------------------------------ MODULE ARIPool ------------------------------
(***************************************************************************)
(* The ARI connections: ARIPool.start_all_listening and stop_all, and for  *)
(* each node the supervisor of its ARIClient (start_listening, connect,    *)
(* _listen_with_reconnect, _mark_disconnected_and_backoff), which reopens  *)
(* a WebSocket for as long as it is not told to stop.  disconnect runs in  *)
(* the task of main() while the supervisor is suspended anywhere.          *)
(*                                                                         *)
(* The length of a backoff is left out; what the events do is CallControl. *)
(***************************************************************************)
CONSTANT Nodes

VARIABLES
    main,       \* how far main() is: starting, serving, stopping, stopped
    todo,       \* nodes that stop_all has not reached
    closing,    \* what stop_all awaits: the close of a node's WebSocket or session
    listener,   \* where each node's supervisor task is suspended
    cancelled,  \* nodes whose supervisor task was cancelled
    connected,  \* ARIClient._connected
    running,    \* ARIClient.running
    websocket,  \* ARIClient.websocket is set
    session,    \* ARIClient.http_session is open
    reconnect,  \* ARIClient._should_reconnect
    up          \* nodes whose Asterisk answers

client == <<connected, running, websocket, session, reconnect>>
vars == <<main, todo, closing, listener, cancelled, connected, running, websocket, session,
          reconnect, up>>

Stages == {"none", "ready", "probe", "dial", "failed", "listen", "closing", "backoff", "done"}

TypeOK ==
    /\ main \in {"starting", "serving", "stopping", "stopped"}
    /\ todo \subseteq Nodes
    /\ closing \in {<<>>} \cup (Nodes \X {"websocket", "session"})
    /\ listener \in [Nodes -> Stages]
    /\ cancelled \subseteq Nodes
    /\ connected \subseteq Nodes /\ running \subseteq Nodes /\ websocket \subseteq Nodes
    /\ session \subseteq Nodes /\ reconnect \subseteq Nodes
    /\ up \subseteq Nodes

Init ==
    /\ main = "starting" /\ todo = {} /\ closing = <<>>
    /\ listener = [n \in Nodes |-> "none"]
    /\ cancelled = {} /\ connected = {} /\ running = {} /\ websocket = {} /\ session = {}
    /\ reconnect = Nodes        \* set by __init__
    /\ up \in SUBSET Nodes

\* ARIClient.is_connected
IsConnected(n) == n \in connected \cap running \cap websocket

-----------------------------------------------------------------------------
(* The supervisor of a node.                                               *)

Goes(n, from, to) == listener[n] = from /\ listener' = [listener EXCEPT ![n] = to]

\* What the supervisor leaves alone; a cancelled task takes no further step.
Frame(n) == n \notin cancelled /\ UNCHANGED <<main, todo, closing, cancelled, up>>

\* connect() up to the answer of the HTTP probe, on a session that it opens if need be.
Probe(n) ==
    /\ connected' = connected \ {n}
    /\ session' = session \cup {n}
    /\ UNCHANGED <<running, websocket>>

\* start_listening enters its loop.
ListenerStarts(n) ==
    /\ Goes(n, "ready", "probe")
    /\ reconnect' = reconnect \cup {n}
    /\ Probe(n) /\ Frame(n)

\* The probe has answered, or failed: connect() gives its session up and raises.
Probed(n) ==
    /\ Goes(n, "probe", IF n \in up THEN "dial" ELSE "failed")
    /\ UNCHANGED client /\ Frame(n)

\* websockets.connect has returned, or raised.
Dialed(n) ==
    /\ \/ /\ n \in up
          /\ Goes(n, "dial", "listen")
          /\ running' = running \cup {n}
          /\ connected' = connected \cup {n}
          /\ websocket' = websocket \cup {n}
       \/ /\ n \notin up
          /\ Goes(n, "dial", "failed")
          /\ UNCHANGED <<running, connected, websocket>>
    /\ UNCHANGED <<session, reconnect>> /\ Frame(n)

\* Seeded defect: a connection that cannot be opened is not retried.
FailureClosedForGood(n) ==
    /\ Goes(n, "failed", "done")
    /\ session' = session \ {n}
    /\ connected' = connected \ {n} /\ running' = running \ {n}
    /\ UNCHANGED <<websocket, reconnect>> /\ Frame(n)

\* The session of a failed connect() is closed; wait and retry, unless told to stop.
FailureClosed(n) ==
    /\ Goes(n, "failed", IF n \in reconnect THEN "backoff" ELSE "done")
    /\ session' = session \ {n}
    /\ connected' = connected \ {n} /\ running' = running \ {n}
    /\ UNCHANGED <<websocket, reconnect>> /\ Frame(n)

\* Seeded defect: the client is marked disconnected when the close has returned.
ListenEndsLate(n) ==
    /\ Goes(n, "listen", "closing")
    /\ UNCHANGED client /\ Frame(n)

\* The WebSocket ended or raised: the client is marked disconnected, then closes it.
ListenEnds(n) ==
    /\ Goes(n, "listen", "closing")
    /\ connected' = connected \ {n} /\ running' = running \ {n}
    /\ websocket' = websocket \ {n}
    /\ UNCHANGED <<session, reconnect>> /\ Frame(n)

Closed(n) ==
    /\ Goes(n, "closing", IF n \in reconnect THEN "backoff" ELSE "done")
    /\ UNCHANGED client /\ Frame(n)

\* The backoff is over, or was cut short because the client was told to stop.
BackoffEnds(n) ==
    /\ \/ n \in reconnect /\ Goes(n, "backoff", "probe") /\ Probe(n)
       \/ n \notin reconnect /\ Goes(n, "backoff", "done")
             /\ UNCHANGED <<connected, running, websocket, session>>
    /\ UNCHANGED reconnect /\ Frame(n)

\* Seeded defect: the supervisor hangs in its own cancellation.
CancelledHangs(n) ==
    /\ n \in cancelled
    /\ listener[n] \notin {"none", "done"}
    /\ listener' = [listener EXCEPT ![n] = "cancelling"]
    /\ UNCHANGED <<main, todo, closing, cancelled, client, up>>

\* CancelledError is raised wherever the task is suspended; nothing there catches it.
Cancelled(n) ==
    /\ n \in cancelled
    /\ listener[n] \notin {"none", "done"}
    /\ listener' = [listener EXCEPT ![n] = "done"]
    /\ UNCHANGED <<main, todo, closing, cancelled, client, up>>

-----------------------------------------------------------------------------
(* The pool.                                                               *)

StartAllListening ==
    /\ main = "starting"
    /\ main' = "serving"
    /\ listener' = [n \in Nodes |-> "ready"]
    /\ UNCHANGED <<todo, closing, cancelled, client, up>>

StopAll ==
    /\ main = "serving"
    /\ main' = "stopping" /\ todo' = Nodes
    /\ UNCHANGED <<closing, listener, cancelled, client, up>>

\* disconnect() goes on to its next close, on what it finds set.
AwaitClose(n, ws, sess) ==
    closing' = IF n \in ws THEN <<n, "websocket">>
               ELSE IF n \in sess THEN <<n, "session">> ELSE <<>>

\* Seeded defect: the supervisor is told to stop and not cancelled.
StopNodeGently(n) ==
    /\ main = "stopping" /\ closing = <<>> /\ n \in todo
    /\ todo' = todo \ {n}
    /\ reconnect' = reconnect \ {n}
    /\ connected' = connected \ {n} /\ running' = running \ {n}
    /\ AwaitClose(n, websocket, session)
    /\ UNCHANGED <<main, cancelled, listener, websocket, session, up>>

\* stop_all comes to a node: it cancels the supervisor and begins disconnect().
StopNode(n) ==
    /\ main = "stopping" /\ closing = <<>> /\ n \in todo
    /\ todo' = todo \ {n}
    /\ cancelled' = IF listener[n] = "done" THEN cancelled ELSE cancelled \cup {n}
    /\ reconnect' = reconnect \ {n}
    /\ connected' = connected \ {n} /\ running' = running \ {n}
    /\ AwaitClose(n, websocket, session)
    /\ UNCHANGED <<main, listener, websocket, session, up>>

\* The close that disconnect() awaits has returned.
CloseReturns ==
    \E n \in Nodes :
       /\ \/ /\ closing = <<n, "websocket">>
             /\ websocket' = websocket \ {n}
             /\ AwaitClose(n, {}, session)
             /\ UNCHANGED session
          \/ /\ closing = <<n, "session">>
             /\ session' = session \ {n}
             /\ closing' = <<>>
             /\ UNCHANGED websocket
       /\ UNCHANGED <<main, todo, listener, cancelled, connected, running, reconnect, up>>

StopReturns ==
    /\ main = "stopping" /\ closing = <<>> /\ todo = {}
    /\ main' = "stopped"
    /\ UNCHANGED <<todo, closing, listener, cancelled, client, up>>

\* An Asterisk, or the way to it, fails or comes back.
AsteriskToggles(n) ==
    /\ up' = IF n \in up THEN up \ {n} ELSE up \cup {n}
    /\ UNCHANGED <<main, todo, closing, listener, cancelled, client>>

-----------------------------------------------------------------------------
ListenerStep(n) ==
    \/ ListenerStarts(n) \/ Probed(n) \/ Dialed(n) \/ FailureClosed(n) \/ Closed(n)
    \/ BackoffEnds(n) \/ Cancelled(n)

StopStep == (\E n \in Nodes : StopNode(n)) \/ CloseReturns \/ StopReturns

Next ==
    \/ StartAllListening \/ StopAll \/ StopStep
    \/ \E n \in Nodes : ListenerStep(n) \/ ListenEnds(n) \/ AsteriskToggles(n)

Spec == Init /\ [][Next]_vars

\* Tasks that can run are run, requests and closes return, backoffs end, and a WebSocket
\* to an Asterisk that is gone is noticed (TCP, or the library's keepalive).
FairSpec ==
    /\ Spec
    /\ WF_vars(StartAllListening) /\ WF_vars(StopStep)
    /\ \A n \in Nodes : WF_vars(ListenerStep(n)) /\ WF_vars(ListenEnds(n) /\ n \notin up)

-----------------------------------------------------------------------------
(* Properties.                                                             *)

\* What /ready reports as connected is a WebSocket that a supervisor reads, so that
\* events of its calls are handled, with a session on which handlers can send commands.
ConnectedMeansServed ==
    \A n \in Nodes : IsConnected(n) => listener[n] = "listen" /\ n \in session

\* stop_all is final: wherever the supervisors were suspended when it began, nothing
\* is connected or open once it has returned.
StopIsFinal ==
    main = "stopped" => connected = {} /\ running = {} /\ websocket = {} /\ session = {}

\* A node whose Asterisk stays reachable is connected again, however often and at
\* whatever stage its connection failed before.
Reconnects ==
    \A n \in Nodes : <>[](n \in up) => []<>(IsConnected(n) \/ main \in {"stopping", "stopped"})

\* A shutdown completes and leaves no supervisor behind.
StopCompletes ==
    main = "stopping" ~> main = "stopped" /\ \A n \in Nodes : listener[n] = "done"

=============================================================================
