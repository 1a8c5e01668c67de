----------------------------- MODULE AudioSocket -----------------------------
(***************************************************************************)
(* AudioSocketServer: the connections of Asterisk from accept to the last  *)
(* disconnect report, and stop(), which cancels their tasks one by one     *)
(* while they end, and others begin, by themselves.  What the callbacks do *)
(* to the call is in MediaPath.  No critical section of the server awaits, *)
(* so its lock never makes anybody wait and does not appear.               *)
(***************************************************************************)
EXTENDS Naturals, FiniteSets

CONSTANTS
    Conns,      \* TCP connections of Asterisk
    Line        \* the one that carries the UUID of the call under study

NoConn == "none"

\* The call has a connection, and "no connection" is not one.
ASSUME AudioSocketAssumption == Line \in Conns /\ NoConn \notin Conns /\ IsFiniteSet(Conns)

VARIABLES
    server,     \* how far stop() is
    loop,       \* loop[k]: how far _handle_client and _connection_loop are with k
    lost,       \* the peers that closed, or sent TERMINATE or a frame whose handler raises,
                \* which the loop has not noticed yet
    writers,    \* the keys of _writers
    tasks,      \* the keys of _connection_tasks
    gauge,      \* what audiosocket_conn_inc and _dec count
    listed,     \* what is left of stop()'s list of tasks
    held,       \* stop()'s list of writers
    awaited,    \* the task that stop() awaits
    waiter,     \* waiter[k]: the future that every wait_closed() on k's writer awaits
    reports,    \* history: reports[k], the calls of on_disconnect(k)
    cut         \* history: the connections whose report stop() prevented or cut short

serverVars == <<server, loop, lost, writers, tasks, gauge, listed, held, awaited, waiter, reports, cut>>

Stages == {"none", "accepted", "handshake", "bound", "closing", "reporting", "done", "gone"}

\* Connections whose socket the server holds, and those that it still reads.
Open == {k \in Conns : loop[k] \notin {"none", "gone"}}
Reading == {k \in Conns : loop[k] \in {"handshake", "bound"}}

ServerTypeOK ==
    /\ server \in {"up", "stopping", "closed", "raised"}
    /\ loop \in [Conns -> Stages]
    /\ lost \subseteq Conns /\ cut \subseteq Conns
    /\ writers \subseteq Conns /\ tasks \subseteq Conns
    /\ listed \subseteq Conns /\ held \subseteq Conns
    /\ gauge \in Nat
    /\ awaited \in Conns \cup {NoConn}
    /\ waiter \in [Conns -> {"pending", "set", "cancelled"}]
    /\ reports \in [Conns -> Nat]

ServerInit ==
    /\ server = "up" /\ loop = [k \in Conns |-> "none"] /\ lost = {}
    /\ writers = {} /\ tasks = {} /\ gauge = 0
    /\ listed = {} /\ held = {} /\ awaited = NoConn
    /\ waiter = [k \in Conns |-> "pending"]
    /\ reports = [k \in Conns |-> 0] /\ cut = {}

Move(k, stage) == loop' = [loop EXCEPT ![k] = stage]

\* Seeded defect: the writer is registered by the handshake.
AcceptUnregistered(k) ==
    /\ server # "closed" /\ loop[k] = "none"
    /\ Move(k, "accepted")
    /\ tasks' = tasks \cup {k} /\ gauge' = gauge + 1
    /\ UNCHANGED <<server, lost, writers, listed, held, awaited, waiter, reports, cut>>

\* A connection is accepted, and a task created for it: the listening socket is the last
\* thing stop() closes.
Accept(k) ==
    /\ server # "closed" /\ loop[k] = "none"
    /\ Move(k, "accepted")
    /\ writers' = writers \cup {k} /\ tasks' = tasks \cup {k} /\ gauge' = gauge + 1
    /\ UNCHANGED <<server, lost, listed, held, awaited, waiter, reports, cut>>

\* The task of the connection runs for the first time, and reads.
LoopStarts(k) ==
    /\ loop[k] = "accepted"
    /\ Move(k, "handshake")
    /\ UNCHANGED <<server, lost, writers, tasks, gauge, listed, held, awaited, waiter, reports, cut>>

\* The first frame: on_uuid accepts its UUID, or the connection is sent away; so is one
\* that ends before it.  Nothing limits how long the frame may take.
Handshake(k, accepted) ==
    /\ loop[k] = "handshake"
    /\ Move(k, IF accepted THEN "bound" ELSE "closing")
    /\ UNCHANGED <<server, lost, writers, tasks, gauge, listed, held, awaited, waiter, reports, cut>>

\* External: the peer ends a connection that is served.
PeerEnds(k) ==
    /\ loop[k] = "bound" /\ k \notin lost
    /\ lost' = lost \cup {k}
    /\ UNCHANGED <<server, loop, writers, tasks, gauge, listed, held, awaited, waiter, reports, cut>>

\* The loop notices it: end of stream, TERMINATE, or an exception.
LoopEnds(k) ==
    /\ loop[k] = "bound" /\ k \in lost
    /\ lost' = lost \ {k}
    /\ Move(k, "closing")
    /\ UNCHANGED <<server, writers, tasks, gauge, listed, held, awaited, waiter, reports, cut>>

\* External: the transport of a connection that is over is gone, because the peer took what
\* was buffered for it, or the TCP connection broke.  Nothing bounds the time this takes.
PeerTakes(k) ==
    /\ loop[k] \in {"closing", "done", "gone"} /\ waiter[k] = "pending"
    /\ waiter' = [waiter EXCEPT ![k] = "set"]
    /\ UNCHANGED <<server, loop, lost, writers, tasks, gauge, listed, held, awaited, reports, cut>>

\* The finally clause: the writer was closed, wait_closed() returns, and on_disconnect(k) is
\* called, which returns at once unless it begins the shutdown of a call.
Closed(k, waits) ==
    /\ loop[k] = "closing" /\ waiter[k] = "set"
    /\ Move(k, IF waits THEN "reporting" ELSE "done")
    /\ reports' = [reports EXCEPT ![k] = @ + 1]
    /\ UNCHANGED <<server, lost, writers, tasks, gauge, listed, held, awaited, waiter, cut>>

\* Seeded defect: the end of the task counts the connection out as well.
ReportedCountsOut(k) ==
    /\ loop[k] = "reporting"
    /\ Move(k, "done")
    /\ gauge' = gauge - 1
    /\ UNCHANGED <<server, lost, writers, tasks, listed, held, awaited, waiter, reports, cut>>

\* That shutdown has returned, and with it on_disconnect(k) and the connection's task.
Reported(k) ==
    /\ loop[k] = "reporting"
    /\ Move(k, "done")
    /\ UNCHANGED <<server, lost, writers, tasks, gauge, listed, held, awaited, waiter, reports, cut>>

\* Seeded defect: only a connection that is still registered is counted out.
ReapedRegistered(k) ==
    /\ loop[k] = "done"
    /\ Move(k, "gone")
    /\ writers' = writers \ {k} /\ tasks' = tasks \ {k}
    /\ gauge' = IF k \in writers THEN gauge - 1 ELSE gauge
    /\ UNCHANGED <<server, lost, listed, held, awaited, waiter, reports, cut>>

\* _handle_client runs on after the task and forgets the connection.
Reaped(k) ==
    /\ loop[k] = "done"
    /\ Move(k, "gone")
    /\ writers' = writers \ {k} /\ tasks' = tasks \ {k} /\ gauge' = gauge - 1
    /\ UNCHANGED <<server, lost, listed, held, awaited, waiter, reports, cut>>

\* stop() lists the tasks and the writers, and empties the maps.
Stop ==
    /\ server = "up"
    /\ server' = "stopping"
    /\ listed' = tasks /\ held' = writers
    /\ tasks' = {} /\ writers' = {}
    /\ UNCHANGED <<loop, lost, gauge, awaited, waiter, reports, cut>>

\* Seeded defect: writer and report are seen to after the loop, not in a finally clause.
CancelledUnreported(k) ==
    /\ UNCHANGED waiter
    /\ \/ k \in Reading /\ Move(k, "done") /\ lost' = lost \ {k} /\ UNCHANGED cut
       \/ /\ loop[k] \in {"accepted", "closing", "reporting"}
          /\ Move(k, "done") /\ cut' = cut \cup {k} /\ UNCHANGED lost
       \/ loop[k] \in {"done", "gone"} /\ UNCHANGED <<loop, lost, cut>>

\* What task.cancel() does.  A task that has not run yet never enters its try statement.
\* One that reads goes through its finally clause.  One that is in that clause already
\* leaves it, because suppress(Exception) does not hold back a CancelledError; in
\* wait_closed() the cancellation reaches the future, which stays cancelled.
Cancelled(k) ==
    \/ k \in Reading /\ Move(k, "closing") /\ lost' = lost \ {k} /\ UNCHANGED <<waiter, cut>>
    \/ /\ loop[k] \in {"accepted", "closing", "reporting"}
       /\ Move(k, "done") /\ cut' = cut \cup {k}
       /\ waiter' = IF loop[k] = "closing" /\ waiter[k] = "pending"
                      THEN [waiter EXCEPT ![k] = "cancelled"] ELSE waiter
       /\ UNCHANGED lost
    \/ loop[k] \in {"done", "gone"} /\ UNCHANGED <<loop, lost, waiter, cut>>

\* Seeded defect: every task is cancelled and none is awaited.
CancelSpawned(k) ==
    /\ server = "stopping" /\ k \in listed
    /\ listed' = listed \ {k}
    /\ Cancelled(k)
    /\ UNCHANGED <<server, writers, tasks, gauge, held, awaited, reports>>

\* stop() cancels the next task, and awaits it.
CancelNext(k) ==
    /\ server = "stopping" /\ awaited = NoConn /\ k \in listed
    /\ listed' = listed \ {k} /\ awaited' = k
    /\ Cancelled(k)
    /\ UNCHANGED <<server, writers, tasks, gauge, held, reports>>

\* The task that stop() awaits has ended.
Awaited ==
    /\ awaited # NoConn /\ loop[awaited] \in {"done", "gone"}
    /\ awaited' = NoConn
    /\ UNCHANGED <<server, loop, lost, writers, tasks, gauge, listed, held, waiter, reports, cut>>

\* stop() has awaited the tasks and closes the listed writers, waiting for each.
WritersClosed == /\ server = "stopping" /\ listed = {} /\ awaited = NoConn
                 /\ \A k \in held : waiter[k] = "set"

\* Seeded defect: the end of every connection is waited for, as Server.wait_closed does
\* from Python 3.12 on.
StopDoneWaits ==
    /\ WritersClosed /\ Open = {}
    /\ server' = "closed" /\ held' = {}
    /\ UNCHANGED <<loop, lost, writers, tasks, gauge, listed, awaited, waiter, reports, cut>>

\* The listening socket is closed; Server.wait_closed of Python 3.11, which the image
\* runs, waits for nobody.
StopDone ==
    /\ WritersClosed
    /\ server' = "closed" /\ held' = {}
    /\ UNCHANGED <<loop, lost, writers, tasks, gauge, listed, awaited, waiter, reports, cut>>

\* A future that was cancelled raises a CancelledError in whoever awaits it next: stop()
\* itself, which goes no further.
StopRaises ==
    /\ server = "stopping" /\ listed = {} /\ awaited = NoConn
    /\ \E k \in held : waiter[k] = "cancelled"
    /\ server' = "raised" /\ held' = {}
    /\ UNCHANGED <<loop, lost, writers, tasks, gauge, listed, awaited, waiter, reports, cut>>

-----------------------------------------------------------------------------
\* The maps hold exactly the open connections while the server serves, never a dead
\* one afterwards, and the gauge of open connections is right throughout, whatever
\* stop() emptied under a connection that was on its way out.
BookExact ==
    /\ gauge = Cardinality(Open)
    /\ server = "up" => writers = Open /\ tasks = Open
    /\ writers \subseteq Open /\ tasks \subseteq Open

\* A connection that ended was reported to its call, once: the exception is one that
\* stop() met while it was closing already, or before its task had run.
ReportedOnce ==
    \A k \in Conns :
        /\ reports[k] <= 1
        /\ loop[k] \in {"done", "gone"} /\ reports[k] = 0 => k \in cut

\* A stop() that is over, by return or by exception, leaves no connection running that was
\* open when it began; one that was accepted meanwhile is still on the books.
StopReaches ==
    server \in {"closed", "raised"} => \A k \in Open : loop[k] = "done" \/ k \in tasks

=============================================================================
