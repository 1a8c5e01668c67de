--------------------------- MODULE ARIPoolProofs ---------------------------
(***************************************************************************)
(* The safety of the ARI pool for any number of nodes.  The invariant says *)
(* what stop_all has done to the nodes it has come to: their supervisors   *)
(* are cancelled (or done), so that nothing they would have set is set     *)
(* behind disconnect's back, and what it has not closed yet it awaits.     *)
(***************************************************************************)
EXTENDS ARIPool, TLAPS

\* stop_all has come to the node.
Reached(n) == main \in {"stopping", "stopped"} /\ n \notin todo

\* A supervisor on its way to a connection has a session, and a connected node is one
\* whose supervisor reads.
Served(n) ==
    /\ listener[n] \in {"probe", "dial", "listen"} /\ n \notin cancelled => n \in session
    /\ n \in connected => listener[n] = "listen" /\ n \notin cancelled

\* A cancelled supervisor is one that stop_all has come to, and the reverse.
CancelExact(n) ==
    /\ n \in cancelled => Reached(n)
    /\ Reached(n) => n \in cancelled \/ listener[n] = "done"
    /\ Reached(n) => n \notin connected /\ n \notin running

\* disconnect closes the WebSocket, then the session, and leaves neither.
CloseExact(n) ==
    /\ closing \in {<<n, "websocket">>, <<n, "session">>} => Reached(n)
    /\ closing = <<n, "session">> => n \notin websocket
    /\ Reached(n) /\ closing \notin {<<n, "websocket">>, <<n, "session">>} =>
          n \notin websocket /\ n \notin session

\* Before the pool starts nothing runs, and stop_all works while it stops only.
Quiet ==
    /\ main = "starting" => connected = {} /\ \A n \in Nodes : listener[n] = "none"
    /\ main \in {"starting", "serving"} => todo = {} /\ closing = <<>>
    /\ main = "stopped" => todo = {} /\ closing = <<>>

PoolInv ==
    /\ TypeOK
    /\ Quiet
    /\ \A n \in Nodes : Served(n) /\ CancelExact(n) /\ CloseExact(n)

\* Every step of the pool and of the supervisors keeps the invariant.
LEMMA PoolInvStep == PoolInv /\ [Next]_vars => PoolInv'
<1> SUFFICES ASSUME PoolInv, [Next]_vars PROVE PoolInv'
  OBVIOUS
<1> USE DEF PoolInv, TypeOK, Stages, Quiet, Served, CancelExact, CloseExact, Reached
<1>1. ASSUME NEW n \in Nodes, ListenerStep(n) PROVE PoolInv'
  <2>1. CASE ListenerStarts(n)
    BY <2>1 DEF ListenerStarts, Goes, Probe, Frame, client
  <2>2. CASE Probed(n)
    BY <2>2 DEF Probed, Goes, Frame, client
  <2>3. CASE Dialed(n)
    BY <2>3 DEF Dialed, Goes, Frame
  <2>4. CASE FailureClosed(n)
    BY <2>4 DEF FailureClosed, Goes, Frame
  <2>5. CASE Closed(n)
    BY <2>5 DEF Closed, Goes, Frame, client
  <2>6. CASE BackoffEnds(n)
    BY <2>6 DEF BackoffEnds, Goes, Probe, Frame
  <2>7. CASE Cancelled(n)
    BY <2>7 DEF Cancelled, client
  <2> QED
    BY <1>1, <2>1, <2>2, <2>3, <2>4, <2>5, <2>6, <2>7 DEF ListenerStep
<1>2. ASSUME NEW n \in Nodes, ListenEnds(n) PROVE PoolInv'
  BY <1>2 DEF ListenEnds, Goes, Frame
<1>3. ASSUME NEW n \in Nodes, AsteriskToggles(n) PROVE PoolInv'
  BY <1>3 DEF AsteriskToggles, client
<1>4. ASSUME NEW n \in Nodes, StopNode(n) PROVE PoolInv'
  BY <1>4 DEF StopNode, AwaitClose
<1>5. CASE CloseReturns
  BY <1>5 DEF CloseReturns, AwaitClose
<1>6. CASE StopReturns
  BY <1>6 DEF StopReturns, client
<1>7. CASE StartAllListening
  BY <1>7 DEF StartAllListening, client
<1>8. CASE StopAll
  BY <1>8 DEF StopAll, client
<1>9. CASE UNCHANGED vars
  BY <1>9 DEF vars
<1> QED
  BY <1>1, <1>2, <1>3, <1>4, <1>5, <1>6, <1>7, <1>8, <1>9 DEF Next, StopStep

\* The invariant holds in every reachable state.
THEOREM PoolInvariant == Spec => []PoolInv
<1>1. Init => PoolInv
  BY DEF Init, PoolInv, TypeOK, Stages, Quiet, Served, CancelExact, CloseExact, Reached
<1> QED
  BY <1>1, PoolInvStep, PTL DEF Spec

\* The supervisors and stop_all keep the types.
THEOREM PoolTypeCorrect == Spec => []TypeOK
  BY PoolInvariant, PTL DEF PoolInv

\* Whatever fails and whenever stop_all runs, a client that reports itself connected
\* has a supervisor that reads its WebSocket and a session for its commands.
THEOREM ConnectedAlwaysServed == Spec => []ConnectedMeansServed
<1>1. PoolInv => ConnectedMeansServed
  BY DEF PoolInv, Served, ConnectedMeansServed, IsConnected
<1> QED
  BY <1>1, PoolInvariant, PTL

\* After stop_all no supervisor can have opened a connection behind its back.
THEOREM StopAlwaysFinal == Spec => []StopIsFinal
<1>1. PoolInv => StopIsFinal
  BY DEF PoolInv, TypeOK, Quiet, CancelExact, CloseExact, Reached, StopIsFinal
<1> QED
  BY <1>1, PoolInvariant, PTL

-----------------------------------------------------------------------------
(* What Reconnects and StopCompletes rest on                               *)

\* Until stop_all comes to a node, nothing ends its supervisor or tells it to: whatever
\* failed and at whatever stage, it is in its loop, on its way to the next attempt.
NeverGivesUp ==
    \A n \in Nodes : ~Reached(n) =>
        /\ n \in reconnect /\ n \notin cancelled
        /\ main # "starting" => listener[n] \notin {"none", "done"}

\* When stop_all has returned, every supervisor has ended or been told to by a
\* cancellation, which it does not outlive.
NoneLeftRunning ==
    main = "stopped" => \A n \in Nodes : listener[n] = "done" \/ n \in cancelled

\* Only StopNode takes a node's reconnect flag, and only that lets its supervisor end.
LEMMA NeverGivesUpStep == PoolInv /\ NeverGivesUp /\ [Next]_vars => NeverGivesUp'
<1> SUFFICES ASSUME PoolInv, NeverGivesUp, [Next]_vars PROVE NeverGivesUp'
  OBVIOUS
<1> USE DEF PoolInv, TypeOK, Quiet, CancelExact, Reached, NeverGivesUp
<1>1. ASSUME NEW n \in Nodes, ListenerStep(n) PROVE NeverGivesUp'
  <2>1. CASE ListenerStarts(n)
    BY <2>1 DEF ListenerStarts, Goes, Probe, Frame
  <2>2. CASE Probed(n)
    BY <2>2 DEF Probed, Goes, Frame, client
  <2>3. CASE Dialed(n)
    BY <2>3 DEF Dialed, Goes, Frame
  <2>4. CASE FailureClosed(n)
    BY <2>4 DEF FailureClosed, Goes, Frame
  <2>5. CASE Closed(n)
    BY <2>5 DEF Closed, Goes, Frame, client
  <2>6. CASE BackoffEnds(n)
    BY <2>6 DEF BackoffEnds, Goes, Probe, Frame
  <2>7. CASE Cancelled(n)
    BY <2>7 DEF Cancelled, client
  <2> QED
    BY <1>1, <2>1, <2>2, <2>3, <2>4, <2>5, <2>6, <2>7 DEF ListenerStep
<1>2. ASSUME NEW n \in Nodes, ListenEnds(n) \/ AsteriskToggles(n) PROVE NeverGivesUp'
  BY <1>2 DEF ListenEnds, AsteriskToggles, Goes, Frame, client
<1>3. ASSUME NEW n \in Nodes, StopNode(n) PROVE NeverGivesUp'
  BY <1>3 DEF StopNode
<1>4. CASE CloseReturns \/ StopReturns
  BY <1>4 DEF CloseReturns, StopReturns, client
<1>5. CASE StartAllListening \/ StopAll
  BY <1>5 DEF StartAllListening, StopAll, client
<1>6. CASE UNCHANGED vars
  BY <1>6 DEF vars
<1> QED
  BY <1>1, <1>2, <1>3, <1>4, <1>5, <1>6 DEF Next, StopStep

\* No failure, at no stage of a connection, ends the supervision of a node that is not
\* being stopped: the safety part of Reconnects.
THEOREM SupervisorNeverGivesUp == Spec => []NeverGivesUp
<1>1. Init => NeverGivesUp
  BY DEF Init, NeverGivesUp, Reached
<1> QED
  BY <1>1, NeverGivesUpStep, PoolInvariant, PTL DEF Spec

\* stop_all returns with no supervisor that would go on: the safety part of StopCompletes.
THEOREM NoneEverLeftRunning == Spec => []NoneLeftRunning
<1>1. PoolInv => NoneLeftRunning
  BY DEF PoolInv, Quiet, CancelExact, Reached, NoneLeftRunning
<1> QED
  BY <1>1, PoolInvariant, PTL

=============================================================================
