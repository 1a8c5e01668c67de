---------------------------- MODULE AgenticBus ----------------------------
(***************************************************************************)
(* LLM turns answered over a message bus: AgenticBusLLMService (run_turn,  *)
(* _collect_response, _handle_tool_call, publish_cancel, start_bus and     *)
(* stop_bus) with its CorrelationRouter, the NATS subscription that feeds  *)
(* it, and a backend that streams its answer.                              *)
(*                                                                         *)
(* Each call has a service and a router of its own; all of them subscribe  *)
(* to one subject.  A turn is named by its correlation id, and turns may   *)
(* overlap: one that was cancelled may still drain while the next begins.  *)
(* An action is the code a coroutine runs between two suspensions.         *)
(***************************************************************************)
EXTENDS Naturals, Sequences, SequencesExt

CONSTANTS
    Calls,
    MaxTurns,   \* bound: turns of a call
    MaxTexts    \* bound: messages with text in an answer

ASSUME AgenticBusAssumption == MaxTurns \in Nat /\ MaxTexts \in Nat

Turns == Calls \X (1..MaxTurns)
CallOf(k) == k[1]

VARIABLES
    subscribed, \* calls whose _subscription is set
    turn,       \* where run_turn is suspended
    open,       \* keys of CorrelationRouter._queues
    queue,      \* the queue a turn consumes; it outlives its entry in _queues
    emitted,    \* the text frames emitted, by their position in the answer
    cancel,     \* where publish_cancel is suspended
    wire,       \* messages published by the backend and not yet delivered
    sent,       \* how many messages with text the backend published
    asked,      \* turns for which the backend asked for a tool
    answered,   \* turns whose answer the backend has completed
    lost        \* history: turns that lost a message before it reached their call's router

backend == <<sent, asked, answered>>
vars == <<subscribed, turn, open, queue, emitted, cancel, wire, sent, asked, answered, lost>>

TurnStages == {"new", "publish", "collect", "tool", "answered", "cut", "error", "raised"}
Running == {"publish", "collect", "tool"}
Over == {"answered", "cut", "error", "raised"}

Msg(type, n) == [type |-> type, n |-> n]

\* Seeded defect: the sentinel is taken for a chunk without text.
ClosedAsChunk == Msg("chunk", 0)

\* The None that marks the end of a queue.
Closed == Msg("closed", 0)
Messages == [type : {"chunk", "tool", "final", "end", "error"}, n : 0..MaxTexts]

TypeOK ==
    /\ subscribed \subseteq Calls
    /\ turn \in [Turns -> TurnStages]
    /\ open \subseteq Turns
    /\ queue \in [Turns -> Seq(Messages \cup {Closed})]
    /\ emitted \in [Turns -> Seq(1..MaxTexts)]
    /\ cancel \in [Turns -> {"idle", "publish", "done"}]
    /\ wire \in [Turns -> Seq(Messages)]
    /\ sent \in [Turns -> 0..MaxTexts]
    /\ asked \subseteq Turns /\ answered \subseteq Turns /\ lost \subseteq Turns

Init ==
    /\ subscribed = {}
    /\ turn = [k \in Turns |-> "new"]
    /\ open = {} /\ asked = {} /\ answered = {} /\ lost = {}
    /\ queue = [k \in Turns |-> <<>>]
    /\ emitted = [k \in Turns |-> <<>>]
    /\ cancel = [k \in Turns |-> "idle"]
    /\ wire = [k \in Turns |-> <<>>]
    /\ sent = [k \in Turns |-> 0]

-----------------------------------------------------------------------------
(* CorrelationRouter.                                                      *)

\* Seeded defect: the queue is a stack.
EnqueueFirst(q, m) == <<m>> \o q

Enqueue(q, m) == Append(q, m)

\* close(): the entry goes away and, once only, the sentinel enters its queue.
Close(k) ==
    /\ open' = open \ {k}
    /\ queue' = [queue EXCEPT ![k] = IF k \in open THEN Enqueue(@, Closed) ELSE @]

\* The consumer leaves: _collect_response closes the entry and drops the queue.
Leave(k, outcome) ==
    /\ turn' = [turn EXCEPT ![k] = outcome]
    /\ open' = open \ {k}
    /\ queue' = [queue EXCEPT ![k] = <<>>]

-----------------------------------------------------------------------------
(* The service.                                                            *)

StartBus(c) ==
    /\ c \notin subscribed
    /\ \A k \in Turns : CallOf(k) = c => turn[k] = "new"
    /\ subscribed' = subscribed \cup {c}
    /\ UNCHANGED <<turn, open, queue, emitted, cancel, wire, backend, lost>>

\* stop_bus: what was not delivered to the call is lost to it.
StopBus(c) ==
    /\ c \in subscribed
    /\ subscribed' = subscribed \ {c}
    /\ UNCHANGED <<turn, open, queue, emitted, cancel, wire, backend, lost>>

\* run_turn up to the publication of the request: the entry is registered first.
StartTurn(k) ==
    /\ CallOf(k) \in subscribed
    /\ turn[k] = "new"
    /\ \A j \in Turns : CallOf(j) = CallOf(k) /\ j[2] < k[2] => turn[j] # "new"
    /\ turn' = [turn EXCEPT ![k] = "publish"]
    /\ open' = open \cup {k}
    /\ UNCHANGED <<subscribed, queue, emitted, cancel, wire, backend, lost>>

Published(k) ==
    /\ turn[k] = "publish"
    /\ turn' = [turn EXCEPT ![k] = "collect"]
    /\ UNCHANGED <<subscribed, open, queue, emitted, cancel, wire, backend, lost>>

\* publish() raises: the entry is closed and run_turn raises.
PublishFails(k) ==
    /\ turn[k] = "publish"
    /\ Leave(k, "raised")
    /\ UNCHANGED <<subscribed, emitted, cancel, wire, backend, lost>>

Emit(k, m) == emitted' = [emitted EXCEPT ![k] = Append(@, m.n)]

\* _collect_response takes the next message of its queue.  Nothing but the message
\* decides what becomes of it: a turn that was closed consumes what is queued.
Collect(k) ==
    /\ turn[k] = "collect"
    /\ queue[k] # <<>>
    /\ LET m == Head(queue[k]) IN
          \/ /\ m.type = "chunk"
             /\ Emit(k, m)
             /\ queue' = [queue EXCEPT ![k] = Tail(@)]
             /\ UNCHANGED <<turn, open>>
          \/ /\ m.type = "tool"
             /\ turn' = [turn EXCEPT ![k] = "tool"]
             /\ queue' = [queue EXCEPT ![k] = Tail(@)]
             /\ UNCHANGED <<open, emitted>>
          \/ m.type = "final" /\ Emit(k, m) /\ Leave(k, "answered")
          \/ m.type = "end" /\ Leave(k, "answered") /\ UNCHANGED emitted
          \/ m.type = "error" /\ Leave(k, "error") /\ UNCHANGED emitted
          \/ m = Closed /\ Leave(k, "cut") /\ UNCHANGED emitted
    /\ UNCHANGED <<subscribed, cancel, wire, backend, lost>>

\* _handle_tool_call has returned: the callback ran (or is unknown, or raised) and
\* its result was published, or not; the turn goes on in any case.
ToolReturns(k) ==
    /\ turn[k] = "tool"
    /\ turn' = [turn EXCEPT ![k] = "collect"]
    /\ UNCHANGED <<subscribed, open, queue, emitted, cancel, wire, backend, lost>>

\* Seeded defect: only the first token has a deadline.
TimeoutFirstToken(k) ==
    /\ turn[k] = "collect"
    /\ emitted[k] = <<>>
    /\ Leave(k, "raised")
    /\ UNCHANGED <<subscribed, emitted, cancel, wire, backend, lost>>

\* The first-token or the total deadline passes: noticed while waiting on the queue,
\* or before looking at it, so that what is queued is not used.
Timeout(k) ==
    /\ turn[k] = "collect"
    /\ Leave(k, "raised")
    /\ UNCHANGED <<subscribed, emitted, cancel, wire, backend, lost>>

\* publish_cancel(k) is called for a turn that began; it publishes first...
CancelBegins(k) ==
    /\ turn[k] \in Running
    /\ cancel[k] = "idle"
    /\ cancel' = [cancel EXCEPT ![k] = "publish"]
    /\ UNCHANGED <<subscribed, turn, open, queue, emitted, wire, backend, lost>>

\* Seeded defect: the entry is removed without a sentinel.
CancelReturnsSilently(k) ==
    /\ cancel[k] = "publish"
    /\ cancel' = [cancel EXCEPT ![k] = "done"]
    /\ open' = open \ {k}
    /\ UNCHANGED <<subscribed, turn, queue, emitted, wire, backend, lost>>

\* ...and closes the entry whether the publication succeeded or raised.
CancelReturns(k) ==
    /\ cancel[k] = "publish"
    /\ cancel' = [cancel EXCEPT ![k] = "done"]
    /\ Close(k)
    /\ UNCHANGED <<subscribed, turn, emitted, wire, backend, lost>>

-----------------------------------------------------------------------------
(* The bus and the backend.                                                *)

\* Seeded defect: a message is queued only while its turn waits for one.
ReceiveWaiting(k) == k \in open /\ turn[k] = "collect"

\* Does the router of the message's own call know the turn?
Receive(k) == k \in open

\* The subject's next message of k reaches the call that asked, if it is subscribed.  A
\* router that does not know the turn discards it as late, as all other routers do.
Deliver(k) ==
    /\ wire[k] # <<>>
    /\ wire' = [wire EXCEPT ![k] = Tail(@)]
    /\ IF CallOf(k) \in subscribed
         THEN /\ queue' = IF Receive(k) THEN [queue EXCEPT ![k] = Enqueue(@, Head(wire[k]))]
                          ELSE queue
              /\ UNCHANGED lost
         ELSE /\ lost' = lost \cup {k}
              /\ UNCHANGED queue
    /\ UNCHANGED <<subscribed, turn, open, emitted, cancel, backend>>

\* A message does not arrive: NATS core delivers at most once; with inbound.group the
\* queue group may hand it to another call's router, which does not know the turn; and
\* one that cannot be parsed is discarded.
Lose(k) ==
    /\ wire[k] # <<>>
    /\ wire' = [wire EXCEPT ![k] = Tail(@)]
    /\ lost' = lost \cup {k}
    /\ UNCHANGED <<subscribed, turn, open, queue, emitted, cancel, backend>>

\* The backend has the request, perhaps before publish() returned, and answers: text
\* in chunks, at most one tool call, and one terminal message.  It need not heed a cancel.
BackendSends(k) ==
    /\ turn[k] # "new"
    /\ k \notin answered
    /\ \E m \in {Msg("tool", 0), Msg("end", 0), Msg("error", 0),
                 Msg("chunk", sent[k] + 1), Msg("final", sent[k] + 1)} :
          /\ m.n <= MaxTexts
          /\ m.type = "tool" => k \notin asked
          /\ wire' = [wire EXCEPT ![k] = Append(@, m)]
          /\ sent' = IF m.n > 0 THEN [sent EXCEPT ![k] = @ + 1] ELSE sent
          /\ asked' = IF m.type = "tool" THEN asked \cup {k} ELSE asked
          /\ answered' = IF m.type \in {"final", "end", "error"} THEN answered \cup {k}
                         ELSE answered
    /\ UNCHANGED <<subscribed, turn, open, queue, emitted, cancel, lost>>

-----------------------------------------------------------------------------
TurnStep(k) ==
    \/ Published(k) \/ PublishFails(k) \/ Collect(k) \/ ToolReturns(k)

Next ==
    \/ \E c \in Calls : StartBus(c) \/ StopBus(c)
    \/ \E k \in Turns :
          \/ StartTurn(k) \/ TurnStep(k) \/ Timeout(k) \/ CancelBegins(k) \/ CancelReturns(k)
          \/ Deliver(k) \/ Lose(k) \/ BackendSends(k)

Spec == Init /\ [][Next]_vars

\* A coroutine that can run runs, publish() and the tool callbacks return, and time
\* passes.  Neither the bus nor the backend owes anything.
FairSpec ==
    Spec /\ \A k \in Turns :
        WF_vars(TurnStep(k)) /\ WF_vars(Timeout(k)) /\ WF_vars(CancelReturns(k))

-----------------------------------------------------------------------------
(* Properties.                                                             *)

\* correlation slots: an entry of the router belongs to a turn that still runs, and a
\* running turn has its entry unless it was closed, in which case the sentinel that will
\* unblock it is in its queue, behind everything delivered before and nothing after.
SlotExact ==
    \A k \in Turns :
       /\ k \in open => turn[k] \in Running /\ ~Contains(queue[k], Closed)
       /\ turn[k] \in Running /\ k \notin open =>
             queue[k] # <<>> /\ Last(queue[k]) = Closed
                /\ ~Contains(Front(queue[k]), Closed)

\* What the pipeline sees of a turn.
StateOf(k) ==
    IF turn[k] \in Running THEN "streaming"
    ELSE IF turn[k] \in {"new", "answered"} THEN turn[k] ELSE "broken"
State == [k \in Turns |-> StateOf(k)]

Stream == INSTANCE AnswerStream WITH
    state <- State, said <- sent, complete <- answered, gaps <- lost, heard <- emitted

\* To the pipeline a turn is a stream of its answer: whatever queues, routers, losses,
\* tools and cancels do, each text emitted is a later one of the same answer (the very
\* next, if none was lost), none after the end, and no end but a complete one is clean.
ImplementsStream == Stream!Spec

\* The caller hears an answer in the order the backend gave it, whatever was lost.
TextInOrder ==
    \A k \in Turns : \A i, j \in 1..Len(emitted[k]) : i < j => emitted[k][i] < emitted[k][j]

\* A turn that ran to the end of its answer and lost no message emitted all of it, also
\* when messages came before publish() returned or while a tool ran.
AnswerWhole ==
    \A k \in Turns : turn[k] = "answered" /\ k \notin lost =>
        emitted[k] = [i \in 1..sent[k] |-> i]

\* Every turn ends, answered or not, whatever the bus loses and the backend does.
TurnEnds == \A k \in Turns : turn[k] = "publish" ~> turn[k] \in Over

\* agentic_bus_llm.py:357 "stop consuming the current turn": once publish_cancel has
\* returned, the turn emits no more text.
CancelStopsText ==
    [][\A k \in Turns : cancel[k] = "done" => emitted'[k] = emitted[k]]_vars

=============================================================================
