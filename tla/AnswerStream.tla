---------------------------- MODULE AnswerStream ----------------------------
(***************************************************************************)
(* What the pipeline of a call is promised of an LLM turn: one stream of   *)
(* text frames, taken from the answer in its order, that is over for good  *)
(* when run_turn returns or raises.  There is no bus here, no queue and no *)
(* router: AgenticBus implements this whatever they do.                    *)
(***************************************************************************)
EXTENDS Naturals, Sequences

CONSTANT Turns

VARIABLES
    state,      \* the stream of a turn, as the pipeline sees it
    said,       \* how many texts of its answer the backend has given
    complete,   \* turns whose answer the backend has completed
    gaps,       \* turns whose answer lost a part on its way
    heard       \* the texts emitted, by their position in the answer

vars == <<state, said, complete, gaps, heard>>

Init ==
    /\ state = [k \in Turns |-> "new"]
    /\ said = [k \in Turns |-> 0]
    /\ complete = {} /\ gaps = {}
    /\ heard = [k \in Turns |-> <<>>]

Begin(k) ==
    /\ state[k] = "new"
    /\ state' = [state EXCEPT ![k] = "streaming"]
    /\ UNCHANGED <<said, complete, gaps, heard>>

\* The backend gives a text of its answer, or completes it, or both.
Say(k) ==
    /\ state[k] # "new" /\ k \notin complete
    /\ said' \in {said, [said EXCEPT ![k] = @ + 1]}
    /\ complete' \in {complete, complete \cup {k}}
    /\ UNCHANGED <<state, gaps, heard>>

\* A part of the answer will not arrive.
LosePart(k) ==
    /\ gaps' = gaps \cup {k}
    /\ UNCHANGED <<state, said, complete, heard>>

\* One more text is emitted: a later one, and the very next one if nothing was lost.
HearsNext(k, n) ==
    /\ n \in 1..said[k]
    /\ \A i \in 1..Len(heard[k]) : heard[k][i] < n
    /\ k \notin gaps => n = Len(heard[k]) + 1
    /\ heard' = [heard EXCEPT ![k] = Append(@, n)]

Hear(k) ==
    /\ state[k] = "streaming"
    /\ \E n \in 1..said[k] : HearsNext(k, n)
    /\ UNCHANGED <<state, said, complete, gaps>>

\* The turn ends with its answer, perhaps with a last text of it: the answer is complete,
\* and if nothing was lost all of it was emitted.
Finish(k) ==
    /\ state[k] = "streaming" /\ k \in complete
    /\ \/ UNCHANGED heard
       \/ HearsNext(k, said[k])
    /\ k \notin gaps => Len(heard'[k]) = said[k]
    /\ state' = [state EXCEPT ![k] = "answered"]
    /\ UNCHANGED <<said, complete, gaps>>

\* The turn ends otherwise: cancelled, out of time, or with an error.
Break(k) ==
    /\ state[k] = "streaming"
    /\ state' = [state EXCEPT ![k] = "broken"]
    /\ UNCHANGED <<said, complete, gaps, heard>>

Next ==
    \E k \in Turns :
        Begin(k) \/ Say(k) \/ LosePart(k) \/ Hear(k) \/ Finish(k) \/ Break(k)

Spec == Init /\ [][Next]_vars

=============================================================================
