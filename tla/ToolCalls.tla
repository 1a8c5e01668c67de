------------------------------ MODULE ToolCalls ------------------------------
(***************************************************************************)
(* The tools that the language model of a call may use (AsteriskActions):  *)
(* each is one ARI request on the caller's channel, awaited by the         *)
(* handler, and a result that the model is told.  PipeCat runs the calls   *)
(* of one answer side by side and cancels those in flight when the caller  *)
(* interrupts or the pipeline ends; a request that was sent may be         *)
(* executed all the same.  Events and counters follow what the model is    *)
(* told and are left out.                                                  *)
(***************************************************************************)
EXTENDS FiniteSets, Naturals

CONSTANTS
    Requests,       \* bound: tool calls of the language model
    Configured      \* context.tools: the tools the tenant's context names

VARIABLES
    tool,           \* [request -> its name, its stage, what the model was told, its effect]
    transferDone    \* _transfer_done

toolVars == <<tool, transferDone>>

ActionMap == {"transfer_call", "hangup_call", "play_audio_file", "send_dtmf"}
AllSchemas == {"transfer_call", "hangup_call", "play_audio_file", "send_dtmf"}

\* The tools the model is shown, and those PipeCat has a handler for.
SchemasForTools == Configured \cap AllSchemas
Registered == Configured \cap ActionMap

Told == {"nothing", "ok", "failed", "error", "already_transferred"}

ToolTypeOK ==
    /\ tool \in [Requests -> [name : ActionMap \cup {"none"},
                              at : {"free", "sent", "answered", "dropped"},
                              told : Told,
                              effect : {"never", "pending", "done", "refused"}]]
    /\ transferDone \in BOOLEAN

ToolInit ==
    /\ tool = [r \in Requests |-> [name |-> "none", at |-> "free", told |-> "nothing",
                                   effect |-> "never"]]
    /\ transferDone = FALSE

-----------------------------------------------------------------------------
(* The handlers                                                            *)

\* The handler returns without a request.
AnswerAtOnce(r, name, told) ==
    tool' = [tool EXCEPT ![r] = [name |-> name, at |-> "answered", told |-> told,
                                 effect |-> "never"]]

\* The request is made, or raises before it is: the pool has no client for the node, or
\* the client no HTTP session, which a failed reconnection takes from it.
SendRequest(r, name) ==
    \/ tool' = [tool EXCEPT ![r] = [name |-> name, at |-> "sent", told |-> "nothing",
                                    effect |-> "pending"]]
    \/ AnswerAtOnce(r, name, "error")

\* Seeded defect: the guard is left to be set when Asterisk has answered.
TransferCallLate(r) ==
    /\ IF transferDone THEN AnswerAtOnce(r, "transfer_call", "already_transferred")
                       ELSE SendRequest(r, "transfer_call")
    /\ UNCHANGED transferDone

\* transfer_call: the guard is set before the request, and never reset, not even after a
\* request that could not be made.
TransferCall(r) ==
    /\ IF transferDone THEN AnswerAtOnce(r, "transfer_call", "already_transferred")
                       ELSE SendRequest(r, "transfer_call")
    /\ transferDone' = TRUE

\* hangup_call, play_audio_file and send_dtmf: the last two also answer with an error when
\* their argument is missing.
OtherCall(r, name) == SendRequest(r, name) /\ UNCHANGED transferDone

\* The language model calls a tool it was shown.
CallTool(r) ==
    /\ tool[r].at = "free"
    /\ \E name \in SchemasForTools \cap Registered :
          IF name = "transfer_call" THEN TransferCall(r) ELSE OtherCall(r, name)

\* Seeded defect: no timeout, so that only an answer ends the wait.
OutcomesAnswered(effect) ==
    CASE effect = "done"    -> {"2xx", "ClientError", "raised"}
      [] effect = "refused" -> {"4xx", "ClientError", "raised"}
      [] OTHER              -> {}

\* What send_command can come back with: the status of the answer, or 500 for a broken
\* connection (ClientError), or an exception (a timeout, a session that was closed),
\* the last two whether or not Asterisk executed the request.
Outcomes(effect) ==
    {"ClientError", "raised"} \cup (CASE effect = "done"    -> {"2xx"}
                                      [] effect = "refused" -> {"4xx"}
                                      [] OTHER              -> {})

\* Seeded defect: the status itself is handed to the model.
ResultRaw(name, outcome) ==
    CASE outcome = "raised" -> "error"
      [] name = "transfer_call" /\ outcome \in {"4xx", "ClientError"} -> outcome
      [] OTHER -> "ok"

\* continue_in_dialplan reads the status; the other handlers do not.
Result(name, outcome) ==
    CASE outcome = "raised" -> "error"
      [] name = "transfer_call" /\ outcome \in {"4xx", "ClientError"} -> "failed"
      [] OTHER -> "ok"

\* The request comes back and the model is told.
Reply(r) ==
    /\ tool[r].at = "sent"
    /\ \E outcome \in Outcomes(tool[r].effect) :
          tool' = [tool EXCEPT ![r].at = "answered", ![r].told = Result(tool[r].name, outcome)]
    /\ UNCHANGED transferDone

\* PipeCat cancels the handlers that wait: the model is told nothing.
Dropped == [r \in Requests |-> IF tool[r].at = "sent" THEN [tool[r] EXCEPT !.at = "dropped"]
                                                      ELSE tool[r]]
NoneInFlight == \A r \in Requests : tool[r].at # "sent"
CallsMade == Cardinality({r \in Requests : tool[r].at # "free"})

-----------------------------------------------------------------------------
(* Asterisk                                                                *)

\* A request is executed or refused (no such channel, not in the application), also one
\* whose handler no longer waits for it.
Executes(r) ==
    /\ tool[r].effect = "pending"
    /\ \E effect \in {"done", "refused"} : tool' = [tool EXCEPT ![r].effect = effect]
    /\ UNCHANGED transferDone

=============================================================================
