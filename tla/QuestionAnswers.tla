-------------------------- MODULE QuestionAnswers --------------------------
(***************************************************************************)
(* codex_answer of src/src/questionTools.ts, its journal in                *)
(* questionStore.ts and the way of an answer through tools.ts and          *)
(* executionServiceProcess.ts to the pending interaction of the worker     *)
(* (appServerUpstream.ts).  The caller may repeat a request that was       *)
(* certainly not sent, and no other.                                       *)
(*                                                                         *)
(* One ordinary question of one running Job.  A request is named by its    *)
(* requestId; the hash of a request is the answer it carries.              *)
(***************************************************************************)
EXTENDS Integers, Absence

CONSTANTS
    Requests,   \* ids the caller uses
    Choices,    \* what it may answer
    MaxPrunes   \* bound on the removals of an old row

Statuses == {"dispatching", "not-delivered", "delivered", "uncertain"}
Deliveries == [request : Requests, answer : Choices, status : Statuses]
Answerings == [answer : Choices, at : {"refused", "sent", "taken", "failed"}]
SentAnswers == [request : Requests, answer : Choices]

ASSUME AnswerAssumption ==
    /\ None \notin Choices \cup Deliveries \cup Answerings
    /\ MaxPrunes \in Nat

VARIABLES
    delivery,   \* the row of codex_question_deliveries for this question, or None
    answering,  \* inFlight: how far the operation of a request is, or None
    wire,       \* sends the worker has not seen
    submitted,  \* the answer the pending interaction was given (answered), or None
    asking,     \* the worker's turn has the interaction pending
    shown,      \* job.pendingInteractions has the question and its Job is running and connected
    controlled, \* the project is active and the bridge can reach the original execution
    sends,      \* how many answers were sent
    prunes      \* how many rows were removed

answerVars == <<delivery, answering, wire, submitted, asking, shown, controlled, sends, prunes>>

QuestionsTypeOK ==
    /\ delivery \in Deliveries \cup {None}
    /\ answering \in [Requests -> Answerings \cup {None}]
    /\ wire \subseteq SentAnswers
    /\ submitted \in Choices \cup {None}
    /\ asking \in BOOLEAN /\ shown \in BOOLEAN /\ controlled \in BOOLEAN
    /\ sends \in Nat /\ prunes \in Nat

QuestionsInit ==
    /\ delivery = None /\ submitted = None /\ wire = {} /\ sends = 0 /\ prunes = 0
    /\ answering = [r \in Requests |-> None]
    /\ asking = TRUE /\ shown = TRUE /\ controlled = TRUE

ResumableAnyway(r, x) ==
    delivery # None => delivery.request = r /\ delivery.answer = x /\ delivery.status \in {"not-delivered", "uncertain"}

\* A question has one row: only the request that was not delivered may go on with it.
Resumable(r, x) ==
    delivery # None => delivery = [request |-> r, answer |-> x, status |-> "not-delivered"]

\* resolveInteraction: an answer the Job cannot take any more is refused before the send.
Dispatches(r, x) ==
    /\ answering' = [answering EXCEPT ![r] = [answer |-> x, at |-> IF controlled THEN "sent" ELSE "refused"]]
    /\ wire' = IF controlled THEN wire \cup {[request |-> r, answer |-> x]} ELSE wire
    /\ sends' = IF controlled THEN sends + 1 ELSE sends

\* From the call to the send nothing is awaited.  A repetition of a request in flight joins it.
AnswerQuestion(r, x) ==
    /\ answering[r] = None
    /\ Resumable(r, x)
    /\ shown
    /\ delivery' = [request |-> r, answer |-> x, status |-> "dispatching"]
    /\ Dispatches(r, x)
    /\ UNCHANGED <<submitted, asking, shown, controlled, prunes>>

\* The interaction takes one answer; a later one fails, and so does one that finds it gone.
Receive(m) ==
    /\ m \in wire
    /\ wire' = wire \ {m}
    /\ LET taken == asking /\ submitted = None
       IN /\ submitted' = IF taken THEN m.answer ELSE submitted
          /\ answering' = [r \in Requests |->
                           IF r = m.request /\ answering[r] = [answer |-> m.answer, at |-> "sent"]
                           THEN [answering[r] EXCEPT !.at = IF taken THEN "taken" ELSE "failed"]
                           ELSE answering[r]]
    /\ UNCHANGED <<delivery, asking, shown, controlled, sends, prunes>>

\* The link to the execution owner ends before the reply arrives; what was sent may still arrive.
LinkFails(r) ==
    /\ answering[r] # None /\ answering[r].at \in {"sent", "taken"}
    /\ answering' = [answering EXCEPT ![r].at = "failed"]
    /\ UNCHANGED <<delivery, wire, submitted, asking, shown, controlled, sends, prunes>>

RecordableGuess(at) ==
    CASE at = "taken" -> {"delivered", "uncertain", "dispatching"}
      [] at \in {"refused", "failed"} -> {"not-delivered", "uncertain", "dispatching"}

\* finishDelivery: a status that cannot be written falls back to uncertain, and that to the intent.
Recordable(at) ==
    CASE at = "taken" -> {"delivered", "uncertain", "dispatching"}
      [] at = "refused" -> {"not-delivered", "uncertain", "dispatching"}
      [] at = "failed" -> {"uncertain", "dispatching"}

Finish(r) ==
    /\ answering[r] # None /\ answering[r].at # "sent"
    /\ \E status \in Recordable(answering[r].at) : delivery' = [delivery EXCEPT !.status = status]
    /\ shown' = (shown /\ answering[r].at # "taken")
    /\ answering' = [answering EXCEPT ![r] = None]
    /\ UNCHANGED <<wire, submitted, asking, controlled, sends, prunes>>

\* Progress carries the interactions that are pending, and an event of the question brings it back.
Progress ==
    /\ shown' = (asking /\ submitted = None)
    /\ shown' # shown
    /\ UNCHANGED <<delivery, answering, wire, submitted, asking, controlled, sends, prunes>>

\* The turn ends, or the App Server resolves the question itself.
QuestionEnds ==
    /\ asking
    /\ asking' = FALSE
    /\ UNCHANGED <<delivery, answering, wire, submitted, shown, controlled, sends, prunes>>

\* The project is archived or restored, the execution owner lost or found.
ControlChanges ==
    /\ controlled' = ~controlled
    /\ UNCHANGED <<delivery, answering, wire, submitted, asking, shown, sends, prunes>>

\* The owner and its worker outlive the bridge; the Job comes back as its last saved row has it.
BridgeReturns ==
    /\ answering' = [r \in Requests |-> None]
    /\ delivery' = IF delivery # None /\ delivery.status = "dispatching"
                   THEN [delivery EXCEPT !.status = "uncertain"] ELSE delivery
    /\ shown' \in BOOLEAN
    /\ <<answering', delivery', shown'>> # <<answering, delivery, shown>>
    /\ UNCHANGED <<wire, submitted, asking, controlled, sends, prunes>>

\* The history policy removes delivered rows that are old enough.
Prune ==
    /\ prunes < MaxPrunes
    /\ delivery # None /\ delivery.status = "delivered"
    /\ delivery' = None
    /\ prunes' = prunes + 1
    /\ UNCHANGED <<answering, wire, submitted, asking, shown, controlled, sends>>

QuestionsNext ==
    \/ \E r \in Requests, x \in Choices : AnswerQuestion(r, x)
    \/ \E m \in wire : Receive(m)
    \/ \E r \in Requests : LinkFails(r) \/ Finish(r)
    \/ Progress \/ QuestionEnds \/ ControlChanges \/ BridgeReturns \/ Prune

QuestionsSpec == QuestionsInit /\ [][QuestionsNext]_answerVars

(***************************************************************************)
(* Properties                                                              *)
(***************************************************************************)

\* What a row says of an answer is true, whatever was lost, refused or cut off by a restart: while it
\* allows the request to be repeated nothing was sent under it, once it says delivered the worker was
\* given this answer and no other, and as long as it is kept an answer is sent at most once
\* (codex_answer and beginDelivery; questionTools.ts says uncertain delivery must never be resent).
DeliveryIsTrue ==
    /\ sends <= prunes + 1
    /\ delivery # None =>
        /\ delivery.status = "not-delivered" => sends = prunes
        /\ delivery.status = "delivered" => submitted = delivery.answer
=============================================================================
