--------------------------- MODULE RelayDelivery ---------------------------
(***************************************************************************)
(* The relay of src/src/relayDelivery.ts: a notice that a Job has ended or *)
(* asks something is sent to the conversation by a card (relayCard.ts),    *)
(* which claims the notice, enters, sends and acknowledges.  Every store   *)
(* operation is one SQLite transaction.  Cards mount, replace each other   *)
(* and vanish; their calls may be repeated, delayed or answered to nobody. *)
(*                                                                         *)
(* One Activity and one Job.  A notice is named by what it is about: an    *)
(* input the Job asks for, or its end.                                     *)
(***************************************************************************)
EXTENDS Integers, FiniteSets, Absence

CONSTANTS
    Inputs,       \* sets of questions the Job may ask
    Cards,        \* mounted cards
    CardAttempts, \* attempt ids, 1..n: a card draws a new one for each delivery
    Waits,        \* direct waits of the model
    Lease,        \* 30 s
    Retry,        \* 2 s, times the attempts made
    Grace,        \* DIRECT_WAIT_GRACE_MS
    Review,       \* RESULT_REVIEW_GRACE_MS
    MaxTries,     \* attempts before a retryable rejection is final (3)
    MaxClaims,    \* bound on the claims of one event
    MaxReviews,   \* bound: 0 or 1 results are offered for review
    MaxRelayTime  \* bound on the clock

Ended == "completed"
Notices == Inputs \cup {Ended}

RelayEvents ==
    [notice : Notices, state : {"pending", "leased", "sending", "accepted", "unknown", "rejected"},
     attempt : CardAttempts \cup {None}, card : Cards \cup {None},
     leaseUntil : Nat, attempts : Nat, retryAt : Nat]

ASSUME RelayAssumption ==
    /\ None \notin RelayEvents
    /\ CardAttempts \cup {Lease, Retry, Grace, Review, MaxTries, MaxClaims, MaxReviews, MaxRelayTime} \subseteq Nat
    /\ None \notin Notices \cup Cards
    /\ Ended \notin Inputs

VARIABLES
    jobRow,        \* what the Job's row asks for: None, an input or its end
    connected,  \* trackingState of the row
    goal,       \* the Activity's card and stops
    event,      \* record.event, or None
    paused,     \* record.paused
    history,    \* archived events, by notice
    ready,      \* readyKey of the current event exists
    deferredUntil, \* deferredUntil, or 0
    waits,      \* directWaits: wait -> until (0: none)
    review,     \* resultReview: until (0: none)
    resultOffer,   \* resultOffer is recorded
    relayTime,     \* Date.now
    cardCalls      \* attempt -> what its card did with it

relayVars == <<jobRow, connected, goal, event, paused, history, ready, deferredUntil, waits, review,
               resultOffer, relayTime, cardCalls>>
record == <<event, paused, history, ready, deferredUntil>>
holds == <<waits, review, resultOffer>>

NewEvent(n) == [notice |-> n, state |-> "pending", attempt |-> None, card |-> None,
                leaseUntil |-> 0, attempts |-> 0, retryAt |-> 0]
Unused == [card |-> None, notice |-> None, phase |-> "new", granted |-> FALSE, outcome |-> None]

RelayInit ==
    /\ jobRow = None /\ connected = TRUE
    /\ goal = [card |-> None, silent |-> FALSE]
    /\ event = None /\ paused = FALSE /\ history = [n \in Notices |-> None]
    /\ ready = FALSE /\ deferredUntil = 0
    /\ waits = [w \in Waits |-> 0] /\ review = 0 /\ resultOffer = FALSE
    /\ relayTime = 0
    /\ cardCalls = [a \in CardAttempts |-> Unused]

-----------------------------------------------------------------------------
Later(a, b) == IF a <= b THEN b ELSE a
Dispatchable == jobRow = Ended \/ connected
Silent == goal.silent

\* heldUntil: the end of the longest hold of a terminal notice.
HeldUntil(e, ws, rv) ==
    IF e.notice # Ended THEN 0
    ELSE CHOOSE t \in {rv, 0} \cup {ws[w] : w \in DOMAIN ws} :
            \A u \in {rv, 0} \cup {ws[w] : w \in DOMAIN ws} : u <= t

\* clearIndex, then index.
IndexedOnce(e, isPaused, ws, rv) ==
    LET open == e # None /\ ~isPaused /\ e.state = "pending"
        until == HeldUntil(e, ws, rv)
    IN  /\ ready' = (open /\ until <= relayTime)
        /\ deferredUntil' = IF open /\ until > relayTime THEN until ELSE 0
Indexed(e, isPaused, ws, rv) ==
    LET open == e # None /\ ~isPaused /\ e.state \in {"pending", "leased"}
        until == HeldUntil(e, ws, rv)
    IN  /\ ready' = (open /\ until <= relayTime)
        /\ deferredUntil' = IF open /\ until > relayTime
                       THEN Later(until, IF e.state = "leased" THEN e.leaseUntil ELSE 0) ELSE 0

\* What reconcileJob makes current: the archived receipt of this notice, or a new event.
RestoredAfresh(n) == NewEvent(n)
Restored(n) == IF history[n] # None THEN history[n] ELSE NewEvent(n)

\* reconcileJob(job), for the row and tracking state r, c.
Reconcile(r, c) ==
    LET same == (event = None /\ r = None) \/ (event # None /\ event.notice = r)
        halted == r # None /\ ~(r = Ended \/ c)
        next == IF same THEN event ELSE IF r = None THEN None ELSE Restored(r)
    IN  IF Silent \/ (same /\ paused = halted)
        THEN UNCHANGED record
        ELSE /\ event' = next
             /\ history' = [n \in Notices |->
                   IF same THEN history[n]
                   ELSE IF n = r THEN None
                   ELSE IF event # None /\ n = event.notice THEN event ELSE history[n]]
             /\ paused' = halted
             /\ Indexed(next, halted, waits, review)

-----------------------------------------------------------------------------
(* The Job *)

\* A progress or terminal write of the row, with its reconciliation.  The end
\* of a question that does not change the Agent's state is not reconciled.
\* An owner that reports is connected; the end of a Job needs none.
JobChanges(r) ==
    /\ jobRow \notin {Ended, r}
    /\ jobRow' = r /\ connected' = TRUE
    /\ \/ Reconcile(r, TRUE)
       \/ r = None /\ UNCHANGED record
    /\ UNCHANGED <<goal, holds, relayTime, cardCalls>>

\* The owner of the Job is lost or found again, and saved.
TrackingChanges ==
    /\ jobRow \in Inputs
    /\ connected' = ~connected
    /\ Reconcile(jobRow, ~connected)
    /\ UNCHANGED <<jobRow, goal, holds, relayTime, cardCalls>>

(* connect(), and the recover() it answers with: one bounded page *)
ConnectCard(c) ==
    /\ ~Silent
    /\ goal' = [goal EXCEPT !.card = c]
    /\ Reconcile(jobRow, connected)
    /\ UNCHANGED <<jobRow, connected, holds, relayTime, cardCalls>>

(* stop() and endActivity(): monitoringStopped and ended are asked for together *)
StopRelay ==
    /\ ~Silent
    /\ goal' = [goal EXCEPT !.silent = TRUE]
    /\ UNCHANGED <<jobRow, connected, record, holds, relayTime, cardCalls>>

-----------------------------------------------------------------------------
(* Holds: the model itself waits for, or has reviewed, the result *)

BeginDirectWait(w) ==
    /\ jobRow # Ended /\ ~Silent
    /\ waits[w] <= relayTime
    /\ \E ms \in 0 .. 1 : waits' = [waits EXCEPT ![w] = relayTime + ms + Grace]
    /\ Indexed(event, paused, waits', review)
    /\ UNCHANGED <<jobRow, connected, goal, event, paused, history, review, resultOffer, relayTime, cardCalls>>

EndDirectWait(w) ==
    /\ waits[w] > relayTime + Grace
    /\ waits' = [waits EXCEPT ![w] = relayTime + Grace]
    /\ Indexed(event, paused, waits', review)
    /\ UNCHANGED <<jobRow, connected, goal, event, paused, history, review, resultOffer, relayTime, cardCalls>>

OfferResult ==
    /\ jobRow = Ended /\ event # None /\ event.notice = Ended
    /\ ~Silent /\ ~resultOffer /\ MaxReviews > 0
    /\ resultOffer' = TRUE
    /\ UNCHANGED <<jobRow, connected, goal, record, waits, review, relayTime, cardCalls>>

ReviewResult ==
    /\ resultOffer /\ ~Silent
    /\ review = 0
    /\ review' = relayTime + Review
    /\ Indexed(event, paused, waits, review')
    /\ UNCHANGED <<jobRow, connected, goal, event, paused, history, waits, resultOffer, relayTime, cardCalls>>

-----------------------------------------------------------------------------
(* The store's side of a delivery *)

\* requireCurrentEvent
CurrentEvent(n) == event # None /\ event.notice = n /\ jobRow = n /\ Dispatchable

\* pending(): what a card is told of.
Due(e) ==
    \/ e.state = "pending" /\ e.retryAt <= relayTime
    \/ e.state = "leased" /\ (e.leaseUntil <= relayTime \/ e.card # goal.card)
ListPending ==
    /\ ~Silent /\ event # None /\ CurrentEvent(event.notice)
    /\ ready \/ (deferredUntil > 0 /\ deferredUntil <= relayTime)
    /\ HeldUntil(event, waits, review) <= relayTime
    /\ Due(event)

Claims(a) ==
    /\ ~Silent /\ goal.card = cardCalls[a].card
    /\ CurrentEvent(cardCalls[a].notice)
    /\ event.attempt # a
    /\ ListPending

LeasedTo(a) == [event EXCEPT !.state = "leased", !.card = cardCalls[a].card, !.attempt = a,
                           !.leaseUntil = relayTime + Lease, !.attempts = @ + 1]

Enters(a) ==
    /\ ~Silent /\ goal.card = cardCalls[a].card
    /\ CurrentEvent(cardCalls[a].notice)
    /\ event.card = cardCalls[a].card /\ event.attempt = a
    /\ event.state = "leased" /\ event.leaseUntil > relayTime
    /\ HeldUntil(event, waits, review) <= relayTime

\* acknowledge(): the state an outcome leads to.
AfterOutcome(outcome) ==
    CASE outcome = "accepted" -> "accepted"
      [] outcome = "unknown" -> "unknown"
      [] outcome = "not-sent" -> "pending"
      [] outcome = "retryable-rejection" /\ event.attempts < MaxTries -> "pending"
      [] OTHER -> "rejected"
Acknowledges(a, outcome) ==
    /\ ~Silent
    /\ event # None /\ event.notice = cardCalls[a].notice
    /\ event.attempt = a /\ event.card = cardCalls[a].card
    /\ IF outcome = "not-sent" THEN event.state = "leased" ELSE event.state = "sending"

-----------------------------------------------------------------------------
(* A card's delivery, and the calls it makes *)

Step(a, phase) == cardCalls' = [cardCalls EXCEPT ![a].phase = phase]

\* deliver(): a new attempt for a notice the card was told of.
Start(a, c) ==
    /\ cardCalls[a].phase = "new" /\ \A b \in CardAttempts : b < a => cardCalls[b].phase # "new"
    /\ goal.card = c /\ ListPending
    /\ cardCalls' = [cardCalls EXCEPT ![a] = [Unused EXCEPT !.card = c, !.notice = event.notice, !.phase = "claiming"]]
    /\ UNCHANGED <<jobRow, connected, goal, record, holds, relayTime>>

\* claim, the first time or again, and after its card went on.
Claim(a) ==
    /\ cardCalls[a].phase # "new"
    /\ Claims(a)
    /\ event.attempts < MaxClaims
    /\ event' = LeasedTo(a)
    /\ Indexed(LeasedTo(a), paused, waits, review)
    /\ UNCHANGED <<jobRow, connected, goal, paused, history, holds, relayTime, cardCalls>>

\* The card reads the answer to its claim: it holds the lease, or gives up.
GetClaim(a) ==
    /\ cardCalls[a].phase = "claiming"
    /\ \/ event # None /\ event.attempt = a /\ event.state = "leased" /\ Step(a, "entering")
       \/ Step(a, "gone")
    /\ UNCHANGED <<jobRow, connected, goal, record, holds, relayTime>>

\* enter is called once.  Its answer may reach nobody: then nothing is sent.
EnterUnsaved(a) ==
    /\ cardCalls[a].phase = "entering"
    /\ IF Enters(a)
       THEN cardCalls' = [cardCalls EXCEPT ![a].phase = "sending", ![a].granted = TRUE]
       ELSE Step(a, "gone")
    /\ UNCHANGED <<jobRow, connected, goal, record, holds, relayTime>>
Enter(a) ==
    /\ cardCalls[a].phase = "entering"
    /\ IF Enters(a)
       THEN /\ event' = [event EXCEPT !.state = "sending"]
            /\ ready' = FALSE /\ deferredUntil' = 0
            /\ \/ cardCalls' = [cardCalls EXCEPT ![a].phase = "sending", ![a].granted = TRUE]
               \/ Step(a, "gone")
       ELSE Step(a, "gone") /\ UNCHANGED <<event, ready, deferredUntil>>
    /\ UNCHANGED <<jobRow, connected, goal, paused, history, holds, relayTime>>

\* The host answers, or the card is unmounted before it sent.
SendMessage(a) ==
    /\ cardCalls[a].phase = "sending"
    /\ \E o \in {"accepted", "unknown", "rejected", "retryable-rejection"} :
          cardCalls' = [cardCalls EXCEPT ![a].phase = "sent", ![a].outcome = o]
    /\ UNCHANGED <<jobRow, connected, goal, record, holds, relayTime>>
Unmount(a) ==
    /\ cardCalls[a].phase = "entering"
    /\ cardCalls' = [cardCalls EXCEPT ![a].phase = "sent", ![a].outcome = "not-sent"]
    /\ UNCHANGED <<jobRow, connected, goal, record, holds, relayTime>>

\* ack, the first time or again.
Ack(a) ==
    /\ cardCalls[a].phase = "sent"
    /\ Acknowledges(a, cardCalls[a].outcome)
    /\ LET state == AfterOutcome(cardCalls[a].outcome)
           next == [event EXCEPT !.state = state,
                       !.retryAt = IF state = "pending" THEN relayTime + Retry * event.attempts ELSE @]
       IN  event' = next /\ Indexed(next, paused, waits, review)
    /\ UNCHANGED <<jobRow, connected, goal, paused, history, holds, relayTime, cardCalls>>

RelayTick ==
    /\ relayTime < MaxRelayTime /\ relayTime' = relayTime + 1
    /\ UNCHANGED <<jobRow, connected, goal, record, holds, cardCalls>>

RelayNext ==
    \/ \E r \in Notices \cup {None} : JobChanges(r)
    \/ TrackingChanges
    \/ \E c \in Cards : ConnectCard(c)
    \/ StopRelay
    \/ \E w \in Waits : BeginDirectWait(w) \/ EndDirectWait(w)
    \/ OfferResult \/ ReviewResult
    \/ \E a \in CardAttempts, c \in Cards : Start(a, c)
    \/ \E a \in CardAttempts : Claim(a) \/ GetClaim(a) \/ Enter(a) \/ SendMessage(a) \/ Unmount(a) \/ Ack(a)
    \/ RelayTick

RelaySpec == RelayInit /\ [][RelayNext]_relayVars

-----------------------------------------------------------------------------
\* A notice reaches the conversation at most once: two attempts that were let
\* in are for different notices, or the host has proved that one of them was
\* not delivered.  Leases expire, cards replace each other, questions are
\* withdrawn and asked again, calls are late (docs/relay-delivery.md).
SentOnce ==
    \A a, b \in CardAttempts :
        a # b /\ cardCalls[a].granted /\ cardCalls[b].granted /\ cardCalls[a].notice = cardCalls[b].notice =>
            "retryable-rejection" \in {cardCalls[a].outcome, cardCalls[b].outcome}

\* What may be delivered is told to the card: an event that waits for a card
\* is in one of the two indexes, under a time that has come, after any order
\* of holds, leases, pauses and archived receipts.
DueIsIndexed ==
    /\ event # None /\ ~paused
    /\ HeldUntil(event, waits, review) <= relayTime
    /\ event.state = "pending" \/ (event.state = "leased" /\ event.leaseUntil <= relayTime)
    => ready \/ (deferredUntil > 0 /\ deferredUntil <= relayTime)

\* A notice that was withdrawn and comes back is not the older one's second
\* chance: a receipt never loses an attempt it has counted (reconcileJob
\* archives on identity changes only).
Receipt(n) == IF event # None /\ event.notice = n THEN event ELSE history[n]
ReceiptKept ==
    [][\A n \in DOMAIN history : Receipt(n) # None =>
          /\ Receipt(n)' # None
          /\ Receipt(n)'.attempts >= Receipt(n).attempts
          /\ Receipt(n).state \in {"accepted", "unknown", "rejected"} => Receipt(n)'.state = Receipt(n).state
      ]_relayVars
=============================================================================
