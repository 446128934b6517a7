---------------------------- MODULE DeliveryProofs ----------------------------
(* The theorems of RelayDelivery and of QuestionAnswers. *)
EXTENDS RelayDelivery, QuestionAnswers, WellFoundedInduction, TLAPS

------------------------------------------------------------------------------
(* The theorems of RelayDelivery: a notice is let into the conversation once, *)
(* and its receipt keeps what it has counted.  The receipt of a notice is the *)
(* current event or an archived one, and names the attempt that was let in.   *)

--------------------------------------------------------------------------
(* The inductive invariant *)

Outcomes == {"accepted", "unknown", "rejected", "retryable-rejection", "not-sent"}
CardCalls ==
    [card : Cards \cup {None}, notice : Notices \cup {None},
     phase : {"new", "claiming", "entering", "sending", "sent", "gone"},
     granted : BOOLEAN, outcome : Outcomes \cup {None}]

RelayTypeOK ==
    /\ jobRow \in Notices \cup {None}
    /\ goal \in [card : Cards \cup {None}, silent : BOOLEAN]
    /\ event \in RelayEvents \cup {None}
    /\ history \in [Notices -> RelayEvents \cup {None}]
    /\ relayTime \in Nat
    /\ cardCalls \in [CardAttempts -> CardCalls]

\* An archived receipt is kept under its own notice.
HistoryIsNamed == \A n \in Notices : history[n] # None => history[n].notice = n

\* An attempt that was let in is the one its receipt names, and that receipt is
\* not open again, unless the host has proved the message was not delivered.
LetIn == {"sending", "accepted", "unknown", "rejected"}
Holding(a) ==
    cardCalls[a].granted /\ ~(cardCalls[a].phase = "sent" /\ cardCalls[a].outcome = "retryable-rejection")
Receipted(n, a) == Receipt(n) # None /\ Receipt(n).attempt = a /\ Receipt(n).state \in LetIn
GrantIsReceipted ==
    \A a \in CardAttempts : Holding(a) => \E n \in Notices : cardCalls[a].notice = n /\ Receipted(n, a)

RelayInv == RelayTypeOK /\ HistoryIsNamed /\ GrantIsReceipted

--------------------------------------------------------------------------
(* Receipts *)

LEMMA NoneIsNoEvent == None \notin RelayEvents /\ None \notin Notices
BY RelayAssumption

LEMMA NewEvents == ASSUME NEW n \in Notices PROVE NewEvent(n) \in RelayEvents /\ NewEvent(n).notice = n
BY DEF NewEvent, RelayEvents

\* reconcileJob moves receipts between the record and its history, and makes
\* at most a new one (112).
LEMMA ReconcileKeeps ==
    ASSUME RelayTypeOK, HistoryIsNamed, NEW r \in Notices \cup {None}, NEW c, Reconcile(r, c)
    PROVE  /\ event' \in RelayEvents \cup {None} /\ history' \in [Notices -> RelayEvents \cup {None}]
           /\ HistoryIsNamed'
           /\ \A n \in Notices : Receipt(n) # None => Receipt(n)' = Receipt(n)
<1> DEFINE same == (event = None /\ r = None) \/ (event # None /\ event.notice = r)
<1>1. CASE UNCHANGED record
  <2>1. event' = event /\ history' = history BY <1>1 DEF record
  <2> QED BY <2>1 DEF RelayTypeOK, HistoryIsNamed, Receipt
<1>2. CASE ~UNCHANGED record
  <2>1. /\ event' = IF same THEN event ELSE IF r = None THEN None ELSE Restored(r)
        /\ history' = [n \in Notices |->
                          IF same THEN history[n]
                          ELSE IF n = r THEN None
                          ELSE IF event # None /\ n = event.notice THEN event ELSE history[n]]
        BY <1>2 DEF Reconcile
  <2>2. CASE same
    <3>1. event' = event /\ history' = history BY <2>1, <2>2 DEF RelayTypeOK
    <3> QED BY <3>1 DEF RelayTypeOK, HistoryIsNamed, Receipt
  <2>3. CASE ~same
    <3>1. event' = IF r = None THEN None ELSE Restored(r) BY <2>1, <2>3
    <3>2. \A n \in Notices :
              history'[n] = IF n = r THEN None
                            ELSE IF event # None /\ n = event.notice THEN event ELSE history[n]
          BY <2>1, <2>3
    <3>3. event # None => event \in RelayEvents /\ event.notice \in Notices /\ event.notice # r
          BY <2>3 DEF RelayTypeOK, RelayEvents
    <3>4. r # None => r \in Notices /\ Restored(r) \in RelayEvents /\ Restored(r).notice = r
                      /\ (history[r] # None => Restored(r) = history[r])
          BY NewEvents DEF Restored, RelayTypeOK, HistoryIsNamed
    <3>5. event' \in RelayEvents \cup {None} BY <3>1, <3>4
    <3>6. history' \in [Notices -> RelayEvents \cup {None}]
          BY <2>1, <2>3, <3>3 DEF RelayTypeOK
    <3>7. HistoryIsNamed' BY <3>2 DEF HistoryIsNamed
    <3>8. ASSUME NEW n \in Notices, Receipt(n) # None PROVE Receipt(n)' = Receipt(n)
      <4>1. CASE n = r
        <5>1. Receipt(n) = history[n] /\ history[n] # None BY <3>8, <3>3, <4>1 DEF Receipt
        <5>2. event' = history[n] /\ event'.notice = n /\ event' # None
              BY <4>1, <5>1, <3>1, <3>4, NoneIsNoEvent
        <5> QED BY <5>1, <5>2 DEF Receipt
      <4>2. CASE n # r
        <5>1. event' = None \/ event'.notice # n BY <3>1, <3>4, <4>2
        <5>2. Receipt(n)' = history'[n] BY <5>1 DEF Receipt
        <5>3. history'[n] = Receipt(n) BY <3>2, <4>2 DEF Receipt
        <5> QED BY <5>2, <5>3
      <4> QED BY <4>1, <4>2
    <3> QED BY <3>5, <3>6, <3>7, <3>8
  <2> QED BY <2>2, <2>3
<1> QED BY <1>1, <1>2

\* A step that keeps every receipt there is and lets nobody in keeps the invariant.
LEMMA ReceiptsKept ==
    ASSUME RelayInv, RelayTypeOK', HistoryIsNamed',
           \A n \in Notices : Receipt(n) # None => Receipt(n)' = Receipt(n),
           \A a \in CardAttempts : Holding(a)' => Holding(a) /\ cardCalls'[a].notice = cardCalls[a].notice
    PROVE  RelayInv'
<1>1. \A n \in Notices, a \in CardAttempts : Receipted(n, a) => Receipted(n, a)'
      BY DEF Receipted
<1>2. GrantIsReceipted'
      BY <1>1 DEF RelayInv, GrantIsReceipted
<1> QED BY <1>2 DEF RelayInv

LEMMA ReconcilingStep ==
    ASSUME RelayInv, NEW r \in Notices \cup {None}, NEW c, Reconcile(r, c),
           jobRow' \in Notices \cup {None}, goal' \in [card : Cards \cup {None}, silent : BOOLEAN],
           UNCHANGED <<relayTime, cardCalls>>
    PROVE  RelayInv'
<1>1. /\ event' \in RelayEvents \cup {None} /\ history' \in [Notices -> RelayEvents \cup {None}]
      /\ HistoryIsNamed'
      /\ \A n \in Notices : Receipt(n) # None => Receipt(n)' = Receipt(n)
      BY ReconcileKeeps DEF RelayInv
<1>2. RelayTypeOK' BY <1>1 DEF RelayInv, RelayTypeOK
<1>3. \A a \in CardAttempts : Holding(a)' => Holding(a) /\ cardCalls'[a].notice = cardCalls[a].notice
      BY DEF Holding
<1> QED BY <1>1, <1>2, <1>3, ReceiptsKept

\* The card's own steps, the clock and the holds leave every receipt alone.
LEMMA QuietStep ==
    ASSUME RelayInv, RelayTypeOK', UNCHANGED <<event, history>>,
           \A a \in CardAttempts : Holding(a)' => Holding(a) /\ cardCalls'[a].notice = cardCalls[a].notice
    PROVE  RelayInv'
<1>1. HistoryIsNamed' BY DEF RelayInv, HistoryIsNamed
<1>2. \A n \in Notices : Receipt(n)' = Receipt(n) BY DEF Receipt
<1> QED BY <1>1, <1>2, ReceiptsKept

\* The store moves the current event on, without touching the others.
LEMMA EventMoves ==
    ASSUME RelayInv, event # None, NEW e \in RelayEvents, e.notice = event.notice, event' = e,
           UNCHANGED <<jobRow, goal, history, relayTime>>, cardCalls' \in [CardAttempts -> CardCalls],
           \A a \in CardAttempts : Holding(a)' =>
              \/ /\ Holding(a) /\ cardCalls'[a].notice = cardCalls[a].notice
                 /\ cardCalls[a].notice = event.notice => e.attempt = event.attempt /\ e.state \in LetIn
              \/ cardCalls'[a].notice = event.notice /\ e.attempt = a /\ e.state \in LetIn
    PROVE  RelayInv'
<1>1. RelayTypeOK' BY DEF RelayInv, RelayTypeOK
<1>2. HistoryIsNamed' BY DEF RelayInv, HistoryIsNamed
<1>3. event.notice \in Notices /\ e # None BY NoneIsNoEvent DEF RelayInv, RelayTypeOK, RelayEvents
<1>4. \A n \in Notices : n # event.notice => Receipt(n)' = Receipt(n)
      BY <1>3 DEF Receipt
<1>5. Receipt(event.notice) = event BY DEF Receipt
<1>6. \A n \in Notices : n = event.notice => Receipt(n)' = e
  <2>1. event'.notice = event.notice /\ event' # None BY <1>3
  <2> QED BY <2>1 DEF Receipt
<1>7. GrantIsReceipted'
  <2> SUFFICES ASSUME NEW a \in CardAttempts, Holding(a)'
               PROVE  \E n \in Notices : cardCalls'[a].notice = n /\ Receipted(n, a)'
      BY DEF GrantIsReceipted
  <2>1. CASE /\ Holding(a) /\ cardCalls'[a].notice = cardCalls[a].notice
             /\ cardCalls[a].notice = event.notice => e.attempt = event.attempt /\ e.state \in LetIn
    <3>1. PICK n \in Notices : cardCalls[a].notice = n /\ Receipted(n, a)
          BY <2>1 DEF RelayInv, GrantIsReceipted
    <3>2. CASE n = event.notice
      <4>1. event.attempt = a /\ e.attempt = a /\ e.state \in LetIn BY <3>1, <3>2, <1>5, <2>1 DEF Receipted
      <4>2. Receipt(n)' = e BY <3>2, <1>6
      <4> QED BY <4>1, <4>2, <3>1, <2>1, <1>3 DEF Receipted
    <3>3. CASE n # event.notice
      <4>1. Receipted(n, a)' BY <3>1, <3>3, <1>4 DEF Receipted
      <4> QED BY <4>1, <3>1, <2>1
    <3> QED BY <3>2, <3>3
  <2>2. CASE cardCalls'[a].notice = event.notice /\ e.attempt = a /\ e.state \in LetIn
    <3> DEFINE n == event.notice
    <3>1. n \in Notices /\ cardCalls'[a].notice = n BY <2>2, <1>3
    <3>2. ASSUME NEW m \in Notices, m = event.notice PROVE Receipted(m, a)'
          BY <3>2, <1>3, <1>6, <2>2 DEF Receipted
    <3> QED BY <3>1, <3>2
  <2> QED BY <2>1, <2>2
<1> QED BY <1>1, <1>2, <1>7 DEF RelayInv

--------------------------------------------------------------------------
(* The store's side of a delivery *)

\* An attempt that holds the current event has left it neither pending nor leased.
LEMMA OpenIsUnheld ==
    ASSUME RelayInv, event # None, NEW a \in CardAttempts, Holding(a), cardCalls[a].notice = event.notice
    PROVE  event.attempt = a /\ event.state \in LetIn
BY DEF RelayInv, GrantIsReceipted, Receipted, Receipt

\* What a claim and an acknowledgement make of the current event.
LEMMA Leases ==
    ASSUME RelayInv, event # None, NEW a \in CardAttempts
    PROVE  /\ LeasedTo(a) \in RelayEvents /\ LeasedTo(a).notice = event.notice
           /\ LeasedTo(a).attempts = event.attempts + 1 /\ event.attempts \in Nat
<1> DEFINE until == relayTime + Lease
           made == event.attempts + 1
           card == cardCalls[a].card
<1>1. event \in RelayEvents /\ relayTime \in Nat /\ card \in Cards \cup {None}
      BY DEF RelayInv, RelayTypeOK, CardCalls
<1>2. until \in Nat /\ made \in Nat BY <1>1, RelayAssumption DEF RelayEvents
<1>3. LeasedTo(a) = [event EXCEPT !.state = "leased", !.card = card, !.attempt = a,
                                  !.leaseUntil = until, !.attempts = made]
      BY DEF LeasedTo
<1>4. event.attempts \in Nat /\ made = event.attempts + 1 BY <1>1 DEF RelayEvents
<1> HIDE DEF until, made, card
<1> QED BY <1>1, <1>2, <1>3, <1>4 DEF RelayEvents

LEMMA Acknowledged ==
    ASSUME RelayInv, NEW a \in CardAttempts, Ack(a)
    PROVE  /\ event # None /\ event' \in RelayEvents /\ event'.notice = event.notice
           /\ event'.attempt = event.attempt /\ event'.state = AfterOutcome(cardCalls[a].outcome)
           /\ event'.attempts = event.attempts /\ event.attempts \in Nat
<1> DEFINE s == AfterOutcome(cardCalls[a].outcome)
           t == IF s = "pending" THEN relayTime + Retry * event.attempts ELSE event.retryAt
<1>1. event # None /\ event' = [event EXCEPT !.state = s, !.retryAt = t]
      BY DEF Ack, Acknowledges
<1>2. event \in RelayEvents /\ relayTime \in Nat BY <1>1 DEF RelayInv, RelayTypeOK
<1>3. s \in {"accepted", "unknown", "pending", "rejected"} BY DEF AfterOutcome
<1>4. t \in Nat
  <2>1. Retry \in Nat /\ event.attempts \in Nat /\ event.retryAt \in Nat
        BY <1>2, RelayAssumption DEF RelayEvents
  <2>2. Retry * event.attempts \in Nat BY <2>1
  <2> HIDE DEF s
  <2> QED BY <2>1, <2>2, <1>2
<1> HIDE DEF s, t
<1> QED BY <1>1, <1>2, <1>3, <1>4 DEF RelayEvents, s

LEMMA ClaimStep == ASSUME RelayInv, NEW a \in CardAttempts, Claim(a) PROVE RelayInv'
<1>1. /\ event # None /\ event.state \in {"pending", "leased"}
      /\ event' = LeasedTo(a) /\ UNCHANGED <<jobRow, goal, history, relayTime, cardCalls>>
      BY DEF Claim, Claims, ListPending, Due
<1>3. LeasedTo(a) \in RelayEvents /\ LeasedTo(a).notice = event.notice BY <1>1, Leases
<1>4. ASSUME NEW b \in CardAttempts, Holding(b)' PROVE Holding(b) /\ cardCalls[b].notice # event.notice
  <2>1. Holding(b) BY <1>1, <1>4 DEF Holding
  <2> QED BY <2>1, <1>1, OpenIsUnheld DEF LetIn
<1>5. cardCalls' \in [CardAttempts -> CardCalls] BY <1>1 DEF RelayInv, RelayTypeOK
<1> QED BY <1>1, <1>3, <1>4, <1>5, EventMoves

\* What a change of one card's call leaves of the others.
LEMMA OneCall ==
    ASSUME RelayTypeOK, NEW a \in CardAttempts, NEW c \in CardCalls, cardCalls' = [cardCalls EXCEPT ![a] = c]
    PROVE  /\ cardCalls' \in [CardAttempts -> CardCalls] /\ cardCalls'[a] = c
           /\ \A b \in CardAttempts : b # a => cardCalls'[b] = cardCalls[b]
BY DEF RelayTypeOK

LEMMA EnteredStep ==
    ASSUME RelayInv, NEW a \in CardAttempts, cardCalls[a].phase = "entering", Enters(a),
           event' = [event EXCEPT !.state = "sending"],
           UNCHANGED <<jobRow, goal, history, relayTime>>,
           \/ cardCalls' = [cardCalls EXCEPT ![a].phase = "sending", ![a].granted = TRUE]
           \/ Step(a, "gone")
    PROVE  RelayInv'
<1> DEFINE e == [event EXCEPT !.state = "sending"]
<1>1. /\ event # None /\ event.state = "leased" /\ event.attempt = a /\ cardCalls[a].notice = event.notice
      BY DEF Enters, CurrentEvent
<1>2. event \in RelayEvents BY <1>1 DEF RelayInv, RelayTypeOK
<1>3. e \in RelayEvents /\ e.notice = event.notice /\ e.attempt = a /\ e.state \in LetIn
      BY <1>1, <1>2 DEF RelayEvents, LetIn
<1>4. cardCalls[a] \in CardCalls BY DEF RelayInv, RelayTypeOK
<1>5. PICK c \in CardCalls : cardCalls' = [cardCalls EXCEPT ![a] = c] /\ c.notice = cardCalls[a].notice
  <2>1. CASE Step(a, "gone")
    <3>1. [cardCalls[a] EXCEPT !.phase = "gone"] \in CardCalls
          /\ [cardCalls[a] EXCEPT !.phase = "gone"].notice = cardCalls[a].notice
          BY <1>4 DEF CardCalls
    <3>2. cardCalls' = [cardCalls EXCEPT ![a] = [cardCalls[a] EXCEPT !.phase = "gone"]]
          BY <2>1 DEF Step, RelayInv, RelayTypeOK
    <3> QED BY <3>1, <3>2
  <2>2. CASE cardCalls' = [cardCalls EXCEPT ![a].phase = "sending", ![a].granted = TRUE]
    <3>1. [cardCalls[a] EXCEPT !.phase = "sending", !.granted = TRUE] \in CardCalls
          /\ [cardCalls[a] EXCEPT !.phase = "sending", !.granted = TRUE].notice = cardCalls[a].notice
          BY <1>4 DEF CardCalls
    <3>2. cardCalls' = [cardCalls EXCEPT ![a] = [cardCalls[a] EXCEPT !.phase = "sending", !.granted = TRUE]]
          BY <2>2 DEF RelayInv, RelayTypeOK
    <3> QED BY <3>1, <3>2
  <2> QED BY <2>1, <2>2
<1>6. /\ cardCalls' \in [CardAttempts -> CardCalls] /\ cardCalls'[a].notice = event.notice
      /\ \A b \in CardAttempts : b # a => cardCalls'[b] = cardCalls[b]
      BY <1>1, <1>5, OneCall DEF RelayInv
<1>7. ASSUME NEW b \in CardAttempts, Holding(b)', b # a
      PROVE  Holding(b) /\ cardCalls'[b].notice = cardCalls[b].notice /\ cardCalls[b].notice # event.notice
  <2>1. Holding(b) /\ cardCalls'[b].notice = cardCalls[b].notice BY <1>6, <1>7 DEF Holding
  <2> QED BY <2>1, <1>1, OpenIsUnheld DEF LetIn
<1> HIDE DEF e
<1>8. event' = e BY DEF e
<1> QED BY <1>1, <1>3, <1>6, <1>7, <1>8, EventMoves

LEMMA AckStep == ASSUME RelayInv, NEW a \in CardAttempts, Ack(a) PROVE RelayInv'
<1> DEFINE o == cardCalls[a].outcome
           e == event'
<1>1. /\ event # None /\ event.attempt = a /\ cardCalls[a].phase = "sent"
      /\ IF o = "not-sent" THEN event.state = "leased" ELSE event.state = "sending"
      /\ UNCHANGED <<jobRow, goal, history, relayTime, cardCalls>>
      BY DEF Ack, Acknowledges
<1>2. /\ e \in RelayEvents /\ e.notice = event.notice /\ e.attempt = event.attempt
      /\ e.state = AfterOutcome(o)
      BY Acknowledged
<1>3. o \notin {"not-sent", "retryable-rejection"} => e.state \in LetIn BY <1>2 DEF AfterOutcome, LetIn
<1>4. ASSUME NEW b \in CardAttempts, Holding(b)'
      PROVE  /\ Holding(b) /\ cardCalls'[b].notice = cardCalls[b].notice
             /\ cardCalls[b].notice = event.notice => e.attempt = event.attempt /\ e.state \in LetIn
  <2>1. Holding(b) BY <1>1, <1>4 DEF Holding
  <2>2. ASSUME cardCalls[b].notice = event.notice PROVE e.state \in LetIn
    <3>1. b = a /\ event.state \in LetIn BY <2>1, <2>2, <1>1, OpenIsUnheld
    <3>2. o # "not-sent" BY <3>1, <1>1 DEF LetIn
    <3>3. o # "retryable-rejection" BY <2>1, <3>1, <1>1 DEF Holding
    <3> QED BY <3>2, <3>3, <1>3
  <2> QED BY <2>1, <2>2, <1>1, <1>2
<1>5. cardCalls' \in [CardAttempts -> CardCalls] BY <1>1 DEF RelayInv, RelayTypeOK
<1> QED BY <1>1, <1>2, <1>4, <1>5, EventMoves

--------------------------------------------------------------------------
(* The card's own steps *)

LEMMA CardStep ==
    ASSUME RelayInv, NEW a \in CardAttempts, NEW c \in CardCalls, cardCalls' = [cardCalls EXCEPT ![a] = c],
           UNCHANGED <<jobRow, goal, event, history, relayTime>>,
           c.granted => /\ cardCalls[a].granted /\ c.notice = cardCalls[a].notice
                        /\ cardCalls[a].phase # "sent"
    PROVE  RelayInv'
<1>1. /\ cardCalls' \in [CardAttempts -> CardCalls] /\ cardCalls'[a] = c
      /\ \A b \in CardAttempts : b # a => cardCalls'[b] = cardCalls[b]
      BY OneCall DEF RelayInv
<1>2. RelayTypeOK' BY <1>1 DEF RelayInv, RelayTypeOK
<1>3. ASSUME NEW b \in CardAttempts, Holding(b)'
      PROVE  Holding(b) /\ cardCalls'[b].notice = cardCalls[b].notice
  <2>1. CASE b = a BY <1>1, <1>3, <2>1 DEF Holding
  <2>2. CASE b # a BY <1>1, <1>3, <2>2 DEF Holding
  <2> QED BY <2>1, <2>2
<1> QED BY <1>2, <1>3, QuietStep

LEMMA PhaseStep ==
    ASSUME RelayInv, NEW a \in CardAttempts, NEW phase \in {"entering", "gone"}, Step(a, phase),
           cardCalls[a].phase # "sent", UNCHANGED <<jobRow, goal, event, history, relayTime>>
    PROVE  RelayInv'
<1> DEFINE c == [cardCalls[a] EXCEPT !.phase = phase]
<1>1. cardCalls[a] \in CardCalls BY DEF RelayInv, RelayTypeOK
<1>2. c \in CardCalls /\ c.granted = cardCalls[a].granted /\ c.notice = cardCalls[a].notice
      BY <1>1 DEF CardCalls
<1>3. cardCalls' = [cardCalls EXCEPT ![a] = c] BY DEF Step, RelayInv, RelayTypeOK
<1> HIDE DEF c
<1> QED BY <1>2, <1>3, CardStep

LEMMA SentStep ==
    ASSUME RelayInv, NEW a \in CardAttempts, NEW o \in Outcomes,
           cardCalls' = [cardCalls EXCEPT ![a].phase = "sent", ![a].outcome = o],
           cardCalls[a].phase # "sent", UNCHANGED <<jobRow, goal, event, history, relayTime>>
    PROVE  RelayInv'
<1> DEFINE c == [cardCalls[a] EXCEPT !.phase = "sent", !.outcome = o]
<1>1. cardCalls[a] \in CardCalls BY DEF RelayInv, RelayTypeOK
<1>2. c \in CardCalls /\ c.granted = cardCalls[a].granted /\ c.notice = cardCalls[a].notice
      BY <1>1 DEF CardCalls
<1>3. cardCalls' = [cardCalls EXCEPT ![a] = c] BY DEF RelayInv, RelayTypeOK
<1> HIDE DEF c
<1> QED BY <1>2, <1>3, CardStep

LEMMA StartStep == ASSUME RelayInv, NEW a \in CardAttempts, NEW c \in Cards, Start(a, c) PROVE RelayInv'
<1> DEFINE call == [Unused EXCEPT !.card = c, !.notice = event.notice, !.phase = "claiming"]
<1>1. event \in RelayEvents BY DEF Start, ListPending, RelayInv, RelayTypeOK
<1>2. call \in CardCalls /\ ~call.granted BY <1>1 DEF Unused, CardCalls, RelayEvents
<1>3. /\ cardCalls' = [cardCalls EXCEPT ![a] = call]
      /\ UNCHANGED <<jobRow, goal, event, history, relayTime>>
      BY DEF Start, record
<1> HIDE DEF call
<1> QED BY <1>2, <1>3, CardStep

LEMMA EnterStep == ASSUME RelayInv, NEW a \in CardAttempts, Enter(a) PROVE RelayInv'
<1>1. CASE Enters(a) BY <1>1, EnteredStep DEF Enter
<1>2. CASE ~Enters(a) BY <1>2, PhaseStep DEF Enter
<1> QED BY <1>1, <1>2

--------------------------------------------------------------------------
(* The invariant and the theorems *)

LEMMA RelayStart == ASSUME RelayInit PROVE RelayInv
<1> USE DEF RelayInit
<1>1. Unused \in CardCalls /\ ~Unused.granted BY DEF Unused, CardCalls
<1>2. RelayTypeOK BY <1>1 DEF RelayTypeOK
<1>3. HistoryIsNamed BY DEF HistoryIsNamed
<1>4. GrantIsReceipted BY <1>1 DEF GrantIsReceipted, Holding
<1> QED BY <1>2, <1>3, <1>4 DEF RelayInv

LEMMA RelayStep == ASSUME RelayInv, [RelayNext]_relayVars PROVE RelayInv'
<1>0. ASSUME UNCHANGED <<event, history, cardCalls>>, RelayTypeOK' PROVE RelayInv'
      BY <1>0, QuietStep DEF Holding
<1>1. ASSUME NEW r \in Notices \cup {None}, JobChanges(r) PROVE RelayInv'
  <2>1. CASE Reconcile(r, TRUE) BY <1>1, <2>1, ReconcilingStep DEF JobChanges, RelayInv, RelayTypeOK
  <2>2. CASE UNCHANGED record BY <1>1, <2>2, <1>0 DEF JobChanges, record, RelayInv, RelayTypeOK
  <2> QED BY <1>1, <2>1, <2>2 DEF JobChanges
<1>2. CASE TrackingChanges
      BY <1>2, ReconcilingStep DEF TrackingChanges, RelayInv, RelayTypeOK
<1>3. ASSUME NEW c \in Cards, ConnectCard(c) PROVE RelayInv'
  <2>1. jobRow \in Notices \cup {None} /\ goal' \in [card : Cards \cup {None}, silent : BOOLEAN]
        BY <1>3 DEF ConnectCard, RelayInv, RelayTypeOK
  <2> QED BY <1>3, <2>1, ReconcilingStep DEF ConnectCard
<1>4. CASE StopRelay
  <2>1. goal' \in [card : Cards \cup {None}, silent : BOOLEAN] BY <1>4 DEF StopRelay, RelayInv, RelayTypeOK
  <2> QED BY <1>4, <2>1, <1>0 DEF StopRelay, record, RelayInv, RelayTypeOK
<1>5. ASSUME NEW w \in Waits, BeginDirectWait(w) \/ EndDirectWait(w) PROVE RelayInv'
      BY <1>5, <1>0 DEF BeginDirectWait, EndDirectWait, RelayInv, RelayTypeOK
<1>6. CASE OfferResult \/ ReviewResult
      BY <1>6, <1>0 DEF OfferResult, ReviewResult, record, RelayInv, RelayTypeOK
<1>7. ASSUME NEW a \in CardAttempts, NEW c \in Cards, Start(a, c) PROVE RelayInv' BY <1>7, StartStep
<1>8. ASSUME NEW a \in CardAttempts, Claim(a) PROVE RelayInv' BY <1>8, ClaimStep
<1>9. ASSUME NEW a \in CardAttempts, GetClaim(a) PROVE RelayInv' BY <1>9, PhaseStep DEF GetClaim, record
<1>10. ASSUME NEW a \in CardAttempts, Enter(a) PROVE RelayInv' BY <1>10, EnterStep
<1>11. ASSUME NEW a \in CardAttempts, SendMessage(a) PROVE RelayInv'
       BY <1>11, SentStep DEF SendMessage, record, Outcomes
<1>12. ASSUME NEW a \in CardAttempts, Unmount(a) PROVE RelayInv'
       BY <1>12, SentStep DEF Unmount, record, Outcomes
<1>13. ASSUME NEW a \in CardAttempts, Ack(a) PROVE RelayInv' BY <1>13, AckStep
<1>14. CASE RelayTick
  <2>1. relayTime' \in Nat BY <1>14 DEF RelayTick, RelayInv, RelayTypeOK
  <2> QED BY <1>14, <2>1, <1>0 DEF RelayTick, record, RelayInv, RelayTypeOK
<1>15. CASE UNCHANGED relayVars BY <1>15, <1>0 DEF relayVars, RelayInv, RelayTypeOK
<1> QED BY <1>1, <1>2, <1>3, <1>4, <1>5, <1>6, <1>7, <1>8, <1>9, <1>10, <1>11, <1>12, <1>13, <1>14, <1>15 DEF RelayNext

\* A notice is let into the conversation at most once: two attempts of one
\* notice went in only if the host proved that one of them was not delivered
\* (claim, enter and acknowledge of relayDelivery.ts).
THEOREM SentAtMostOnce == RelaySpec => []SentOnce
<1>1. RelayInit => RelayInv BY RelayStart
<1>2. RelayInv /\ [RelayNext]_relayVars => RelayInv' BY RelayStep
<1>3. RelayInv => SentOnce
  <2> SUFFICES ASSUME RelayInv, NEW a \in CardAttempts, NEW b \in CardAttempts, a # b,
                      cardCalls[a].granted, cardCalls[b].granted, cardCalls[a].notice = cardCalls[b].notice,
                      "retryable-rejection" \notin {cardCalls[a].outcome, cardCalls[b].outcome}
               PROVE  FALSE
      BY DEF SentOnce
  <2>1. Holding(a) /\ Holding(b) BY DEF Holding
  <2>2. PICK n \in Notices : cardCalls[a].notice = n /\ Receipted(n, a) BY <2>1 DEF RelayInv, GrantIsReceipted
  <2>3. PICK m \in Notices : cardCalls[b].notice = m /\ Receipted(m, b) BY <2>1 DEF RelayInv, GrantIsReceipted
  <2> QED BY <2>2, <2>3 DEF Receipted
<1> QED BY <1>1, <1>2, <1>3, PTL DEF RelaySpec

--------------------------------------------------------------------------
(* What a step may never do to a receipt *)

FinalStates == {"accepted", "unknown", "rejected"}

\* One receipt keeps its attempts and its end.
Keeps(n) ==
    Receipt(n) # None =>
        /\ Receipt(n)' # None
        /\ Receipt(n)'.attempts >= Receipt(n).attempts
        /\ Receipt(n).state \in FinalStates => Receipt(n)'.state = Receipt(n).state

LEMMA SameReceipt == ASSUME RelayInv, NEW n \in Notices, Receipt(n) # None => Receipt(n)' = Receipt(n) PROVE Keeps(n)
<1>1. Receipt(n) # None => Receipt(n).attempts \in Nat
      BY DEF Receipt, RelayInv, RelayTypeOK, RelayEvents
<1> QED BY <1>1 DEF Keeps

LEMMA ReconcilingKeeps ==
    ASSUME RelayInv, NEW n \in Notices, NEW r \in Notices \cup {None}, NEW c, Reconcile(r, c) PROVE Keeps(n)
BY ReconcileKeeps, SameReceipt DEF RelayInv

LEMMA QuietKeeps == ASSUME RelayInv, NEW n \in Notices, UNCHANGED <<event, history>> PROVE Keeps(n)
BY SameReceipt DEF Receipt

\* The store moves an open event on, and never an event that has ended.
LEMMA MovingKeeps ==
    ASSUME RelayInv, NEW n \in Notices, event # None, event.state \notin FinalStates,
           event' # None, event'.notice = event.notice, event'.attempts >= event.attempts, history' = history
    PROVE  Keeps(n)
<1>1. CASE n = event.notice BY <1>1 DEF Keeps, Receipt
<1>2. CASE n # event.notice
  <2>1. Receipt(n)' = Receipt(n) BY <1>2 DEF Receipt
  <2> QED BY <2>1, SameReceipt
<1> QED BY <1>1, <1>2

LEMMA ClaimKeeps == ASSUME RelayInv, NEW n \in Notices, NEW a \in CardAttempts, Claim(a) PROVE Keeps(n)
<1>1. /\ event # None /\ event.state \notin FinalStates /\ event' = LeasedTo(a) /\ history' = history
      BY DEF Claim, Claims, ListPending, Due, FinalStates
<1>2. event' # None /\ event'.notice = event.notice /\ event'.attempts >= event.attempts
      BY <1>1, Leases, NoneIsNoEvent
<1> QED BY <1>1, <1>2, MovingKeeps

LEMMA EnterKeeps == ASSUME RelayInv, NEW n \in Notices, NEW a \in CardAttempts, Enter(a) PROVE Keeps(n)
<1>1. CASE ~Enters(a) BY <1>1, QuietKeeps DEF Enter
<1>2. CASE Enters(a)
  <2>1. /\ event # None /\ event.state \notin FinalStates
        /\ event' = [event EXCEPT !.state = "sending"] /\ history' = history
        BY <1>2 DEF Enter, Enters, CurrentEvent, FinalStates
  <2>2. event \in RelayEvents BY <2>1 DEF RelayInv, RelayTypeOK
  <2>3. event' \in RelayEvents /\ event'.notice = event.notice /\ event'.attempts >= event.attempts
        BY <2>1, <2>2 DEF RelayEvents
  <2> QED BY <2>1, <2>3, NoneIsNoEvent, MovingKeeps
<1> QED BY <1>1, <1>2

LEMMA AckKeeps == ASSUME RelayInv, NEW n \in Notices, NEW a \in CardAttempts, Ack(a) PROVE Keeps(n)
<1>1. event.state \notin FinalStates /\ history' = history
      BY DEF Ack, Acknowledges, FinalStates
<1>2. event # None /\ event' # None /\ event'.notice = event.notice /\ event'.attempts >= event.attempts
      BY Acknowledged, NoneIsNoEvent
<1> QED BY <1>1, <1>2, MovingKeeps

\* A receipt never loses an attempt it has counted, nor the end of a delivery:
\* a notice that is withdrawn and comes back has no second chance (reconcileJob).
THEOREM ReceiptsAreKept == RelaySpec => ReceiptKept
<1>1. RelayInit => RelayInv BY RelayStart
<1>2. RelayInv /\ [RelayNext]_relayVars => RelayInv' BY RelayStep
<1>3. RelayInv /\ [RelayNext]_relayVars =>
          [\A n \in DOMAIN history : Receipt(n) # None =>
              /\ Receipt(n)' # None
              /\ Receipt(n)'.attempts >= Receipt(n).attempts
              /\ Receipt(n).state \in {"accepted", "unknown", "rejected"} => Receipt(n)'.state = Receipt(n).state
          ]_relayVars
  <2> SUFFICES ASSUME RelayInv, RelayNext, NEW n \in Notices PROVE Keeps(n)
      BY DEF RelayInv, RelayTypeOK, Keeps, FinalStates
  <2>0. ASSUME UNCHANGED <<event, history>> PROVE Keeps(n) BY <2>0, QuietKeeps
  <2>1. ASSUME NEW r \in Notices \cup {None}, JobChanges(r) PROVE Keeps(n)
        BY <2>1, <2>0, ReconcilingKeeps DEF JobChanges, record
  <2>2. CASE TrackingChanges BY <2>2, ReconcilingKeeps DEF TrackingChanges, RelayInv, RelayTypeOK
  <2>3. ASSUME NEW c \in Cards, ConnectCard(c) PROVE Keeps(n)
        BY <2>3, ReconcilingKeeps DEF ConnectCard, RelayInv, RelayTypeOK
  <2>4. CASE StopRelay \/ OfferResult \/ ReviewResult \/ RelayTick
        BY <2>4, <2>0 DEF StopRelay, OfferResult, ReviewResult, RelayTick, record
  <2>5. ASSUME NEW w \in Waits, BeginDirectWait(w) \/ EndDirectWait(w) PROVE Keeps(n)
        BY <2>5, <2>0 DEF BeginDirectWait, EndDirectWait
  <2>6. ASSUME NEW a \in CardAttempts, NEW c \in Cards, Start(a, c) PROVE Keeps(n)
        BY <2>6, <2>0 DEF Start, record
  <2>7. ASSUME NEW a \in CardAttempts, GetClaim(a) \/ SendMessage(a) \/ Unmount(a) PROVE Keeps(n)
        BY <2>7, <2>0 DEF GetClaim, SendMessage, Unmount, record
  <2>8. ASSUME NEW a \in CardAttempts, Claim(a) PROVE Keeps(n) BY <2>8, ClaimKeeps
  <2>9. ASSUME NEW a \in CardAttempts, Enter(a) PROVE Keeps(n) BY <2>9, EnterKeeps
  <2>10. ASSUME NEW a \in CardAttempts, Ack(a) PROVE Keeps(n) BY <2>10, AckKeeps
  <2> QED BY <2>1, <2>2, <2>3, <2>4, <2>5, <2>6, <2>7, <2>8, <2>9, <2>10 DEF RelayNext
<1> QED BY <1>1, <1>2, <1>3, PTL DEF RelaySpec, ReceiptKept

------------------------------------------------------------------------------
(* What is due is in an index: an open event that is not paused is ready, or  *)
(* it is deferred to the end of its hold, and no later than its lease.  The   *)
(* holds end at a time of their own, so that the longest one exists.          *)

HoldsEnd ==
    /\ waits \in [Waits -> Nat] /\ review \in Nat
    /\ \A w \in Waits : waits[w] <= relayTime + 1 + Grace
    /\ review <= relayTime + Review

DeferralEnd(e) == Later(HeldUntil(e, waits, review), IF e.state = "leased" THEN e.leaseUntil ELSE 0)
OpenIsIndexed ==
    event # None /\ ~paused /\ event.state \in {"pending", "leased"} =>
        ready \/ (deferredUntil > 0 /\ deferredUntil = DeferralEnd(event))

IndexInv == HoldsEnd /\ OpenIsIndexed

\* A bounded set of times has a last one.
LEMMA LastTime ==
    ASSUME NEW T, T \subseteq Nat, T # {}, NEW n \in Nat, \A t \in T : t <= n
    PROVE  \E t \in T : \A u \in T : u <= t
<1> DEFINE B == {m \in Nat : \A t \in T : t <= m}
<1>1. B \subseteq Nat /\ n \in B OBVIOUS
<1>2. PICK m \in B : \A k \in B : ~(<<k, m>> \in OpToRel(<, Nat))
      BY <1>1, NatLessThanWellFounded, WFMin
<1>3. m \in Nat /\ (\A t \in T : t <= m) /\ \A k \in B : ~(k < m)
      BY <1>2 DEF OpToRel
<1>4. CASE m \in T BY <1>3, <1>4
<1>5. CASE m \notin T
  <2>1. \A t \in T : t \in Nat /\ t <= m /\ t # m BY <1>3, <1>5
  <2>2. PICK t \in T : TRUE OBVIOUS
  <2>3. m # 0 /\ m - 1 \in Nat BY <1>3, <2>1, <2>2
  <2>4. \A u \in T : u <= m - 1 BY <1>3, <2>1
  <2>5. m - 1 \in B BY <2>3, <2>4
  <2>6. m - 1 < m BY <1>3
  <2> QED BY <1>3, <2>5, <2>6
<1> QED BY <1>4, <1>5

LEMMA HoldIsATime ==
    ASSUME NEW e, NEW ws \in [Waits -> Nat], NEW rv \in Nat, NEW n \in Nat, rv <= n,
           \A w \in Waits : ws[w] <= n
    PROVE  HeldUntil(e, ws, rv) \in Nat
<1> DEFINE T == {rv, 0} \cup {ws[w] : w \in DOMAIN ws}
<1>1. T \subseteq Nat /\ T # {} /\ \A t \in T : t <= n OBVIOUS
<1>2. \E t \in T : \A u \in T : u <= t BY <1>1, LastTime
<1>3. (CHOOSE t \in T : \A u \in T : u <= t) \in Nat BY <1>1, <1>2
<1>4. HeldUntil(e, ws, rv) = IF e.notice # Ended THEN 0 ELSE CHOOSE t \in T : \A u \in T : u <= t
      BY DEF HeldUntil
<1> HIDE DEF T
<1> QED BY <1>3, <1>4

LEMMA HoldsAreTimes == ASSUME RelayTypeOK, HoldsEnd, NEW e PROVE HeldUntil(e, waits, review) \in Nat
<1> DEFINE n == relayTime + 1 + Grace + Review
<1>1. relayTime \in Nat /\ Grace \in Nat /\ Review \in Nat BY RelayAssumption DEF RelayTypeOK
<1>2. n \in Nat /\ review <= n /\ \A w \in Waits : waits[w] <= n BY <1>1 DEF HoldsEnd
<1> HIDE DEF n
<1> QED BY <1>2, HoldIsATime DEF HoldsEnd

\* Whoever indexes an event at the time of the step makes the invariant true of it.
LEMMA IndexingStep ==
    ASSUME RelayTypeOK, RelayTypeOK', HoldsEnd', relayTime' = relayTime,
           Indexed(event', paused', waits', review')
    PROVE  IndexInv'
<1> DEFINE until == HeldUntil(event', waits', review')
<1>1. until \in Nat
  <2>1. \A e : HeldUntil(e, waits', review') \in Nat
    <3> SUFFICES ASSUME NEW e PROVE HeldUntil(e, waits', review') \in Nat OBVIOUS
    <3> DEFINE n == relayTime + 1 + Grace + Review
    <3>1. relayTime \in Nat /\ Grace \in Nat /\ Review \in Nat BY RelayAssumption DEF RelayTypeOK
    <3>2. n \in Nat /\ review' <= n /\ \A w \in Waits : waits'[w] <= n BY <3>1 DEF HoldsEnd
    <3>3. waits' \in [Waits -> Nat] /\ review' \in Nat BY DEF HoldsEnd
    <3> HIDE DEF n
    <3> QED BY <3>2, <3>3, HoldIsATime
  <2> QED BY <2>1
<1>2. relayTime \in Nat BY DEF RelayTypeOK
<1>3. ASSUME event' # None, ~paused', event'.state \in {"pending", "leased"}
      PROVE  ready' \/ (deferredUntil' > 0 /\ deferredUntil' = DeferralEnd(event)')
  <2> DEFINE lease == IF event'.state = "leased" THEN event'.leaseUntil ELSE 0
  <2>1. ready' = (until <= relayTime) BY <1>3 DEF Indexed
  <2>2. deferredUntil' = IF until > relayTime THEN Later(until, lease) ELSE 0 BY <1>3 DEF Indexed
  <2>3. lease \in Nat BY <1>3 DEF RelayTypeOK, RelayEvents
  <2>4. DeferralEnd(event)' = Later(until, lease) BY DEF DeferralEnd
  <2> HIDE DEF until, lease
  <2>5. CASE until <= relayTime BY <2>1, <2>5
  <2>6. CASE until > relayTime
    <3>1. deferredUntil' = Later(until, lease) /\ Later(until, lease) > 0
          BY <1>1, <1>2, <2>2, <2>3, <2>6 DEF Later
    <3> QED BY <2>4, <3>1
  <2> QED BY <1>1, <1>2, <2>5, <2>6
<1> QED BY <1>3 DEF IndexInv, OpenIsIndexed

\* The clock, the cards and the Job leave the index as it is.
LEMMA UnindexedStep ==
    ASSUME RelayTypeOK, RelayTypeOK', IndexInv, UNCHANGED <<record, waits, review>>, relayTime' >= relayTime
    PROVE  IndexInv'
<1>1. HoldsEnd'
  <2>1. relayTime \in Nat /\ relayTime' \in Nat /\ Grace \in Nat /\ Review \in Nat
        BY RelayAssumption DEF RelayTypeOK
  <2>2. /\ waits' = waits /\ review' = review /\ waits \in [Waits -> Nat] /\ review \in Nat
        /\ \A w \in Waits : waits[w] \in Nat /\ waits[w] <= relayTime + 1 + Grace
        /\ review <= relayTime + Review
        BY DEF IndexInv, HoldsEnd
  <2>3. \A w \in Waits : waits[w] <= relayTime' + 1 + Grace BY <2>1, <2>2
  <2>4. review <= relayTime' + Review
    <3>1. \A a, b, c, d \in Nat : a <= b + d /\ b <= c => a <= c + d OBVIOUS
    <3>2. relayTime <= relayTime' BY <2>1
    <3> QED BY <2>1, <2>2, <3>1, <3>2
  <2> QED BY <2>2, <2>3, <2>4 DEF HoldsEnd
<1>2. OpenIsIndexed' BY DEF IndexInv, OpenIsIndexed, DeferralEnd, record
<1> QED BY <1>1, <1>2 DEF IndexInv

LEMMA ReconcilingIndexes ==
    ASSUME RelayTypeOK, RelayTypeOK', IndexInv, NEW r, NEW c, Reconcile(r, c),
           UNCHANGED <<waits, review, relayTime>>
    PROVE  IndexInv'
<1>0. relayTime \in Nat BY DEF RelayTypeOK
<1>1. HoldsEnd' BY DEF IndexInv, HoldsEnd
<1>2. CASE UNCHANGED record BY <1>0, <1>2, UnindexedStep
<1>3. CASE ~UNCHANGED record
  <2>1. Indexed(event', paused', waits, review) BY <1>3 DEF Reconcile
  <2>2. Indexed(event', paused', waits', review') BY <2>1
  <2> QED BY <1>1, <2>2, IndexingStep
<1> QED BY <1>2, <1>3

\* A step that keeps the holds and indexes the event it leaves.
LEMMA MovingIndexes ==
    ASSUME RelayTypeOK, RelayTypeOK', IndexInv, UNCHANGED <<waits, review, relayTime, paused>>,
           Indexed(event', paused, waits, review)
    PROVE  IndexInv'
<1>1. HoldsEnd' BY DEF IndexInv, HoldsEnd
<1>2. Indexed(event', paused', waits', review') OBVIOUS
<1> QED BY <1>1, <1>2, IndexingStep

LEMMA HoldingIndexes ==
    ASSUME RelayTypeOK, RelayTypeOK', IndexInv, UNCHANGED <<event, paused, relayTime>>, HoldsEnd',
           Indexed(event, paused, waits', review')
    PROVE  IndexInv'
<1>1. Indexed(event', paused', waits', review') OBVIOUS
<1> QED BY <1>1, IndexingStep

LEMMA IndexStep ==
    ASSUME RelayInv, RelayInv', IndexInv, [RelayNext]_relayVars PROVE IndexInv'
<1>0. /\ RelayTypeOK /\ RelayTypeOK' /\ relayTime \in Nat /\ Grace \in Nat /\ Review \in Nat
      BY RelayAssumption DEF RelayInv, RelayTypeOK
<1>1. CASE UNCHANGED <<record, holds, relayTime>> BY <1>0, <1>1, UnindexedStep DEF holds
<1>2. ASSUME NEW r \in Notices \cup {None}, JobChanges(r) PROVE IndexInv'
      BY <1>0, <1>1, <1>2, ReconcilingIndexes DEF JobChanges, holds
<1>3. CASE TrackingChanges BY <1>0, <1>3, ReconcilingIndexes DEF TrackingChanges, holds
<1>4. ASSUME NEW c \in Cards, ConnectCard(c) PROVE IndexInv'
      BY <1>0, <1>4, ReconcilingIndexes DEF ConnectCard, holds
<1>5. ASSUME NEW w \in Waits, BeginDirectWait(w) PROVE IndexInv'
  <2>1. PICK ms \in 0 .. 1 : waits' = [waits EXCEPT ![w] = relayTime + ms + Grace]
        BY <1>5 DEF BeginDirectWait
  <2>2. relayTime + ms + Grace \in Nat /\ relayTime + ms + Grace <= relayTime + 1 + Grace BY <1>0
  <2>3. HoldsEnd' BY <1>5, <2>1, <2>2 DEF BeginDirectWait, IndexInv, HoldsEnd
  <2>4. /\ UNCHANGED <<event, paused, relayTime>> /\ Indexed(event, paused, waits', review')
        BY <1>5 DEF BeginDirectWait
  <2> QED BY <1>0, <2>3, <2>4, HoldingIndexes
<1>6. ASSUME NEW w \in Waits, EndDirectWait(w) PROVE IndexInv'
  <2>1. waits' = [waits EXCEPT ![w] = relayTime + Grace] BY <1>6 DEF EndDirectWait
  <2>2. relayTime + Grace \in Nat /\ relayTime + Grace <= relayTime + 1 + Grace BY <1>0
  <2>3. HoldsEnd' BY <1>6, <2>1, <2>2 DEF EndDirectWait, IndexInv, HoldsEnd
  <2>4. /\ UNCHANGED <<event, paused, relayTime>> /\ Indexed(event, paused, waits', review')
        BY <1>6 DEF EndDirectWait
  <2> QED BY <1>0, <2>3, <2>4, HoldingIndexes
<1>7. CASE ReviewResult
  <2>1. review' = relayTime + Review /\ waits' = waits /\ relayTime' = relayTime BY <1>7 DEF ReviewResult
  <2>2. relayTime + Review \in Nat BY <1>0
  <2>3. HoldsEnd' BY <2>1, <2>2 DEF IndexInv, HoldsEnd
  <2>4. /\ UNCHANGED <<event, paused, relayTime>> /\ Indexed(event, paused, waits', review')
        BY <1>7 DEF ReviewResult
  <2> QED BY <1>0, <2>3, <2>4, HoldingIndexes
<1>8. ASSUME NEW a \in CardAttempts, Claim(a) PROVE IndexInv'
  <2>1. /\ Indexed(event', paused, waits, review) /\ UNCHANGED <<waits, review, relayTime, paused>>
        BY <1>8 DEF Claim, holds
  <2> QED BY <1>0, <2>1, MovingIndexes
<1>9. ASSUME NEW a \in CardAttempts, Ack(a) PROVE IndexInv'
  <2>1. /\ Indexed(event', paused, waits, review) /\ UNCHANGED <<waits, review, relayTime, paused>>
        BY <1>9 DEF Ack, holds
  <2> QED BY <1>0, <2>1, MovingIndexes
<1>10. ASSUME NEW a \in CardAttempts, Enter(a) PROVE IndexInv'
  <2>1. CASE ~Enters(a) BY <1>1, <1>10, <2>1 DEF Enter, record
  <2>2. CASE Enters(a)
    <3>1. event # None /\ event' = [event EXCEPT !.state = "sending"] /\ UNCHANGED <<waits, review, relayTime>>
          BY <1>10, <2>2 DEF Enter, Enters, CurrentEvent, holds
    <3>2. event'.state = "sending" BY <1>0, <3>1 DEF RelayTypeOK, RelayEvents
    <3> QED BY <3>1, <3>2 DEF IndexInv, HoldsEnd, OpenIsIndexed
  <2> QED BY <2>1, <2>2
<1>11. CASE RelayTick
  <2>1. relayTime' >= relayTime /\ UNCHANGED <<record, waits, review>> BY <1>0, <1>11 DEF RelayTick, holds
  <2> QED BY <1>0, <2>1, UnindexedStep
<1>12. CASE UNCHANGED relayVars BY <1>1, <1>12 DEF relayVars, record, holds
<1>13. CASE OfferResult
  <2>1. relayTime' >= relayTime /\ UNCHANGED <<record, waits, review>> BY <1>0, <1>13 DEF OfferResult
  <2> QED BY <1>0, <2>1, UnindexedStep
<1> QED BY <1>1, <1>2, <1>3, <1>4, <1>5, <1>6, <1>7, <1>8, <1>9, <1>10, <1>11, <1>12, <1>13
        DEF RelayNext, StopRelay, Start, GetClaim, SendMessage, Unmount

\* What may be delivered is in one of the two indexes the cards are told from,
\* whatever holds, leases, pauses, returns of withdrawn notices and late calls
\* came before (index and reconcileJob of relayDelivery.ts).
THEOREM DueIsAlwaysIndexed == RelaySpec => []DueIsIndexed
<1>1. RelayInit => RelayInv /\ IndexInv
  <2>1. RelayInit => IndexInv
        BY RelayAssumption DEF RelayInit, IndexInv, HoldsEnd, OpenIsIndexed
  <2> QED BY <2>1, RelayStart
<1>2. RelayInv /\ IndexInv /\ [RelayNext]_relayVars => (RelayInv /\ IndexInv)' BY RelayStep, IndexStep
<1>3. RelayInv /\ IndexInv => DueIsIndexed
  <2> SUFFICES ASSUME RelayInv, IndexInv, event # None, ~paused, HeldUntil(event, waits, review) <= relayTime,
                      event.state = "pending" \/ (event.state = "leased" /\ event.leaseUntil <= relayTime), ~ready
               PROVE  deferredUntil > 0 /\ deferredUntil <= relayTime
      BY DEF DueIsIndexed
  <2>1. deferredUntil > 0 /\ deferredUntil = DeferralEnd(event) BY DEF IndexInv, OpenIsIndexed
  <2>2. relayTime \in Nat BY DEF RelayInv, RelayTypeOK
  <2>3. DeferralEnd(event) <= relayTime BY <2>2 DEF DeferralEnd, Later
  <2> QED BY <2>1, <2>3
<1> QED BY <1>1, <1>2, <1>3, PTL DEF RelaySpec

------------------------------------------------------------------------------
(* Proof that the delivery journal of QuestionAnswers.tla never lies, for    *)
(* any requests and answers.                                                 *)

\* An operation in flight owns the row, and what it has reached is what was sent.
CallsOwnTheRow ==
    \A r \in Requests : answering[r] # None =>
        /\ delivery = [request |-> r, answer |-> answering[r].answer, status |-> "dispatching"]
        /\ answering[r].at = "refused" => sends = prunes /\ wire = {}
        /\ answering[r].at = "taken" => sends = prunes + 1 /\ wire = {} /\ submitted = answering[r].answer

\* Only the answer of the row can be on its way, and only while the row says neither way.
RowTellsTheWire ==
    /\ delivery = None => sends = prunes /\ wire = {}
    /\ delivery # None =>
        /\ wire \subseteq {[request |-> delivery.request, answer |-> delivery.answer]}
        /\ wire # {} => sends = prunes + 1
        /\ delivery.status = "not-delivered" => sends = prunes /\ wire = {}
        /\ delivery.status = "delivered" =>
              sends = prunes + 1 /\ wire = {} /\ submitted = delivery.answer
    /\ sends = prunes \/ sends = prunes + 1

QuestionsInv == QuestionsTypeOK /\ CallsOwnTheRow /\ RowTellsTheWire

LEMMA NoneIsNothing == None \notin Choices /\ None \notin Deliveries /\ None \notin Answerings
  BY AnswerAssumption

\* The questions begin with no row and nothing in flight.
LEMMA QuestionsBegin == QuestionsInit => QuestionsInv
  BY DEF QuestionsInit, QuestionsInv, QuestionsTypeOK, CallsOwnTheRow, RowTellsTheWire

\* A call in flight makes the row a row of its own request, under way.
LEMMA CallsAreDispatching ==
  ASSUME QuestionsTypeOK, CallsOwnTheRow, NEW r \in Requests, answering[r] # None
  PROVE  /\ answering[r] \in Answerings
         /\ delivery # None
         /\ delivery.request = r /\ delivery.answer = answering[r].answer /\ delivery.status = "dispatching"
<1>1. answering[r] \in Answerings
  BY DEF QuestionsTypeOK
<1>2. delivery = [request |-> r, answer |-> answering[r].answer, status |-> "dispatching"]
  BY DEF CallsOwnTheRow
<1>3. delivery \in Deliveries
  BY <1>1, <1>2 DEF Deliveries, Statuses, Answerings
<1> QED BY <1>1, <1>2, <1>3, NoneIsNothing

\* Answering starts from a row under which nothing was sent.
LEMMA AnswerKeeps ==
  ASSUME QuestionsInv, NEW r \in Requests, NEW x \in Choices, AnswerQuestion(r, x)
  PROVE  QuestionsInv'
<1>0. /\ QuestionsTypeOK /\ CallsOwnTheRow /\ RowTellsTheWire
      /\ delivery # None => delivery.status = "not-delivered"
  BY DEF QuestionsInv, AnswerQuestion, Resumable
<1>1. \A s \in Requests : answering[s] = None
  BY <1>0, CallsAreDispatching
<1>2. sends = prunes /\ wire = {}
  BY <1>0 DEF RowTellsTheWire
<1>3. QuestionsTypeOK'
  <2>1. [answer |-> x, at |-> IF controlled THEN "sent" ELSE "refused"] \in Answerings
    BY DEF Answerings
  <2>2. [request |-> r, answer |-> x, status |-> "dispatching"] \in Deliveries
    BY DEF Deliveries, Statuses
  <2> QED BY <1>0, <2>1, <2>2 DEF AnswerQuestion, Dispatches, QuestionsTypeOK, SentAnswers
<1>4. /\ delivery' = [request |-> r, answer |-> x, status |-> "dispatching"]
      /\ delivery' # None
  BY NoneIsNothing DEF AnswerQuestion, Deliveries, Statuses
<1>5. /\ answering'[r] = [answer |-> x, at |-> IF controlled THEN "sent" ELSE "refused"]
      /\ \A s \in Requests : s # r => answering'[s] = None
  BY <1>0, <1>1 DEF AnswerQuestion, Dispatches, QuestionsTypeOK
<1>6. /\ controlled => sends' = prunes + 1 /\ wire' = {[request |-> r, answer |-> x]}
      /\ ~controlled => sends' = prunes /\ wire' = {}
      /\ prunes' = prunes
  BY <1>2 DEF AnswerQuestion, Dispatches
<1>7. CallsOwnTheRow'
  BY <1>4, <1>5, <1>6 DEF CallsOwnTheRow
<1>8. RowTellsTheWire'
  BY <1>4, <1>6 DEF RowTellsTheWire
<1> QED BY <1>3, <1>7, <1>8 DEF QuestionsInv

\* The worker is given the answer of the row, and then nothing is on its way.
LEMMA ReceiveKeeps ==
  ASSUME QuestionsInv, NEW m \in wire, Receive(m)
  PROVE  QuestionsInv'
<1>0. QuestionsTypeOK /\ CallsOwnTheRow /\ RowTellsTheWire /\ m \in SentAnswers
  BY DEF QuestionsInv, QuestionsTypeOK
<1>1. /\ delivery # None /\ delivery' = delivery /\ sends' = sends /\ prunes' = prunes
      /\ m.request = delivery.request /\ m.answer = delivery.answer
      /\ wire' = {} /\ sends = prunes + 1
      /\ delivery.status # "not-delivered" /\ delivery.status # "delivered"
  BY <1>0 DEF Receive, RowTellsTheWire
<1>2. \A r \in Requests : answering'[r] # answering[r] =>
         /\ answering[r] # None /\ answering'[r] # None
         /\ answering'[r].answer = answering[r].answer
         /\ answering'[r] \in Answerings
         /\ answering'[r].at = "failed" \/ (answering'[r].at = "taken" /\ submitted' = answering[r].answer)
  <2> SUFFICES ASSUME NEW r \in Requests, answering'[r] # answering[r]
               PROVE  /\ answering[r] # None /\ answering'[r] # None
                      /\ answering'[r].answer = answering[r].answer
                      /\ answering'[r] \in Answerings
                      /\ answering'[r].at = "failed" \/ (answering'[r].at = "taken" /\ submitted' = answering[r].answer)
    OBVIOUS
  <2>1. answering[r] = [answer |-> m.answer, at |-> "sent"] /\ m.answer \in Choices
    BY <1>0 DEF Receive, SentAnswers
  <2>2. answering[r] \in Answerings
    BY <2>1 DEF Answerings
  <2>3. /\ asking /\ submitted = None => answering'[r] = [answer |-> m.answer, at |-> "taken"] /\ submitted' = m.answer
        /\ ~(asking /\ submitted = None) => answering'[r] = [answer |-> m.answer, at |-> "failed"]
    BY <2>1 DEF Receive
  <2>4. answering'[r] \in Answerings
    BY <2>1, <2>3 DEF Answerings
  <2>5. answering[r] # None /\ answering'[r] # None
    BY <2>2, <2>4, NoneIsNothing
  <2>6. answering[r].answer = m.answer /\ answering'[r].answer = m.answer
    BY <2>1, <2>3
  <2>7. answering'[r].at = "failed" \/ (answering'[r].at = "taken" /\ submitted' = m.answer)
    BY <2>3
  <2> QED BY <2>4, <2>5, <2>6, <2>7
<1>3. QuestionsTypeOK'
  <2>1. answering' \in [Requests -> Answerings \cup {None}]
    BY <1>0, <1>2 DEF Receive, QuestionsTypeOK
  <2> QED BY <1>0, <2>1 DEF Receive, QuestionsTypeOK, SentAnswers
<1>4. CallsOwnTheRow'
  <2> SUFFICES ASSUME NEW r \in Requests, answering'[r] # None
               PROVE  /\ delivery' = [request |-> r, answer |-> answering'[r].answer, status |-> "dispatching"]
                      /\ answering'[r].at = "refused" => sends' = prunes' /\ wire' = {}
                      /\ answering'[r].at = "taken" =>
                            sends' = prunes' + 1 /\ wire' = {} /\ submitted' = answering'[r].answer
    BY DEF CallsOwnTheRow
  <2>1. CASE answering'[r] = answering[r]
    <3>1. answering[r].at # "refused" /\ answering[r].at # "taken"
      BY <1>0, <1>1, <2>1 DEF CallsOwnTheRow
    <3> QED BY <1>0, <1>1, <2>1, <3>1 DEF CallsOwnTheRow
  <2>2. CASE answering'[r] # answering[r]
    BY <1>0, <1>1, <1>2, <2>2 DEF CallsOwnTheRow
  <2> QED BY <2>1, <2>2
<1>5. RowTellsTheWire'
  BY <1>0, <1>1 DEF RowTellsTheWire
<1> QED BY <1>3, <1>4, <1>5 DEF QuestionsInv

\* The operations of the bridge on a call and on the row.
LEMMA FinishKeeps ==
  ASSUME QuestionsInv, NEW r \in Requests, Finish(r)
  PROVE  QuestionsInv'
<1>0. QuestionsTypeOK /\ CallsOwnTheRow /\ RowTellsTheWire
  BY DEF QuestionsInv
<1>1. /\ answering[r] \in Answerings /\ delivery # None /\ answering[r] # None
      /\ delivery.request = r /\ delivery.answer = answering[r].answer
      /\ delivery \in Deliveries
      /\ answering[r].at \in {"refused", "taken", "failed"}
  BY <1>0, CallsAreDispatching DEF Finish, Answerings, QuestionsTypeOK
<1>2. PICK status \in Recordable(answering[r].at) : delivery' = [delivery EXCEPT !.status = status]
  BY DEF Finish
<1>3. /\ status \in Statuses
      /\ status = "not-delivered" => answering[r].at = "refused"
      /\ status = "delivered" => answering[r].at = "taken"
  BY <1>1 DEF Recordable, Statuses
<1>4. /\ delivery' \in Deliveries /\ delivery' # None
      /\ delivery'.request = delivery.request /\ delivery'.answer = delivery.answer
      /\ delivery'.status = status
  BY <1>1, <1>2, <1>3, NoneIsNothing DEF Deliveries
<1>5. \A s \in Requests : answering'[s] = None
  <2> SUFFICES ASSUME NEW s \in Requests, s # r PROVE answering[s] = None
    BY <1>0 DEF Finish, QuestionsTypeOK
  <2> QED BY <1>0, <1>1, CallsAreDispatching
<1>6. QuestionsTypeOK'
  BY <1>0, <1>4, <1>5 DEF Finish, QuestionsTypeOK
<1>7. CallsOwnTheRow'
  BY <1>5 DEF CallsOwnTheRow
<1>8. RowTellsTheWire'
  BY <1>0, <1>1, <1>3, <1>4 DEF Finish, RowTellsTheWire, CallsOwnTheRow
<1> QED BY <1>6, <1>7, <1>8 DEF QuestionsInv

LEMMA LinkFailureKeeps ==
  ASSUME QuestionsInv, NEW r \in Requests, LinkFails(r)
  PROVE  QuestionsInv'
<1>0. QuestionsTypeOK /\ CallsOwnTheRow /\ RowTellsTheWire
  BY DEF QuestionsInv
<1>1. answering[r] \in Answerings /\ answering[r] # None
  BY <1>0, CallsAreDispatching DEF LinkFails
<1>2. /\ answering' \in [Requests -> Answerings \cup {None}]
      /\ answering'[r].answer = answering[r].answer /\ answering'[r].at = "failed"
      /\ \A s \in Requests : s # r => answering'[s] = answering[s]
  BY <1>0, <1>1 DEF LinkFails, QuestionsTypeOK, Answerings
<1>3. QuestionsTypeOK'
  BY <1>0, <1>2 DEF LinkFails, QuestionsTypeOK
<1>4. CallsOwnTheRow'
  BY <1>0, <1>1, <1>2 DEF LinkFails, CallsOwnTheRow
<1>5. RowTellsTheWire'
  BY <1>0 DEF LinkFails, RowTellsTheWire
<1> QED BY <1>3, <1>4, <1>5 DEF QuestionsInv

LEMMA RestartKeeps ==
  ASSUME QuestionsInv, BridgeReturns
  PROVE  QuestionsInv'
<1>0. QuestionsTypeOK /\ CallsOwnTheRow /\ RowTellsTheWire
  BY DEF QuestionsInv
<1>1. CASE delivery # None /\ delivery.status = "dispatching"
  <2>1. delivery' = [delivery EXCEPT !.status = "uncertain"] /\ delivery \in Deliveries
    BY <1>0, <1>1 DEF BridgeReturns, QuestionsTypeOK
  <2>2. /\ delivery' \in Deliveries /\ delivery' # None /\ delivery'.status = "uncertain"
        /\ delivery'.request = delivery.request /\ delivery'.answer = delivery.answer
    BY <2>1, NoneIsNothing DEF Deliveries, Statuses
  <2>3. QuestionsTypeOK'
    BY <1>0, <2>2 DEF BridgeReturns, QuestionsTypeOK
  <2>4. CallsOwnTheRow' /\ RowTellsTheWire'
    BY <1>0, <1>1, <2>2 DEF BridgeReturns, CallsOwnTheRow, RowTellsTheWire
  <2> QED BY <2>3, <2>4 DEF QuestionsInv
<1>2. CASE ~(delivery # None /\ delivery.status = "dispatching")
  <2>1. delivery' = delivery
    BY <1>2 DEF BridgeReturns
  <2>2. QuestionsTypeOK' /\ CallsOwnTheRow' /\ RowTellsTheWire'
    BY <1>0, <2>1 DEF BridgeReturns, QuestionsTypeOK, CallsOwnTheRow, RowTellsTheWire
  <2> QED BY <2>2 DEF QuestionsInv
<1> QED BY <1>1, <1>2

LEMMA PruneKeeps ==
  ASSUME QuestionsInv, Prune
  PROVE  QuestionsInv'
<1>0. QuestionsTypeOK /\ CallsOwnTheRow /\ RowTellsTheWire
  BY DEF QuestionsInv
<1>1. \A r \in Requests : answering[r] = None
  BY <1>0, CallsAreDispatching DEF Prune
<1>2. QuestionsTypeOK'
  BY <1>0 DEF Prune, QuestionsTypeOK
<1>3. CallsOwnTheRow' /\ RowTellsTheWire'
  BY <1>0, <1>1 DEF Prune, CallsOwnTheRow, RowTellsTheWire, QuestionsTypeOK
<1> QED BY <1>2, <1>3 DEF QuestionsInv

\* What happens to the Job, its turn and its project leaves the row and the wire alone.
LEMMA SurroundingsKeep ==
  ASSUME QuestionsInv, Progress \/ QuestionEnds \/ ControlChanges \/ UNCHANGED answerVars
  PROVE  QuestionsInv'
<1>1. /\ UNCHANGED <<delivery, answering, wire, submitted, sends, prunes>>
      /\ asking' \in BOOLEAN /\ shown' \in BOOLEAN /\ controlled' \in BOOLEAN
  BY DEF QuestionsInv, QuestionsTypeOK, Progress, QuestionEnds, ControlChanges, answerVars
<1> QED BY <1>1 DEF QuestionsInv, QuestionsTypeOK, CallsOwnTheRow, RowTellsTheWire

\* The delivery journal never lies: not-delivered was not sent, delivered was given to the worker,
\* and an answer is sent at most once as long as its row is kept (codex_answer, beginDelivery,
\* finishDelivery and the constructor of QuestionStore).
THEOREM RecordedDeliveriesAreTrue == QuestionsSpec => []DeliveryIsTrue
<1>1. ASSUME QuestionsInv, [QuestionsNext]_answerVars PROVE QuestionsInv'
  BY <1>1, AnswerKeeps, ReceiveKeeps, FinishKeeps, LinkFailureKeeps, RestartKeeps, PruneKeeps,
     SurroundingsKeep DEF QuestionsNext
<1>2. QuestionsInv => DeliveryIsTrue
  BY DEF QuestionsInv, QuestionsTypeOK, RowTellsTheWire, DeliveryIsTrue
<1> QED BY <1>1, <1>2, QuestionsBegin, PTL DEF QuestionsSpec

==============================================================================
