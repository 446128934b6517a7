-------------------------- MODULE ExecutionJournal --------------------------
(***************************************************************************)
(* The execution receipts of src/src/executionJournal.ts.  The process     *)
(* that holds the Codex pipes (the "owner") keeps one receipt per request: *)
(* its latest events, its terminal response and how far the control link   *)
(* has read it.  One link write is in flight at a time; receipts are       *)
(* served round-robin, and unsequenced "auxiliary" messages (error         *)
(* replies, acknowledgement replies, heartbeats) fill the gaps.            *)
(*                                                                         *)
(* Bytes, payloads and wall-clock fields are abstracted: a payload is      *)
(* large or small, and a receipt has room for EventCapacity events.  The   *)
(* epoch counter only tells a callback that its write is not the current   *)
(* one any more; here writing = NoWrite says the same.                     *)
(***************************************************************************)
EXTENDS Integers, Sequences, FiniteSets, Absence

CONSTANTS
    Ids,               \* request identities: Job ids and random request ids
    Retained,          \* the ids whose request says retained: Job turns
    Lanes,             \* receipt lanes: execution, inspection, metadata, control
    LaneOf,            \* executionLane of the operation an id asks for
    Capacity,          \* EXECUTION_LANE_CAPACITIES
    Prints,            \* fingerprints of (operation, args)
    Controllers,       \* controller identities seen on the link
    Interactions,      \* questions a running turn may ask
    Outcomes,          \* terminal outcomes of an execution
    Notices,           \* auxiliary observations without a request
    EventCapacity,     \* events a receipt has room for
    AuxCapacity,       \* auxiliary messages held (256 in the code)
    BurstLimit,        \* receipts written before an auxiliary message (8)
    TombstoneCapacity, \* acknowledged ids remembered (4096)
    MaxSafe,           \* Number.MAX_SAFE_INTEGER, and the bound on sequences
    MaxWire            \* messages the socket buffers before a write completes

EventKeys == {"assignment", "progress", "interaction-state", "delivery-failure"}
             \cup Interactions

ASSUME JournalAssumption ==
    /\ Retained \subseteq Ids
    /\ IsFiniteSet(Ids)
    /\ LaneOf \in [Ids -> Lanes]
    /\ Capacity \in [Lanes -> Nat]
    /\ EventCapacity \in Nat \ {0}
    /\ {AuxCapacity, BurstLimit, MaxSafe, MaxWire} \subseteq Nat
    /\ TombstoneCapacity \in Nat \ {0}
    /\ None \notin Outcomes \cup {"too-large", "undelivered"} \cup Controllers \cup EventKeys \cup Ids
    /\ {"assignment", "progress", "interaction-state", "delivery-failure"}
         \cap Interactions = {}
    /\ "too-large" \notin Outcomes /\ "undelivered" \notin Outcomes

VARIABLES
    receipts,   \* entries: id -> receipt
    order,      \* id -> its place in the iteration order of the entries Map
    acked,      \* tombstones of acknowledged ids, oldest first
    aux,        \* auxiliary messages, in Map order
    writing,    \* the write in flight, or NoWrite
    burst,      \* receiptBurst, saturating at BurstLimit
    linked,     \* link is set
    controller, \* controllerId
    wire        \* what was written to the current link and not read yet

journalVars == <<receipts, order, acked, aux, writing, burst, linked, controller, wire>>

-----------------------------------------------------------------------------
(* Messages and receipts *)

Message(kind, id, key, seq, pending, outcome) ==
    [kind |-> kind, id |-> id, key |-> key, seq |-> seq,
     pending |-> pending, outcome |-> outcome]

\* Unsequenced messages: seq 0 stands for the missing sequence field.
ErrorReply(id, code) == Message("error", id, None, 0, {}, code)
AckReply(id) == Message("acknowledged", id, None, 0, {}, None)
Notice(n) == Message("notice", None, n, 0, {}, None)

NoWrite == [kind |-> "none", id |-> None, key |-> None, seq |-> 0, current |-> FALSE]

Empty == [x \in {} |-> None]

NewReceipt(id, print) ==
    [print |-> print, retained |-> id \in Retained, sequence |-> 0, sent |-> 0,
     events |-> Empty, terminal |-> None, terminalSeq |-> 0,
     failed |-> FALSE, abandoned |-> FALSE, acknowledged |-> FALSE]

Known == DOMAIN receipts
Terminal(id) == receipts[id].terminal # None
Used(lane) == {id \in Known : LaneOf[id] = lane}
Live(id) == DOMAIN receipts[id].events \cap Interactions

\* What a receipt still has for the link, in the order of the sequence numbers.
Unsent(id) ==
    {Message("event", id, k, receipts[id].events[k].seq, receipts[id].events[k].pending, None) :
        k \in {k \in DOMAIN receipts[id].events : receipts[id].events[k].seq > receipts[id].sent}}
    \cup (IF Terminal(id) /\ receipts[id].terminalSeq > receipts[id].sent
          THEN {Message("response", id, None, receipts[id].terminalSeq, {}, receipts[id].terminal)}
          ELSE {})

\* The places that are left to S: its members keep their order.
Places(S) == [x \in S |-> Cardinality({y \in S : order[y] <= order[x]})]
AtTheEnd(places, id) ==
    [x \in DOMAIN places \cup {id} |->
        IF x = id THEN Cardinality(DOMAIN places) + 1 ELSE places[x]]

\* Map.set on the auxiliary map: in place, appended, or dropped when it is full.
SameAux(m, n) == m.kind = n.kind /\ m.id = n.id /\ m.key = n.key
AuxHas(m) == \E i \in DOMAIN aux : SameAux(aux[i], m)
AuxRefuses(m) == Len(aux) >= AuxCapacity /\ ~AuxHas(m)
AuxPut(m) ==
    IF AuxRefuses(m) THEN aux
    ELSE IF AuxHas(m) THEN [i \in DOMAIN aux |-> IF SameAux(aux[i], m) THEN m ELSE aux[i]]
    ELSE Append(aux, m)

\* The callback of a write compares objects: one that was deleted, or replaced
\* by a later message of the same key, is no longer the one it wrote.
Superseded(m) ==
    IF writing.kind = m.kind /\ writing.id = m.id /\ writing.key = m.key
    THEN [writing EXCEPT !.current = FALSE] ELSE writing
DetachedUnchecked(id) == writing
Detached(id) ==
    IF writing.kind \in {"event", "response"} /\ writing.id = id
    THEN [writing EXCEPT !.current = FALSE] ELSE writing

-----------------------------------------------------------------------------
(* pump(): the last call of every operation.  It reads the state the       *)
(* operation leaves, so its operands are primed.                           *)

Ready == {id \in Known : Unsent(id) # {}}
FirstReady == CHOOSE id \in Ready : \A other \in Ready : order[id] <= order[other]
NextReceipt == CHOOSE m \in Unsent(FirstReady) : \A n \in Unsent(FirstReady) : m.seq <= n.seq
AuxTurnWhenIdle == Ready = {}
AuxTurn == Ready = {} \/ (burst >= BurstLimit /\ aux # <<>>)
HasNext == Ready # {} \/ aux # <<>>
NextMessage == IF AuxTurn THEN Head(aux) ELSE NextReceipt

\* inFlight: the write in flight after the operation; w: what the link holds.
Pump(inFlight, w) ==
    IF inFlight = NoWrite /\ linked' /\ HasNext'
    THEN /\ writing' = [kind |-> NextMessage'.kind, id |-> NextMessage'.id,
                        key |-> NextMessage'.key, seq |-> NextMessage'.seq, current |-> TRUE]
         /\ wire' = Append(w, NextMessage')
    ELSE writing' = inFlight /\ wire' = w

-----------------------------------------------------------------------------
JournalInit ==
    /\ receipts = Empty
    /\ order = Empty
    /\ acked = <<>>
    /\ aux = <<>>
    /\ writing = NoWrite
    /\ burst = 0
    /\ linked = FALSE
    /\ controller = None
    /\ wire = <<>>

(* admit(request, control) *)
Tombstoned(id) == \E i \in DOMAIN acked : acked[i] = id
LaneFullLate(id) == Cardinality(Used(LaneOf[id])) > Capacity[LaneOf[id]]
LaneFull(id) == Cardinality(Used(LaneOf[id])) >= Capacity[LaneOf[id]]
AdmitsReleased(id) == id \notin Known /\ ~LaneFull(id)
AdmitsKnown(id) == ~Tombstoned(id) /\ ~LaneFull(id)
AdmitsNew(id) == id \notin Known /\ ~Tombstoned(id) /\ ~LaneFull(id)

AdmitNew(id, print) ==
    /\ AdmitsNew(id)
    /\ receipts' = [i \in Known \cup {id} |-> IF i = id THEN NewReceipt(id, print) ELSE receipts[i]]
    /\ order' = AtTheEnd(order, id)
    /\ UNCHANGED <<acked, aux, writing, burst, linked, controller, wire>>

Higher(a, b) == IF a <= b THEN b ELSE a
Lower(a, b) == IF a <= b THEN a ELSE b
RewoundNever(sent, after) == Higher(sent, after)
Rewound(sent, after) == Lower(sent, after)

AdmitExisting(id, after, print) ==
    /\ id \in Known
    /\ receipts[id].print = print
    /\ receipts' = [receipts EXCEPT ![id].sent = Rewound(@, after)]
    /\ UNCHANGED <<order, acked, aux, burst, linked, controller>>
    /\ Pump(writing, wire)

ReplyError(id, code) ==
    /\ aux' = AuxPut(ErrorReply(id, code))
    /\ UNCHANGED <<receipts, order, acked, burst, linked, controller>>
    /\ Pump(Superseded(ErrorReply(id, code)), wire)

AdmitConflict(id, print) ==
    id \in Known /\ receipts[id].print # print /\ ReplyError(id, "identity-conflict")
AdmitTombstoned(id) ==
    id \notin Known /\ Tombstoned(id) /\ ReplyError(id, "already-acknowledged")
AdmitOverCapacity(id) ==
    id \notin Known /\ ~Tombstoned(id) /\ LaneFull(id) /\ ReplyError(id, "capacity")

Admit(id, after, print) ==
    \/ AdmitNew(id, print)
    \/ AdmitExisting(id, after, print)
    \/ AdmitConflict(id, print)
    \/ AdmitTombstoned(id)
    \/ AdmitOverCapacity(id)

(* recover(requestId, afterSequence): a replacement controller subscribes *)
RecoverKnown(id, after) ==
    /\ id \in Known
    /\ receipts' = [receipts EXCEPT ![id].sent = after]
    /\ UNCHANGED <<order, acked, aux, burst, linked, controller>>
    /\ Pump(writing, wire)
RecoverMissing(id) == id \notin Known /\ ReplyError(id, "worker-lost")
Recover(id, after) == RecoverKnown(id, after) \/ RecoverMissing(id)

(* acknowledge(requestId), and the "acknowledged" message the owner sends after it *)
Remember(id) ==
    LET s == IF Tombstoned(id) THEN acked ELSE Append(acked, id)
    IN  IF Len(s) > TombstoneCapacity THEN Tail(s) ELSE s

ForgetNothing(id) == UNCHANGED <<receipts, order>>
Forget(id) ==
    /\ receipts' = [i \in Known \ {id} |-> receipts[i]]
    /\ order' = Places(Known \ {id})

Acknowledge(id) ==
    /\ \/ id \in Known /\ Terminal(id) /\ Forget(id) /\ acked' = Remember(id)
       \/ id \in Known /\ ~Terminal(id)
          /\ receipts' = [receipts EXCEPT ![id].acknowledged = TRUE]
          /\ UNCHANGED <<order, acked>>
       \/ id \notin Known /\ UNCHANGED <<receipts, order, acked>>
    /\ aux' = AuxPut(AckReply(id))
    /\ UNCHANGED <<burst, linked, controller>>
    /\ LET w == IF id \in Known /\ Terminal(id) /\ writing.kind \in {"event", "response"}
                THEN Detached(id) ELSE Superseded(AckReply(id))
       IN  IF AuxRefuses(AckReply(id)) THEN writing' = w /\ UNCHANGED wire ELSE Pump(w, wire)

(* connect(link, controllerId).  greeting: written to the link before it. *)
Replaced(c) == controller # None /\ controller # c
DiscardedAll(c) == {id \in Known : Replaced(c) /\ Terminal(id)}
Discarded(c) == {id \in Known : Replaced(c) /\ ~receipts[id].retained /\ Terminal(id)}

Connect(c, greeting) ==
    /\ receipts' = [id \in Known \ Discarded(c) |->
          [receipts[id] EXCEPT !.sent = MaxSafe,
             !.abandoned = @ \/ (Replaced(c) /\ ~receipts[id].retained)]]
    /\ order' = Places(Known \ Discarded(c))
    /\ controller' = c
    /\ linked' = TRUE
    /\ UNCHANGED <<acked, aux, burst>>
    /\ Pump(NoWrite, greeting)

(* disconnect() *)
Disconnect ==
    /\ linked' = FALSE
    /\ writing' = NoWrite
    /\ aux' = <<>>
    /\ UNCHANGED <<receipts, order, acked, burst, controller, wire>>

-----------------------------------------------------------------------------
(* send(message) for a request that has a receipt *)

RestrictedNever(f, S) == f
Restricted(f, S) == [k \in S |-> f[k]]
SetEvent(f, k, e) == [x \in DOMAIN f \cup {k} |-> IF x = k THEN e ELSE f[x]]

\* The questions that are open once an event of this key is stored.
OpenedOnly(events, key) == {key} \cap Interactions
OpenQuestions(events, key) == (DOMAIN events \cup {key}) \cap Interactions

\* A progress or assignment event.  resolved: the question it resolves, or None.
\* large: the payload exceeds what it may take.
SendEvent(id, key, resolved, large) ==
    /\ id \in Known
    /\ ~Terminal(id)
    /\ receipts[id].sequence + 2 < MaxSafe
    /\ LET r == receipts[id]
           seq == r.sequence + 1
           kept == Restricted(r.events, DOMAIN r.events \ {resolved})
           snapshot == key = "interaction-state" \/ key \in Interactions
           event == [seq |-> seq, pending |-> IF snapshot THEN OpenQuestions(kept, key) ELSE {}]
           full == large \/ Cardinality(DOMAIN kept \cup {key}) > EventCapacity
           warning == [seq |-> seq + 1, pending |-> {}]
       IN  receipts' = [receipts EXCEPT ![id] =
             IF key = "progress" /\ large
             THEN [r EXCEPT !.sequence = seq]
             ELSE IF ~full
             THEN [r EXCEPT !.sequence = seq, !.events = SetEvent(kept, key, event)]
             ELSE IF r.failed
             THEN [r EXCEPT !.sequence = seq, !.events = kept]
             ELSE [r EXCEPT !.sequence = seq + 1, !.failed = TRUE,
                            !.events = SetEvent(kept, "delivery-failure", warning)]]
    /\ UNCHANGED <<order, acked, aux, burst, linked, controller>>
    /\ IF key = "progress" /\ large
       THEN UNCHANGED <<writing, wire>>
       ELSE Pump(writing, wire)

SendAssignment(id, large) == SendEvent(id, "assignment", None, large)
SendProgress(id, large) == SendEvent(id, "progress", None, large)
SendInput(id, i, large) == SendEvent(id, i, None, large)
SendResolution(id, i, large) == SendEvent(id, "interaction-state", i, large)

\* The terminal response of an execution nobody waits for is dropped.
SendUnwantedResponse(id) ==
    /\ id \in Known
    /\ ~Terminal(id)
    /\ receipts[id].abandoned \/ receipts[id].acknowledged
    /\ Forget(id)
    /\ writing' = Detached(id)
    /\ UNCHANGED <<acked, aux, burst, linked, controller, wire>>

SendResponse(id, outcome, large) ==
    /\ id \in Known
    /\ ~Terminal(id)
    /\ ~receipts[id].abandoned /\ ~receipts[id].acknowledged
    /\ receipts[id].sequence + 1 < MaxSafe
    /\ LET r == receipts[id]
       IN  receipts' = [receipts EXCEPT ![id] =
             [r EXCEPT !.sequence = r.sequence + 1,
                       !.terminalSeq = r.sequence + 1,
                       !.terminal = IF r.failed THEN "undelivered"
                                    ELSE IF large THEN "too-large" ELSE outcome,
                       !.events = Restricted(r.events, DOMAIN r.events \cap {"assignment"})]]
    /\ UNCHANGED <<order, acked, aux, burst, linked, controller>>
    /\ Pump(writing, wire)

(* send(message) without a receipt: heartbeats, observations, stray events *)
SendNotice(n) ==
    /\ aux' = AuxPut(Notice(n))
    /\ UNCHANGED <<receipts, order, acked, burst, linked, controller>>
    /\ IF AuxRefuses(Notice(n)) THEN UNCHANGED <<writing, wire>>
       ELSE Pump(Superseded(Notice(n)), wire)

-----------------------------------------------------------------------------
(* The callback of the write in flight, and the pump it schedules *)

Finished == writing # NoWrite /\ Len(wire) <= MaxWire

\* Map.delete and Map.set: the receipt goes behind its peers.
RotatedNever(id) == order
Rotated(id) == AtTheEnd(Places(Known \ {id}), id)

ReceiptWritten ==
    /\ Finished
    /\ writing.kind \in {"event", "response"}
    /\ burst' = Lower(burst + 1, BurstLimit)
    /\ IF writing.current
       THEN /\ receipts' = [receipts EXCEPT ![writing.id].sent = writing.seq]
            /\ order' = Rotated(writing.id)
       ELSE UNCHANGED <<receipts, order>>
    /\ writing' = NoWrite
    /\ UNCHANGED <<acked, aux, linked, controller, wire>>

\* An auxiliary message that is still current is the first of its Map.
AuxWritten ==
    /\ Finished
    /\ writing.kind \notin {"event", "response"}
    /\ burst' = 0
    /\ aux' = IF writing.current THEN Tail(aux) ELSE aux
    /\ writing' = NoWrite
    /\ UNCHANGED <<receipts, order, acked, linked, controller, wire>>

WriteFailed ==
    /\ writing # NoWrite
    /\ Disconnect

\* The pump of setImmediate: something to write and no write in flight.
PumpLater ==
    /\ linked /\ writing = NoWrite /\ HasNext
    /\ UNCHANGED <<receipts, order, acked, aux, burst, linked, controller>>
    /\ Pump(NoWrite, wire)

\* The peer of the link reads one message.
PeerReads ==
    /\ wire # <<>>
    /\ wire' = Tail(wire)
    /\ UNCHANGED <<receipts, order, acked, aux, writing, burst, linked, controller>>

-----------------------------------------------------------------------------
(* The journal on its own: any request order, any link, any execution.     *)

\* A controller subscribes from a sequence number it may have read.
Cursors(id) == 0 .. (IF id \in Known THEN receipts[id].sequence ELSE 0)

Settle(id) ==
    \/ \E o \in Outcomes, large \in BOOLEAN : SendResponse(id, o, large)
    \/ SendUnwantedResponse(id)

Emit(id) ==
    \E large \in BOOLEAN :
        \/ SendAssignment(id, large)
        \/ SendProgress(id, large)
        \/ \E i \in Interactions : SendInput(id, i, large)
        \/ \E i \in Interactions : SendResolution(id, i, large)

Subscribe(id) ==
    \E after \in Cursors(id) :
        \/ \E print \in Prints : Admit(id, after, print)
        \/ Recover(id, after)

Link ==
    \/ \E c \in Controllers : Connect(c, <<>>)
    \/ Disconnect
    \/ ReceiptWritten
    \/ AuxWritten
    \/ WriteFailed
    \/ PumpLater
    \/ PeerReads

JournalNext ==
    \/ \E id \in Ids : Subscribe(id) \/ Acknowledge(id) \/ Emit(id) \/ Settle(id)
    \/ \E n \in Notices : SendNotice(n)
    \/ Link

JournalSpec == JournalInit /\ [][JournalNext]_journalVars

-----------------------------------------------------------------------------
(* Types *)

TerminalValues == Outcomes \cup {"too-large", "undelivered"}
Numbers == 0 .. MaxSafe
Events == [seq : 1 .. MaxSafe, pending : SUBSET Interactions]
IsReceipt(r) ==
    /\ r \in [print : Prints, retained : BOOLEAN, sequence : Numbers, sent : Numbers,
             events : {r.events}, terminal : TerminalValues \cup {None}, terminalSeq : Numbers,
             failed : BOOLEAN, abandoned : BOOLEAN, acknowledged : BOOLEAN]
    /\ DOMAIN r.events \subseteq EventKeys
    /\ r.events \in [DOMAIN r.events -> Events]
AuxKinds == {"error", "acknowledged", "notice"}
AuxMessages ==
    [kind : AuxKinds, id : Ids \cup {None}, key : Notices \cup {None}, seq : {0}, pending : {{}},
     outcome : {"identity-conflict", "already-acknowledged", "capacity", "worker-lost", None}]
Writes ==
    [kind : AuxKinds \cup {"event", "response"}, id : Ids \cup {None},
     key : EventKeys \cup Notices \cup {None}, seq : Numbers, current : BOOLEAN]

ReceiptsOK ==
    /\ Known \subseteq Ids /\ receipts = [id \in Known |-> receipts[id]]
    /\ \A id \in Known : IsReceipt(receipts[id]) /\ receipts[id].retained = (id \in Retained)

\* Receipts and their iteration order agree.
OrderOK ==
    /\ order \in [Known -> 1 .. Cardinality(Known)]
    /\ \A id, other \in Known : order[id] = order[other] => id = other

\* Only a set link has a write in flight; while it is current, it is a write of
\* a receipt that is still there, or of the first auxiliary message.
WritingOK ==
    /\ writing \in Writes \cup {NoWrite}
    /\ writing # NoWrite => linked
    /\ writing # NoWrite /\ writing.current =>
          IF writing.kind \in AuxKinds
          THEN aux # <<>> /\ SameAux(Head(aux), writing)
          ELSE writing.id \in Known

ControlOK ==
    /\ acked \in Seq(Ids) /\ Len(acked) <= TombstoneCapacity
    /\ aux \in Seq(AuxMessages) /\ Len(aux) <= AuxCapacity
    /\ burst \in 0 .. BurstLimit
    /\ linked \in BOOLEAN
    /\ controller \in Controllers \cup {None}

\* The shape of the journal.
TypeOK == ReceiptsOK /\ OrderOK /\ WritingOK /\ ControlOK

(* Safety *)

\* Each lane has its own bound: inspections and metadata reads never take a
\* slot of an execution or a control, whatever is admitted, retried or replayed
\* (EXECUTION_LANE_CAPACITIES; a release or a replay that forgot to free or
\* re-used a slot would break it).
LaneBound == \A lane \in Lanes : Cardinality(Used(lane)) <= Capacity[lane]

\* Reading a receipt from any cursor gives its events in the order they
\* happened, the terminal response last, and no question after it
\* (send() numbers, coalesces and prunes; pump() sorts by number).
ReplayIsOrdered ==
    \A id \in Known :
        LET r == receipts[id]
        IN  /\ \A k, l \in DOMAIN r.events : r.events[k].seq = r.events[l].seq => k = l
            /\ \A k \in DOMAIN r.events : r.events[k].seq <= r.sequence
            /\ Terminal(id) => /\ r.terminalSeq = r.sequence
                               /\ DOMAIN r.events \subseteq {"assignment"}
                               /\ \A k \in DOMAIN r.events : r.events[k].seq < r.terminalSeq

\* A controller that replays the retained events of a running turn ends with
\* exactly the questions that are open: the newest question snapshot names
\* those, however asking, resolving and coalescing interleaved, unless the
\* receipt had already declared that it lost an event (send(), 150-184).
ReplayRestoresQuestions ==
    \A id \in Known :
        LET r == receipts[id]
            snapshots == DOMAIN r.events \cap ({"interaction-state"} \cup Interactions)
        IN  ~r.failed /\ ~Terminal(id) =>
              /\ Live(id) # {} => snapshots # {}
              /\ \A k \in snapshots :
                    (\A l \in snapshots : r.events[l].seq <= r.events[k].seq)
                        => r.events[k].pending = Live(id)

\* An id whose receipt was released is not in the journal again while its
\* tombstone is kept: nothing re-admits an acknowledged execution.
ReleasedStaysReleased == \A id \in Known : ~Tombstoned(id)

(* Action properties *)

\* The recorded outcome of a Job turn neither changes nor leaves the journal
\* before the controller acknowledged it: not on reconnect, controller
\* replacement, write failure, capacity pressure or a late second response.
ResultKept ==
    [][\A id \in Known \cap Retained : Terminal(id) =>
          \/ id \in DOMAIN receipts' /\ receipts'[id].terminal = receipts[id].terminal
          \/ id \notin DOMAIN receipts' /\ acked' # <<>> /\ acked'[Len(acked')] = id
      ]_journalVars

=============================================================================
