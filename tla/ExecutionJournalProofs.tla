----------------------- MODULE ExecutionJournalProofs -----------------------
(* The theorems of ExecutionJournal and JournalScheduling.                   *)
EXTENDS JournalScheduling, FiniteSetTheorems, FunctionTheorems, SequenceTheorems,
        WellFoundedInduction, TLAPS

-----------------------------------------------------------------------------
(* The iteration order of the entries Map *)

Enumerates(places, S) ==
    /\ places \in [S -> 1 .. Cardinality(S)]
    /\ \A x, y \in S : places[x] = places[y] => x = y

\* Deleting keys from a Map leaves the rest in its order, with places 1 to n.
LEMMA PlacesEnumerate ==
    ASSUME NEW S, IsFiniteSet(S), \A x \in S : order[x] \in Int,
           \A x, y \in S : order[x] = order[y] => x = y
    PROVE  Enumerates(Places(S), S)
<1> DEFINE Upto(x) == {y \in S : order[y] <= order[x]}
<1>1. \A x \in S : /\ IsFiniteSet(Upto(x)) /\ Cardinality(Upto(x)) \in Nat
                   /\ Cardinality(Upto(x)) <= Cardinality(S)
      BY FS_Subset, FS_CardinalityType
<1>2. \A x \in S : Cardinality(Upto(x)) \in 1 .. Cardinality(S)
  <2>1. \A x \in S : x \in Upto(x)
        OBVIOUS
  <2> HIDE DEF Upto
  <2>2. \A x \in S : Cardinality(Upto(x)) # 0
        BY <1>1, <2>1, FS_EmptySet
  <2>3. Cardinality(S) \in Nat
        BY FS_CardinalityType
  <2> QED BY <1>1, <2>2, <2>3
<1>3. ASSUME NEW x \in S, NEW y \in S, Cardinality(Upto(x)) = Cardinality(Upto(y)),
             order[x] <= order[y]
      PROVE  x = y
  <2>1. Upto(x) \subseteq Upto(y)
        BY <1>3
  <2>2. Upto(x) = Upto(y)
        BY <1>1, <1>3, <2>1, FS_Subset
  <2>3. order[y] <= order[x]
        BY <2>2
  <2> QED BY <1>3, <2>3
<1>4. Places(S) = [x \in S |-> Cardinality(Upto(x))]
      BY DEF Places
<1> HIDE DEF Upto
<1>5. Places(S) \in [S -> 1 .. Cardinality(S)]
      BY <1>2, <1>4
<1>6. \A x, y \in S : Places(S)[x] = Places(S)[y] => x = y
      BY <1>3, <1>4
<1> QED BY <1>5, <1>6 DEF Enumerates

\* Setting a new key of a Map puts it last.
LEMMA AtTheEndEnumerates ==
    ASSUME NEW S, IsFiniteSet(S), NEW places, Enumerates(places, S), NEW id, id \notin S
    PROVE  Enumerates(AtTheEnd(places, id), S \cup {id})
<1>1. Cardinality(S) \in Nat /\ Cardinality(S \cup {id}) = Cardinality(S) + 1
      BY FS_CardinalityType, FS_AddElement
<1>2. AtTheEnd(places, id) =
         [x \in S \cup {id} |-> IF x = id THEN Cardinality(S) + 1 ELSE places[x]]
      BY DEF AtTheEnd, Enumerates
<1>3. \A x \in S : places[x] \in 1 .. Cardinality(S)
      BY DEF Enumerates
<1>4. AtTheEnd(places, id) \in [S \cup {id} -> 1 .. Cardinality(S \cup {id})]
      BY <1>1, <1>2, <1>3
<1>5. \A x, y \in S \cup {id} :
         AtTheEnd(places, id)[x] = AtTheEnd(places, id)[y] => x = y
      BY <1>1, <1>2, <1>3 DEF Enumerates
<1> QED BY <1>4, <1>5 DEF Enumerates

-----------------------------------------------------------------------------
(* What pump() chooses *)

\* A non-empty set of numbers has a least one.
LEMMA Least ==
    ASSUME NEW T, T \subseteq Nat, T # {}
    PROVE  \E n \in T : \A m \in T : n <= m
<1>1. PICK n \in T : \A m \in T : ~(<<m, n>> \in OpToRel(<, Nat))
      BY NatLessThanWellFounded, WFMin
<1>2. \A m \in T : ~(m < n)
      BY <1>1 DEF OpToRel
<1> QED BY <1>2

\* The messages of a receipt, and the least of them.
LEMMA UnsentOK ==
    ReceiptsOK => \A id \in Known : \A m \in Unsent(id) :
        /\ m.kind \in {"event", "response"} /\ m.id = id /\ m.seq \in Numbers
        /\ m.key \in EventKeys \cup {None}
<1> SUFFICES ASSUME ReceiptsOK, NEW id \in Known, NEW m \in Unsent(id)
             PROVE  /\ m.kind \in {"event", "response"} /\ m.id = id /\ m.seq \in Numbers
                    /\ m.key \in EventKeys \cup {None}
    OBVIOUS
<1>1. IsReceipt(receipts[id])
      BY DEF ReceiptsOK
<1>2. CASE \E k \in DOMAIN receipts[id].events :
              m = Message("event", id, k, receipts[id].events[k].seq, receipts[id].events[k].pending, None)
      BY <1>1, <1>2, JournalAssumption DEF IsReceipt, Events, Numbers, Message
<1>3. CASE m = Message("response", id, None, receipts[id].terminalSeq, {}, receipts[id].terminal)
      BY <1>1, <1>3 DEF IsReceipt, Message
<1> QED BY <1>2, <1>3 DEF Unsent

LEMMA NextReceiptOK ==
    ReceiptsOK /\ OrderOK /\ Ready # {} =>
        /\ FirstReady \in Known
        /\ NextReceipt \in Unsent(FirstReady)
<1> SUFFICES ASSUME ReceiptsOK, OrderOK, Ready # {}
             PROVE  FirstReady \in Known /\ NextReceipt \in Unsent(FirstReady)
    OBVIOUS
<1>1. Ready \subseteq Known /\ \A id \in Ready : Unsent(id) # {} /\ order[id] \in Nat
      BY DEF Ready, OrderOK
<1>2. FirstReady \in Ready
  <2>1. {order[id] : id \in Ready} \subseteq Nat /\ {order[id] : id \in Ready} # {}
        BY <1>1
  <2>2. PICK n \in {order[id] : id \in Ready} : \A m \in {order[id] : id \in Ready} : n <= m
        BY <2>1, Least
  <2>3. \E id \in Ready : \A other \in Ready : order[id] <= order[other]
        BY <2>2
  <2> QED BY <2>3 DEF FirstReady
<1>3. NextReceipt \in Unsent(FirstReady)
  <2> DEFINE seqs == {m.seq : m \in Unsent(FirstReady)}
  <2>1. seqs \subseteq Nat /\ seqs # {}
        BY <1>1, <1>2, UnsentOK DEF Numbers
  <2>2. PICK n \in seqs : \A m \in seqs : n <= m
        BY <2>1, Least
  <2>3. \E m \in Unsent(FirstReady) : \A o \in Unsent(FirstReady) : m.seq <= o.seq
        BY <2>2
  <2> QED BY <2>3 DEF NextReceipt
<1> QED BY <1>1, <1>2, <1>3

LEMMA NextMessageOK ==
    ReceiptsOK /\ OrderOK /\ ControlOK /\ HasNext =>
        /\ NextMessage.kind \in AuxKinds \cup {"event", "response"}
        /\ NextMessage.id \in Ids \cup {None} /\ NextMessage.seq \in Numbers
        /\ NextMessage.key \in EventKeys \cup Notices \cup {None}
        /\ IF NextMessage.kind \in AuxKinds
           THEN aux # <<>> /\ SameAux(Head(aux), NextMessage)
           ELSE NextMessage.id \in Known
<1> SUFFICES ASSUME ReceiptsOK, OrderOK, ControlOK, HasNext
             PROVE  /\ NextMessage.kind \in AuxKinds \cup {"event", "response"}
                    /\ NextMessage.id \in Ids \cup {None} /\ NextMessage.seq \in Numbers
                    /\ NextMessage.key \in EventKeys \cup Notices \cup {None}
                    /\ IF NextMessage.kind \in AuxKinds
                       THEN aux # <<>> /\ SameAux(Head(aux), NextMessage)
                       ELSE NextMessage.id \in Known
    OBVIOUS
<1>1. CASE AuxTurn
  <2>1. aux # <<>> /\ NextMessage = Head(aux)
        BY <1>1 DEF HasNext, AuxTurn, NextMessage
  <2>2. Head(aux) \in AuxMessages
        BY <2>1, HeadTailProperties DEF ControlOK
  <2> QED BY <2>1, <2>2, JournalAssumption DEF AuxMessages, SameAux, Numbers
<1>2. CASE ~AuxTurn
  <2>1. Ready # {} /\ NextMessage = NextReceipt
        BY <1>2 DEF AuxTurn, NextMessage
  <2>2. FirstReady \in Known /\ NextReceipt \in Unsent(FirstReady)
        BY <2>1, NextReceiptOK
  <2> QED BY <2>1, <2>2, UnsentOK DEF AuxKinds, ReceiptsOK
<1> QED BY <1>1, <1>2

\* pump() begins at most one write, of a message that is there, on a set link.
LEMMA PumpOK ==
    ASSUME NEW flight, NEW w, Pump(flight, w), ReceiptsOK', OrderOK', ControlOK',
           flight \in Writes \cup {NoWrite}, flight # NoWrite => linked',
           flight # NoWrite /\ flight.current =>
               IF flight.kind \in AuxKinds
               THEN aux' # <<>> /\ SameAux(Head(aux'), flight)
               ELSE flight.id \in DOMAIN receipts'
    PROVE  WritingOK'
<1>1. CASE flight = NoWrite /\ linked' /\ HasNext'
  <2>1. /\ NextMessage'.kind \in AuxKinds \cup {"event", "response"}
        /\ NextMessage'.id \in Ids \cup {None} /\ NextMessage'.seq \in Numbers
        /\ NextMessage'.key \in EventKeys \cup Notices \cup {None}
        /\ IF NextMessage'.kind \in AuxKinds
           THEN aux' # <<>> /\ SameAux(Head(aux'), NextMessage')
           ELSE NextMessage'.id \in DOMAIN receipts'
    <3>1. (ReceiptsOK /\ OrderOK /\ ControlOK /\ HasNext =>
              /\ NextMessage.kind \in AuxKinds \cup {"event", "response"}
              /\ NextMessage.id \in Ids \cup {None} /\ NextMessage.seq \in Numbers
              /\ NextMessage.key \in EventKeys \cup Notices \cup {None}
              /\ IF NextMessage.kind \in AuxKinds
                 THEN aux # <<>> /\ SameAux(Head(aux), NextMessage)
                 ELSE NextMessage.id \in Known)'
          BY NextMessageOK, PTL
    <3> QED BY <1>1, <3>1 DEF Known, SameAux
  <2>2. writing' = [kind |-> NextMessage'.kind, id |-> NextMessage'.id,
                    key |-> NextMessage'.key, seq |-> NextMessage'.seq, current |-> TRUE]
        BY <1>1 DEF Pump
  <2> QED BY <1>1, <2>1, <2>2 DEF WritingOK, Writes, SameAux, Known
<1>2. CASE ~(flight = NoWrite /\ linked' /\ HasNext')
  <2>1. writing' = flight
        BY <1>2 DEF Pump
  <2> QED BY <2>1 DEF WritingOK, SameAux, Known
<1> QED BY <1>1, <1>2

-----------------------------------------------------------------------------
(* Operations on the auxiliary messages *)

LEMMA NothingOK ==
    /\ <<>> \in Seq(AuxMessages) /\ Len(<<>>) <= AuxCapacity
    /\ <<>> \in Seq(Ids) /\ Len(<<>>) <= TombstoneCapacity
    /\ 0 \in 0 .. BurstLimit
<1>1. AuxCapacity \in Nat /\ TombstoneCapacity \in Nat /\ BurstLimit \in Nat
      BY JournalAssumption
<1>2. Len(<<>>) = 0
      OBVIOUS
<1> QED BY <1>1, <1>2

\* Setting an auxiliary message never displaces the first one.
LEMMA AuxPutOK ==
    ASSUME ControlOK, NEW m \in AuxMessages
    PROVE  /\ AuxPut(m) \in Seq(AuxMessages) /\ Len(AuxPut(m)) <= AuxCapacity
           /\ aux # <<>> => AuxPut(m) # <<>> /\ SameAux(Head(AuxPut(m)), Head(aux))
<1>1. aux \in Seq(AuxMessages) /\ Len(aux) <= AuxCapacity /\ Len(aux) \in Nat /\ AuxCapacity \in Nat
      BY JournalAssumption DEF ControlOK
<1>2. CASE AuxRefuses(m)
      BY <1>1, <1>2 DEF AuxPut, SameAux
<1>3. CASE ~AuxRefuses(m) /\ AuxHas(m)
  <2>1. AuxPut(m) = [i \in 1 .. Len(aux) |-> IF SameAux(aux[i], m) THEN m ELSE aux[i]]
        BY <1>1, <1>3 DEF AuxPut
  <2>2. AuxPut(m) \in Seq(AuxMessages) /\ Len(AuxPut(m)) = Len(aux)
        BY <1>1, <2>1
  <2>3. aux # <<>> => AuxPut(m) # <<>> /\ SameAux(Head(AuxPut(m)), Head(aux))
        BY <1>1, <2>1, <2>2 DEF SameAux
  <2> QED BY <1>1, <2>2, <2>3
<1>4. CASE ~AuxRefuses(m) /\ ~AuxHas(m)
  <2>1. AuxPut(m) = Append(aux, m) /\ Len(aux) < AuxCapacity
        BY <1>1, <1>4 DEF AuxPut, AuxRefuses
  <2> QED BY <1>1, <2>1 DEF SameAux
<1> QED BY <1>2, <1>3, <1>4

\* A write whose message was replaced, or whose receipt was deleted, is only
\* marked as not current.
LEMMA SupersededOK ==
    ASSUME WritingOK, NEW m \in AuxMessages
    PROVE  /\ Superseded(m) \in Writes \cup {NoWrite}
           /\ Superseded(m) # NoWrite => writing # NoWrite
           /\ Superseded(m) # NoWrite /\ Superseded(m).current => Superseded(m) = writing
<1>1. CASE Superseded(m) = writing
      BY <1>1 DEF WritingOK
<1>2. CASE Superseded(m) # writing
  <2>1. writing.kind = m.kind /\ Superseded(m) = [writing EXCEPT !.current = FALSE]
        BY <1>2 DEF Superseded
  <2>2. writing \in Writes
        BY <2>1 DEF WritingOK, NoWrite, AuxMessages, AuxKinds
  <2>3. Superseded(m) \in Writes /\ ~Superseded(m).current
        BY <2>1, <2>2 DEF Writes
  <2>4. writing # NoWrite
        BY <2>1 DEF NoWrite, AuxMessages, AuxKinds
  <2> QED BY <2>3, <2>4
<1> QED BY <1>1, <1>2

LEMMA DetachedOK ==
    ASSUME WritingOK, NEW id
    PROVE  /\ Detached(id) \in Writes \cup {NoWrite}
           /\ Detached(id) # NoWrite => writing # NoWrite
           /\ Detached(id) # NoWrite /\ Detached(id).current =>
                 Detached(id) = writing /\ (writing.kind \in AuxKinds \/ writing.id # id)
<1>1. CASE Detached(id) = writing
  <2>1. writing # NoWrite => writing.kind \in AuxKinds \cup {"event", "response"}
        BY DEF WritingOK, Writes
  <2>2. writing.current => writing.kind \notin {"event", "response"} \/ writing.id # id
    <3>1. CASE writing.kind \in {"event", "response"} /\ writing.id = id
      <4>1. writing \in Writes
            BY <3>1 DEF WritingOK, NoWrite
      <4> QED BY <1>1, <3>1, <4>1 DEF Detached, Writes
    <3> QED BY <3>1
  <2> QED BY <1>1, <2>1, <2>2 DEF WritingOK
<1>2. CASE Detached(id) # writing
  <2>1. /\ writing.kind \in {"event", "response"}
        /\ Detached(id) = [writing EXCEPT !.current = FALSE]
        BY <1>2 DEF Detached
  <2>2. writing \in Writes
        BY <2>1 DEF WritingOK, NoWrite
  <2>3. Detached(id) \in Writes /\ ~Detached(id).current
        BY <2>1, <2>2 DEF Writes
  <2>4. writing # NoWrite
        BY <2>1 DEF NoWrite
  <2> QED BY <2>3, <2>4
<1> QED BY <1>1, <1>2

-----------------------------------------------------------------------------
(* The shapes of a step: what an operation changes before its pump() *)

\* A step that rewrites receipts in place.
LEMMA RewriteOK ==
    ASSUME TypeOK, ReceiptsOK', DOMAIN receipts' = Known,
           UNCHANGED <<order, acked, aux, burst, linked, controller>>,
           Pump(writing, wire) \/ UNCHANGED writing
    PROVE  TypeOK'
<1>1. OrderOK' /\ ControlOK'
      BY DEF TypeOK, OrderOK, ControlOK, Known
<1>2. CASE UNCHANGED writing
      BY <1>1, <1>2 DEF TypeOK, WritingOK, SameAux, Known
<1>3. CASE Pump(writing, wire)
  <2>1. /\ writing \in Writes \cup {NoWrite} /\ (writing # NoWrite => linked')
        /\ (writing # NoWrite /\ writing.current =>
              IF writing.kind \in AuxKinds
              THEN aux' # <<>> /\ SameAux(Head(aux'), writing)
              ELSE writing.id \in DOMAIN receipts')
        BY DEF TypeOK, WritingOK
  <2>2. WritingOK'
        BY <1>1, <1>3, <2>1, PumpOK
  <2> QED BY <1>1, <2>2 DEF TypeOK
<1> QED BY <1>2, <1>3

\* A step that sets an auxiliary message.
LEMMA AuxiliaryOK ==
    ASSUME TypeOK, NEW m \in AuxMessages, ReceiptsOK', OrderOK', ControlOK',
           NEW flight, flight \in Writes \cup {NoWrite}, flight # NoWrite => writing # NoWrite,
           flight # NoWrite /\ flight.current =>
               flight = writing /\ (writing.kind \in AuxKinds \/ writing.id \in DOMAIN receipts'),
           aux' = AuxPut(m), linked' = linked,
           Pump(flight, wire) \/ writing' = flight
    PROVE  TypeOK'
<1>1. flight # NoWrite => linked'
      BY DEF TypeOK, WritingOK
<1>2. flight # NoWrite /\ flight.current =>
         IF flight.kind \in AuxKinds
         THEN aux' # <<>> /\ SameAux(Head(aux'), flight)
         ELSE flight.id \in DOMAIN receipts'
      BY AuxPutOK DEF TypeOK, WritingOK, SameAux
<1>3. WritingOK'
  <2>1. CASE Pump(flight, wire)
        BY <1>1, <1>2, <2>1, PumpOK
  <2>2. CASE writing' = flight
        BY <1>1, <1>2, <2>2 DEF WritingOK, SameAux, Known
  <2> QED BY <2>1, <2>2
<1> QED BY <1>3 DEF TypeOK

\* Deleting a receipt keeps the rest and their order.
LEMMA KeepOK ==
    ASSUME TypeOK, NEW S \in SUBSET Known,
           DOMAIN receipts' = S, order' = Places(S)
    PROVE  OrderOK'
<1>1. IsFiniteSet(S) /\ S \subseteq Known
      BY JournalAssumption, FS_Subset DEF TypeOK, ReceiptsOK
<1>2. (\A x \in S : order[x] \in Int) /\ \A x, y \in S : order[x] = order[y] => x = y
      BY <1>1 DEF TypeOK, OrderOK
<1>3. Enumerates(Places(S), S)
      BY <1>1, <1>2, PlacesEnumerate
<1> QED BY <1>3 DEF OrderOK, Enumerates, Known

LEMMA ForgetOK ==
    ASSUME TypeOK, NEW id, Forget(id)
    PROVE  ReceiptsOK' /\ OrderOK' /\ DOMAIN receipts' = Known \ {id}
<1>1. DOMAIN receipts' = Known \ {id} /\ order' = Places(Known \ {id})
      BY DEF Forget
<1>2. OrderOK'
      BY <1>1, KeepOK
<1>3. ReceiptsOK'
      BY <1>1 DEF TypeOK, ReceiptsOK, Known, Forget, IsReceipt
<1> QED BY <1>1, <1>2, <1>3

-----------------------------------------------------------------------------
(* One lemma per operation *)

LEMMA AdmitNewOK ==
    ASSUME TypeOK, NEW id \in Ids, NEW print \in Prints, AdmitNew(id, print)
    PROVE  TypeOK'
<1>1. id \notin Known /\ DOMAIN receipts' = Known \cup {id} /\ order' = AtTheEnd(order, id)
      BY DEF AdmitNew, AdmitsNew
<1>2. ReceiptsOK'
  <2>1. IsReceipt(NewReceipt(id, print))
    <3>1. MaxSafe \in Nat
          BY JournalAssumption
    <3> QED BY <3>1 DEF IsReceipt, NewReceipt, Empty, Numbers, TerminalValues
  <2>2. NewReceipt(id, print).retained = (id \in Retained)
        BY DEF NewReceipt
  <2>3. receipts' = [i \in Known \cup {id} |-> IF i = id THEN NewReceipt(id, print) ELSE receipts[i]]
        BY DEF AdmitNew
  <2> HIDE DEF IsReceipt
  <2> QED BY <2>1, <2>2, <2>3 DEF TypeOK, ReceiptsOK, Known
<1>3. OrderOK'
  <2>1. IsFiniteSet(Known) /\ Enumerates(order, Known)
        BY JournalAssumption, FS_Subset DEF TypeOK, ReceiptsOK, OrderOK, Enumerates
  <2>2. Enumerates(AtTheEnd(order, id), Known \cup {id})
        BY <1>1, <2>1, AtTheEndEnumerates
  <2> QED BY <1>1, <2>2 DEF OrderOK, Enumerates, Known
<1>4. WritingOK' /\ ControlOK'
      BY <1>1 DEF AdmitNew, TypeOK, WritingOK, ControlOK, Known, SameAux
<1> QED BY <1>2, <1>3, <1>4 DEF TypeOK

\* Moving the cursor of a receipt: a second admission, or a recovery.
LEMMA CursorOK ==
    ASSUME TypeOK, NEW id \in Known, NEW n \in Numbers,
           receipts' = [receipts EXCEPT ![id].sent = n]
    PROVE  ReceiptsOK' /\ DOMAIN receipts' = Known
<1>1. DOMAIN receipts' = Known
      BY DEF Known
<1>2. IsReceipt(receipts[id]) /\ receipts[id].retained = (id \in Retained)
      BY DEF TypeOK, ReceiptsOK
<1>3. receipts'[id] = [receipts[id] EXCEPT !.sent = n]
      BY DEF Known
<1>4. IsReceipt(receipts'[id]) /\ receipts'[id].retained = receipts[id].retained
      BY <1>2, <1>3 DEF IsReceipt
<1>5. \A i \in Known \ {id} : receipts'[i] = receipts[i]
      BY DEF Known
<1> QED BY <1>1, <1>2, <1>4, <1>5 DEF TypeOK, ReceiptsOK, Known

LEMMA ReplyErrorOK ==
    ASSUME TypeOK, NEW id \in Ids,
           NEW code \in {"identity-conflict", "already-acknowledged", "capacity", "worker-lost"},
           ReplyError(id, code)
    PROVE  TypeOK'
<1>1. ErrorReply(id, code) \in AuxMessages
      BY DEF ErrorReply, Message, AuxMessages, AuxKinds
<1>2. WritingOK /\ ControlOK
      BY DEF TypeOK
<1>3. ReceiptsOK' /\ OrderOK'
      BY DEF ReplyError, TypeOK, ReceiptsOK, OrderOK, Known, IsReceipt
<1>4. ControlOK'
      BY <1>1, <1>2, AuxPutOK DEF ReplyError, ControlOK
<1> DEFINE flight == Superseded(ErrorReply(id, code))
<1>5. /\ flight \in Writes \cup {NoWrite} /\ (flight # NoWrite => writing # NoWrite)
      /\ (flight # NoWrite /\ flight.current => flight = writing)
      BY <1>1, <1>2, SupersededOK
<1>6. aux' = AuxPut(ErrorReply(id, code)) /\ linked' = linked /\ Pump(flight, wire)
      BY DEF ReplyError
<1> HIDE DEF flight
<1>7. flight # NoWrite /\ flight.current => writing.kind \in AuxKinds \/ writing.id \in DOMAIN receipts'
      BY <1>2, <1>5 DEF WritingOK, ReplyError, Known
<1> QED BY <1>1, <1>3, <1>4, <1>5, <1>6, <1>7, AuxiliaryOK

LEMMA AdmitOK ==
    ASSUME TypeOK, NEW id \in Ids, NEW after \in Numbers, NEW print \in Prints, Admit(id, after, print)
    PROVE  TypeOK'
<1>1. CASE AdmitNew(id, print)
      BY <1>1, AdmitNewOK
<1>2. CASE AdmitExisting(id, after, print)
  <2>1. id \in Known /\ receipts' = [receipts EXCEPT ![id].sent = Rewound(receipts[id].sent, after)]
        BY <1>2 DEF AdmitExisting
  <2>2. receipts[id].sent \in Numbers
        BY <2>1 DEF TypeOK, ReceiptsOK, IsReceipt
  <2>3. Rewound(receipts[id].sent, after) \in Numbers
        BY <2>2 DEF Rewound, Lower
  <2>4. ReceiptsOK' /\ DOMAIN receipts' = Known
        BY <2>1, <2>3, CursorOK
  <2> QED BY <1>2, <2>4, RewriteOK DEF AdmitExisting
<1>3. CASE AdmitConflict(id, print)
      BY <1>3, ReplyErrorOK DEF AdmitConflict
<1>4. CASE AdmitTombstoned(id)
      BY <1>4, ReplyErrorOK DEF AdmitTombstoned
<1>5. CASE AdmitOverCapacity(id)
      BY <1>5, ReplyErrorOK DEF AdmitOverCapacity
<1> QED BY <1>1, <1>2, <1>3, <1>4, <1>5 DEF Admit

LEMMA RecoverOK ==
    ASSUME TypeOK, NEW id \in Ids, NEW after \in Numbers, Recover(id, after)
    PROVE  TypeOK'
<1>1. CASE RecoverKnown(id, after)
  <2>1. id \in Known /\ receipts' = [receipts EXCEPT ![id].sent = after]
        BY <1>1 DEF RecoverKnown
  <2>2. ReceiptsOK' /\ DOMAIN receipts' = Known
        BY <2>1, CursorOK
  <2> QED BY <1>1, <2>2, RewriteOK DEF RecoverKnown
<1>2. CASE RecoverMissing(id)
      BY <1>2, ReplyErrorOK DEF RecoverMissing
<1> QED BY <1>1, <1>2 DEF Recover

LEMMA SubscribeOK ==
    ASSUME TypeOK, NEW id \in Ids, Subscribe(id)
    PROVE  TypeOK'
<1>1. PICK after \in Cursors(id) :
         (\E print \in Prints : Admit(id, after, print)) \/ Recover(id, after)
      BY DEF Subscribe
<1>2. after \in Numbers
  <2>1. MaxSafe \in Nat
        BY JournalAssumption
  <2>2. id \in Known => receipts[id].sequence \in Numbers
        BY DEF TypeOK, ReceiptsOK, IsReceipt
  <2> QED BY <2>1, <2>2 DEF Cursors, Numbers
<1> QED BY <1>1, <1>2, AdmitOK, RecoverOK

LEMMA NoticeOK ==
    ASSUME TypeOK, NEW n \in Notices, SendNotice(n)
    PROVE  TypeOK'
<1>1. Notice(n) \in AuxMessages
      BY DEF Notice, Message, AuxMessages, AuxKinds
<1>2. WritingOK /\ ControlOK
      BY DEF TypeOK
<1>3. ReceiptsOK' /\ OrderOK'
      BY DEF SendNotice, TypeOK, ReceiptsOK, OrderOK, Known, IsReceipt
<1>4. ControlOK'
      BY <1>1, <1>2, AuxPutOK DEF SendNotice, ControlOK
<1>5. CASE AuxRefuses(Notice(n))
  <2>1. UNCHANGED <<receipts, aux, writing, linked>>
        BY <1>5 DEF SendNotice, AuxPut
  <2>2. WritingOK'
        BY <1>2, <2>1 DEF WritingOK, SameAux, Known
  <2> QED BY <1>3, <1>4, <2>2 DEF TypeOK
<1>6. CASE ~AuxRefuses(Notice(n))
  <2> DEFINE flight == Superseded(Notice(n))
  <2>1. /\ flight \in Writes \cup {NoWrite} /\ (flight # NoWrite => writing # NoWrite)
        /\ (flight # NoWrite /\ flight.current => flight = writing)
        BY <1>1, <1>2, SupersededOK
  <2>2. aux' = AuxPut(Notice(n)) /\ linked' = linked /\ Pump(flight, wire)
        BY <1>6 DEF SendNotice
  <2> HIDE DEF flight
  <2>3. flight # NoWrite /\ flight.current => writing.kind \in AuxKinds \/ writing.id \in DOMAIN receipts'
        BY <1>2, <2>1 DEF WritingOK, SendNotice, Known
  <2> QED BY <1>1, <1>3, <1>4, <2>1, <2>2, <2>3, AuxiliaryOK
<1> QED BY <1>5, <1>6

\* Remembering an acknowledged id drops the oldest one beyond the capacity.
LEMMA RememberOK ==
    ASSUME ControlOK, NEW id \in Ids
    PROVE  Remember(id) \in Seq(Ids) /\ Len(Remember(id)) <= TombstoneCapacity
<1> DEFINE s == IF Tombstoned(id) THEN acked ELSE Append(acked, id)
<1>1. s \in Seq(Ids) /\ Len(s) <= TombstoneCapacity + 1 /\ Len(s) \in Nat
      BY JournalAssumption DEF ControlOK
<1>2. Remember(id) = IF Len(s) > TombstoneCapacity THEN Tail(s) ELSE s
      BY DEF Remember
<1> HIDE DEF s
<1>3. CASE Len(s) > TombstoneCapacity
  <2>1. s # <<>>
        BY <1>1, <1>3, JournalAssumption
  <2>2. Tail(s) \in Seq(Ids) /\ Len(Tail(s)) = Len(s) - 1
        BY <1>1, <2>1, HeadTailProperties
  <2> QED BY <1>1, <1>2, <1>3, <2>2, JournalAssumption
<1>4. CASE ~(Len(s) > TombstoneCapacity)
      BY <1>1, <1>2, <1>4, JournalAssumption
<1> QED BY <1>3, <1>4

LEMMA AcknowledgeOK ==
    ASSUME TypeOK, NEW id \in Ids, Acknowledge(id)
    PROVE  TypeOK'
<1> DEFINE detaches == id \in Known /\ Terminal(id) /\ writing.kind \in {"event", "response"}
           flight == IF detaches THEN Detached(id) ELSE Superseded(AckReply(id))
<1>1. AckReply(id) \in AuxMessages
      BY DEF AckReply, Message, AuxMessages, AuxKinds
<1>2. WritingOK /\ ControlOK
      BY DEF TypeOK
<1>3. aux' = AuxPut(AckReply(id)) /\ linked' = linked /\ UNCHANGED <<burst, controller>>
      BY DEF Acknowledge
<1>4. Pump(flight, wire) \/ writing' = flight
      BY DEF Acknowledge
<1>5. /\ flight \in Writes \cup {NoWrite} /\ (flight # NoWrite => writing # NoWrite)
      /\ (flight # NoWrite /\ flight.current =>
            flight = writing /\ (detaches => writing.kind \in AuxKinds \/ writing.id # id))
  <2>1. CASE detaches
        BY <1>2, <2>1, DetachedOK
  <2>2. CASE ~detaches
        BY <1>1, <1>2, <2>2, SupersededOK
  <2> QED BY <2>1, <2>2
<1>6. CASE id \in Known /\ Terminal(id) /\ Forget(id) /\ acked' = Remember(id)
  <2>1. ReceiptsOK' /\ OrderOK' /\ DOMAIN receipts' = Known \ {id}
        BY <1>6, ForgetOK
  <2>2. ControlOK'
        BY <1>1, <1>2, <1>3, <1>6, AuxPutOK, RememberOK DEF ControlOK
  <2>3. flight # NoWrite /\ flight.current => writing.kind \in AuxKinds \/ writing.id \in DOMAIN receipts'
    <3>1. writing # NoWrite => writing.kind \in AuxKinds \cup {"event", "response"}
          BY <1>2 DEF WritingOK, Writes
    <3>2. detaches \/ writing.kind \notin {"event", "response"}
          BY <1>6
    <3> HIDE DEF flight
    <3> HIDE DEF detaches
    <3> QED BY <1>2, <1>5, <2>1, <3>1, <3>2 DEF WritingOK
  <2> HIDE DEF flight
  <2> QED BY <1>1, <1>3, <1>4, <1>5, <2>1, <2>2, <2>3, AuxiliaryOK
<1>7. CASE /\ id \in Known /\ ~Terminal(id)
           /\ receipts' = [receipts EXCEPT ![id].acknowledged = TRUE]
           /\ UNCHANGED <<order, acked>>
  <2>1. DOMAIN receipts' = Known /\ \A i \in Known \ {id} : receipts'[i] = receipts[i]
        BY <1>7 DEF Known
  <2>2. ReceiptsOK'
    <3>1. IsReceipt(receipts[id]) /\ receipts[id].retained = (id \in Retained)
          BY <1>7 DEF TypeOK, ReceiptsOK
    <3>2. receipts'[id] = [receipts[id] EXCEPT !.acknowledged = TRUE]
          BY <1>7 DEF Known
    <3>3. IsReceipt(receipts'[id]) /\ receipts'[id].retained = receipts[id].retained
          BY <3>1, <3>2 DEF IsReceipt
    <3> HIDE DEF IsReceipt
    <3> QED BY <1>7, <2>1, <3>1, <3>3 DEF TypeOK, ReceiptsOK, Known
  <2>3. OrderOK' /\ ControlOK'
        BY <1>1, <1>2, <1>3, <1>7, <2>1, AuxPutOK DEF TypeOK, OrderOK, ControlOK, Known
  <2> HIDE DEF flight
  <2>4. flight # NoWrite /\ flight.current => writing.kind \in AuxKinds \/ writing.id \in DOMAIN receipts'
        BY <1>2, <1>5, <2>1 DEF WritingOK
  <2> QED BY <1>1, <1>3, <1>4, <1>5, <2>2, <2>3, <2>4, AuxiliaryOK
<1>8. CASE id \notin Known /\ UNCHANGED <<receipts, order, acked>>
  <2>1. ReceiptsOK' /\ OrderOK' /\ ControlOK'
        BY <1>1, <1>2, <1>3, <1>8, AuxPutOK
        DEF TypeOK, ReceiptsOK, OrderOK, ControlOK, Known, IsReceipt
  <2> HIDE DEF flight
  <2>2. flight # NoWrite /\ flight.current => writing.kind \in AuxKinds \/ writing.id \in DOMAIN receipts'
        BY <1>2, <1>5, <1>8 DEF WritingOK, Known
  <2> QED BY <1>1, <1>3, <1>4, <1>5, <2>1, <2>2, AuxiliaryOK
<1> QED BY <1>6, <1>7, <1>8 DEF Acknowledge

\* Replacing one receipt by a well-formed one.
LEMMA ReplaceOK ==
    ASSUME TypeOK, NEW id \in Known, NEW r, IsReceipt(r), r.retained = receipts[id].retained,
           receipts' = [receipts EXCEPT ![id] = r]
    PROVE  ReceiptsOK' /\ DOMAIN receipts' = Known
<1>1. /\ DOMAIN receipts' = Known /\ receipts'[id] = r
      /\ \A i \in Known \ {id} : receipts'[i] = receipts[i]
      BY DEF Known
<1> HIDE DEF IsReceipt
<1> QED BY <1>1 DEF TypeOK, ReceiptsOK, Known

LEMMA SendEventOK ==
    ASSUME TypeOK, NEW id \in Ids, NEW key \in EventKeys, NEW resolved, NEW large \in BOOLEAN,
           SendEvent(id, key, resolved, large)
    PROVE  TypeOK'
<1> DEFINE r == receipts[id]
           seq == r.sequence + 1
           kept == Restricted(r.events, DOMAIN r.events \ {resolved})
           snapshot == key = "interaction-state" \/ key \in Interactions
           event == [seq |-> seq, pending |-> IF snapshot THEN OpenQuestions(kept, key) ELSE {}]
           full == large \/ Cardinality(DOMAIN kept \cup {key}) > EventCapacity
           warning == [seq |-> seq + 1, pending |-> {}]
           ignored == [r EXCEPT !.sequence = seq]
           stored == [r EXCEPT !.sequence = seq, !.events = SetEvent(kept, key, event)]
           lost == [r EXCEPT !.sequence = seq, !.events = kept]
           warned == [r EXCEPT !.sequence = seq + 1, !.failed = TRUE,
                               !.events = SetEvent(kept, "delivery-failure", warning)]
           next == IF key = "progress" /\ large THEN ignored
                   ELSE IF ~full THEN stored ELSE IF r.failed THEN lost ELSE warned
<1>1. id \in Known /\ IsReceipt(r) /\ MaxSafe \in Nat /\ r.sequence + 2 < MaxSafe
      BY JournalAssumption DEF SendEvent, TypeOK, ReceiptsOK
<1>2. receipts' = [receipts EXCEPT ![id] = next]
      BY DEF SendEvent
<1>3. /\ seq \in 1 .. MaxSafe /\ seq + 1 \in 1 .. MaxSafe /\ r.sequence \in Nat
      /\ DOMAIN r.events \subseteq EventKeys /\ r.events \in [DOMAIN r.events -> Events]
      BY <1>1 DEF IsReceipt, Numbers
<1>4. DOMAIN kept \subseteq EventKeys /\ kept \in [DOMAIN kept -> Events]
      BY <1>3 DEF Restricted
<1>5. event \in Events /\ warning \in Events
      BY <1>3 DEF Events, OpenQuestions
<1>6. ASSUME NEW k \in EventKeys, NEW e \in Events
      PROVE  /\ DOMAIN SetEvent(kept, k, e) \subseteq EventKeys
             /\ SetEvent(kept, k, e) \in [DOMAIN SetEvent(kept, k, e) -> Events]
  <2> HIDE DEF kept
  <2> QED BY <1>4, <1>6 DEF SetEvent
<1>7. ASSUME NEW n \in 1 .. MaxSafe, NEW f, NEW b \in BOOLEAN, DOMAIN f \subseteq EventKeys,
             f \in [DOMAIN f -> Events]
      PROVE  /\ IsReceipt([r EXCEPT !.sequence = n, !.failed = b, !.events = f])
             /\ IsReceipt([r EXCEPT !.sequence = n, !.events = f])
             /\ IsReceipt([r EXCEPT !.sequence = n])
  <2>1. n \in Numbers
        BY <1>1, <1>7 DEF Numbers
  <2> HIDE DEF r
  <2>2. IsReceipt([r EXCEPT !.sequence = n, !.failed = b, !.events = f])
        BY <1>1, <1>7, <2>1 DEF IsReceipt
  <2>3. IsReceipt([r EXCEPT !.sequence = n, !.events = f])
        BY <1>1, <1>7, <2>1 DEF IsReceipt
  <2>4. IsReceipt([r EXCEPT !.sequence = n])
        BY <1>1, <1>3, <2>1 DEF IsReceipt
  <2> QED BY <2>2, <2>3, <2>4
<1>8. "delivery-failure" \in EventKeys
      BY DEF EventKeys
<1>9. IsReceipt(next) /\ next.retained = r.retained
  <2>1. IsReceipt(ignored)
        BY <1>3, <1>7
  <2>2. IsReceipt(stored)
    <3> HIDE DEF seq, kept, event, r
    <3> QED BY <1>3, <1>5, <1>6, <1>7
  <2>3. IsReceipt(lost)
    <3> HIDE DEF seq, kept, r
    <3> QED BY <1>3, <1>4, <1>7
  <2>4. IsReceipt(warned)
    <3> HIDE DEF seq, kept, warning, r
    <3> QED BY <1>3, <1>5, <1>6, <1>7, <1>8
  <2>5. /\ ignored.retained = r.retained /\ stored.retained = r.retained
        /\ lost.retained = r.retained /\ warned.retained = r.retained
    <3> HIDE DEF seq, kept, event, warning, r
    <3> QED BY <1>1 DEF IsReceipt
  <2> HIDE DEF ignored, stored, lost, warned, full
  <2> QED BY <2>1, <2>2, <2>3, <2>4, <2>5
<1> HIDE DEF next
<1>10. ReceiptsOK' /\ DOMAIN receipts' = Known
      BY <1>1, <1>2, <1>9, ReplaceOK
<1>11. /\ UNCHANGED <<order, acked, aux, burst, linked, controller>>
       /\ Pump(writing, wire) \/ UNCHANGED writing
      BY DEF SendEvent
<1> QED BY <1>10, <1>11, RewriteOK

LEMMA SendResponseOK ==
    ASSUME TypeOK, NEW id \in Ids, NEW outcome \in Outcomes, NEW large \in BOOLEAN,
           SendResponse(id, outcome, large)
    PROVE  TypeOK'
<1> DEFINE r == receipts[id]
           kept == Restricted(r.events, DOMAIN r.events \cap {"assignment"})
           value == IF r.failed THEN "undelivered" ELSE IF large THEN "too-large" ELSE outcome
           next == [r EXCEPT !.sequence = r.sequence + 1, !.terminalSeq = r.sequence + 1,
                             !.terminal = value, !.events = kept]
<1>1. id \in Known /\ IsReceipt(r) /\ MaxSafe \in Nat /\ r.sequence + 1 < MaxSafe
      BY JournalAssumption DEF SendResponse, TypeOK, ReceiptsOK
<1>2. receipts' = [receipts EXCEPT ![id] = next]
      BY DEF SendResponse
<1>3. /\ r.sequence + 1 \in Numbers
      /\ DOMAIN r.events \subseteq EventKeys /\ r.events \in [DOMAIN r.events -> Events]
      BY <1>1 DEF IsReceipt, Numbers
<1>4. DOMAIN kept \subseteq EventKeys /\ kept \in [DOMAIN kept -> Events]
      BY <1>3 DEF Restricted
<1>5. value \in TerminalValues
      BY DEF TerminalValues
<1>6. IsReceipt(next) /\ next.retained = r.retained
  <2> HIDE DEF kept, value, r
  <2> QED BY <1>1, <1>3, <1>4, <1>5 DEF IsReceipt
<1> HIDE DEF next
<1>7. ReceiptsOK' /\ DOMAIN receipts' = Known
      BY <1>1, <1>2, <1>6, ReplaceOK
<1> QED BY <1>7, RewriteOK DEF SendResponse

LEMMA SendUnwantedResponseOK ==
    ASSUME TypeOK, NEW id \in Ids, SendUnwantedResponse(id)
    PROVE  TypeOK'
<1>1. ReceiptsOK' /\ OrderOK' /\ DOMAIN receipts' = Known \ {id}
      BY ForgetOK DEF SendUnwantedResponse
<1>2. ControlOK'
      BY DEF SendUnwantedResponse, TypeOK, ControlOK
<1>3. WritingOK'
  <2>1. /\ Detached(id) \in Writes \cup {NoWrite}
        /\ Detached(id) # NoWrite => writing # NoWrite
        /\ Detached(id) # NoWrite /\ Detached(id).current =>
              Detached(id) = writing /\ (writing.kind \in AuxKinds \/ writing.id # id)
        BY DetachedOK DEF TypeOK
  <2>2. writing' = Detached(id) /\ UNCHANGED <<aux, linked>>
        BY DEF SendUnwantedResponse
  <2> QED BY <1>1, <2>1, <2>2 DEF TypeOK, WritingOK, Known, SameAux
<1> QED BY <1>1, <1>2, <1>3 DEF TypeOK

LEMMA ConnectOK ==
    ASSUME TypeOK, NEW c \in Controllers, NEW greeting, Connect(c, greeting)
    PROVE  TypeOK'
<1> DEFINE dropped == Discarded(c)
           after(id) == [receipts[id] EXCEPT !.sent = MaxSafe,
                            !.abandoned = receipts[id].abandoned \/ (Replaced(c) /\ ~receipts[id].retained)]
<1>1. /\ receipts' = [id \in Known \ dropped |-> after(id)]
      /\ order' = Places(Known \ dropped)
      /\ controller' = c /\ linked' = TRUE /\ UNCHANGED <<acked, aux, burst>>
      /\ Pump(NoWrite, greeting)
      BY DEF Connect
<1>2. OrderOK'
      BY <1>1, KeepOK
<1>3. ReceiptsOK'
  <2>1. ASSUME NEW id \in Known
        PROVE  IsReceipt(after(id)) /\ after(id).retained = receipts[id].retained
    <3>1. IsReceipt(receipts[id]) /\ MaxSafe \in Numbers
          BY JournalAssumption DEF TypeOK, ReceiptsOK, Numbers
    <3>2. (receipts[id].abandoned \/ (Replaced(c) /\ ~receipts[id].retained)) \in BOOLEAN
          OBVIOUS
    <3> QED BY <3>1, <3>2 DEF IsReceipt
  <2> HIDE DEF after, dropped
  <2> HIDE DEF IsReceipt
  <2> QED BY <1>1, <2>1 DEF TypeOK, ReceiptsOK, Known
<1>4. ControlOK'
      BY <1>1 DEF TypeOK, ControlOK
<1>5. WritingOK'
      BY <1>1, <1>2, <1>3, <1>4, PumpOK
<1> QED BY <1>2, <1>3, <1>4, <1>5 DEF TypeOK

LEMMA DisconnectOK ==
    ASSUME TypeOK, Disconnect
    PROVE  TypeOK'
<1>1. ReceiptsOK' /\ OrderOK' /\ WritingOK'
      BY DEF Disconnect, TypeOK, ReceiptsOK, OrderOK, WritingOK, Known, IsReceipt
<1>2. ControlOK'
      BY NothingOK DEF Disconnect, TypeOK, ControlOK
<1> QED BY <1>1, <1>2 DEF TypeOK

LEMMA ReceiptWrittenOK ==
    ASSUME TypeOK, ReceiptWritten
    PROVE  TypeOK'
<1> DEFINE id == writing.id
<1>1. writing \in Writes /\ writing.kind \notin AuxKinds
      BY DEF ReceiptWritten, Finished, TypeOK, WritingOK, AuxKinds
<1>2. WritingOK'
      BY DEF ReceiptWritten, WritingOK
<1>3. ControlOK'
      BY JournalAssumption DEF ReceiptWritten, Lower, TypeOK, ControlOK
<1>4. CASE writing.current
  <2>1. id \in Known /\ writing.seq \in Numbers
        BY <1>1, <1>4 DEF ReceiptWritten, Finished, TypeOK, WritingOK, Writes
  <2>2. receipts' = [receipts EXCEPT ![id].sent = writing.seq]
        BY <1>4 DEF ReceiptWritten
  <2>3. ReceiptsOK' /\ DOMAIN receipts' = Known
        BY <2>1, <2>2, CursorOK
  <2>4. OrderOK'
    <3> DEFINE S == Known \ {id}
    <3>1. IsFiniteSet(S) /\ S \cup {id} = Known
          BY <2>1, JournalAssumption, FS_Subset DEF TypeOK, ReceiptsOK
    <3>2. (\A x \in S : order[x] \in Int) /\ \A x, y \in S : order[x] = order[y] => x = y
          BY DEF TypeOK, OrderOK
    <3>3. Enumerates(AtTheEnd(Places(S), id), S \cup {id})
          BY <3>1, <3>2, PlacesEnumerate, AtTheEndEnumerates
    <3>4. order' = AtTheEnd(Places(S), id)
          BY <1>4 DEF ReceiptWritten, Rotated
    <3> QED BY <2>3, <3>1, <3>3, <3>4 DEF OrderOK, Enumerates, Known
  <2> QED BY <1>2, <1>3, <2>3, <2>4 DEF TypeOK
<1>5. CASE ~writing.current
  <2>1. ReceiptsOK' /\ OrderOK'
        BY <1>5 DEF ReceiptWritten, TypeOK, ReceiptsOK, OrderOK, Known, IsReceipt
  <2> QED BY <1>2, <1>3, <2>1 DEF TypeOK
<1> QED BY <1>4, <1>5

LEMMA AuxWrittenOK ==
    ASSUME TypeOK, AuxWritten
    PROVE  TypeOK'
<1>1. ReceiptsOK' /\ OrderOK' /\ WritingOK'
      BY DEF AuxWritten, TypeOK, ReceiptsOK, OrderOK, WritingOK, Known, IsReceipt
<1>2. aux' \in Seq(AuxMessages) /\ Len(aux') <= AuxCapacity
  <2>1. CASE writing.current
    <3>1. aux # <<>>
      <4>1. writing \in Writes /\ writing.kind \in AuxKinds
            BY DEF AuxWritten, Finished, TypeOK, WritingOK, Writes
      <4> QED BY <2>1, <4>1 DEF AuxWritten, Finished, TypeOK, WritingOK
    <3>2. Tail(aux) \in Seq(AuxMessages) /\ Len(Tail(aux)) = Len(aux) - 1
          BY <3>1, HeadTailProperties DEF TypeOK, ControlOK
    <3> QED BY <2>1, <3>1, <3>2, JournalAssumption DEF AuxWritten, TypeOK, ControlOK
  <2> QED BY <2>1 DEF AuxWritten, TypeOK, ControlOK
<1>3. ControlOK'
      BY <1>2, JournalAssumption DEF AuxWritten, TypeOK, ControlOK
<1> QED BY <1>1, <1>3 DEF TypeOK

LEMMA PumpLaterOK ==
    ASSUME TypeOK, PumpLater
    PROVE  TypeOK'
<1>1. ReceiptsOK' /\ DOMAIN receipts' = Known
      BY DEF PumpLater, TypeOK, ReceiptsOK, Known, IsReceipt
<1> QED BY <1>1, RewriteOK DEF PumpLater

LEMMA LinkOK ==
    ASSUME TypeOK, Link
    PROVE  TypeOK'
<1>1. ASSUME NEW c \in Controllers, Connect(c, <<>>) PROVE TypeOK'
      BY <1>1, ConnectOK
<1>2. CASE Disconnect
      BY <1>2, DisconnectOK
<1>3. CASE ReceiptWritten
      BY <1>3, ReceiptWrittenOK
<1>4. CASE AuxWritten
      BY <1>4, AuxWrittenOK
<1>5. CASE WriteFailed
      BY <1>5, DisconnectOK DEF WriteFailed
<1>6. CASE PumpLater
      BY <1>6, PumpLaterOK
<1>7. CASE PeerReads
  <2>1. ReceiptsOK' /\ DOMAIN receipts' = Known
        BY <1>7 DEF PeerReads, TypeOK, ReceiptsOK, Known, IsReceipt
  <2> QED BY <1>7, <2>1, RewriteOK DEF PeerReads
<1> QED BY <1>1, <1>2, <1>3, <1>4, <1>5, <1>6, <1>7 DEF Link

-----------------------------------------------------------------------------
(* The shape of the journal *)

LEMMA TypeInit == JournalInit => TypeOK
<1> SUFFICES ASSUME JournalInit PROVE TypeOK
    OBVIOUS
<1>1. ReceiptsOK /\ OrderOK
      BY DEF JournalInit, ReceiptsOK, OrderOK, Known, Empty
<1>2. WritingOK
      BY DEF JournalInit, WritingOK
<1>3. ControlOK
      BY NothingOK DEF JournalInit, ControlOK
<1> QED BY <1>1, <1>2, <1>3 DEF TypeOK

LEMMA TypeStep == TypeOK /\ [JournalNext]_journalVars => TypeOK'
<1> SUFFICES ASSUME TypeOK, [JournalNext]_journalVars PROVE TypeOK'
    OBVIOUS
<1>1. ASSUME NEW id \in Ids, Subscribe(id) PROVE TypeOK'
      BY <1>1, SubscribeOK
<1>2. ASSUME NEW id \in Ids, Acknowledge(id) PROVE TypeOK'
      BY <1>2, AcknowledgeOK
<1>3. ASSUME NEW id \in Ids, Emit(id) PROVE TypeOK'
  <2>1. PICK large \in BOOLEAN :
           \/ SendAssignment(id, large)
           \/ SendProgress(id, large)
           \/ \E i \in Interactions : SendInput(id, i, large) \/ SendResolution(id, i, large)
        BY <1>3 DEF Emit
  <2>2. {"assignment", "progress", "interaction-state"} \cup Interactions \subseteq EventKeys
        BY DEF EventKeys
  <2> QED BY <2>1, <2>2, SendEventOK DEF SendAssignment, SendProgress, SendInput, SendResolution
<1>4. ASSUME NEW id \in Ids, Settle(id) PROVE TypeOK'
      BY <1>4, SendResponseOK, SendUnwantedResponseOK DEF Settle
<1>5. ASSUME NEW n \in Notices, SendNotice(n) PROVE TypeOK'
      BY <1>5, NoticeOK
<1>6. CASE Link
      BY <1>6, LinkOK
<1>7. CASE UNCHANGED journalVars
  <2>1. ReceiptsOK' /\ DOMAIN receipts' = Known
        BY <1>7 DEF journalVars, TypeOK, ReceiptsOK, Known, IsReceipt
  <2> QED BY <1>7, <2>1, RewriteOK DEF journalVars
<1> QED BY <1>1, <1>2, <1>3, <1>4, <1>5, <1>6, <1>7 DEF JournalNext

\* The journal keeps its shape: receipts and their order agree, a write in
\* flight has a link, and a write that is still current is the one of a receipt
\* that is there or of the first auxiliary message - so a callback never
\* touches a receipt that was deleted.
THEOREM JournalTypes == JournalSpec => []TypeOK
BY TypeInit, TypeStep, PTL DEF JournalSpec

-----------------------------------------------------------------------------
(* What a step does to the set of receipts and to the tombstones *)

\* Only an admission adds a receipt, and only an acknowledgement of a terminal
\* receipt changes the tombstones.
LEMMA StepKinds ==
    ASSUME TypeOK, [JournalNext]_journalVars
    PROVE  \/ DOMAIN receipts' \subseteq Known /\ acked' = acked
           \/ \E id \in Ids : AdmitsNew(id) /\ DOMAIN receipts' = Known \cup {id} /\ acked' = acked
           \/ \E id \in Known : Terminal(id) /\ Forget(id) /\ acked' = Remember(id)
<1>1. ASSUME NEW id \in Ids, Subscribe(id)
      PROVE  \/ DOMAIN receipts' \subseteq Known /\ acked' = acked
             \/ AdmitsNew(id) /\ DOMAIN receipts' = Known \cup {id} /\ acked' = acked
  <2>1. ASSUME NEW code, ReplyError(id, code) PROVE DOMAIN receipts' \subseteq Known /\ acked' = acked
        BY <2>1 DEF ReplyError, Known
  <2>2. ASSUME NEW print, AdmitNew(id, print)
        PROVE  AdmitsNew(id) /\ DOMAIN receipts' = Known \cup {id} /\ acked' = acked
        BY <2>2 DEF AdmitNew
  <2>3. ASSUME NEW after, NEW print, AdmitExisting(id, after, print)
        PROVE  DOMAIN receipts' \subseteq Known /\ acked' = acked
        BY <2>3 DEF AdmitExisting, Known
  <2>4. ASSUME NEW after, RecoverKnown(id, after)
        PROVE  DOMAIN receipts' \subseteq Known /\ acked' = acked
        BY <2>4 DEF RecoverKnown, Known
  <2> QED BY <1>1, <2>1, <2>2, <2>3, <2>4
          DEF Subscribe, Admit, Recover, AdmitConflict, AdmitTombstoned, AdmitOverCapacity, RecoverMissing
<1>2. ASSUME NEW id \in Ids, Acknowledge(id)
      PROVE  \/ DOMAIN receipts' \subseteq Known /\ acked' = acked
             \/ id \in Known /\ Terminal(id) /\ Forget(id) /\ acked' = Remember(id)
      BY <1>2 DEF Acknowledge, Known
<1>3. ASSUME NEW id \in Ids, Emit(id) PROVE DOMAIN receipts' \subseteq Known /\ acked' = acked
  <2>1. ASSUME NEW key, NEW resolved, NEW large, SendEvent(id, key, resolved, large)
        PROVE  DOMAIN receipts' \subseteq Known /\ acked' = acked
    <3>1. \E r : receipts' = [receipts EXCEPT ![id] = r]
          BY <2>1 DEF SendEvent
    <3> QED BY <2>1, <3>1 DEF SendEvent, Known
  <2> QED BY <1>3, <2>1 DEF Emit, SendAssignment, SendProgress, SendInput, SendResolution
<1>4. ASSUME NEW id \in Ids, Settle(id) PROVE DOMAIN receipts' \subseteq Known /\ acked' = acked
  <2>1. ASSUME NEW outcome, NEW large, SendResponse(id, outcome, large)
        PROVE  DOMAIN receipts' \subseteq Known /\ acked' = acked
    <3>1. \E r : receipts' = [receipts EXCEPT ![id] = r]
          BY <2>1 DEF SendResponse
    <3> QED BY <2>1, <3>1 DEF SendResponse, Known
  <2>2. CASE SendUnwantedResponse(id)
        BY <2>2 DEF SendUnwantedResponse, Forget
  <2> QED BY <1>4, <2>1, <2>2 DEF Settle
<1>5. ASSUME NEW n \in Notices, SendNotice(n) PROVE DOMAIN receipts' \subseteq Known /\ acked' = acked
      BY <1>5 DEF SendNotice, Known
<1>6. CASE Link
      BY <1>6 DEF Link, Connect, Disconnect, ReceiptWritten, AuxWritten, WriteFailed, PumpLater, PeerReads, Known
<1>7. CASE UNCHANGED journalVars
      BY <1>7 DEF journalVars, Known
<1> QED BY <1>1, <1>2, <1>3, <1>4, <1>5, <1>6, <1>7 DEF JournalNext

-----------------------------------------------------------------------------
(* Lanes *)

LEMMA LaneStep == TypeOK /\ LaneBound /\ [JournalNext]_journalVars => LaneBound'
<1> SUFFICES ASSUME TypeOK, LaneBound, [JournalNext]_journalVars, NEW lane \in Lanes
             PROVE  Cardinality(Used(lane)') <= Capacity[lane]
    BY DEF LaneBound
<1>1. IsFiniteSet(Used(lane)) /\ Cardinality(Used(lane)) \in Nat /\ Capacity[lane] \in Nat
  <2>1. Used(lane) \subseteq Ids
        BY DEF Used, TypeOK, ReceiptsOK
  <2> QED BY <2>1, JournalAssumption, FS_Subset, FS_CardinalityType
<1>2. CASE DOMAIN receipts' \subseteq Known
  <2>1. Used(lane)' \subseteq Used(lane)
        BY <1>2 DEF Used, Known
  <2>2. Cardinality(Used(lane)') <= Cardinality(Used(lane)) /\ Cardinality(Used(lane)') \in Nat
        BY <1>1, <2>1, FS_Subset, FS_CardinalityType
  <2> QED BY <1>1, <2>2 DEF LaneBound
<1>3. ASSUME NEW id \in Ids, AdmitsNew(id), DOMAIN receipts' = Known \cup {id}
      PROVE  Cardinality(Used(lane)') <= Capacity[lane]
  <2>1. CASE LaneOf[id] = lane
    <3>1. Used(lane)' = Used(lane) \cup {id} /\ id \notin Used(lane)
          BY <1>3, <2>1 DEF Used, Known, AdmitsNew
    <3>2. Cardinality(Used(lane)') = Cardinality(Used(lane)) + 1
          BY <1>1, <3>1, FS_AddElement
    <3>3. Cardinality(Used(lane)) < Capacity[lane]
          BY <1>1, <1>3, <2>1 DEF AdmitsNew, LaneFull
    <3> QED BY <1>1, <3>2, <3>3
  <2>2. CASE LaneOf[id] # lane
    <3>1. Used(lane)' = Used(lane)
          BY <1>3, <2>2 DEF Used, Known
    <3> QED BY <3>1 DEF LaneBound
  <2> QED BY <2>1, <2>2
<1> QED BY <1>2, <1>3, StepKinds DEF Forget

\* No lane holds more receipts than its capacity, whatever the capacities, the
\* number of requests and the order of admissions, replays and releases.
THEOREM LaneCapacity == JournalSpec => []LaneBound
<1>1. JournalInit => LaneBound
  <2> SUFFICES ASSUME JournalInit, NEW lane \in Lanes
               PROVE  Cardinality(Used(lane)) <= Capacity[lane]
      BY DEF LaneBound
  <2>1. Used(lane) = {} /\ Capacity[lane] \in Nat
        BY JournalAssumption DEF JournalInit, Used, Known, Empty
  <2> QED BY <2>1, FS_EmptySet
<1> QED BY <1>1, LaneStep, JournalTypes, PTL DEF JournalSpec

-----------------------------------------------------------------------------
(* Tombstones *)

\* A released id is the newest tombstone.
LEMMA Remembered ==
    ASSUME TypeOK, ReleasedStaysReleased, NEW id \in Known
    PROVE  /\ Remember(id) # <<>> /\ Remember(id)[Len(Remember(id))] = id
           /\ \A i \in DOMAIN Remember(id) :
                 Remember(id)[i] = id \/ \E j \in DOMAIN acked : acked[j] = Remember(id)[i]
<1> DEFINE s == Append(acked, id)
<1>1. /\ acked \in Seq(Ids) /\ id \in Ids /\ s \in Seq(Ids) /\ Len(s) = Len(acked) + 1
      /\ Len(acked) \in Nat /\ TombstoneCapacity \in Nat \ {0}
      BY JournalAssumption DEF TypeOK, ControlOK, ReceiptsOK
<1>2. Remember(id) = IF Len(s) > TombstoneCapacity THEN Tail(s) ELSE s
      BY DEF Remember, ReleasedStaysReleased
<1>3. s[Len(s)] = id /\ \A i \in DOMAIN s : s[i] = id \/ \E j \in DOMAIN acked : acked[j] = s[i]
      BY <1>1
<1> HIDE DEF s
<1>4. CASE Len(s) > TombstoneCapacity
  <2>1. s # <<>> /\ Len(s) >= 2
        BY <1>1, <1>4
  <2>2. /\ Tail(s) \in Seq(Ids) /\ Len(Tail(s)) = Len(s) - 1
        /\ \A i \in 1 .. Len(Tail(s)) : Tail(s)[i] = s[i + 1]
        BY <1>1, <2>1, HeadTailProperties
  <2>3. Tail(s) # <<>> /\ Tail(s)[Len(Tail(s))] = s[Len(s)]
    <3> DEFINE t == Tail(s)
    <3>1. /\ t \in Seq(Ids) /\ Len(t) = Len(s) - 1 /\ Len(s) >= 2 /\ Len(s) \in Nat
          /\ \A i \in 1 .. Len(t) : t[i] = s[i + 1]
          BY <1>1, <2>1, <2>2
    <3> HIDE DEF t
    <3>2. Len(t) \in 1 .. Len(t) /\ Len(t) + 1 = Len(s)
          BY <3>1
    <3>3. t # <<>> /\ t[Len(t)] = s[Len(s)]
          BY <3>1, <3>2
    <3> QED BY <3>3 DEF t
  <2>4. \A i \in DOMAIN Tail(s) : i + 1 \in DOMAIN s /\ Tail(s)[i] = s[i + 1]
        BY <1>1, <2>2
  <2>5. Remember(id) = Tail(s)
        BY <1>2, <1>4
  <2> QED BY <1>3, <2>3, <2>4, <2>5
<1>5. CASE ~(Len(s) > TombstoneCapacity)
      BY <1>1, <1>2, <1>3, <1>5
<1> QED BY <1>4, <1>5

LEMMA ReleasedStep ==
    TypeOK /\ ReleasedStaysReleased /\ [JournalNext]_journalVars => ReleasedStaysReleased'
<1> SUFFICES ASSUME TypeOK, ReleasedStaysReleased, [JournalNext]_journalVars,
                    NEW id \in DOMAIN receipts'
             PROVE  ~\E i \in DOMAIN acked' : acked'[i] = id
    BY DEF ReleasedStaysReleased, Tombstoned, Known
<1>1. CASE DOMAIN receipts' \subseteq Known /\ acked' = acked
      BY <1>1 DEF ReleasedStaysReleased, Tombstoned
<1>2. ASSUME NEW new \in Ids, AdmitsNew(new), DOMAIN receipts' = Known \cup {new}, acked' = acked
      PROVE  ~\E i \in DOMAIN acked' : acked'[i] = id
      BY <1>2 DEF ReleasedStaysReleased, Tombstoned, AdmitsNew
<1>3. ASSUME NEW old \in Known, Forget(old), acked' = Remember(old)
      PROVE  ~\E i \in DOMAIN acked' : acked'[i] = id
  <2>1. id \in Known /\ id # old
        BY <1>3 DEF Forget
  <2> QED BY <1>3, <2>1, Remembered DEF ReleasedStaysReleased, Tombstoned
<1> QED BY <1>1, <1>2, <1>3, StepKinds

\* A released execution is not admitted again while it is remembered.
THEOREM ReleaseIsFinal == JournalSpec => []ReleasedStaysReleased
<1>1. JournalInit => ReleasedStaysReleased
      BY DEF JournalInit, ReleasedStaysReleased, Known, Empty
<1> QED BY <1>1, ReleasedStep, JournalTypes, PTL DEF JournalSpec

-----------------------------------------------------------------------------
(* Recorded outcomes *)

\* A terminal receipt of a Job turn stays as it is, or is released.
LEMMA ResultStep ==
    ASSUME TypeOK, ReleasedStaysReleased, JournalNext,
           NEW id \in Known, id \in Retained, Terminal(id)
    PROVE  \/ id \in DOMAIN receipts' /\ receipts'[id].terminal = receipts[id].terminal
           \/ id \notin DOMAIN receipts' /\ acked' # <<>> /\ acked'[Len(acked')] = id
<1> DEFINE kept == id \in DOMAIN receipts' /\ receipts'[id].terminal = receipts[id].terminal
           released == id \notin DOMAIN receipts' /\ acked' # <<>> /\ acked'[Len(acked')] = id
<1>1. IsReceipt(receipts[id]) /\ receipts[id].retained
      BY DEF TypeOK, ReceiptsOK
<1>2. ASSUME NEW other, NEW n, receipts' = [receipts EXCEPT ![other].sent = n] PROVE kept
      BY <1>1, <1>2 DEF Known, IsReceipt
<1>3. ASSUME NEW other, NEW r, receipts' = [receipts EXCEPT ![other] = r], other # id PROVE kept
      BY <1>3 DEF Known
<1>4. ASSUME NEW other \in Ids, Subscribe(other) PROVE kept
  <2>1. ASSUME NEW code, ReplyError(other, code) PROVE kept
        BY <2>1 DEF ReplyError, Known
  <2>2. ASSUME NEW print, AdmitNew(other, print) PROVE kept
        BY <2>2 DEF AdmitNew, AdmitsNew
  <2>3. ASSUME NEW after, NEW print, AdmitExisting(other, after, print) PROVE kept
        BY <1>2, <2>3 DEF AdmitExisting
  <2>4. ASSUME NEW after, RecoverKnown(other, after) PROVE kept
        BY <1>2, <2>4 DEF RecoverKnown
  <2> QED BY <1>4, <2>1, <2>2, <2>3, <2>4
          DEF Subscribe, Admit, Recover, AdmitConflict, AdmitTombstoned, AdmitOverCapacity, RecoverMissing
<1>5. ASSUME NEW other \in Ids, Acknowledge(other) PROVE kept \/ released
  <2>1. CASE Terminal(other) /\ Forget(other) /\ other \in Known /\ acked' = Remember(other)
    <3>1. CASE other = id
          BY <2>1, <3>1, Remembered DEF Forget
    <3>2. CASE other # id
          BY <2>1, <3>2 DEF Forget
    <3> QED BY <3>1, <3>2
  <2>2. CASE other \in Known /\ ~Terminal(other) /\ receipts' = [receipts EXCEPT ![other].acknowledged = TRUE]
        BY <2>2 DEF Known
  <2>3. CASE UNCHANGED receipts
        BY <2>3 DEF Known
  <2> QED BY <1>5, <2>1, <2>2, <2>3 DEF Acknowledge
<1>6. ASSUME NEW other \in Ids, Emit(other) PROVE kept
  <2>1. ASSUME NEW key, NEW resolved, NEW large, SendEvent(other, key, resolved, large) PROVE kept
    <3>1. other # id /\ \E r : receipts' = [receipts EXCEPT ![other] = r]
          BY <2>1 DEF SendEvent
    <3> QED BY <1>3, <3>1
  <2> QED BY <1>6, <2>1 DEF Emit, SendAssignment, SendProgress, SendInput, SendResolution
<1>7. ASSUME NEW other \in Ids, Settle(other) PROVE kept
  <2>1. ASSUME NEW outcome, NEW large, SendResponse(other, outcome, large) PROVE kept
    <3>1. other # id /\ \E r : receipts' = [receipts EXCEPT ![other] = r]
          BY <2>1 DEF SendResponse
    <3> QED BY <1>3, <3>1
  <2>2. CASE SendUnwantedResponse(other)
        BY <2>2 DEF SendUnwantedResponse, Forget
  <2> QED BY <1>7, <2>1, <2>2 DEF Settle
<1>8. ASSUME NEW c \in Controllers, Connect(c, <<>>) PROVE kept
      BY <1>1, <1>8 DEF Connect, Discarded, IsReceipt
<1>9. CASE ReceiptWritten
      BY <1>2, <1>9 DEF ReceiptWritten, Known
<1>10. CASE UNCHANGED receipts
      BY <1>10 DEF Known
<1> QED BY <1>4, <1>5, <1>6, <1>7, <1>8, <1>9, <1>10
        DEF JournalNext, Link, SendNotice, Disconnect, AuxWritten, WriteFailed, PumpLater, PeerReads

\* The outcome of a Job turn stays in the journal, unchanged, until it is
\* acknowledged: across reconnects, controller replacement and failed writes.
THEOREM OutcomeIsKept == JournalSpec => ResultKept
<1> DEFINE Kept == \A id \in Known \cap Retained : Terminal(id) =>
          \/ id \in DOMAIN receipts' /\ receipts'[id].terminal = receipts[id].terminal
          \/ id \notin DOMAIN receipts' /\ acked' # <<>> /\ acked'[Len(acked')] = id
<1>1. TypeOK /\ ReleasedStaysReleased /\ [JournalNext]_journalVars => [Kept]_journalVars
      BY ResultStep
<1> QED BY <1>1, JournalTypes, ReleaseIsFinal, PTL DEF JournalSpec, ResultKept

-----------------------------------------------------------------------------
(* What a replay delivers *)

\* What ReplayIsOrdered and ReplayRestoresQuestions ask of one receipt.
Snapshots(r) == DOMAIN r.events \cap ({"interaction-state"} \cup Interactions)
Numbered(r) ==
    /\ \A k, l \in DOMAIN r.events : r.events[k].seq = r.events[l].seq => k = l
    /\ \A k \in DOMAIN r.events : r.events[k].seq <= r.sequence
    /\ r.terminal # None => /\ r.terminalSeq = r.sequence
                            /\ DOMAIN r.events \subseteq {"assignment"}
                            /\ \A k \in DOMAIN r.events : r.events[k].seq < r.terminalSeq
Current(r) ==
    ~r.failed /\ r.terminal = None =>
      /\ DOMAIN r.events \cap Interactions # {} => Snapshots(r) # {}
      /\ \A k \in Snapshots(r) :
            (\A l \in Snapshots(r) : r.events[l].seq <= r.events[k].seq)
                => r.events[k].pending = DOMAIN r.events \cap Interactions
Replayable == \A id \in Known : Numbered(receipts[id]) /\ Current(receipts[id])

LEMMA ReplayableMeans == Replayable <=> ReplayIsOrdered /\ ReplayRestoresQuestions
<1>1. (\A id \in Known : Numbered(receipts[id])) <=> ReplayIsOrdered
      BY DEF Numbered, ReplayIsOrdered, Terminal
<1>2. (\A id \in Known : Current(receipts[id])) <=> ReplayRestoresQuestions
      BY Zenon DEF Current, ReplayRestoresQuestions, Terminal, Snapshots, Live
<1> QED BY <1>1, <1>2 DEF Replayable

LEMMA TerminalIsNotNone == None \notin TerminalValues
BY JournalAssumption DEF TerminalValues

\* Only these fields of a receipt matter.
LEMMA SameReplay ==
    ASSUME NEW r, NEW s, s.events = r.events, s.sequence = r.sequence, s.terminal = r.terminal,
           s.terminalSeq = r.terminalSeq, s.failed = r.failed, Numbered(r), Current(r)
    PROVE  Numbered(s) /\ Current(s)
BY DEF Numbered, Current, Snapshots

\* An event numbered above the receipt's may be stored under any key.
LEMMA StoredIsNumbered ==
    ASSUME NEW f, NEW n \in Nat, \A k \in DOMAIN f : f[k].seq \in Nat /\ f[k].seq <= n,
           \A k, l \in DOMAIN f : f[k].seq = f[l].seq => k = l,
           NEW key, NEW e, e.seq \in Nat, e.seq > n
    PROVE  /\ \A k, l \in DOMAIN SetEvent(f, key, e) :
                  SetEvent(f, key, e)[k].seq = SetEvent(f, key, e)[l].seq => k = l
           /\ \A k \in DOMAIN SetEvent(f, key, e) : SetEvent(f, key, e)[k].seq <= e.seq
BY DEF SetEvent

\* send() keeps what a replay relies on, whether it stores, coalesces or drops.
LEMMA SendEventReplay ==
    ASSUME TypeOK, Replayable, NEW id \in Ids, NEW key \in EventKeys, NEW resolved, NEW large,
           resolved # None => key = "interaction-state", SendEvent(id, key, resolved, large)
    PROVE  Replayable'
<1> DEFINE r == receipts[id]
           seq == r.sequence + 1
           kept == Restricted(r.events, DOMAIN r.events \ {resolved})
           snapshot == key = "interaction-state" \/ key \in Interactions
           event == [seq |-> seq, pending |-> IF snapshot THEN OpenQuestions(kept, key) ELSE {}]
           full == large \/ Cardinality(DOMAIN kept \cup {key}) > EventCapacity
           warning == [seq |-> seq + 1, pending |-> {}]
           ignored == [r EXCEPT !.sequence = seq]
           stored == [r EXCEPT !.sequence = seq, !.events = SetEvent(kept, key, event)]
           lost == [r EXCEPT !.sequence = seq, !.events = kept]
           warned == [r EXCEPT !.sequence = seq + 1, !.failed = TRUE,
                               !.events = SetEvent(kept, "delivery-failure", warning)]
           next == IF key = "progress" /\ large THEN ignored
                   ELSE IF ~full THEN stored ELSE IF r.failed THEN lost ELSE warned
<1>1. id \in Known /\ IsReceipt(r) /\ r.terminal = None /\ Numbered(r) /\ Current(r)
      BY DEF SendEvent, TypeOK, ReceiptsOK, Terminal, Replayable
<1>2. receipts' = [receipts EXCEPT ![id] = next]
      BY DEF SendEvent
<1>3. r.sequence \in Nat /\ seq \in Nat /\ seq > r.sequence /\ seq + 1 > r.sequence
      BY <1>1 DEF IsReceipt, Numbers
<1>4. \A k \in DOMAIN r.events : r.events[k].seq \in Nat
      BY <1>1 DEF IsReceipt, Events
<1>5. /\ DOMAIN kept = DOMAIN r.events \ {resolved}
      /\ \A k \in DOMAIN kept : kept[k] = r.events[k]
      BY DEF Restricted
<1>6. /\ \A k \in DOMAIN kept : kept[k].seq \in Nat /\ kept[k].seq <= r.sequence
      /\ \A k, l \in DOMAIN kept : kept[k].seq = kept[l].seq => k = l
      BY <1>1, <1>4, <1>5 DEF Numbered
<1>7. /\ DOMAIN r.events \subseteq EventKeys /\ None \notin EventKeys /\ r.failed \in BOOLEAN
      /\ {"assignment", "progress", "interaction-state", "delivery-failure"} \cap Interactions = {}
      BY <1>1, JournalAssumption DEF IsReceipt
<1>8. /\ ignored.terminal = None /\ ignored.sequence = seq /\ ignored.events = r.events
      /\ ignored.failed = r.failed
      /\ lost.terminal = None /\ lost.sequence = seq /\ lost.events = kept /\ lost.failed = r.failed
  <2> HIDE DEF seq, kept, r
  <2> QED BY <1>1 DEF IsReceipt
<1>9. /\ stored.terminal = None /\ stored.sequence = seq /\ stored.failed = r.failed
      /\ stored.events = SetEvent(kept, key, event)
  <2> HIDE DEF seq, kept, event, r
  <2> QED BY <1>1 DEF IsReceipt
<1>10. /\ warned.terminal = None /\ warned.sequence = seq + 1 /\ warned.failed = TRUE
       /\ warned.events = SetEvent(kept, "delivery-failure", warning)
  <2> HIDE DEF seq, kept, warning, r
  <2> QED BY <1>1 DEF IsReceipt
<1>11. event.seq = seq /\ warning.seq = seq + 1
       OBVIOUS
<1> HIDE DEF r, seq, kept, snapshot, event, full, warning, ignored, stored, lost, warned, next
<1>12. Numbered(ignored) /\ Current(ignored)
  <2>1. Numbered(ignored)
        BY <1>1, <1>3, <1>4, <1>8 DEF Numbered
  <2>2. Current(ignored)
        BY <1>1, <1>8 DEF Current, Snapshots
  <2> QED BY <2>1, <2>2
<1>13. ASSUME ~full PROVE Numbered(stored) /\ Current(stored)
  <2> DEFINE f == SetEvent(kept, key, event)
  <2>0. r.sequence \in Nat /\ event.seq \in Nat /\ event.seq > r.sequence
        BY <1>3, <1>11
  <2>1. /\ \A k, l \in DOMAIN f : f[k].seq = f[l].seq => k = l
        /\ \A k \in DOMAIN f : f[k].seq <= event.seq
        BY <1>6, <2>0, StoredIsNumbered
  <2>6. /\ DOMAIN f = DOMAIN kept \cup {key} /\ f[key] = event
        /\ \A k \in DOMAIN kept : k # key => f[k] = kept[k]
        BY DEF SetEvent
  <2> HIDE DEF f
  <2>2. stored.events = f
        BY <1>9 DEF f
  <2>3. Numbered(stored)
        BY <1>9, <1>11, <2>1, <2>6, <2>2 DEF Numbered
  <2>4. ASSUME snapshot PROVE Current(stored)
    <3>1. event.pending = (DOMAIN kept \cup {key}) \cap Interactions
          BY <2>4 DEF event, OpenQuestions
    <3>2. key \in Snapshots(stored)
          BY <2>1, <2>6, <2>2, <2>4 DEF Snapshots, snapshot
    <3>3. ASSUME NEW k \in Snapshots(stored), k # key PROVE ~(f[key].seq <= f[k].seq)
      <4>1. k \in DOMAIN kept /\ f[k] = kept[k]
            BY <2>1, <2>6, <2>2, <3>3 DEF Snapshots
      <4> QED BY <1>3, <1>6, <1>11, <2>1, <2>6, <4>1
    <3> QED BY <2>1, <2>6, <2>2, <3>1, <3>2, <3>3 DEF Current
  <2>5. ASSUME ~snapshot PROVE Current(stored)
    <3>1. resolved = None /\ key \notin Interactions /\ key # "interaction-state"
          BY <2>5 DEF snapshot
    <3>2. DOMAIN kept = DOMAIN r.events
          BY <1>5, <1>7, <3>1
    <3>3. Snapshots(stored) = Snapshots(r) /\ DOMAIN f \cap Interactions = DOMAIN r.events \cap Interactions
          BY <2>1, <2>6, <2>2, <3>1, <3>2 DEF Snapshots
    <3>4. \A k \in Snapshots(r) : f[k] = r.events[k]
          BY <1>5, <2>1, <2>6, <3>1, <3>2 DEF Snapshots
    <3> QED BY <1>1, <1>9, <2>2, <3>3, <3>4 DEF Current
  <2> QED BY <2>3, <2>4, <2>5
<1>14. ASSUME r.failed PROVE Numbered(lost) /\ Current(lost)
  <2>1. Numbered(lost)
        BY <1>3, <1>6, <1>8 DEF Numbered
  <2>2. Current(lost)
        BY <1>8, <1>14 DEF Current
  <2> QED BY <2>1, <2>2
<1>15. Numbered(warned) /\ Current(warned)
  <2> DEFINE f == SetEvent(kept, "delivery-failure", warning)
  <2>0. r.sequence \in Nat /\ warning.seq \in Nat /\ warning.seq > r.sequence
        BY <1>3, <1>11
  <2>1. /\ \A k, l \in DOMAIN f : f[k].seq = f[l].seq => k = l
        /\ \A k \in DOMAIN f : f[k].seq <= warning.seq
        BY <1>6, <2>0, StoredIsNumbered
  <2> HIDE DEF f
  <2>2. warned.events = f
        BY <1>10 DEF f
  <2>3. Numbered(warned)
        BY <1>10, <1>11, <2>1, <2>2 DEF Numbered
  <2> QED BY <1>10, <2>3 DEF Current
<1>16. Numbered(next) /\ Current(next)
  <2>1. next = ignored \/ (~full /\ next = stored) \/ (r.failed /\ next = lost) \/ next = warned
        BY DEF next
  <2> QED BY <1>12, <1>13, <1>14, <1>15, <2>1
<1> QED BY <1>1, <1>2, <1>16 DEF Replayable, Known

\* The terminal response comes after the one event that may stay.
LEMMA SendResponseReplay ==
    ASSUME TypeOK, Replayable, NEW id \in Ids, NEW outcome \in Outcomes, NEW large,
           SendResponse(id, outcome, large)
    PROVE  Replayable'
<1> DEFINE r == receipts[id]
           kept == Restricted(r.events, DOMAIN r.events \cap {"assignment"})
           value == IF r.failed THEN "undelivered" ELSE IF large THEN "too-large" ELSE outcome
           next == [r EXCEPT !.sequence = r.sequence + 1, !.terminalSeq = r.sequence + 1,
                             !.terminal = value, !.events = kept]
<1>1. id \in Known /\ IsReceipt(r) /\ Numbered(r)
      BY DEF SendResponse, TypeOK, ReceiptsOK, Replayable
<1>2. receipts' = [receipts EXCEPT ![id] = next]
      BY DEF SendResponse
<1>3. r.sequence \in Nat /\ \A k \in DOMAIN r.events : r.events[k].seq \in Nat
      BY <1>1 DEF IsReceipt, Numbers, Events
<1>4. /\ DOMAIN kept \subseteq {"assignment"} /\ DOMAIN kept \subseteq DOMAIN r.events
      /\ \A k \in DOMAIN kept : kept[k] = r.events[k]
      BY DEF Restricted
<1>5. /\ next.sequence = r.sequence + 1 /\ next.terminalSeq = r.sequence + 1
      /\ next.terminal = value /\ next.events = kept
  <2> HIDE DEF kept, value, r
  <2> QED BY <1>1 DEF IsReceipt
<1>6. value # None
  <2>1. value \in TerminalValues
        BY DEF TerminalValues
  <2> QED BY <2>1, TerminalIsNotNone
<1> HIDE DEF r, kept, value, next
<1>7. \A k \in DOMAIN kept : kept[k].seq \in Nat /\ kept[k].seq <= r.sequence
      BY <1>1, <1>3, <1>4 DEF Numbered
<1>8. Numbered(next)
      BY <1>3, <1>4, <1>5, <1>7 DEF Numbered
<1>9. Current(next)
      BY <1>5, <1>6 DEF Current
<1> QED BY <1>1, <1>2, <1>8, <1>9 DEF Replayable, Known

\* Every other step leaves the events and the outcome of each receipt alone.
SameContents(r, s) ==
    /\ s.events = r.events /\ s.sequence = r.sequence /\ s.terminal = r.terminal
    /\ s.terminalSeq = r.terminalSeq /\ s.failed = r.failed

LEMMA OtherReplay ==
    ASSUME Replayable, DOMAIN receipts' \subseteq Known,
           \A id \in DOMAIN receipts' : SameContents(receipts[id], receipts'[id])
    PROVE  Replayable'
BY SameReplay DEF Replayable, SameContents, Known

LEMMA SentReplay ==
    ASSUME TypeOK, Replayable, NEW id, NEW n, receipts' = [receipts EXCEPT ![id].sent = n]
    PROVE  Replayable'
<1>1. \A i \in Known : IsReceipt(receipts[i])
      BY DEF TypeOK, ReceiptsOK
<1>2. DOMAIN receipts' = Known
      BY DEF Known
<1>3. ASSUME NEW i \in Known PROVE SameContents(receipts[i], receipts'[i])
      BY <1>1 DEF SameContents, IsReceipt, Known
<1> QED BY <1>2, <1>3, OtherReplay

LEMMA ReplayStep == TypeOK /\ Replayable /\ [JournalNext]_journalVars => Replayable'
<1> SUFFICES ASSUME TypeOK, Replayable, [JournalNext]_journalVars PROVE Replayable'
    OBVIOUS
<1>1. \A i \in Known : IsReceipt(receipts[i])
      BY DEF TypeOK, ReceiptsOK
<1>2. CASE UNCHANGED receipts
      BY <1>2, OtherReplay DEF SameContents, Known
<1>3. ASSUME NEW id \in Ids, Forget(id) PROVE Replayable'
      BY <1>3, OtherReplay DEF Forget, SameContents
<1>4. ASSUME NEW id \in Ids, Subscribe(id) PROVE Replayable'
  <2>1. ASSUME NEW code, ReplyError(id, code) PROVE Replayable'
        BY <1>2, <2>1 DEF ReplyError
  <2>2. ASSUME NEW print, AdmitNew(id, print) PROVE Replayable'
    <3>1. /\ DOMAIN receipts' = Known \cup {id} /\ receipts'[id] = NewReceipt(id, print)
          /\ \A i \in Known : i # id => receipts'[i] = receipts[i]
          BY <2>2 DEF AdmitNew
    <3>2. /\ DOMAIN NewReceipt(id, print).events = {} /\ NewReceipt(id, print).terminal = None
          BY DEF NewReceipt, Empty
    <3>3. Numbered(NewReceipt(id, print)) /\ Current(NewReceipt(id, print))
          BY <3>2 DEF Numbered, Current, Snapshots
    <3> QED BY <3>1, <3>3 DEF Replayable, Known
  <2>3. ASSUME NEW after, NEW print, AdmitExisting(id, after, print) PROVE Replayable'
        BY <2>3, SentReplay DEF AdmitExisting
  <2>4. ASSUME NEW after, RecoverKnown(id, after) PROVE Replayable'
        BY <2>4, SentReplay DEF RecoverKnown
  <2> QED BY <1>4, <2>1, <2>2, <2>3, <2>4
          DEF Subscribe, Admit, Recover, AdmitConflict, AdmitTombstoned, AdmitOverCapacity, RecoverMissing
<1>5. ASSUME NEW id \in Ids, Acknowledge(id) PROVE Replayable'
  <2>1. CASE receipts' = [receipts EXCEPT ![id].acknowledged = TRUE]
    <3>1. DOMAIN receipts' = Known
          BY <2>1 DEF Known
    <3>2. ASSUME NEW i \in Known PROVE SameContents(receipts[i], receipts'[i])
          BY <1>1, <2>1 DEF SameContents, IsReceipt, Known
    <3> QED BY <3>1, <3>2, OtherReplay
  <2> QED BY <1>2, <1>3, <1>5, <2>1 DEF Acknowledge
<1>6. ASSUME NEW id \in Ids, Emit(id) PROVE Replayable'
  <2>1. Interactions \subseteq EventKeys /\ {"assignment", "progress", "interaction-state"} \subseteq EventKeys
        BY DEF EventKeys
  <2> QED BY <1>6, <2>1, SendEventReplay DEF Emit, SendAssignment, SendProgress, SendInput, SendResolution
<1>7. ASSUME NEW id \in Ids, Settle(id) PROVE Replayable'
      BY <1>3, <1>7, SendResponseReplay DEF Settle, SendUnwantedResponse
<1>8. ASSUME NEW c \in Controllers, Connect(c, <<>>) PROVE Replayable'
  <2>1. DOMAIN receipts' \subseteq Known
        BY <1>8 DEF Connect
  <2>2. ASSUME NEW i \in DOMAIN receipts' PROVE SameContents(receipts[i], receipts'[i])
        BY <1>1, <1>8, <2>1 DEF Connect, SameContents, IsReceipt
  <2> QED BY <2>1, <2>2, OtherReplay
<1>9. CASE ReceiptWritten
      BY <1>2, <1>9, SentReplay DEF ReceiptWritten
<1>10. CASE UNCHANGED journalVars
      BY <1>2, <1>10 DEF journalVars
<1> QED BY <1>2, <1>4, <1>5, <1>6, <1>7, <1>8, <1>9, <1>10
        DEF JournalNext, Link, SendNotice, Disconnect, AuxWritten, WriteFailed, PumpLater, PeerReads

LEMMA ReplayInvariant == JournalSpec => []Replayable
<1>1. JournalInit => Replayable
      BY DEF JournalInit, Replayable, Known, Empty
<1> QED BY <1>1, ReplayStep, JournalTypes, PTL DEF JournalSpec

\* From whatever cursor a controller reads a receipt, the events come in the
\* order they happened and the terminal response comes last.
THEOREM EventsStayInOrder == JournalSpec => []ReplayIsOrdered
BY ReplayInvariant, ReplayableMeans, PTL

\* The events a receipt still holds end with exactly the open questions.
THEOREM QuestionsAreRestored == JournalSpec => []ReplayRestoresQuestions
BY ReplayInvariant, ReplayableMeans, PTL
-----------------------------------------------------------------------------
(* How long a receipt or an auxiliary message waits *)

\* The receipts that may still be written before id: those with an earlier place
\* in the order, but not the one whose write will move it to the end.
Ahead(id) ==
    {x \in Known \ {id} : order[x] < order[id] /\ ~(Serves(x) /\ writing.current)}

\* Every write that passed a receipt was of one that is not ahead of it any more.
TurnsBounded ==
    /\ passed \in [Ids -> Nat]
    /\ \A id \in Ids : ~Awaits(id) => passed[id] = 0
    /\ \A id \in Known : passed[id] + Cardinality(Ahead(id)) < Cardinality(Ids)

\* The burst counts every write that passed the auxiliary messages, the one in
\* flight only when it ends.
BurstCounts ==
    /\ auxPassed \in Nat /\ auxPassed <= BurstLimit
    /\ ~AuxAwaits => auxPassed = 0
    /\ auxPassed <= burst + (IF writing.kind \in ReceiptKinds THEN 1 ELSE 0)

SchedulingInv == TypeOK /\ TurnsBounded /\ BurstCounts

\* Deleting keys from a Map does not turn two others around.
LEMMA PlacesKeepOrder ==
    ASSUME NEW S, IsFiniteSet(S), \A x \in S : order[x] \in Int,
           NEW x \in S, NEW y \in S, Places(S)[x] < Places(S)[y]
    PROVE  order[x] < order[y]
<1> SUFFICES ASSUME order[y] <= order[x] PROVE FALSE
    OBVIOUS
<1> DEFINE Upto(z) == {s \in S : order[s] <= order[z]}
<1>1. Places(S)[x] = Cardinality(Upto(x)) /\ Places(S)[y] = Cardinality(Upto(y))
      BY DEF Places
<1>2. Upto(y) \subseteq Upto(x) /\ Upto(x) \subseteq S
      OBVIOUS
<1> HIDE DEF Upto
<1>3. IsFiniteSet(Upto(x)) /\ Cardinality(Upto(y)) <= Cardinality(Upto(x))
      BY <1>2, FS_Subset
<1>4. Cardinality(Upto(x)) \in Nat /\ Cardinality(Upto(y)) \in Nat
      BY <1>2, <1>3, FS_Subset, FS_CardinalityType
<1> QED BY <1>1, <1>3, <1>4

\* pump() writes the first receipt of the order that has something to send, and
\* none after a full burst while an auxiliary message is there.
LEMMA NextIsFirst ==
    ReceiptsOK /\ OrderOK /\ ControlOK /\ HasNext /\ NextMessage.kind \in ReceiptKinds =>
        /\ NextMessage.id \in Known
        /\ \A other \in Ready : order[NextMessage.id] <= order[other]
        /\ burst < BurstLimit \/ aux = <<>>
<1> SUFFICES ASSUME ReceiptsOK, OrderOK, ControlOK, HasNext, NextMessage.kind \in ReceiptKinds
             PROVE  /\ NextMessage.id \in Known
                    /\ \A other \in Ready : order[NextMessage.id] <= order[other]
                    /\ burst < BurstLimit \/ aux = <<>>
    OBVIOUS
<1>1. ~AuxTurn
  <2> SUFFICES ASSUME AuxTurn PROVE FALSE
      OBVIOUS
  <2>1. aux # <<>> /\ NextMessage = Head(aux)
        BY DEF HasNext, AuxTurn, NextMessage
  <2>2. Head(aux) \in AuxMessages
        BY <2>1, HeadTailProperties DEF ControlOK
  <2> QED BY <2>1, <2>2 DEF AuxMessages, AuxKinds, ReceiptKinds
<1>2. Ready # {} /\ NextMessage = NextReceipt
      BY <1>1 DEF AuxTurn, NextMessage
<1>3. FirstReady \in Known /\ NextMessage.id = FirstReady
  <2>1. FirstReady \in Known /\ NextReceipt \in Unsent(FirstReady)
        BY <1>2, NextReceiptOK
  <2> QED BY <1>2, <2>1, UnsentOK
<1>4. \A other \in Ready : order[FirstReady] <= order[other]
  <2>1. {order[id] : id \in Ready} \subseteq Nat /\ {order[id] : id \in Ready} # {}
        BY <1>2 DEF Ready, OrderOK
  <2>2. PICK n \in {order[id] : id \in Ready} : \A m \in {order[id] : id \in Ready} : n <= m
        BY <2>1, Least
  <2>3. \E id \in Ready : \A other \in Ready : order[id] <= order[other]
        BY <2>2
  <2> QED BY <2>3 DEF FirstReady
<1>5. burst < BurstLimit \/ aux = <<>>
      BY <1>1, JournalAssumption DEF AuxTurn, ControlOK
<1> QED BY <1>3, <1>4, <1>5

LEMMA ReceiptBegins ==
    ASSUME NEW w, Pump(NoWrite, w), ReceiptsOK', OrderOK', ControlOK', writing'.kind \in ReceiptKinds
    PROVE  /\ writing'.id \in Known' /\ writing'.current
           /\ \A other \in Known' : Unsent(other)' # {} => order'[writing'.id] <= order'[other]
           /\ burst' < BurstLimit \/ aux' = <<>>
<1>1. /\ HasNext'
      /\ writing' = [kind |-> NextMessage'.kind, id |-> NextMessage'.id,
                     key |-> NextMessage'.key, seq |-> NextMessage'.seq, current |-> TRUE]
  <2>1. linked' /\ HasNext'
        BY DEF Pump, NoWrite, ReceiptKinds
  <2> QED BY <2>1 DEF Pump
<1>2. NextMessage'.kind \in ReceiptKinds /\ writing'.id = NextMessage'.id /\ writing'.current
      BY <1>1
<1>3. (ReceiptsOK /\ OrderOK /\ ControlOK /\ HasNext /\ NextMessage.kind \in ReceiptKinds =>
        /\ NextMessage.id \in Known
        /\ \A other \in Ready : order[NextMessage.id] <= order[other]
        /\ burst < BurstLimit \/ aux = <<>>)'
      BY NextIsFirst, PTL
<1>4. /\ NextMessage'.id \in Known'
      /\ \A other \in Ready' : order'[NextMessage'.id] <= order'[other]
      /\ burst' < BurstLimit \/ aux' = <<>>
      BY <1>1, <1>2, <1>3
<1>5. \A other \in Known' : Unsent(other)' # {} => other \in Ready'
      BY DEF Ready
<1> QED BY <1>2, <1>4, <1>5

LEMMA BegunIs == Begun \in {0, 1} /\ (Begun = 1 => writing = NoWrite /\ writing'.kind \in ReceiptKinds)
BY DEF Begun

\* What a step must show: nothing gets ahead of a receipt that waits, and a write
\* that begins is of one that was ahead.
LEMMA PassedStep ==
    ASSUME SchedulingInv, TypeOK', Counted,
           \A id \in Known : Awaits(id) /\ Awaits(id)' => Ahead(id)' \subseteq Ahead(id),
           Begun = 1 => \A id \in Known' : Awaits(id)' =>
               \E x \in Known' \ {id} : x \notin Ahead(id)' /\ (Awaits(id) => x \in Ahead(id))
    PROVE  TurnsBounded'
<1>1. passed \in [Ids -> Nat] /\ passed' = [id \in Ids |-> IF Awaits(id)' THEN passed[id] + Begun ELSE 0]
      BY DEF SchedulingInv, TurnsBounded, Counted
<1>2. passed' \in [Ids -> Nat]
      BY <1>1, BegunIs
<1>3. \A id \in Ids : ~Awaits(id)' => passed'[id] = 0
      BY <1>1
<1>4. ASSUME NEW id \in Known'
      PROVE  passed'[id] + Cardinality(Ahead(id)') < Cardinality(Ids)
  <2>1. id \in Ids /\ Known' \subseteq Ids /\ Known \subseteq Ids
        BY DEF TypeOK, ReceiptsOK, SchedulingInv
  <2> DEFINE others == Ids \ {id}
  <2>2. /\ IsFiniteSet(Ids) /\ IsFiniteSet(others) /\ Cardinality(Ids) \in Nat
        /\ Cardinality(others) = Cardinality(Ids) - 1
        BY <2>1, JournalAssumption, FS_RemoveElement, FS_CardinalityType
  <2>3. Ahead(id)' \subseteq others /\ Ahead(id) \subseteq others
        BY <2>1 DEF Ahead
  <2> HIDE DEF others
  <2>4. /\ IsFiniteSet(Ahead(id)) /\ Cardinality(Ahead(id)) \in Nat
        /\ Cardinality(Ahead(id)') \in Nat /\ Cardinality(Ahead(id)') <= Cardinality(others)
        BY <2>2, <2>3, FS_Subset, FS_CardinalityType
  <2>5. ~Awaits(id) => passed[id] = 0
        BY <2>1 DEF SchedulingInv, TurnsBounded
  <2>6. Awaits(id) => id \in Known /\ passed[id] + Cardinality(Ahead(id)) < Cardinality(Ids)
        BY DEF SchedulingInv, TurnsBounded, Awaits
  <2>7. passed[id] \in Nat
        BY <1>1, <2>1
  <2>8. CASE ~Awaits(id)' \/ (~Awaits(id) /\ Begun = 0)
        BY <1>1, <2>1, <2>2, <2>4, <2>5, <2>8
  <2>9. CASE Awaits(id)' /\ Awaits(id) /\ Begun = 0
    <3>1. passed'[id] = passed[id]
          BY <1>1, <2>1, <2>7, <2>9
    <3>2. Cardinality(Ahead(id)') <= Cardinality(Ahead(id))
          BY <2>4, <2>6, <2>9, FS_Subset
    <3> QED BY <2>2, <2>4, <2>6, <2>7, <2>9, <3>1, <3>2
  <2>10. CASE Awaits(id)' /\ Begun = 1
    <3>1. PICK x \in Known' \ {id} : x \notin Ahead(id)' /\ (Awaits(id) => x \in Ahead(id))
          BY <2>10
    <3>2. passed'[id] = passed[id] + 1
          BY <1>1, <2>1, <2>10
    <3>3. CASE Awaits(id)
      <4>1. Ahead(id)' \subseteq Ahead(id) \ {x} /\ x \in Ahead(id)
            BY <2>6, <2>10, <3>1, <3>3
      <4>2. /\ IsFiniteSet(Ahead(id) \ {x})
            /\ Cardinality(Ahead(id) \ {x}) = Cardinality(Ahead(id)) - 1
            BY <2>4, <4>1, FS_RemoveElement
      <4>3. Cardinality(Ahead(id)') <= Cardinality(Ahead(id)) - 1
            BY <4>1, <4>2, FS_Subset
      <4> QED BY <2>2, <2>4, <2>6, <2>7, <3>2, <3>3, <4>3
    <3>4. CASE ~Awaits(id)
      <4>1. Ahead(id)' \subseteq others \ {x} /\ x \in others
            BY <2>1, <2>3, <3>1 DEF others
      <4>2. IsFiniteSet(others \ {x}) /\ Cardinality(others \ {x}) = Cardinality(others) - 1
            BY <2>2, <4>1, FS_RemoveElement
      <4>3. Cardinality(Ahead(id)') <= Cardinality(others) - 1
            BY <4>1, <4>2, FS_Subset
      <4> QED BY <2>2, <2>4, <2>5, <3>2, <3>4, <4>3
    <3> QED BY <3>3, <3>4
  <2> QED BY <2>8, <2>9, <2>10, BegunIs
<1> QED BY <1>2, <1>3, <1>4 DEF TurnsBounded

LEMMA BurstStep ==
    ASSUME SchedulingInv, TypeOK', Counted, burst' = burst,
           writing.kind \in ReceiptKinds => writing'.kind \in ReceiptKinds,
           Begun = 1 => burst' < BurstLimit \/ aux' = <<>>
    PROVE  BurstCounts'
<1>1. /\ burst' \in Nat /\ burst \in Nat /\ BurstLimit \in Nat
      /\ auxPassed \in Nat /\ auxPassed <= BurstLimit
      /\ auxPassed <= burst + (IF writing.kind \in ReceiptKinds THEN 1 ELSE 0)
      BY JournalAssumption DEF SchedulingInv, TypeOK, ControlOK, BurstCounts
<1>2. auxPassed' = IF AuxAwaits' THEN auxPassed + Begun ELSE 0
      BY DEF Counted
<1>3. CASE ~AuxAwaits'
      BY <1>1, <1>2, <1>3 DEF BurstCounts
<1>4. CASE AuxAwaits' /\ Begun = 0
  <2>1. auxPassed' = auxPassed
        BY <1>1, <1>2, <1>4
  <2> QED BY <1>1, <1>4, <2>1 DEF BurstCounts
<1>5. CASE AuxAwaits' /\ Begun = 1
  <2>1. auxPassed' = auxPassed + 1 /\ burst' < BurstLimit
        BY <1>2, <1>5 DEF AuxAwaits
  <2>2. writing.kind \notin ReceiptKinds /\ writing'.kind \in ReceiptKinds
        BY <1>5, BegunIs DEF NoWrite, ReceiptKinds
  <2>3. auxPassed <= burst
        BY <1>1, <2>2
  <2> QED BY <1>1, <1>5, <2>1, <2>2, <2>3 DEF BurstCounts
<1> QED BY <1>3, <1>4, <1>5, BegunIs

\* A step that adds no receipt, keeps the order of those that stay and calls
\* pump(), or ends without it.  flight is the write in flight that pump() finds.
LEMMA PumpedStep ==
    ASSUME SchedulingInv, TypeOK', Counted, Known' \subseteq Known,
           \A x, y \in Known' : order'[x] < order'[y] => order[x] < order[y],
           burst' = burst,
           NEW flight, NEW w, Pump(flight, w) \/ writing' = flight,
           flight = NoWrite <=> writing = NoWrite,
           flight.kind = writing.kind, flight.id = writing.id,
           \A x \in Known' : Serves(x) /\ writing.current => flight.current
    PROVE  TurnsBounded' /\ BurstCounts'
<1>1. flight # NoWrite => writing' = flight
      BY DEF Pump
<1>2. writing = NoWrite => writing.kind \notin ReceiptKinds /\ ~(\E x \in Known' : Serves(x))
      BY DEF NoWrite, ReceiptKinds, Serves
<1>3. writing.kind \in ReceiptKinds => writing'.kind \in ReceiptKinds
      BY <1>1, <1>2
<1>4. ReceiptsOK' /\ OrderOK' /\ ControlOK'
      BY DEF TypeOK
<1>5. Begun = 1 =>
         /\ writing = NoWrite /\ writing'.kind \in ReceiptKinds
         /\ writing'.id \in Known' /\ writing'.current
         /\ \A other \in Known' : Unsent(other)' # {} => order'[writing'.id] <= order'[other]
         /\ burst' < BurstLimit \/ aux' = <<>>
  <2> SUFFICES ASSUME Begun = 1
               PROVE  /\ writing = NoWrite /\ writing'.kind \in ReceiptKinds
                      /\ writing'.id \in Known' /\ writing'.current
                      /\ \A other \in Known' : Unsent(other)' # {} => order'[writing'.id] <= order'[other]
                      /\ burst' < BurstLimit \/ aux' = <<>>
      OBVIOUS
  <2>1. writing = NoWrite /\ writing'.kind \in ReceiptKinds /\ flight = NoWrite
        BY BegunIs
  <2>2. writing' # NoWrite
        BY <2>1 DEF NoWrite, ReceiptKinds
  <2>3. Pump(NoWrite, w)
        BY <2>1, <2>2
  <2> QED BY <1>4, <2>1, <2>3, ReceiptBegins
<1>6. ASSUME NEW id \in Known, Awaits(id), Awaits(id)', NEW x \in Ahead(id)'
      PROVE  x \in Ahead(id)
  <2>1. x \in Known' /\ x # id /\ order'[x] < order'[id] /\ ~(Serves(x)' /\ writing'.current)
        BY <1>6 DEF Ahead
  <2>2. id \in Known'
        BY <1>6 DEF Awaits
  <2>3. ~(Serves(x) /\ writing.current)
    <3> SUFFICES ASSUME Serves(x), writing.current PROVE FALSE
        OBVIOUS
    <3>1. writing' = flight /\ flight.current
          BY <1>1, <1>2, <2>1
    <3>2. Serves(x)'
          BY <3>1 DEF Serves
    <3> QED BY <2>1, <3>1, <3>2
  <2> QED BY <2>1, <2>2, <2>3 DEF Ahead
<1>7. ASSUME Begun = 1, NEW id \in Known', Awaits(id)'
      PROVE  \E x \in Known' \ {id} : x \notin Ahead(id)' /\ (Awaits(id) => x \in Ahead(id))
  <2> DEFINE x == writing'.id
  <2>1. x \in Known' /\ writing'.kind \in ReceiptKinds /\ writing'.current /\ writing = NoWrite
        BY <1>5, <1>7
  <2>2. Unsent(id)' # {} /\ x # id
        BY <1>7, <2>1 DEF Awaits, Serves
  <2>3. order'[x] < order'[id]
    <3>1. order'[x] <= order'[id]
          BY <1>5, <1>7, <2>2
    <3>2. order'[x] \in Nat /\ order'[id] \in Nat /\ order'[x] # order'[id]
          BY <1>4, <2>1, <2>2 DEF OrderOK
    <3> QED BY <3>1, <3>2
  <2>4. x \notin Ahead(id)'
        BY <2>1 DEF Ahead, Serves
  <2>5. x \in Ahead(id)
        BY <1>2, <2>1, <2>2, <2>3 DEF Ahead
  <2> QED BY <2>1, <2>2, <2>4, <2>5
<1>8. TurnsBounded'
      BY <1>6, <1>7, PassedStep
<1> QED BY <1>3, <1>5, <1>8, BurstStep

LEMMA BurstNone ==
    ASSUME TypeOK', auxPassed' = 0
    PROVE  BurstCounts'
<1>1. burst' \in Nat /\ BurstLimit \in Nat
      BY JournalAssumption DEF TypeOK, ControlOK
<1>2. ASSUME NEW a \in Nat, a <= 0, NEW b \in Nat, NEW most \in Nat, NEW flight
      PROVE  a <= most /\ a <= b + (IF flight \in ReceiptKinds THEN 1 ELSE 0)
      BY <1>2
<1>3. auxPassed' \in Nat /\ auxPassed' <= 0
      OBVIOUS
<1> QED BY <1>1, <1>2, <1>3, Zenon DEF BurstCounts

\* A step after which no receipt waits, nor does an auxiliary message.
LEMMA NothingWaits ==
    ASSUME SchedulingInv, TypeOK', Counted, \A id \in Ids : ~Awaits(id)', ~AuxAwaits'
    PROVE  TurnsBounded' /\ BurstCounts'
<1>1. TurnsBounded'
  <2>1. \A id \in Known' : ~Awaits(id)'
        BY DEF TypeOK, ReceiptsOK
  <2>2. \A id \in Known : ~(Awaits(id) /\ Awaits(id)')
        BY DEF Awaits, SchedulingInv, TypeOK, ReceiptsOK
  <2> QED BY <2>1, <2>2, PassedStep
<1>2. BurstCounts'
      BY BurstNone DEF Counted
<1> QED BY <1>1, <1>2

-----------------------------------------------------------------------------
(* One lemma per operation on how long others wait *)

\* What an operation may do to the write in flight: mark it as not current.
OnlyMarked(flight) ==
    /\ flight = NoWrite <=> writing = NoWrite
    /\ flight.kind = writing.kind /\ flight.id = writing.id

LEMMA SupersededMarks ==
    ASSUME TypeOK, NEW m \in AuxMessages
    PROVE  OnlyMarked(Superseded(m)) /\ \A x : Serves(x) /\ writing.current => Superseded(m).current
<1>1. CASE Superseded(m) = writing
      BY <1>1 DEF OnlyMarked
<1>2. CASE Superseded(m) # writing
  <2>1. writing.kind = m.kind /\ Superseded(m) = [writing EXCEPT !.current = FALSE]
        BY <1>2 DEF Superseded
  <2>2. writing.kind \in AuxKinds /\ writing # NoWrite
        BY <2>1 DEF AuxMessages, NoWrite, AuxKinds
  <2>3. writing \in Writes
        BY <2>2 DEF TypeOK, WritingOK
  <2>4. Superseded(m).kind = writing.kind /\ Superseded(m).id = writing.id
        BY <2>1, <2>3 DEF Writes
  <2>5. Superseded(m) # NoWrite
        BY <2>2, <2>4 DEF NoWrite, AuxKinds
  <2> QED BY <2>2, <2>4, <2>5 DEF OnlyMarked, Serves, AuxKinds, ReceiptKinds
<1> QED BY <1>1, <1>2

LEMMA DetachedMarks ==
    ASSUME TypeOK, NEW id
    PROVE  OnlyMarked(Detached(id)) /\ \A x : x # id /\ Serves(x) /\ writing.current => Detached(id).current
<1>1. CASE Detached(id) = writing
      BY <1>1 DEF OnlyMarked
<1>2. CASE Detached(id) # writing
  <2>1. /\ writing.kind \in {"event", "response"} /\ writing.id = id
        /\ Detached(id) = [writing EXCEPT !.current = FALSE]
        BY <1>2 DEF Detached
  <2>2. writing \in Writes /\ writing # NoWrite
        BY <2>1 DEF TypeOK, WritingOK, NoWrite
  <2>3. Detached(id).kind = writing.kind /\ Detached(id).id = writing.id
        BY <2>1, <2>2 DEF Writes
  <2>4. Detached(id) # NoWrite
        BY <2>1, <2>3 DEF NoWrite
  <2> QED BY <2>1, <2>2, <2>3, <2>4 DEF OnlyMarked, Serves
<1> QED BY <1>1, <1>2

\* A step that keeps the receipts in their order.
LEMMA RewriteTurns ==
    ASSUME SchedulingInv, TypeOK', Counted, Known' = Known, order' = order, burst' = burst,
           Pump(writing, wire) \/ UNCHANGED writing
    PROVE  TurnsBounded' /\ BurstCounts'
<1>1. \A x, y \in Known' : order'[x] < order'[y] => order[x] < order[y]
      OBVIOUS
<1> QED BY <1>1, PumpedStep

\* A step that sets an auxiliary message and adds no receipt.
LEMMA AuxiliaryTurns ==
    ASSUME SchedulingInv, TypeOK', Counted, Known' \subseteq Known,
           \A x, y \in Known' : order'[x] < order'[y] => order[x] < order[y],
           burst' = burst,
           NEW flight, Pump(flight, wire) \/ writing' = flight, OnlyMarked(flight),
           \A x \in Known' : Serves(x) /\ writing.current => flight.current
    PROVE  TurnsBounded' /\ BurstCounts'
BY PumpedStep DEF OnlyMarked

LEMMA ForgetKeepsOrder ==
    ASSUME TypeOK, NEW id, Forget(id)
    PROVE  /\ Known' = Known \ {id}
           /\ \A x, y \in Known' : order'[x] < order'[y] => order[x] < order[y]
<1>1. Known' = Known \ {id} /\ order' = Places(Known \ {id})
      BY DEF Forget, Known
<1>2. IsFiniteSet(Known \ {id}) /\ \A x \in Known \ {id} : order[x] \in Int
      BY JournalAssumption, FS_Subset DEF TypeOK, ReceiptsOK, OrderOK
<1> QED BY <1>1, <1>2, PlacesKeepOrder

LEMMA AdmitNewTurns ==
    ASSUME SchedulingInv, TypeOK', Counted, NEW i \in Ids, NEW print, AdmitNew(i, print)
    PROVE  TurnsBounded' /\ BurstCounts'
<1>1. /\ i \notin Known /\ Known' = Known \cup {i} /\ order' = AtTheEnd(order, i)
      /\ UNCHANGED <<aux, writing, burst, linked>>
      BY DEF AdmitNew, AdmitsNew, Known
<1>2. Begun = 0
      BY <1>1 DEF Begun, NoWrite, ReceiptKinds
<1>3. order \in [Known -> 1 .. Cardinality(Known)] /\ Cardinality(Known) \in Nat
      BY JournalAssumption, FS_Subset, FS_CardinalityType DEF SchedulingInv, TypeOK, ReceiptsOK, OrderOK
<1>4. order'[i] = Cardinality(Known) + 1 /\ \A x \in Known : order'[x] = order[x]
      BY <1>1, <1>3 DEF AtTheEnd
<1>5. ASSUME NEW id \in Known, NEW x \in Ahead(id)'
      PROVE  x \in Ahead(id)
  <2>1. x \in Known' /\ x # id /\ order'[x] < order'[id] /\ ~(Serves(x)' /\ writing'.current)
        BY <1>5 DEF Ahead
  <2>2. x # i
        BY <1>3, <1>4, <2>1
  <2>3. order[x] < order[id] /\ x \in Known
        BY <1>1, <1>4, <2>1, <2>2
  <2> QED BY <1>1, <2>1, <2>3 DEF Ahead, Serves
<1>6. TurnsBounded'
      BY <1>2, <1>5, PassedStep
<1> QED BY <1>1, <1>2, <1>6, BurstStep

LEMMA ReplyErrorTurns ==
    ASSUME SchedulingInv, TypeOK', Counted, NEW id \in Ids,
           NEW code \in {"identity-conflict", "already-acknowledged", "capacity", "worker-lost"},
           ReplyError(id, code)
    PROVE  TurnsBounded' /\ BurstCounts'
<1>1. ErrorReply(id, code) \in AuxMessages
      BY DEF ErrorReply, Message, AuxMessages, AuxKinds
<1>2. /\ OnlyMarked(Superseded(ErrorReply(id, code)))
      /\ \A x : Serves(x) /\ writing.current => Superseded(ErrorReply(id, code)).current
      BY <1>1, SupersededMarks DEF SchedulingInv
<1>3. Known' = Known /\ order' = order /\ burst' = burst
      BY DEF ReplyError, Known
<1>4. Pump(Superseded(ErrorReply(id, code)), wire)
      BY DEF ReplyError
<1> QED BY <1>2, <1>3, <1>4, AuxiliaryTurns

LEMMA SubscribeTurns ==
    ASSUME SchedulingInv, TypeOK', Counted, NEW id \in Ids, Subscribe(id)
    PROVE  TurnsBounded' /\ BurstCounts'
<1>1. PICK after \in Cursors(id) :
         (\E print \in Prints : Admit(id, after, print)) \/ Recover(id, after)
      BY DEF Subscribe
<1>2. ASSUME NEW print \in Prints, Admit(id, after, print)
      PROVE  TurnsBounded' /\ BurstCounts'
  <2>1. CASE AdmitNew(id, print)
        BY <2>1, AdmitNewTurns
  <2>2. CASE AdmitExisting(id, after, print)
        BY <2>2, RewriteTurns DEF AdmitExisting, Known
  <2>3. CASE AdmitConflict(id, print) \/ AdmitTombstoned(id) \/ AdmitOverCapacity(id)
        BY <2>3, ReplyErrorTurns DEF AdmitConflict, AdmitTombstoned, AdmitOverCapacity
  <2> QED BY <1>2, <2>1, <2>2, <2>3 DEF Admit
<1>3. CASE RecoverKnown(id, after)
      BY <1>3, RewriteTurns DEF RecoverKnown, Known
<1>4. CASE RecoverMissing(id)
      BY <1>4, ReplyErrorTurns DEF RecoverMissing
<1> QED BY <1>1, <1>2, <1>3, <1>4 DEF Recover

LEMMA AcknowledgeTurns ==
    ASSUME SchedulingInv, TypeOK', Counted, NEW id \in Ids, Acknowledge(id)
    PROVE  TurnsBounded' /\ BurstCounts'
<1> DEFINE detaches == id \in Known /\ Terminal(id) /\ writing.kind \in {"event", "response"}
           flight == IF detaches THEN Detached(id) ELSE Superseded(AckReply(id))
<1>1. AckReply(id) \in AuxMessages
      BY DEF AckReply, Message, AuxMessages, AuxKinds
<1>2. burst' = burst /\ (Pump(flight, wire) \/ writing' = flight)
      BY DEF Acknowledge
<1>3. TypeOK
      BY DEF SchedulingInv
<1>4. OnlyMarked(flight) /\ \A x : (~detaches \/ x # id) /\ Serves(x) /\ writing.current => flight.current
  <2>1. CASE detaches
        BY <1>3, <2>1, DetachedMarks
  <2>2. CASE ~detaches
        BY <1>1, <1>3, <2>2, SupersededMarks
  <2> QED BY <2>1, <2>2
<1> HIDE DEF flight
<1>5. CASE id \in Known /\ Terminal(id) /\ Forget(id)
  <2>1. /\ Known' = Known \ {id}
        /\ \A x, y \in Known' : order'[x] < order'[y] => order[x] < order[y]
        BY <1>3, <1>5, ForgetKeepsOrder
  <2>2. \A x \in Known' : Serves(x) /\ writing.current => flight.current
        BY <1>4, <2>1
  <2> QED BY <1>2, <1>4, <2>1, <2>2, AuxiliaryTurns
<1>6. CASE ~(id \in Known /\ Terminal(id))
  <2>1. Known' = Known /\ order' = order
        BY <1>6 DEF Acknowledge, Known
  <2>2. \A x \in Known' : Serves(x) /\ writing.current => flight.current
        BY <1>4, <1>6
  <2> QED BY <1>2, <1>4, <2>1, <2>2, AuxiliaryTurns
<1> QED BY <1>5, <1>6 DEF Acknowledge

LEMMA EmitTurns ==
    ASSUME SchedulingInv, TypeOK', Counted, NEW id \in Ids, NEW key, NEW resolved, NEW large,
           SendEvent(id, key, resolved, large)
    PROVE  TurnsBounded' /\ BurstCounts'
<1>1. Known' = Known /\ UNCHANGED <<order, burst>>
      BY DEF SendEvent, Known
<1>2. Pump(writing, wire) \/ UNCHANGED writing
      BY DEF SendEvent
<1> QED BY <1>1, <1>2, RewriteTurns

LEMMA SettleTurns ==
    ASSUME SchedulingInv, TypeOK', Counted, NEW id \in Ids, Settle(id)
    PROVE  TurnsBounded' /\ BurstCounts'
<1>1. ASSUME NEW outcome, NEW large, SendResponse(id, outcome, large)
      PROVE  TurnsBounded' /\ BurstCounts'
  <2>1. Known' = Known /\ UNCHANGED <<order, burst>> /\ Pump(writing, wire)
        BY <1>1 DEF SendResponse, Known
  <2> QED BY <2>1, RewriteTurns
<1>2. CASE SendUnwantedResponse(id)
  <2>1. Forget(id) /\ writing' = Detached(id) /\ burst' = burst
        BY <1>2 DEF SendUnwantedResponse
  <2>2. /\ Known' = Known \ {id}
        /\ \A x, y \in Known' : order'[x] < order'[y] => order[x] < order[y]
        BY <2>1, ForgetKeepsOrder DEF SchedulingInv
  <2>3. /\ OnlyMarked(Detached(id))
        /\ \A x \in Known' : Serves(x) /\ writing.current => Detached(id).current
        BY <2>2, DetachedMarks DEF SchedulingInv
  <2> QED BY <2>1, <2>2, <2>3, AuxiliaryTurns
<1> QED BY <1>1, <1>2 DEF Settle

LEMMA NoticeTurns ==
    ASSUME SchedulingInv, TypeOK', Counted, NEW n \in Notices, SendNotice(n)
    PROVE  TurnsBounded' /\ BurstCounts'
<1>1. Notice(n) \in AuxMessages
      BY DEF Notice, Message, AuxMessages, AuxKinds
<1>2. Known' = Known /\ order' = order /\ burst' = burst
      BY DEF SendNotice, Known
<1>3. CASE AuxRefuses(Notice(n))
      BY <1>2, <1>3, RewriteTurns DEF SendNotice
<1>4. CASE ~AuxRefuses(Notice(n))
  <2>1. Pump(Superseded(Notice(n)), wire)
        BY <1>4 DEF SendNotice
  <2>2. /\ OnlyMarked(Superseded(Notice(n)))
        /\ \A x : Serves(x) /\ writing.current => Superseded(Notice(n)).current
        BY <1>1, SupersededMarks DEF SchedulingInv
  <2> QED BY <1>2, <2>1, <2>2, AuxiliaryTurns
<1> QED BY <1>3, <1>4

LEMMA ReceiptWrittenTurns ==
    ASSUME SchedulingInv, TypeOK', Counted, ReceiptWritten
    PROVE  TurnsBounded' /\ BurstCounts'
<1>1. /\ writing.kind \in ReceiptKinds /\ writing' = NoWrite /\ writing # NoWrite
      /\ burst' = Lower(burst + 1, BurstLimit) /\ UNCHANGED <<aux, linked>>
      BY DEF ReceiptWritten, Finished, ReceiptKinds
<1>2. Begun = 0
      BY <1>1 DEF Begun
<1>3. writing'.kind \notin ReceiptKinds /\ writing'.kind \notin AuxKinds
      BY <1>1 DEF NoWrite, ReceiptKinds, AuxKinds
<1>4. BurstCounts'
  <2>1. /\ burst \in Nat /\ BurstLimit \in Nat /\ auxPassed \in Nat /\ auxPassed <= BurstLimit
        /\ auxPassed <= burst + 1
        BY <1>1, JournalAssumption DEF SchedulingInv, TypeOK, ControlOK, BurstCounts
  <2>2. CASE ~AuxAwaits'
        BY <2>2, BurstNone DEF Counted
  <2>3. CASE AuxAwaits'
    <3>1. auxPassed' = auxPassed
          BY <1>2, <2>1, <2>3 DEF Counted
    <3>2. auxPassed <= burst'
          BY <1>1, <2>1 DEF Lower
    <3>3. burst' \in Nat
          BY <1>1, <2>1 DEF Lower
    <3>4. ASSUME NEW n \in Nat, NEW most \in Nat, n <= most
          PROVE  n <= most + (IF writing'.kind \in ReceiptKinds THEN 1 ELSE 0)
          BY <1>3, <3>4
    <3>5. auxPassed' \in Nat /\ auxPassed' <= burst' /\ auxPassed' <= BurstLimit
          BY <2>1, <3>1, <3>2
    <3> QED BY <2>3, <3>3, <3>4, <3>5, Zenon DEF BurstCounts
  <2> QED BY <2>2, <2>3
<1>5. ASSUME NEW id \in Known, Awaits(id), Awaits(id)', NEW x \in Ahead(id)'
      PROVE  x \in Ahead(id)
  <2> DEFINE last == writing.id
             S == Known \ {last}
  <2>1. x \in Known' /\ x # id /\ order'[x] < order'[id] /\ id # last
        BY <1>1, <1>5 DEF Ahead, Awaits, Serves
  <2>2. CASE ~writing.current
    <3>1. Known' = Known /\ order' = order
          BY <2>2 DEF ReceiptWritten, Known
    <3> QED BY <2>1, <2>2, <3>1 DEF Ahead
  <2>3. CASE writing.current
    <3>1. last \in Known
          BY <1>1, <2>3 DEF SchedulingInv, TypeOK, WritingOK, ReceiptKinds, AuxKinds
    <3>2. order' = AtTheEnd(Places(S), last) /\ Known' = Known
          BY <2>3 DEF ReceiptWritten, Rotated, Known
    <3>3. IsFiniteSet(S) /\ (\A s \in S : order[s] \in Int)
          BY JournalAssumption, FS_Subset DEF SchedulingInv, TypeOK, ReceiptsOK, OrderOK
    <3>4. Enumerates(Places(S), S) /\ Cardinality(S) \in Nat /\ DOMAIN Places(S) = S
      <4>1. \A s, t \in S : order[s] = order[t] => s = t
            BY DEF SchedulingInv, TypeOK, OrderOK
      <4> QED BY <3>3, <4>1, PlacesEnumerate, FS_CardinalityType DEF Places
    <3>5. order'[last] = Cardinality(S) + 1 /\ \A s \in S : order'[s] = Places(S)[s]
          BY <3>2, <3>4 DEF AtTheEnd
    <3>6. id \in S /\ Places(S)[id] \in 1 .. Cardinality(S)
          BY <2>1, <3>4 DEF Enumerates
    <3>7. x # last
          BY <2>1, <3>4, <3>5, <3>6
    <3>8. x \in S
          BY <2>1, <3>2, <3>7
    <3> HIDE DEF last, S
    <3>9. order[x] < order[id]
          BY <2>1, <3>3, <3>5, <3>6, <3>8, PlacesKeepOrder
    <3> QED BY <2>1, <3>2, <3>7, <3>9 DEF Ahead, Serves, last
  <2> QED BY <2>2, <2>3
<1>6. TurnsBounded'
      BY <1>2, <1>5, PassedStep
<1> QED BY <1>4, <1>6

LEMMA AuxWrittenTurns ==
    ASSUME SchedulingInv, TypeOK', Counted, AuxWritten
    PROVE  TurnsBounded' /\ BurstCounts'
<1>1. /\ writing.kind \notin ReceiptKinds /\ writing # NoWrite /\ writing' = NoWrite
      /\ Known' = Known /\ UNCHANGED <<order, linked>>
      BY DEF AuxWritten, Finished, ReceiptKinds, Known
<1>2. Begun = 0
      BY <1>1 DEF Begun
<1>3. \A id \in Known : Ahead(id)' \subseteq Ahead(id)
      BY <1>1 DEF Ahead, Serves
<1>4. TurnsBounded'
      BY <1>2, <1>3, PassedStep
<1>5. writing.kind \in AuxKinds
      BY <1>1 DEF SchedulingInv, TypeOK, WritingOK, Writes, ReceiptKinds
<1>6. auxPassed = 0
      BY <1>5 DEF SchedulingInv, BurstCounts, AuxAwaits
<1>7. auxPassed' = 0
      BY <1>2, <1>6 DEF Counted
<1> QED BY <1>4, <1>7, BurstNone

\* When no receipt has anything to send, pump() turns to the auxiliary messages.
LEMMA MutedServesAux ==
    ControlOK /\ aux # <<>> /\ Ready = {} => HasNext /\ NextMessage.kind \in AuxKinds
<1> SUFFICES ASSUME ControlOK, aux # <<>>, Ready = {}
             PROVE  HasNext /\ NextMessage.kind \in AuxKinds
    OBVIOUS
<1>1. Head(aux) \in AuxMessages
      BY HeadTailProperties DEF ControlOK
<1> QED BY <1>1 DEF HasNext, NextMessage, AuxTurn, AuxMessages

\* A new connection mutes every receipt until its controller subscribes.
LEMMA ConnectTurns ==
    ASSUME SchedulingInv, TypeOK', Counted, NEW c, NEW greeting, Connect(c, greeting)
    PROVE  TurnsBounded' /\ BurstCounts'
<1>1. ReceiptsOK' /\ ControlOK'
      BY DEF TypeOK
<1>2. ASSUME NEW id \in Known' PROVE Unsent(id)' = {}
  <2>1. receipts'[id].sent = MaxSafe
    <3>1. id \in Known \ Discarded(c)
          BY <1>2 DEF Connect, Known
    <3>2. receipts' = [i \in Known \ Discarded(c) |->
             [receipts[i] EXCEPT !.sent = MaxSafe,
                !.abandoned = @ \/ (Replaced(c) /\ ~receipts[i].retained)]]
          BY DEF Connect
    <3>3. receipts[id] \in [print : Prints, retained : BOOLEAN, sequence : Numbers, sent : Numbers,
             events : {receipts[id].events}, terminal : TerminalValues \cup {None}, terminalSeq : Numbers,
             failed : BOOLEAN, abandoned : BOOLEAN, acknowledged : BOOLEAN]
          BY <3>1 DEF SchedulingInv, TypeOK, ReceiptsOK, IsReceipt
    <3> QED BY <3>1, <3>2, <3>3
  <2>2. IsReceipt(receipts'[id])
        BY <1>1, <1>2 DEF ReceiptsOK
  <2>3. /\ \A k \in DOMAIN receipts'[id].events : ~(receipts'[id].events[k].seq > MaxSafe)
        /\ ~(receipts'[id].terminalSeq > MaxSafe)
        BY <2>2, JournalAssumption DEF IsReceipt, Events, Numbers
  <2> QED BY <2>1, <2>3 DEF Unsent
<1>3. \A id \in Ids : ~Awaits(id)'
      BY <1>2 DEF Awaits
<1>4. ~AuxAwaits'
  <2> SUFFICES ASSUME aux' # <<>> PROVE writing'.kind \in AuxKinds
      BY DEF AuxAwaits
  <2>1. Ready' = {}
        BY <1>2 DEF Ready
  <2>2. (ControlOK /\ aux # <<>> /\ Ready = {} => HasNext /\ NextMessage.kind \in AuxKinds)'
        BY MutedServesAux, PTL
  <2>3. HasNext' /\ NextMessage'.kind \in AuxKinds
        BY <1>1, <2>1, <2>2
  <2>4. writing' = [kind |-> NextMessage'.kind, id |-> NextMessage'.id,
                    key |-> NextMessage'.key, seq |-> NextMessage'.seq, current |-> TRUE]
        BY <2>3 DEF Connect, Pump
  <2> QED BY <2>3, <2>4
<1> QED BY <1>3, <1>4, NothingWaits

LEMMA LinkTurns ==
    ASSUME SchedulingInv, TypeOK', Counted, Link
    PROVE  TurnsBounded' /\ BurstCounts'
<1>1. CASE \E c \in Controllers : Connect(c, <<>>)
      BY <1>1, ConnectTurns
<1>2. CASE Disconnect \/ WriteFailed
  <2>1. \A id \in Ids : ~Awaits(id)'
        BY <1>2 DEF Awaits, WriteFailed, Disconnect
  <2>2. ~AuxAwaits'
        BY <1>2 DEF AuxAwaits, WriteFailed, Disconnect
  <2> QED BY <2>1, <2>2, NothingWaits
<1>3. CASE ReceiptWritten
      BY <1>3, ReceiptWrittenTurns
<1>4. CASE AuxWritten
      BY <1>4, AuxWrittenTurns
<1>5. CASE PumpLater \/ PeerReads
  <2>1. Known' = Known /\ UNCHANGED <<order, burst>> /\ (Pump(writing, wire) \/ UNCHANGED writing)
        BY <1>5 DEF PumpLater, PeerReads, Known
  <2> QED BY <2>1, RewriteTurns
<1> QED BY <1>1, <1>2, <1>3, <1>4, <1>5 DEF Link

LEMMA SchedulingInitOK == SchedulingInit => SchedulingInv
<1> SUFFICES ASSUME SchedulingInit PROVE SchedulingInv
    OBVIOUS
<1>1. TypeOK
      BY TypeInit DEF SchedulingInit
<1>2. TurnsBounded
      BY DEF SchedulingInit, JournalInit, TurnsBounded, Known, Empty, Awaits
<1>3. BurstCounts
      BY JournalAssumption DEF SchedulingInit, JournalInit, BurstCounts, NoWrite, ReceiptKinds
<1> QED BY <1>1, <1>2, <1>3 DEF SchedulingInv

LEMMA SchedulingStep == SchedulingInv /\ [SchedulingNext]_schedulingVars => SchedulingInv'
<1> SUFFICES ASSUME SchedulingInv, [SchedulingNext]_schedulingVars PROVE SchedulingInv'
    OBVIOUS
<1>1. TypeOK'
      BY TypeStep DEF SchedulingInv, SchedulingNext, schedulingVars
<1>2. CASE UNCHANGED schedulingVars
  <2>1. UNCHANGED <<receipts, order, aux, writing, burst, linked, passed, auxPassed>>
        BY <1>2 DEF schedulingVars, journalVars
  <2>2. TurnsBounded'
    <3>1. Known' = Known /\ \A id \in Ids : (Awaits(id)' <=> Awaits(id)) /\ Ahead(id)' = Ahead(id)
          BY <2>1 DEF Known, Awaits, Serves, Unsent, Terminal, Ahead
    <3>2. Known \subseteq Ids
          BY DEF SchedulingInv, TypeOK, ReceiptsOK
    <3> QED BY <2>1, <3>1, <3>2 DEF SchedulingInv, TurnsBounded
  <2>3. BurstCounts'
        BY <2>1 DEF SchedulingInv, BurstCounts, AuxAwaits
  <2> QED BY <1>1, <2>2, <2>3 DEF SchedulingInv
<1>3. CASE SchedulingNext
  <2>1. Counted /\ JournalNext
        BY <1>3 DEF SchedulingNext
  <2>2. ASSUME NEW id \in Ids, Emit(id) PROVE TurnsBounded' /\ BurstCounts'
        BY <1>1, <2>1, <2>2, EmitTurns DEF Emit, SendAssignment, SendProgress, SendInput, SendResolution
  <2>3. TurnsBounded' /\ BurstCounts'
        BY <1>1, <2>1, <2>2, SubscribeTurns, AcknowledgeTurns, SettleTurns, NoticeTurns, LinkTurns
        DEF JournalNext
  <2> QED BY <1>1, <2>3 DEF SchedulingInv
<1> QED BY <1>2, <1>3

LEMMA SchedulingInvariant == SchedulingSpec => []SchedulingInv
BY SchedulingInitOK, SchedulingStep, PTL DEF SchedulingSpec

\* However many turns are producing, each waiting receipt is passed by each of
\* the others at most once: the rotation of a written receipt behind its peers
\* survives deletions, re-admissions and reconnections (pump(), 222-224).
THEOREM NoTurnStarves == SchedulingSpec => []PeersTakeTurns
<1>1. SchedulingInv => PeersTakeTurns
  <2> SUFFICES ASSUME SchedulingInv, NEW id \in Ids PROVE passed[id] < Cardinality(Ids)
      BY DEF PeersTakeTurns
  <2>1. Known \subseteq Ids /\ IsFiniteSet(Ids) /\ Cardinality(Ids) \in Nat /\ passed[id] \in Nat
        BY JournalAssumption, FS_CardinalityType
        DEF SchedulingInv, TypeOK, ReceiptsOK, TurnsBounded
  <2>2. CASE id \in Known
    <3>1. Ahead(id) \subseteq Ids
          BY <2>1 DEF Ahead
    <3>2. Cardinality(Ahead(id)) \in Nat
          BY <2>1, <3>1, FS_Subset, FS_CardinalityType
    <3> QED BY <2>1, <2>2, <3>2 DEF SchedulingInv, TurnsBounded
  <2>3. CASE id \notin Known
    <3>1. passed[id] = 0
          BY <2>3 DEF SchedulingInv, TurnsBounded, Awaits
    <3>2. Cardinality(Ids) # 0
          BY <2>1, FS_EmptySet
    <3> QED BY <2>1, <3>1, <3>2
  <2> QED BY <2>2, <2>3
<1> QED BY <1>1, SchedulingInvariant, PTL

\* An auxiliary message waits for at most a burst of receipts, whatever the load
\* (receiptBurst, 201).
THEOREM AuxiliariesAreServed == SchedulingSpec => []AuxiliaryIsServed
<1>1. SchedulingInv => AuxiliaryIsServed
      BY DEF SchedulingInv, BurstCounts, AuxiliaryIsServed
<1> QED BY <1>1, SchedulingInvariant, PTL

=============================================================================
